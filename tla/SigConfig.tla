----------------------------- MODULE SigConfig ------------------------------
(***************************************************************************)
(* Loading the signatures (load_sig in app_identify/loader/sig_loader.c):  *)
(* the configuration file is cut into tokens (sig.l) and parsed (sig.y),   *)
(* the tables of SigTables are built from the applications found, and the  *)
(* texts of the HTTP signatures are split once more into the rules of the  *)
(* regular expressions.                                                    *)
(*                                                                         *)
(* The file is a sequence of atoms: the characters that mean something to  *)
(* the lexer or to strtok, and words for what stands between them.  malloc *)
(* is taken to succeed.                                                    *)
(***************************************************************************)
EXTENDS SigTables

CONSTANTS
    Sources,          \* the files: records [text, apps], see ConfigExact
    Numbers,          \* what strtol makes of the words that are numbers
    MAX_APP_LENGTH,   \* 16 in the program
    MAX_SIG_LENGTH    \* 128 in the program

ASSUME SourceAssumption ==
    /\ \A src \in Sources : src.text \in Seq(ToSet(src.text))
    /\ \A w \in DOMAIN Numbers : Numbers[w] \in Nat
    /\ MAX_APP_LENGTH \in Nat /\ MAX_SIG_LENGTH \in Nat

VARIABLES
    source,      \* the file
    pos,         \* where yylex goes on
    at,          \* the state of yyparse
    words,       \* the values of the symbols and values not reduced yet
    pairs,       \* the key_value_list being read
    app_pairs,   \* the one of the application, when its signatures are read
    app_sigs,    \* its app_sig_list
    app_root,    \* the applications; NULL and the empty list are the same
    unsplit      \* the signatures parseApplication has not come to

parserVars == <<source, pos, at, words, pairs, app_pairs, app_sigs, app_root>>
loadVars == <<vars, parserVars, unsplit>>

LoadInit ==
    /\ pc = "load"
    /\ config = <<>> /\ root = <<>>
    /\ TablesInit
    /\ source \in Sources
    /\ pos = 1 /\ at = "applications"
    /\ words = <<>> /\ pairs = <<>> /\ app_pairs = <<>> /\ app_sigs = <<>>
    /\ app_root = <<>>
    /\ unsplit = <<>>

-----------------------------------------------------------------------------
(* yylex                                                                   *)

text == source.text

Newline == "\n"
Blank == {" ", Newline}
Braces == [brace \in {"{", "}"} |->
              IF brace = "{" THEN "LBRANCH" ELSE "RBRANCH"]

(* Where a run of atoms outside a set ends. *)
RunEnd(p, stops) ==
    CHOOSE e \in p .. Len(text) + 1 :
        /\ e > Len(text) \/ text[e] \in stops
        /\ \A i \in p .. e - 1 : text[i] \notin stops

InComment(p) == text[p] = "#" /\ RunEnd(p, {Newline}) <= Len(text)

(* Where the next token begins: behind white space and comments. *)
TokenStart ==
    LET skip[p \in Nat] ==
            IF p > Len(text) THEN p
            ELSE IF text[p] \in Blank THEN skip[p + 1]
            ELSE IF InComment(p) THEN skip[RunEnd(p, {Newline}) + 1]
            ELSE p
    IN  skip[pos]

(* "application" and "sign", whatever their case. *)
Keyword(word) ==
    CASE word \in {<<"application">>, <<"APPLICATION">>} -> "APPLICATION"
      [] word \in {<<"sign">>, <<"Sign">>} -> "SIGNATURE"
      [] OTHER -> "SYMBOL"

(* The longest match wins, and the first rule of those: a word is a value  *)
(* only if a comma follows at once, and a comma a token only if alone.     *)
TokenAt(p) ==
    LET value == RunEnd(p, Blank \cup DOMAIN Braces)
        symbol == RunEnd(p, Blank \cup DOMAIN Braces \cup {";"})
        end == IF text[value - 1] = ";" THEN value - 1 ELSE value
        Word(last) == SubSeq(text, p, last - 1)
    IN  IF p > Len(text) THEN [type |-> "EOF", next |-> p]
        ELSE IF text[p] \in DOMAIN Braces
        THEN [type |-> Braces[text[p]], next |-> p + 1]
        ELSE IF text[p] = ";" /\ value = p + 1
        THEN [type |-> "COMMA", next |-> p + 1]
        ELSE IF value > symbol
        THEN [type |-> "VALUE", next |-> end, word |-> Word(end)]
        ELSE [type |-> Keyword(Word(symbol)), next |-> symbol,
              word |-> Word(symbol)]

yylex == TokenAt(TokenStart)

-----------------------------------------------------------------------------
(* key_pair.h: the first pair with a key counts.                           *)

NULL == <<>>

(* Faulty form of get_str_value_from_key: the last pair counts. *)
get_str_value_from_key_Last(list, key) ==
    LET found == SelectLastInSeq(list, LAMBDA pair : pair.key = <<key>>)
    IN  IF found = 0 THEN NULL ELSE list[found].value

get_str_value_from_key(list, key) ==
    LET found == SelectInSeq(list, LAMBDA pair : pair.key = <<key>>)
    IN  IF found = 0 THEN NULL ELSE list[found].value

Number(word) == IF word # NULL /\ word[1] \in DOMAIN Numbers
                THEN Numbers[word[1]] ELSE 0

get_int_value_from_key(list, key) == Number(get_str_value_from_key(list, key))

proto_to_value(word) == CASE word = <<"UDP">> -> 1
                          [] word = <<"TCP">> -> 2
                          [] word = <<"HTTP">> -> 3
                          [] OTHER -> 0

matchType_to_value(word) == CASE word = <<"AC_SINGLE">> -> 1
                              [] word = <<"AC_MULTI">> -> 2
                              [] word = <<"REGEX">> -> 3
                              [] OTHER -> 0

PROTOCOL_HTTP == 3
SIG_SINGLE == 1

-----------------------------------------------------------------------------
(* http_parse.c                                                            *)

(* What stands before, between and behind the "&"s. *)
Pieces(match) ==
    FoldLeft(LAMBDA ps, atom :
                IF atom = "&" THEN Append(ps, <<>>)
                ELSE Append(Front(ps), Append(Last(ps), atom)),
             << <<>> >>, match)

(* strtok with "&": the parts between, empty ones left out. *)
Parts(match) ==
    LET all == Pieces(match)
    IN  FlattenSeq([i \in DOMAIN all |->
                       IF all[i] = <<>> THEN <<>> ELSE <<all[i]>>])

(* What strtok leaves of a text: its first part. *)
Cut(match) == IF Parts(match) = <<>> THEN match ELSE Parts(match)[1]

get_element_id_from_sig(part) ==
    CASE part[1] = "http_host" -> 1
      [] part[1] = "http_ua" -> 2
      [] part[1] = "http_re" -> 3
      [] part[1] = "http_url" -> 4
      [] OTHER -> 0

(* '=' is looked for from the second character on. *)
HasKey(part) == \E i \in 2 .. Len(part) : part[i] = "="
get_key_from_sig(part) ==
    LET eq == CHOOSE i \in 2 .. Len(part) :
                  part[i] = "=" /\ \A j \in 2 .. i - 1 : part[j] # "="
    IN  SubSeq(part, eq + 1, Len(part))

(* parse_http_sig_ and parse_http_sig go through a text only if each part  *)
(* has a key, and if it is the only one where it must be.                  *)
Splits(match, type) ==
    /\ \A i \in DOMAIN Parts(match) : HasKey(Parts(match)[i])
    /\ type = SIG_SINGLE => Len(Parts(match)) <= 1

(* parse_http_sig_: the elements. *)
Elements(match) ==
    [i \in DOMAIN Parts(match) |->
        [class |-> get_element_id_from_sig(Parts(match)[i]),
         text |-> get_key_from_sig(Parts(match)[i])]]

(* parse_http_sig: the rules. *)
RegexEntries(match, id) ==
    [i \in DOMAIN Parts(match) |->
        [class |-> get_element_id_from_sig(Parts(match)[i]),
         low |-> id,
         text |-> get_key_from_sig(Parts(match)[i])]]

-----------------------------------------------------------------------------
(* yyparse                                                                 *)

(* A token that is not the last one of a rule, and the state after it. *)
Shifts ==
    {<<"applications", "APPLICATION", "application">>,
     <<"application", "LBRANCH", "app_list">>,
     <<"app_list", "SYMBOL", "app_key">>,
     <<"app_key", "VALUE", "app_pair">>,
     <<"app_pairs", "SYMBOL", "app_key">>,
     <<"app_pairs", "SIGNATURE", "app_sig_node">>,
     <<"app_sig_node", "LBRANCH", "app_sig_list">>,
     <<"app_sig_list", "SYMBOL", "app_sig">>,
     <<"app_sig", "LBRANCH", "sig_list">>,
     <<"sig_list", "SYMBOL", "sig_key">>,
     <<"sig_key", "VALUE", "sig_pair">>,
     <<"sig_pairs", "SYMBOL", "sig_key">>,
     <<"app_sigs", "SYMBOL", "app_sig">>,
     <<"app_sigs", "RBRANCH", "application_end">>}

(* The tokens that end a rule. *)
Reductions ==
    {<<"app_pair", "COMMA">>, <<"sig_pair", "COMMA">>,
     <<"sig_pairs", "RBRANCH">>, <<"application_end", "RBRANCH">>}

Taken(tok) == <<at, tok.type>>

Shift ==
    LET tok == yylex
    IN  /\ pc = "load"
        /\ \E to \in Shifts : Taken(tok) = <<to[1], to[2]>> /\ at' = to[3]
        /\ words' = IF tok.type \in {"SYMBOL", "VALUE"}
                    THEN Append(words, tok.word) ELSE words
        /\ app_pairs' = IF tok.type = "SIGNATURE" THEN pairs ELSE app_pairs
        /\ pairs' = IF tok.type = "SIGNATURE" THEN <<>> ELSE pairs
        /\ pos' = tok.next
        /\ UNCHANGED <<vars, source, app_sigs, app_root, unsplit>>

Reduce(from, type) ==
    /\ pc = "load"
    /\ at = from
    /\ yylex.type = type
    /\ pos' = yylex.next
    /\ UNCHANGED <<config, root, summary, tables, dumped, source, unsplit>>

(* key_value_pair, and the list it joins *)
KeyValuePair ==
    /\ \/ Reduce("app_pair", "COMMA") /\ at' = "app_pairs"
       \/ Reduce("sig_pair", "COMMA") /\ at' = "sig_pairs"
    /\ pairs' = Append(pairs, [key |-> words[Len(words) - 1],
                               value |-> Last(words)])
    /\ words' = <<>>
    /\ UNCHANGED <<pc, app_pairs, app_sigs, app_root>>

(* Faulty form of NewSig: the text is copied after it was split.           *)
NewSig_Cut(match, type) ==
    [id |-> get_int_value_from_key(pairs, "sig_id"),
     proto |-> proto_to_value(get_str_value_from_key(pairs, "sig_proto")),
     type |-> type,
     match |-> Cut(match),
     elements |-> Elements(match)]

(* sig_enable, sig_priority and sig_dir are read as sig_id is, and stored. *)
NewSig(match, type) ==
    [id |-> get_int_value_from_key(pairs, "sig_id"),
     proto |-> proto_to_value(get_str_value_from_key(pairs, "sig_proto")),
     type |-> type,
     match |-> match,
     elements |-> Elements(match)]

(* app_sig: a signature without a text, with one that is too long or one   *)
(* that does not split ends the program.                                   *)
AppSig ==
    LET match == get_str_value_from_key(pairs, "sig_match")
        type == matchType_to_value(get_str_value_from_key(pairs, "sig_type"))
    IN  /\ Reduce("sig_pairs", "RBRANCH")
        /\ IF /\ match # NULL /\ Len(match) < MAX_SIG_LENGTH
              /\ Splits(match, type)
           THEN /\ app_sigs' = Append(app_sigs, NewSig(match, type))
                /\ UNCHANGED pc
           ELSE /\ pc' = "crash"
                /\ UNCHANGED app_sigs
        /\ at' = "app_sigs"
        /\ pairs' = <<>>
        /\ UNCHANGED <<words, app_pairs, app_root>>

(* application, and the list it joins *)
AppEnd ==
    LET name == get_str_value_from_key(app_pairs, "appname")
    IN  /\ Reduce("application_end", "RBRANCH")
        /\ IF name # NULL /\ Len(name) < MAX_APP_LENGTH
           THEN /\ app_root' = Append(app_root,
                  [id |-> get_int_value_from_key(app_pairs, "appid"),
                   category |-> get_int_value_from_key(app_pairs, "category"),
                   name |-> name,
                   sigs |-> app_sigs])
                /\ UNCHANGED pc
           ELSE /\ pc' = "crash"
                /\ UNCHANGED app_root
        /\ at' = "applications"
        /\ app_pairs' = <<>> /\ app_sigs' = <<>> /\ words' = <<>>
        /\ UNCHANGED pairs

-----------------------------------------------------------------------------
(* load_sig                                                                *)

(* What the tables are built from: the classes of the elements. *)
Classes(list) ==
    [a \in DOMAIN list |->
        [id |-> list[a].id,
         category |-> list[a].category,
         sigs |-> [s \in DOMAIN list[a].sigs |->
                      [e \in DOMAIN list[a].sigs[s].elements |->
                          list[a].sigs[s].elements[e].class]]]]

(* "exit (2)" and "exit (3)": the file cannot be opened or closed. *)
FileFails == /\ pc = "load"
             /\ pos = 1 \/ yylex.type = "EOF"
             /\ pc' = "exit"
             /\ UNCHANGED <<config, root, summary, tables, dumped, parserVars,
                            unsplit>>

(* yyparse returns, at the end of the file or at a syntax error: nobody    *)
(* looks which.  Without an application dump_applications reads through a  *)
(* null pointer.                                                           *)
EndLoad ==
    LET tok == yylex
    IN  /\ pc = "load"
        /\ Taken(tok) \notin Reductions \cup {<<to[1], to[2]>> : to \in Shifts}
        /\ pc' = IF app_root = <<>> THEN "crash" ELSE "count"
        /\ config' = Classes(app_root)
        /\ root' = config'
        /\ UNCHANGED <<summary, tables, dumped, parserVars, unsplit>>

HttpSigs ==
    LET all == FlattenSeq([a \in DOMAIN app_root |-> app_root[a].sigs])
    IN  FlattenSeq([s \in DOMAIN all |->
                       IF all[s].proto = PROTOCOL_HTTP THEN <<all[s]>> ELSE <<>>])

(* parseApplication: the list starts anew with the headers. *)
BeginRegex ==
    /\ pc = "done"
    /\ app_list' = [i \in DOMAIN Headers |-> [class |-> 0, low |-> Headers[i]]]
    /\ unsplit' = HttpSigs
    /\ pc' = "regex"
    /\ UNCHANGED <<config, root, summary, mem, apps, sigs, eles, cate_offset,
                   sig_offset, ele_offset, cur, dumped, parserVars>>

SplitSig ==
    /\ pc = "regex"
    /\ unsplit # <<>>
    /\ LET sig == Head(unsplit)
       IN  IF Splits(sig.match, sig.type)
           THEN /\ app_list' = app_list \o RegexEntries(sig.match, sig.id)
                /\ UNCHANGED pc
           ELSE /\ pc' = "crash"
                /\ UNCHANGED app_list
    /\ unsplit' = Tail(unsplit)
    /\ UNCHANGED <<config, root, summary, mem, apps, sigs, eles, cate_offset,
                   sig_offset, ele_offset, cur, dumped, parserVars>>

(* The list goes to Regex_Parse. *)
EndRegex == /\ pc = "regex"
            /\ unsplit = <<>>
            /\ pc' = "loaded"
            /\ UNCHANGED <<config, root, summary, tables, dumped, parserVars,
                           unsplit>>

LoadNext == \/ Shift \/ KeyValuePair \/ AppSig \/ AppEnd
            \/ FileFails \/ EndLoad
            \/ Next /\ UNCHANGED <<parserVars, unsplit>>
            \/ BeginRegex \/ SplitSig \/ EndRegex

LoadSpec == LoadInit /\ [][LoadNext]_loadVars

-----------------------------------------------------------------------------
(* A source says which applications its text spells out, up to its end or  *)
(* to a place where it is not an application any more: source.apps is a    *)
(* sequence of [pairs, sigs], sigs a sequence of pair lists, and a pair is *)
(* <<key, value>>.                                                         *)

(* The value written first under a key; NULL if there is none. *)
Written(list, key) ==
    IF \E i \in DOMAIN list : list[i][1] = key
    THEN list[CHOOSE i \in DOMAIN list :
                  /\ list[i][1] = key
                  /\ \A j \in 1 .. i - 1 : list[j][1] # key][2]
    ELSE NULL

(* A signature that has a text, with a name and a '=' in each part, and no *)
(* other part in one said to be single.                                    *)
GoodSig(sig) ==
    LET match == Written(sig, "sig_match")
        parts == Parts(match)
    IN  /\ Len(match) \in 1 .. MAX_SIG_LENGTH - 1
        /\ \A i \in DOMAIN parts : "=" \in ToSet(Tail(parts[i]))
        /\ Written(sig, "sig_type") = <<"AC_SINGLE">> => Len(parts) < 2

GoodApp(app) ==
    /\ Len(Written(app.pairs, "appname")) \in 1 .. MAX_APP_LENGTH - 1
    /\ \A s \in DOMAIN app.sigs : GoodSig(app.sigs[s])

SigIsAsWritten(sig, written) ==
    /\ sig.id = Number(Written(written, "sig_id"))
    /\ sig.match = Written(written, "sig_match")
    /\ sig.proto = PROTOCOL_HTTP <=> Written(written, "sig_proto") = <<"HTTP">>
    /\ Len(sig.elements) = Len(Parts(sig.match))

AppIsAsWritten(app, written) ==
    /\ app.id = Number(Written(written.pairs, "appid"))
    /\ app.category = Number(Written(written.pairs, "category"))
    /\ app.name = Written(written.pairs, "appname")
    /\ Len(app.sigs) = Len(written.sigs)
    /\ \A s \in DOMAIN app.sigs : SigIsAsWritten(app.sigs[s], written.sigs[s])

(* The program goes on with exactly the applications the file spells out,  *)
(* as they are written, up to the first thing that is none: pairs in any   *)
(* order, the first of two with one key, zeros for those left out.  It     *)
(* ends before the tables are built only if the file cannot be read, has   *)
(* no application or one without a name or with a text the loader cannot   *)
(* split.  The tables then start from the state they are specified for.    *)
ConfigExact ==
    LET written == source.apps
        good == written # <<>> /\ \A a \in DOMAIN written : GoodApp(written[a])
    IN  /\ pc = "crash" => ~ good
        /\ pc \notin {"load", "crash", "exit"} =>
              /\ good
              /\ Len(app_root) = Len(written)
              /\ \A a \in DOMAIN app_root :
                    AppIsAsWritten(app_root[a], written[a])
        /\ pc = "count" /\ app_nums = 0 => Init

(* Both searches look for the same texts: when the rules are handed over,  *)
(* they are the headers and, for each HTTP signature, one rule for each of *)
(* its elements, in order, with its class and its text, though the text of *)
(* the signature was split twice and strtok writes on what it splits.      *)
SearchesAgree ==
    pc = "loaded" =>
        SubSeq(app_list, Len(Headers) + 1, Len(app_list)) =
            FlattenSeq([s \in DOMAIN HttpSigs |->
               [e \in DOMAIN HttpSigs[s].elements |->
                   [class |-> HttpSigs[s].elements[e].class,
                    low |-> HttpSigs[s].id,
                    text |-> HttpSigs[s].elements[e].text]]])
=============================================================================
