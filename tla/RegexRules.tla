----------------------------- MODULE RegexRules -----------------------------
(***************************************************************************)
(* From the text of rules and macros to their tokens: rules.push,          *)
(* insert_macro and tokenise (rules.hpp) over the tokeniser's next         *)
(* (re_tokeniser.hpp), one token, one skipped part or one item of a        *)
(* bracket expression per step.                                            *)
(***************************************************************************)
EXTENDS RegexTokens

CONSTANTS
    Jobs,   \* what is compiled: sequences of macros and rules
    NPOS    \* the id ~0, which means "no id"

(* The macros and rules: a macro has a name, a rule has none; re is what    *)
(* the text means, which only properties look at.                          *)
Entry == UNION {ToSet(js) : js \in Jobs}

ASSUME JobsAssumption == /\ Jobs \subseteq Seq(Entry)
                         /\ \A job \in Entry : job.text \in Text
                                                  /\ job.id \in Nat
                                                  /\ job.id \div 2^16 < 2^16

VARIABLES
    pc,           \* "rule", "token", "charset", "parse", ... or "error"
    jobs,         \* the macros and rules still to read, the current one first
    curr,         \* state_._curr: the index of the next character
    flags,        \* state_._flags
    flags_stack,  \* state_._flags_stack, the top last
    paren_count, in_string,
    tokens,       \* tokens_ of the current text
    diff,         \* diff_: the sign of {-} or {+}, or ""
    macro,        \* macro_: the name of the macro just used, or <<>>
    cs,           \* the bracket expression being read
    macro_map,    \* _macro_map: a function from names to tokens
    regexes       \* the rules read: their tokens, id and first character

lexer == <<curr, flags, flags_stack, paren_count, in_string>>
rules == <<jobs, macro_map, regexes>>
ruleVars == <<lexer, tokens, diff, macro, cs, rules>>

text == Head(jobs).text
Ch(p) == At(text, p)

(* The flags of basic_rules and those options can set. *)
Flags == {"icase", "dot_not_newline", "skip_ws"}
InitialFlags == {"icase"}

NoCharset == [negated |-> FALSE, str |-> <<>>]

RulesInit ==
    /\ pc = "rule"
    /\ jobs \in Jobs
    /\ curr = 1 /\ flags = InitialFlags /\ flags_stack = <<>>
    /\ paren_count = 0 /\ in_string = FALSE
    /\ tokens = <<>>
    /\ diff = "" /\ macro = <<>>
    /\ cs = NoCharset
    /\ macro_map = [n \in {} |-> <<>>]
    /\ regexes = <<>>

(* throw runtime_error: nothing in the program catches it. *)
Throw(p) == /\ pc = p
            /\ pc' = "error"
            /\ UNCHANGED ruleVars

(* The ids eoi() and npos() are taken; a macro needs a new and valid name. *)
Accepted(job) ==
    IF job.name = <<>> THEN job.id \notin {0, NPOS}
    ELSE /\ job.name \notin DOMAIN macro_map
         /\ StartsName(Head(job.name))
         /\ \A i \in DOMAIN job.name : InName(job.name[i])

(* push or insert_macro, and tokenise, begin. *)
BeginText ==
    /\ pc = "rule"
    /\ jobs # <<>>
    /\ Accepted(Head(jobs))
    /\ pc' = "token"
    /\ curr' = 1 /\ flags' = InitialFlags /\ flags_stack' = <<>>
    /\ paren_count' = 0 /\ in_string' = FALSE
    /\ tokens' = <<Token("BEGIN")>>
    /\ diff' = "" /\ macro' = <<>>
    /\ UNCHANGED <<cs, rules>>

RefuseText == /\ jobs # <<>>
              /\ ~ Accepted(Head(jobs))
              /\ Throw("rule")

-----------------------------------------------------------------------------
(* What the tokeniser passes over.                                         *)

ToggleString ==
    /\ pc = "token"
    /\ Ch(curr) = "\""
    /\ in_string' = ~ in_string
    /\ curr' = curr + 1
    /\ UNCHANGED <<pc, flags, flags_stack, paren_count, tokens, diff, macro,
                   cs, rules>>

AtComment == /\ ~ in_string /\ Ch(curr) = "("
             /\ Ch(curr + 1) = "?" /\ Ch(curr + 2) = "#"

(* How deep in parentheses the characters from curr to p leave the text.   *)
Depth(p) == Cardinality({k \in curr .. p : text[k] = "("})
            - Cardinality({k \in curr .. p : text[k] = ")"})

(* The parentheses that close the comment at curr. *)
CommentEnds == {p \in curr .. Len(text) : text[p] = ")" /\ Depth(p) = 0}

AtBlank == /\ ~ in_string /\ "skip_ws" \in flags
           /\ ~ Eos(text, curr) /\ Code(Ch(curr)) \in Chars(Blanks)
AtCComment == /\ ~ in_string /\ "skip_ws" \in flags
              /\ Ch(curr) = "/" /\ Ch(curr + 1) = "*"

CCommentEnds == {p \in curr + 3 .. Len(text) : text[p - 1] = "*"
                                                  /\ text[p] = "/"}

SkipTo(p) == /\ curr' = p
             /\ UNCHANGED <<pc, flags, flags_stack, paren_count, in_string,
                            tokens, diff, macro, cs, rules>>

FirstOf(S) == CHOOSE p \in S : \A q \in S : p <= q

(* comment and skip. *)
Skip ==
    /\ pc = "token"
    /\ \/ AtComment /\ CommentEnds # {} /\ SkipTo(FirstOf(CommentEnds) + 1)
       \/ AtBlank /\ SkipTo(curr + 1)
       \/ AtCComment /\ CCommentEnds # {} /\ SkipTo(FirstOf(CCommentEnds) + 1)

SkipUnended ==
    /\ pc = "token"
    /\ \/ AtComment /\ CommentEnds = {}
       \/ AtCComment /\ CCommentEnds = {}
    /\ Throw("token")

AtToken == /\ pc = "token"
           /\ Ch(curr) # "\"" /\ ~ AtComment /\ ~ AtBlank /\ ~ AtCComment

-----------------------------------------------------------------------------
(* tokenise: what becomes of a token rhs.                                  *)

lhs == Last(tokens)

(* Faulty form of Legal: any two tokens may meet.                          *)
Legal_Any(rhs) == TRUE

Legal(rhs) == rhs.type = "DIFF" \/ Precedence(lhs.type, rhs.type) # " "

Fails == pc' = "error" /\ UNCHANGED <<tokens, diff, macro>>

Multiple(name) == Len(macro_map[name]) > 3

(* The tokens of a macro without its BEGIN and END, in parentheses when    *)
(* they are more than one.                                                 *)
Body(name) ==
    LET body == SubSeq(macro_map[name], 2, Len(macro_map[name]) - 1)
    IN  IF Multiple(name)
        THEN <<Token("OPENPAREN")>> \o body \o <<Token("CLOSEPAREN")>>
        ELSE body

(* insert_macro enters a name before it reads its text, so that a macro    *)
(* that used itself would find its own unfinished tokens.  The program     *)
(* inserts no macro, and none of those here uses itself.                   *)
TakeMacro(rhs) ==
    IF rhs.extra \notin DOMAIN macro_map THEN Fails
    ELSE /\ tokens' = tokens \o Body(rhs.extra)
         /\ macro' = rhs.extra
         /\ pc' = "token"
         /\ UNCHANGED diff

(* Nothing has been stored since the macro was: see TakeMacro. *)
TakeDiff(rhs) ==
    IF macro # <<>> /\ Multiple(macro) THEN Fails
    ELSE /\ diff' = rhs.extra[1]
         /\ macro' = <<>>
         /\ pc' = "token"
         /\ UNCHANGED tokens

(* The set behind {-} or {+}: a bracket expression or the macro of one. *)
Operand(rhs) ==
    IF rhs.type = "MACRO" /\ rhs.extra \in DOMAIN macro_map
    THEN IF Multiple(rhs.extra) THEN rhs ELSE macro_map[rhs.extra][2]
    ELSE rhs

ApplyDiff(rhs) ==
    LET operand == Operand(rhs)
        str == IF diff = "-" THEN RemoveChars(lhs.str, operand.str)
               ELSE InsertAll(lhs.str, operand.str)
    IN  IF operand.type # "CHARSET" \/ str = <<>> THEN Fails
        ELSE /\ tokens' = Append(Front(tokens), [lhs EXCEPT !.str = str])
             /\ diff' = ""
             /\ macro' = IF rhs.type = "MACRO" THEN rhs.extra ELSE macro
             /\ pc' = "token"

Store(rhs) == /\ tokens' = Append(tokens, rhs)
              /\ macro' = <<>>
              /\ pc' = IF rhs.type = "END" THEN "end" ELSE "token"
              /\ UNCHANGED diff

Take(rhs) ==
    CASE ~ Legal(rhs) -> Fails
      [] Legal(rhs) /\ rhs.type = "DIFF" -> TakeDiff(rhs)
      [] Legal(rhs) /\ rhs.type # "DIFF" /\ diff # "" -> ApplyDiff(rhs)
      [] Legal(rhs) /\ rhs.type = "MACRO" /\ diff = "" -> TakeMacro(rhs)
      [] OTHER -> Store(rhs)

-----------------------------------------------------------------------------
(* next: one action per kind of token.                                     *)

(* A character of its own, with its other case unless it was escaped. *)
Literal(c) == Charset(WithCases(<<>>, <<Code(c), Code(c)>>, flags))

TokenAt(p, tok) == /\ curr' = p
                   /\ Take(tok)
                   /\ UNCHANGED <<cs, rules>>

SameLexer == UNCHANGED <<flags, flags_stack, paren_count, in_string>>

ReadEnd ==
    /\ AtToken /\ Eos(text, curr)
    /\ ~ in_string /\ paren_count = 0
    /\ TokenAt(curr, Token("END")) /\ SameLexer

(* A string or a parenthesis is left open. *)
ReadEndFails == /\ AtToken /\ Eos(text, curr)
                /\ in_string \/ paren_count # 0
                /\ Throw("token")

TakeEscape(esc) ==
    IF esc.ok
    THEN /\ TokenAt(esc.next, Charset(IF IsClass(esc) THEN esc.str
                                      ELSE Single(esc.char)))
         /\ SameLexer
    ELSE Throw("token")

(* Escapes keep their meaning in a string, and their case. *)
ReadEscape == /\ AtToken /\ Ch(curr) = "\\"
              /\ TakeEscape(EscapeSequence(text, curr + 1))

Plain == AtToken /\ ~ Eos(text, curr) /\ Ch(curr) # "\\"
Meta == Plain /\ ~ in_string

ReadInString == /\ Plain /\ in_string
                /\ TokenAt(curr + 1, Charset(Single(Code(Ch(curr)))))
                /\ SameLexer

OptionFlags == [i |-> "icase", s |-> "dot_not_newline", x |-> "skip_ws"]

(* Each letter sets its flag or, right behind a dash, clears it; the flag  *)
(* of 's' says the opposite of the option.                                 *)
Option(st, c) ==
    IF c = "-" THEN [st EXCEPT !.negate = ~ @]
    ELSE [negate |-> FALSE,
          flags |-> IF st.negate = (c = "s")
                    THEN st.flags \cup {OptionFlags[c]}
                    ELSE st.flags \ {OptionFlags[c]}]

(* read_options: the place behind the options and the flags they set. *)
ReadOptions(p) ==
    LET q == RunEnd(text, p, LAMBDA c : c # ":")
        options == SubSeq(text, p, q - 1)
    IN  IF ToSet(options) \subseteq DOMAIN OptionFlags \cup {"-"}
        THEN [ok |-> TRUE, next |-> Lesser(q + 1, Len(text) + 1),
              flags |-> FoldLeft(Option, [negate |-> FALSE, flags |-> flags],
                                 options).flags]
        ELSE Failed

(* A parenthesis without options saves the flags too, inside one that had  *)
(* some.                                                                   *)
PlainSaves == IF flags_stack = <<>> THEN <<>> ELSE Append(flags_stack, flags)

ReadOpen ==
    LET read == ReadOptions(curr + 2)
        options == Ch(curr + 1) = "?"
    IN  /\ Meta /\ Ch(curr) = "("
        /\ IF options /\ ~ read.ok THEN Throw("token")
           ELSE /\ TokenAt(IF options THEN read.next ELSE curr + 1,
                           Token("OPENPAREN"))
                /\ flags_stack' = IF options THEN Append(flags_stack, flags)
                                  ELSE PlainSaves
                /\ flags' = IF options THEN read.flags ELSE flags
                /\ paren_count' = paren_count + 1
                /\ UNCHANGED in_string

Popped == IF flags_stack = <<>> THEN <<>> ELSE Front(flags_stack)

ReadClose ==
    /\ Meta /\ Ch(curr) = ")"
    /\ IF paren_count = 0 THEN Throw("token")
       ELSE /\ TokenAt(curr + 1, Token("CLOSEPAREN"))
            /\ paren_count' = paren_count - 1
            /\ flags' = IF flags_stack = <<>> THEN flags ELSE Last(flags_stack)
            /\ flags_stack' = Popped
            /\ UNCHANGED in_string

DuplicatorChars == [c \in {"?", "*", "+"} |-> CASE c = "?" -> "OPT"
                                                 [] c = "*" -> "ZEROORMORE"
                                                 [] c = "+" -> "ONEORMORE"]

ReadDuplicator ==
    /\ Meta /\ Ch(curr) \in DOMAIN DuplicatorChars
    /\ LET read == Duplicator(text, curr + 1, Token(DuplicatorChars[Ch(curr)]))
       IN  TokenAt(read.next, read.token)
    /\ SameLexer

ReadCurly ==
    LET read == OpenCurly(text, curr + 1, lhs)
    IN  /\ Meta /\ Ch(curr) = "{"
        /\ IF read.ok THEN TokenAt(read.next, read.token) /\ SameLexer
           ELSE Throw("token")

ReadOr == /\ Meta /\ Ch(curr) = "|"
          /\ TokenAt(curr + 1, Token("OR")) /\ SameLexer

(* '^' and '$' are anchors at the ends of a rule only. *)
ReadAnchor ==
    /\ Meta /\ Ch(curr) \in {"^", "$"}
    /\ LET anchor == /\ Head(jobs).name = <<>>
                     /\ curr = IF Ch(curr) = "^" THEN 1 ELSE Len(text)
       IN  TokenAt(curr + 1,
                   CASE ~ anchor -> Charset(Single(Code(Ch(curr))))
                     [] anchor /\ Ch(curr) = "^" -> Token("BOL")
                     [] anchor /\ Ch(curr) = "$" -> Token("EOL"))
    /\ SameLexer

ReadDot ==
    /\ Meta /\ Ch(curr) = "."
    /\ TokenAt(curr + 1, Charset(Negate(IF "dot_not_newline" \in flags
                                        THEN Single(10) ELSE <<>>)))
    /\ SameLexer

(* "Lookahead ('/') is not supported yet" *)
ReadLookahead == Meta /\ Ch(curr) = "/" /\ Throw("token")

MetaChars == {"(", ")", "?", "*", "+", "{", "|", "^", "$", ".", "[", "/"}

ReadLiteral == /\ Meta /\ Ch(curr) \notin MetaChars
               /\ TokenAt(curr + 1, Literal(Ch(curr))) /\ SameLexer

-----------------------------------------------------------------------------
(* charset: a bracket expression, item by item.                            *)

BeginCharset ==
    /\ Meta /\ Ch(curr) = "["
    /\ LET negated == Ch(curr + 1) = "^"
           p == IF negated THEN curr + 2 ELSE curr + 1
       IN  IF Eos(text, p) THEN Throw("token")
           ELSE /\ cs' = [negated |-> negated, str |-> <<>>]
                /\ curr' = p
                /\ pc' = "charset"
                /\ SameLexer
                /\ UNCHANGED <<tokens, diff, macro, rules>>

AddToCharset(turn) ==
    IF turn.ok
    THEN /\ cs' = [cs EXCEPT !.str = InsertAll(@, turn.str)]
         /\ curr' = turn.next
         /\ SameLexer
         /\ UNCHANGED <<pc, tokens, diff, macro, rules>>
    ELSE Throw("charset")

CharsetItem == /\ pc = "charset" /\ Ch(curr) # "]"
               /\ AddToCharset(CharsetTurn(text, curr, flags))

(* "Empty charsets not allowed" *)
EndCharset ==
    LET str == IF cs.negated THEN Negate(cs.str) ELSE cs.str
    IN  /\ pc = "charset" /\ Ch(curr) = "]"
        /\ IF str = <<>> THEN Throw("charset")
           ELSE /\ Take(Charset(str))
                /\ curr' = curr + 1
                /\ cs' = NoCharset
                /\ SameLexer
                /\ UNCHANGED rules

-----------------------------------------------------------------------------

(* The last token is END; "Empty regex" when there is no other. *)
EndText ==
    /\ pc = "end"
    /\ IF Len(tokens) = 2 THEN Throw("end")
       ELSE /\ IF Head(jobs).name = <<>>
               THEN /\ regexes' = Append(regexes,
                                         [tokens |-> tokens,
                                          id |-> Head(jobs).id,
                                          re |-> Head(jobs).re,
                                          bol |-> text[1] = "^"])
                    /\ UNCHANGED macro_map
               ELSE /\ macro_map' = [n \in DOMAIN macro_map \cup {Head(jobs).name} |->
                                      IF n = Head(jobs).name THEN tokens
                                      ELSE macro_map[n]]
                    /\ UNCHANGED regexes
            /\ jobs' = Tail(jobs)
            /\ pc' = "rule"
            /\ UNCHANGED <<lexer, tokens, diff, macro, cs>>

(* generator::build begins; without a rule it throws. *)
EndRules ==
    /\ pc = "rule" /\ jobs = <<>>
    /\ pc' = IF regexes = <<>> THEN "error" ELSE "parse"
    /\ UNCHANGED ruleVars

RulesNext ==
    \/ BeginText \/ RefuseText \/ EndText \/ EndRules
    \/ ToggleString \/ Skip \/ SkipUnended
    \/ ReadEnd \/ ReadEndFails \/ ReadEscape \/ ReadInString
    \/ ReadOpen \/ ReadClose \/ ReadDuplicator \/ ReadCurly \/ ReadOr
    \/ ReadAnchor \/ ReadDot \/ ReadLookahead \/ ReadLiteral
    \/ BeginCharset \/ CharsetItem \/ EndCharset
=============================================================================
