--------------------------- MODULE RegexLanguage ----------------------------
(***************************************************************************)
(* What regular expressions mean, independently of how they are compiled:  *)
(* the words of an expression given by its structure, and the text such an *)
(* expression is written as.  The trees of RegexParser are compared with   *)
(* it.                                                                     *)
(*                                                                         *)
(* An expression is <<"chr", character>>, <<"dot">>, <<"bol">>, <<"eol">>, *)
(* <<"set", negated, text, codes>>, <<"exact", text, codes>> when case     *)
(* matters whatever the flags, <<"cat", e, f>>, <<"or", e, f>>,            *)
(* <<"rep", e, text, min, max>> with max < 0 for no maximum,               *)
(* <<"flags", text, flags set, flags cleared, e>>, or <<"def", text, e>>   *)
(* for the use of a macro.                                                 *)
(***************************************************************************)
EXTENDS RegexTrees

BothCases(codes) == codes \cup {ToUpper(c) : c \in codes}
                          \cup {ToLower(c) : c \in codes}

(* The codes a single character of an expression matches. *)
Matched(e, fl) ==
    LET Cased(codes) == IF "icase" \in fl THEN BothCases(codes) ELSE codes
    IN  CASE e[1] = "chr" -> Cased({Ord[e[2]]})
          [] e[1] = "dot" ->
                IF "dot_not_newline" \in fl THEN Char \ {10} ELSE Char
          [] e[1] = "exact" -> e[3]
          [] e[1] = "set" -> IF e[2] THEN Char \ Cased(e[4]) ELSE Cased(e[4])

Cat(A, B) == {w \in Words : \E k \in 0 .. Len(w) :
                 SubSeq(w, 1, k) \in A /\ SubSeq(w, k + 1, Len(w)) \in B}

RECURSIVE Power(_, _), Lang(_, _)

Power(A, n) == IF n = 0 THEN {<<>>} ELSE Cat(A, Power(A, n - 1))

(* The words of an expression under the flags at hand, up to MaxWord. *)
Lang(e, fl) ==
    CASE e[1] = "bol" -> {<<BOL_TOKEN>>}
      [] e[1] = "eol" -> {<<EOL_TOKEN>>}
      [] e[1] = "cat" -> Cat(Lang(e[2], fl), Lang(e[3], fl))
      [] e[1] = "or" -> Lang(e[2], fl) \cup Lang(e[3], fl)
      [] e[1] = "rep" ->
            LET A == Lang(e[2], fl)
                max == IF e[5] < 0 THEN e[4] + MaxWord ELSE e[5]
            IN  UNION {Power(A, n) : n \in e[4] .. max}
      [] e[1] = "flags" -> Lang(e[5], (fl \cup e[3]) \ e[4])
      [] e[1] = "def" -> Lang(e[3], InitialFlags)
      [] OTHER -> {<<c>> : c \in Sample \cap Matched(e, fl)}

(* A rule that is not anchored may begin at the start of a line too, when  *)
(* another one is.                                                         *)
Meaning(e, anchors) ==
    LET words == Lang(e, InitialFlags)
    IN  IF anchors /\ \A w \in words : w # <<>> => w[1] # BOL_TOKEN
        THEN words \cup Cat({<<BOL_TOKEN>>}, words) ELSE words

Paren(t) == <<"(">> \o t \o <<")">>

(* The text of an expression, with no more parentheses than it needs. *)
RECURSIVE Written(_)
Written(e) ==
    LET Part(f, loose) == IF f[1] \in loose THEN Paren(Written(f)) ELSE Written(f)
    IN  CASE e[1] = "chr" -> <<e[2]>>
          [] e[1] = "dot" -> <<".">>
          [] e[1] = "bol" -> <<"^">>
          [] e[1] = "eol" -> <<"$">>
          [] e[1] = "set" -> e[3]
          [] e[1] \in {"exact", "def"} -> e[2]
          [] e[1] = "cat" -> Part(e[2], {"or"}) \o Part(e[3], {"or", "cat"})
          [] e[1] = "or" -> Part(e[2], {}) \o <<"|">> \o Part(e[3], {"or"})
          [] e[1] = "rep" -> Part(e[2], {"or", "cat", "rep"}) \o e[3]
          [] e[1] = "flags" ->
                <<"(", "?">> \o e[2] \o <<":">> \o Written(e[5]) \o <<")">>

(* A rule that is written as an expression. *)
RuleOf(e, id) == [name |-> <<>>, text |-> Written(e), id |-> id, re |-> e]

MacroOf(e, name) == [name |-> name, text |-> Written(e), id |-> 0, re |-> e]

(* A rule given by its text only. *)
RuleText(t) == [name |-> <<>>, text |-> t, id |-> 1, re |-> <<>>]

-----------------------------------------------------------------------------

(* The rule just parsed, if its text was written from an expression. *)
Parsed == regexes[rule - 1]
HasMeaning == rule > 1 /\ Parsed.re # <<>>

(* The tree of a rule matches the words its expression means: alternatives *)
(* bind less than sequences and these less than repeats, a repeat copies   *)
(* what it repeats as often as it says, and options hold in their          *)
(* parentheses only.  A rule is refused exactly when it matches the empty  *)
(* word.                                                                   *)
TreeExact ==
    /\ pc = "parse" /\ HasMeaning =>
          {w \in Words : Accepts(Last(roots), w)}
            = Meaning(Parsed.re, seen_bol)
    /\ pc \in {"parse", "error"} /\ HasMeaning =>
          (pc = "error" <=> <<>> \in Lang(Parsed.re, InitialFlags))
    /\ pc = "error" /\ ~ HasMeaning /\ jobs # <<>> => Head(jobs).re = <<>>

(* A rule that is one character, escape, class or bracket expression has   *)
(* one set of characters, and exactly those characters are in it: the      *)
(* folding of cases, the ranges, the negation and the difference of sets   *)
(* work on any of the values of a char.                                    *)
SetsExact ==
    \A k \in DOMAIN regexes :
        regexes[k].re # <<>> /\ regexes[k].re[1] \in {"chr", "dot", "set", "exact"}
          => /\ Len(regexes[k].tokens) = 3
             /\ Chars(regexes[k].tokens[2].str)
                  = Matched(regexes[k].re, InitialFlags)
=============================================================================
