---------------------------- MODULE RegexTokens -----------------------------
(***************************************************************************)
(* What lexertl's tokeniser reads at one place of a regular expression:    *)
(* escapes, the parts of a bracket expression, POSIX classes, repeats and  *)
(* names (re_tokeniser.hpp and re_tokeniser_helper.hpp), and the tokens    *)
(* with their precedence (re_token.hpp).                                   *)
(*                                                                         *)
(* A text is a sequence of characters, each a string of length one with    *)
(* the code Ord gives it.  A reading of a text at a place p is a record    *)
(* with "ok", the index "next" of the first character not consumed, and    *)
(* what was read; ok is FALSE where the code throws runtime_error.         *)
(***************************************************************************)
EXTENDS CharSets

CONSTANT Ord  \* the code of every character texts are made of

ASSUME OrdAssumption == \A c \in DOMAIN Ord : Ord[c] \in Char

Text == Seq(DOMAIN Ord)

(* The character at p; nothing behind the end (state_.eos()). *)
At(t, p) == IF p \in DOMAIN t THEN t[p] ELSE ""

Eos(t, p) == p > Len(t)

Code(c) == IF c = "" THEN 0 ELSE Ord[c]

IsDigit(c) == Code(c) \in 48 .. 57
IsLetter(c) == Code(c) \in 65 .. 90 \cup 97 .. 122

Failed == [ok |-> FALSE]

-----------------------------------------------------------------------------
(* The tokens.                                                             *)

Token(type) == [type |-> type, str |-> <<>>, extra |-> <<>>]
Charset(str) == [type |-> "CHARSET", str |-> str, extra |-> <<>>]

Duplicators == {"OPT", "AOPT", "ZEROORMORE", "AZEROORMORE", "ONEORMORE",
                "AONEORMORE", "REPEATN", "AREPEATN"}
Greedy == {"OPT", "ZEROORMORE", "ONEORMORE", "REPEATN"}
Operands == {"CHARSET", "BOL", "EOL", "MACRO"}
Starts == Operands \cup {"OPENPAREN"}
Followers == {"OR", "OPENPAREN", "CLOSEPAREN", "END"} \cup Operands

(* precedence_table_, by rows: what is "<", "=" and ">" there. *)
Yields(l) ==
    CASE l = "BEGIN" -> {"REGEX", "OREXP", "SEQUENCE", "SUB", "EXPRESSION",
                         "REPEAT"} \cup Starts
      [] l = "OPENPAREN" -> {"OREXP", "SEQUENCE", "SUB", "EXPRESSION",
                             "REPEAT"} \cup Starts
      [] l = "OR" -> {"SUB", "EXPRESSION", "REPEAT"} \cup Starts
      [] l = "SUB" -> {"REPEAT"} \cup Starts
      [] l = "REPEAT" -> Duplicators
      [] l \in Greedy -> {"OPT"}
      [] OTHER -> {}

Joins(l) ==
    CASE l = "REGEX" -> {"CLOSEPAREN"}
      [] l = "OREXP" -> {"OR"}
      [] l = "SUB" -> {"EXPRESSION"}
      [] l = "REPEAT" -> {"DUP"}
      [] l = "OR" -> {"SEQUENCE"}
      [] l = "OPENPAREN" -> {"REGEX"}
      [] OTHER -> {}

Takes(l) ==
    CASE l \in {"BEGIN", "REGEX"} -> {"END"}
      [] l = "OREXP" -> Operands \cup {"CLOSEPAREN", "END"}
      [] l = "SEQUENCE" -> Operands \cup {"OR", "CLOSEPAREN", "END"}
      [] l = "SUB" -> {"OR", "CLOSEPAREN", "END"}
      [] l \in {"EXPRESSION", "REPEAT", "DUP"} \cup Duplicators -> Followers
      [] l \in Operands \cup {"CLOSEPAREN"} -> Followers \cup Duplicators
      [] OTHER -> {}

Precedence(l, r) == CASE r \in Yields(l) -> "<"
                      [] r \in Joins(l) -> "="
                      [] r \in Takes(l) -> ">"
                      [] OTHER -> " "

-----------------------------------------------------------------------------
(* Characters by escapes.                                                  *)

Hex(c) == CASE IsDigit(c) -> Code(c) - 48
            [] Code(c) \in 97 .. 102 -> Code(c) - 87
            [] Code(c) \in 65 .. 70 -> Code(c) - 55
            [] OTHER -> 16
Octal(c) == Code(c) \in 48 .. 55

(* The number the characters from p to q - 1 write in a base. *)
Number(t, p, q, base) ==
    FoldLeft(LAMBDA n, c : base * n + Hex(c), 0, SubSeq(t, p, q - 1))

(* The first place from p on where a character is not of a kind. *)
RunEnd(t, p, IsKind(_)) ==
    CHOOSE q \in p .. Len(t) + 1 :
        /\ q = Len(t) + 1 \/ ~ IsKind(t[q])
        /\ \A k \in p .. q - 1 : IsKind(t[k])

ReadChar(n, next) ==
    IF n > MAX_VAL THEN Failed ELSE [ok |-> TRUE, char |-> n, next |-> next]

(* Faulty form of DecodeOctal: all the digits are taken. *)
DecodeOctal_Greedy(t, p) ==
    LET q == RunEnd(t, p, Octal) IN ReadChar(Number(t, p, q, 8), q)

(* At most three digits. *)
DecodeOctal(t, p) ==
    LET q == Lesser(RunEnd(t, p, Octal), p + 3)
    IN  ReadChar(Number(t, p, q, 8), q)

DecodeHex(t, p) ==
    LET q == RunEnd(t, p, LAMBDA c : Hex(c) < 16)
    IN  IF q = p THEN Failed ELSE ReadChar(Number(t, p, q, 16), q)

DecodeControlChar(t, p) ==
    LET c == At(t, p)
    IN  CASE IsLetter(c) -> ReadChar(ToUpper(Code(c)) - 64, p + 1)
          [] c = "@" -> ReadChar(0, p + 1)
          [] OTHER -> Failed

Controls == [a |-> 7, b |-> 8, e |-> 27, f |-> 12, n |-> 10, r |-> 13,
             t |-> 9, v |-> 11]

(* chr: p is behind the backslash. *)
Chr(t, p) ==
    CASE Octal(t[p]) -> DecodeOctal(t, p)
      [] t[p] = "c" -> DecodeControlChar(t, p + 1)
      [] t[p] = "x" -> DecodeHex(t, p + 1)
      [] t[p] \in DOMAIN Controls -> ReadChar(Controls[t[p]], p + 1)
      [] OTHER -> ReadChar(Code(t[p]), p + 1)

-----------------------------------------------------------------------------
(* Classes of characters, in the C locale.                                 *)

Digit == << <<48, 57>> >>
Blanks == << <<9, 13>>, <<32, 32>> >>
Word == << <<48, 57>>, <<65, 90>>, <<95, 95>>, <<97, 122>> >>
Upper == << <<65, 90>> >>
Lower == << <<97, 122>> >>
Alpha == << <<65, 90>>, <<97, 122>> >>
Alnum == << <<48, 57>>, <<65, 90>>, <<97, 122>> >>
Blank == << <<9, 9>>, <<32, 32>> >>
Cntrl == << <<0, 31>>, <<127, 127>> >>
Graph == << <<33, 126>> >>
Printable == << <<32, 126>> >>
Punct == << <<33, 47>>, <<58, 64>>, <<91, 96>>, <<123, 126>> >>
Space == Blanks
XDigit == << <<48, 57>>, <<65, 70>>, <<97, 102>> >>
OtherControl == << <<0, 31>>, <<127, 159>> >>

(* The tables of a class are read by charset under the flags at hand: a    *)
(* range of letters brings its other case.                                 *)
Folded(str, flags) ==
    IF "icase" \in flags
    THEN FoldLeft(LAMBDA s, r : InsertAll(s, Fold(r)), str, str) ELSE str

ReadSet(str, next) == [ok |-> TRUE, str |-> str, next |-> next]

(* \p{..}: of the categories only control characters lie below MAX_VAL     *)
(* when a char has eight bits; the table of any other one throws.          *)
UnicodeEscape(t, p) ==
    IF SubSeq(t, p, Lesser(p + 3, Len(t))) = <<"{", "C", "c", "}">>
    THEN ReadSet(OtherControl, p + 4) ELSE Failed

(* charset_shortcut: the letters that stand for a class. *)
Shortcuts == [d |-> Digit, D |-> Negate(Digit), s |-> Blanks,
              S |-> Negate(Blanks), w |-> Word, W |-> Negate(Word)]

(* escape_sequence: a class ("str") or a character ("char"). *)
EscapeSequence(t, p) ==
    IF Eos(t, p) THEN Failed
    ELSE CASE t[p] \in DOMAIN Shortcuts -> ReadSet(Shortcuts[t[p]], p + 1)
           [] t[p] = "p" -> UnicodeEscape(t, p + 1)
           [] OTHER -> Chr(t, p)

(* How far the text at p follows a word. *)
Follows(t, p, w) ==
    CHOOSE n \in 0 .. Len(w) :
        /\ \A k \in 1 .. n : At(t, p + k - 1) = w[k]
        /\ n < Len(w) => At(t, p + n) # w[n + 1]

(* The classes whose letter decides: the last letter of the name may be    *)
(* missing, since the pointer into it moves on the letter that differs.    *)
PosixByLetter ==
    [b |-> [name |-> <<"b", "l", "a", "n", "k">>, str |-> Blank],
     c |-> [name |-> <<"c", "n", "t", "r", "l">>, str |-> Cntrl],
     d |-> [name |-> <<"d", "i", "g", "i", "t">>, str |-> Digit],
     g |-> [name |-> <<"g", "r", "a", "p", "h">>, str |-> Graph],
     l |-> [name |-> <<"l", "o", "w", "e", "r">>, str |-> Lower],
     s |-> [name |-> <<"s", "p", "a", "c", "e">>, str |-> Space],
     u |-> [name |-> <<"u", "p", "p", "e", "r">>, str |-> Upper],
     x |-> [name |-> <<"x", "d", "i", "g", "i", "t">>, str |-> XDigit]]

(* The classes that share a letter: the second is meant by its full name,  *)
(* the first by any part of its own or of the other's.                     *)
PosixByName ==
    [a |-> [first |-> [name |-> <<"a", "l", "n", "u", "m">>, str |-> Alnum],
            second |-> [name |-> <<"a", "l", "p", "h", "a">>, str |-> Alpha]],
     p |-> [first |-> [name |-> <<"p", "r", "i", "n", "t">>, str |-> Printable],
            second |-> [name |-> <<"p", "u", "n", "c", "t">>, str |-> Punct]]]

(* The name at p, as the set it means and the place behind it. *)
PosixName(t, p) ==
    CASE At(t, p) \in DOMAIN PosixByLetter ->
            LET class == PosixByLetter[t[p]]
                n == Follows(t, p, class.name)
            IN  IF n < Len(class.name) - 1 THEN Failed
                ELSE ReadSet(class.str, p + n)
      [] At(t, p) \in DOMAIN PosixByName ->
            LET class == PosixByName[t[p]]
                m == Follows(t, p, class.first.name)
                n == Follows(t, p, class.second.name)
            IN  ReadSet(IF n = Len(class.second.name) THEN class.second.str
                        ELSE class.first.str,
                        p + Greater(m, n))
      [] OTHER -> Failed

(* What is behind the name of a class: the second colon may be missing.    *)
EndPosix(t, class, negate, flags) ==
    LET q == IF At(t, class.next) = ":" THEN class.next + 1 ELSE class.next
        str == Folded(class.str, flags)
    IN  IF ~ class.ok THEN Failed
        ELSE IF At(t, q) # "]" THEN Failed
        ELSE ReadSet(IF negate THEN Negate(str) ELSE str, q + 1)

(* posix: p is behind "[:". *)
Posix(t, p, flags) ==
    LET negate == At(t, p) = "^"
    IN  EndPosix(t, PosixName(t, IF negate THEN p + 1 ELSE p), negate, flags)

-----------------------------------------------------------------------------
(* Bracket expressions.                                                    *)

OpensPosix(t, p) == At(t, p) = "[" /\ At(t, p + 1) = ":"

IsClass(item) == "str" \in DOMAIN item

(* One item of a bracket expression: a class or a character. *)
Item(t, p, flags) ==
    CASE t[p] = "\\" -> EscapeSequence(t, p + 1)
      [] OpensPosix(t, p) -> Posix(t, p + 2, flags)
      [] OTHER -> ReadChar(Code(t[p]), p + 1)

WithCases(str, r, flags) ==
    IF "icase" \in flags THEN InsertAll(Insert(str, r), Fold(r))
    ELSE Insert(str, r)

(* charset_range: from the character "low" to the one behind the '-'. *)
CharsetRange(t, low, high, flags) ==
    CASE ~ high.ok -> Failed
      [] IsClass(high) \/ Eos(t, high.next) -> Failed
      [] high.char < low -> Failed
      [] OTHER -> ReadSet(WithCases(<<>>, <<low, high.char>>, flags), high.next)

(* What an item adds to the set, or the range it begins. *)
AddItem(t, item, flags) ==
    LET dash == item.next
        high == Item(t, dash + 1, flags)
    IN  IF ~ item.ok THEN Failed
        ELSE IF Eos(t, dash) THEN Failed
        ELSE IF t[dash] # "-"
        THEN IF IsClass(item) THEN item
             ELSE ReadSet(WithCases(<<>>, <<item.char, item.char>>, flags), dash)
        ELSE IF IsClass(item) \/ Eos(t, dash + 1) \/ OpensPosix(t, dash + 1)
        THEN Failed
        ELSE CharsetRange(t, item.char, high, flags)

(* One turn of the loop of charset at p, which is not at a ']'. *)
CharsetTurn(t, p, flags) == AddItem(t, Item(t, p, flags), flags)

-----------------------------------------------------------------------------
(* Repeats and names in curly brackets.                                    *)

ReadToken(tok, next) == [ok |-> TRUE, token |-> tok, next |-> next]

Abstemious == [OPT |-> "AOPT", ZEROORMORE |-> "AZEROORMORE",
               ONEORMORE |-> "AONEORMORE", REPEATN |-> "AREPEATN"]

(* A duplicator; a '?' at p makes it match as little as it can. *)
Duplicator(t, p, tok) ==
    IF At(t, p) = "?"
    THEN ReadToken([tok EXCEPT !.type = Abstemious[@]], p + 1)
    ELSE ReadToken(tok, p)

(* REPEATN keeps the digits as its text; here, what they say. *)
Repeat(min, comma, max) ==
    [type |-> "REPEATN", str |-> <<>>,
     extra |-> [min |-> min, comma |-> comma, max |-> max]]

(* The token of {min}, {min,} and {min,max}. *)
RepeatToken(min, comma, max, given) ==
    IF comma /\ ~ given
    THEN IF min = 0 THEN Token("ZEROORMORE")
         ELSE IF min = 1 THEN Token("ONEORMORE") ELSE Repeat(min, comma, max)
    ELSE IF given /\ min = 0 /\ max = 1 THEN Token("OPT")
    ELSE IF given /\ min = max THEN Repeat(min, FALSE, 0)
    ELSE Repeat(min, comma, max)

(* repeat_n: p is at the first digit. *)
RepeatN(t, p) ==
    LET q == RunEnd(t, p, IsDigit)
        comma == At(t, q) = ","
        r == IF comma THEN RunEnd(t, q + 1, IsDigit) ELSE q
        given == comma /\ r > q + 1
        min == Number(t, p, q, 10)
        max == IF given THEN Number(t, q + 1, r, 10) ELSE 0
        tok == RepeatToken(min, comma, max, given)
    IN  CASE At(t, r) # "}" -> Failed
          [] tok.type = "REPEATN" /\ min = 0 /\ max = 0 -> Failed
          [] given /\ max < min -> Failed
          [] OTHER -> Duplicator(t, r + 1, tok)

StartsName(c) == c = "_" \/ IsLetter(c)
InName(c) == StartsName(c) \/ IsDigit(c) \/ c = "-"

(* macro: p is at the first character of the name. *)
MacroName(t, p) ==
    LET q == RunEnd(t, p, InName)
    IN  IF ~ StartsName(At(t, p)) \/ At(t, q) # "}" THEN Failed
        ELSE ReadToken([Token("MACRO") EXCEPT !.extra = SubSeq(t, p, q - 1)],
                       q + 1)

(* {-} and {+}: p is at the sign. *)
DiffSign(t, p, lhs) ==
    IF lhs.type # "CHARSET" \/ At(t, p + 1) # "}" THEN Failed
    ELSE ReadToken([Token("DIFF") EXCEPT !.extra = <<t[p]>>], p + 2)

(* open_curly: p is behind the bracket, lhs is the token before it. *)
OpenCurly(t, p, lhs) ==
    IF Eos(t, p) THEN Failed
    ELSE CASE t[p] \in {"-", "+"} -> DiffSign(t, p, lhs)
           [] IsDigit(t[p]) -> RepeatN(t, p)
           [] OTHER -> MacroName(t, p)
=============================================================================
