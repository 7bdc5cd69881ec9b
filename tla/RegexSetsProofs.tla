---------------------------- MODULE RegexSetsProofs ----------------------------
(***************************************************************************)
(* Proofs about the regular expression compiler: that no two ids stand for *)
(* one set of characters (CharsetsDistinct), that the classes the table's  *)
(* columns are made of neither overlap nor lose a character                *)
(* (PartitionExact), and that the parser accepts every rule the tokeniser  *)
(* lets pass (ParserAccepts), for every list of rules and macros and every *)
(* greatest character.                                                     *)
(*                                                                         *)
(* First the algebra: what Insert, Negate, Intersect and RemoveChars make  *)
(* is a set in normal form with the right characters, and sets in normal   *)
(* form are equal when their characters are.  Then the reader and the      *)
(* parser: every CHARSET token they pass on has such a set, never empty.   *)
(* Then the partition: what split keeps, element by element.  Last the     *)
(* parser's stack: what the tokeniser lets pass, what that allows on the   *)
(* stack, and that every handle it can hold is a production.               *)
(***************************************************************************)
EXTENDS RegexDfa, DataLemmas, FiniteSetTheorems

-----------------------------------------------------------------------------
(* Sets of characters: sorted ranges with gaps between them. Insert. *)

Pair == Char \X Char
IsRange(r) == r \in Pair /\ r[1] <= r[2]
In(c, r) == r[1] <= c /\ c <= r[2]

(* The sets of characters as the code keeps them. *)
CharSet == {s \in Seq(Pair) : IsNormal(s)}

(* A character is a number no greater than MAX_VAL. *)
LEMMA CharBounds == Char \subseteq Int /\ Char \subseteq Nat /\ \A c \in Char : c <= MAX_VAL
BY CharAssumption DEF Char

(* Normal form by the positions of the ranges.                             *)
LEMMA NormalForm ==
    ASSUME NEW s \in Seq(Pair)
    PROVE  s \in CharSet <=>
              /\ \A k \in 1 .. Len(s) : IsRange(s[k])
              /\ \A i, j \in 1 .. Len(s) : i < j => s[i][2] + 1 < s[j][1]
<1>1. DOMAIN s = 1 .. Len(s) /\ \A k \in 1 .. Len(s) : s[k] \in Pair
  OBVIOUS
<1>2. \A k \in 1 .. Len(s) :
         IsRange(s[k]) <=> s[k][1] \in Char /\ s[k][2] \in s[k][1] .. MAX_VAL
  BY <1>1, CharBounds, CharAssumption DEF IsRange, Pair, Char
<1> QED
  BY <1>1, <1>2 DEF CharSet, IsNormal

(* What being a set of characters says of its ranges. *)
LEMMA CharSetRanges ==
    ASSUME NEW s \in CharSet
    PROVE  /\ s \in Seq(Pair) /\ Len(s) \in Nat /\ DOMAIN s = 1 .. Len(s)
           /\ \A k \in 1 .. Len(s) :
                 /\ s[k] \in Pair /\ IsRange(s[k])
                 /\ s[k][1] \in Char /\ s[k][2] \in Char /\ s[k][1] <= s[k][2]
           /\ \A i, j \in 1 .. Len(s) : i < j => s[i][2] + 1 < s[j][1]
BY NormalForm DEF CharSet, IsRange, Pair

(* A character is in a set when one of its ranges holds it. *)
LEMMA InChars ==
    ASSUME NEW s \in Seq(Pair)
    PROVE  \A c : c \in Chars(s) <=> c \in Int /\ \E k \in 1 .. Len(s) : In(c, s[k])
<1>1. DOMAIN s = 1 .. Len(s) /\ \A k \in 1 .. Len(s) : s[k] \in Pair
  OBVIOUS
<1>2. \A c : c \in Chars(s) <=> \E k \in 1 .. Len(s) : c \in s[k][1] .. s[k][2]
  BY <1>1 DEF Chars, ToSet
<1>3. \A k \in 1 .. Len(s) : s[k][1] \in Int /\ s[k][2] \in Int
  BY <1>1, CharBounds DEF Pair
<1>4. \A c : \A k \in 1 .. Len(s) :
         c \in s[k][1] .. s[k][2] <=> c \in Int /\ In(c, s[k])
  BY <1>3 DEF In
<1> QED
  BY <1>2, <1>4

(* A set holds characters only. *)
LEMMA CharsAreChar ==
    ASSUME NEW s \in Seq(Pair)
    PROVE  Chars(s) \subseteq Char
<1> SUFFICES ASSUME NEW c \in Chars(s)
             PROVE  c \in Char
  OBVIOUS
<1>1. c \in Int
  BY InChars
<1>2. PICK k \in 1 .. Len(s) : In(c, s[k])
  BY InChars
<1>3. s[k] \in Pair
  OBVIOUS
<1>4. s[k][1] \in Char /\ s[k][2] \in Char
  BY <1>3 DEF Pair
<1> QED
  BY <1>1, <1>2, <1>4, CharAssumption DEF In, Char

(* The set of no character. *)
LEMMA EmptyCharSet == <<>> \in CharSet /\ \A c : c \notin Chars(<<>>)
<1>1. <<>> \in Seq(Pair) /\ Len(<<>>) = 0 /\ 1 .. 0 = {}
  BY EmptySeq
<1> QED
  BY <1>1, NormalForm, InChars

(* A range is a pair and never empty. *)
LEMMA RangeElements ==
    ASSUME NEW r, IsRange(r)
    PROVE  /\ r = <<r[1], r[2]>> /\ r[1] \in Char /\ r[2] \in Char
           /\ \E c \in Char : In(c, r)
<1>1. r = <<r[1], r[2]>> /\ r[1] \in Char /\ r[2] \in Char /\ r[1] <= r[2]
  BY DEF IsRange, Pair
<1>2. In(r[1], r)
  BY <1>1, CharBounds DEF In
<1> QED
  BY <1>1, <1>2

(* A set that is not empty has a character.                                *)
LEMMA NonEmpty ==
    ASSUME NEW s \in CharSet
    PROVE  s # <<>> <=> \E c : c \in Chars(s)
<1>1. CASE s = <<>>
  BY <1>1, EmptyCharSet
<1>2. CASE s # <<>>
  <2>1. s \in Seq(Pair)
    BY CharSetRanges
  <2>2. 1 \in 1 .. Len(s)
    BY <1>2, <2>1, EmptySeq
  <2>3. IsRange(s[1])
    BY <2>2, CharSetRanges
  <2>4. PICK c \in Char : In(c, s[1])
    BY <2>3, RangeElements
  <2> QED
    BY <1>2, <2>1, <2>2, <2>4, InChars, CharBounds
<1> QED
  BY <1>1, <1>2

(* A range behind all others.                                              *)
LEMMA AppendRange ==
    ASSUME NEW s \in CharSet, NEW x, IsRange(x),
           \A q \in 1 .. Len(s) : s[q][2] + 1 < x[1]
    PROVE  /\ Append(s, x) \in CharSet
           /\ Len(Append(s, x)) = Len(s) + 1
           /\ \A q \in 1 .. Len(s) + 1 :
                 Append(s, x)[q] = IF q = Len(s) + 1 THEN x ELSE s[q]
           /\ \A c : c \in Chars(Append(s, x))
                     <=> c \in Chars(s) \/ (c \in Int /\ In(c, x))
<1> DEFINE t == Append(s, x)
           n == Len(s)
<1>1. s \in Seq(Pair) /\ n \in Nat /\ x \in Pair
  BY CharSetRanges DEF IsRange
<1>2. /\ t \in Seq(Pair) /\ Len(t) = n + 1
      /\ \A q \in 1 .. n + 1 : t[q] = IF q = n + 1 THEN x ELSE s[q]
  BY <1>1
<1>3. \A q \in 1 .. n + 1 : q # n + 1 => q \in 1 .. n
  BY <1>1
<1>4. \A q \in 1 .. n : q \in 1 .. n + 1 /\ q # n + 1
  BY <1>1
<1>5. n + 1 \in 1 .. n + 1
  BY <1>1
<1> HIDE DEF t, n
<1>6. \A k \in 1 .. n + 1 : IsRange(t[k])
  BY <1>2, <1>3, CharSetRanges DEF n
<1>7. ASSUME NEW i \in 1 .. n + 1, NEW j \in 1 .. n + 1, i < j
      PROVE  t[i][2] + 1 < t[j][1]
  <2>1. i \in 1 .. n /\ t[i] = s[i]
    BY <1>1, <1>2, <1>3, <1>7
  <2>2. CASE j = n + 1
    BY <1>2, <2>1, <2>2 DEF n
  <2>3. CASE j # n + 1
    BY <1>2, <1>3, <1>7, <2>1, <2>3, CharSetRanges DEF n
  <2> QED
    BY <2>2, <2>3
<1>8. t \in CharSet
  BY <1>2, <1>6, <1>7, NormalForm
<1>9. \A c : c \in Chars(t) <=> c \in Chars(s) \/ (c \in Int /\ In(c, x))
  <2>1. \A c : c \in Chars(t) <=> c \in Int /\ \E k \in 1 .. n + 1 : In(c, t[k])
    BY <1>2, InChars
  <2>2. \A c : c \in Chars(s) <=> c \in Int /\ \E k \in 1 .. n : In(c, s[k])
    BY <1>1, InChars DEF n
  <2>3. \A k \in 1 .. n : k \in 1 .. n + 1 /\ t[k] = s[k]
    BY <1>2, <1>4
  <2>4. t[n + 1] = x
    BY <1>2, <1>5
  <2>5. \A c : (\E k \in 1 .. n + 1 : In(c, t[k]))
               <=> (\E k \in 1 .. n : In(c, s[k])) \/ In(c, x)
    BY <1>3, <1>5, <2>3, <2>4
  <2>6. \A c : c \in Chars(t)
               <=> c \in Int /\ ((\E k \in 1 .. n : In(c, s[k])) \/ In(c, x))
    BY <2>1, <2>5
  <2> QED
    BY <2>2, <2>6
<1> QED
  BY <1>2, <1>8, <1>9 DEF t, n

-----------------------------------------------------------------------------
(* insert                                                                  *)

InsertStates == [r : Pair, kept : Seq(Pair), open : BOOLEAN]

InsertStart(r) == Inserting(r, <<>>, TRUE)

InsertRun(g, s, r) ==
    /\ g \in [0 .. Len(s) -> InsertStates]
    /\ g[0] = InsertStart(r)
    /\ \A k \in 1 .. Len(s) : g[k] = MeetRange(g[k - 1], s[k])
    /\ Insert(s, r) = IF g[Len(s)].open
                      THEN Append(g[Len(s)].kept, g[Len(s)].r)
                      ELSE g[Len(s)].kept

(* The bounds of two characters are among them. *)
LEMMA LesserGreater ==
    ASSUME NEW a \in Char, NEW b \in Char
    PROVE  /\ Lesser(a, b) \in Char /\ Greater(a, b) \in Char
           /\ Lesser(a, b) <= a /\ Lesser(a, b) <= b
           /\ a <= Greater(a, b) /\ b <= Greater(a, b)
           /\ Lesser(a, b) = a \/ Lesser(a, b) = b
           /\ Greater(a, b) = a \/ Greater(a, b) = b
BY CharBounds DEF Lesser, Greater

(* The states of Insert are closed under its step. *)
LEMMA MeetRangeTyped ==
    ASSUME NEW st \in InsertStates, NEW x \in Pair
    PROVE  MeetRange(st, x) \in InsertStates
<1>1. st.r[1] \in Char /\ st.r[2] \in Char /\ x[1] \in Char /\ x[2] \in Char
  BY DEF InsertStates, Pair
<1>2. Merged(st.r, x) \in Pair
  BY <1>1, LesserGreater DEF Pair, Merged
<1>3. Append(st.kept, x) \in Seq(Pair) /\ st.kept \o <<st.r, x>> \in Seq(Pair)
  BY DEF InsertStates
<1> QED
  BY <1>2, <1>3 DEF MeetRange, InsertStates, Inserting

(* Insert unfolds, range by range. *)
LEMMA InsertRuns ==
    ASSUME NEW s \in Seq(Pair), NEW r \in Pair
    PROVE  \E g : InsertRun(g, s, r)
<1> DEFINE n == Len(s)
           step == [p \in (1 .. n) \X InsertStates |-> MeetRange(p[2], s[p[1]])]
           Eq(f) == f = [T \in SUBSET DOMAIN s |->
                           IF T = {} THEN InsertStart(r)
                           ELSE MeetRange(f[T \ {Max(T)}], s[Max(T)])]
           f == CHOOSE f : Eq(f)
<1>1. n \in Nat /\ DOMAIN s = 1 .. n /\ \A k \in 1 .. n : s[k] \in Pair
  OBVIOUS
<1>2. InsertStart(r) \in InsertStates
  BY EmptySeq DEF InsertStart, InsertStates, Inserting
<1>3. step \in StepFcn(n, InsertStates)
  BY <1>1, MeetRangeTyped DEF StepFcn
<1> HIDE DEF n
<1>4. \A i \in 1 .. n : \A x \in InsertStates : step[<<i, x>>] = MeetRange(x, s[i])
  OBVIOUS
<1> HIDE DEF step
<1>5. PICK h : FoldsSets(h, n, InsertStates, InsertStart(r), step)
  BY <1>1, <1>2, <1>3, SetRecursion
<1>6. Eq(h)
  <2>1. \A T \in SUBSET (1 .. n) : T # {} =>
           Max(T) \in 1 .. n /\ h[T \ {Max(T)}] \in InsertStates
    BY <1>1, <1>5, MaxOfNumbers DEF FoldsSets
  <2>2. \A T \in SUBSET (1 .. n) : T # {} =>
           h[T] = MeetRange(h[T \ {Max(T)}], s[Max(T)])
    BY <1>4, <1>5, <2>1 DEF FoldsSets
  <2>3. h[{}] = InsertStart(r) /\ h = [T \in SUBSET (1 .. n) |-> h[T]]
    BY <1>5 DEF FoldsSets
  <2> QED
    BY <1>1, <2>2, <2>3
<1>7. Eq(f)
  BY <1>6
<1> HIDE DEF f
<1>8. f[1 .. 0] = InsertStart(r)
  BY <1>1, <1>7
<1>9. \A k \in 1 .. n : f[1 .. k] = MeetRange(f[1 .. k - 1], s[k])
  <2> TAKE k \in 1 .. n
  <2>1. /\ 1 .. k \in SUBSET DOMAIN s /\ 1 .. k # {}
        /\ Max(1 .. k) = k /\ (1 .. k) \ {k} = 1 .. k - 1
    BY <1>1, MaxOfPrefix
  <2>2. f[1 .. k] = MeetRange(f[(1 .. k) \ {Max(1 .. k)}], s[Max(1 .. k)])
    BY <1>7, <2>1
  <2> QED
    BY <2>1, <2>2
<1>10. \A k \in 1 .. n : f[1 .. k - 1] \in InsertStates =>
          f[1 .. k] = step[<<k, f[1 .. k - 1]>>]
  BY <1>4, <1>9
<1>11. PICK g : /\ Unrolls(g, n, InsertStates, InsertStart(r), step)
                /\ g[n] = f[1 .. n]
  BY <1>1, <1>2, <1>3, <1>8, <1>10, FoldRun
<1>12. FoldLeft(MeetRange, InsertStart(r), s) = f[1 .. n]
  BY <1>1 DEF FoldLeft, MapThenFoldSet, f
<1>13. Insert(s, r) = IF g[n].open THEN Append(g[n].kept, g[n].r) ELSE g[n].kept
  BY <1>11, <1>12 DEF Insert, InsertStart
<1>14. \A k \in 1 .. n : g[k - 1] \in InsertStates
  BY <1>1, <1>11 DEF Unrolls
<1> QED
  BY <1>4, <1>11, <1>13, <1>14 DEF InsertRun, Unrolls, n

(* The four arms of MeetRange, apart; next is what it makes of x.          *)
Meets(r, kept, open, x, next) ==
    /\ ~ open \/ x[2] + 1 < r[1] => next = Inserting(r, Append(kept, x), open)
    /\ open /\ ~ (x[2] + 1 < r[1]) /\ r[2] + 1 < x[1] =>
          next = Inserting(r, kept \o <<r, x>>, FALSE)
    /\ (/\ open /\ ~ (x[2] + 1 < r[1]) /\ ~ (r[2] + 1 < x[1])
        /\ x[1] <= r[1] /\ r[2] <= x[2]) =>
          next = Inserting(r, Append(kept, x), FALSE)
    /\ (/\ open /\ ~ (x[2] + 1 < r[1]) /\ ~ (r[2] + 1 < x[1])
        /\ ~ (x[1] <= r[1] /\ r[2] <= x[2])) =>
          next = Inserting(Merged(r, x), kept, TRUE)

(* MeetRange takes one of these arms. *)
LEMMA MeetRangeCases ==
    ASSUME NEW r, NEW kept, NEW open \in BOOLEAN, NEW x, NEW st,
           st = Inserting(r, kept, open),
           /\ r[1] \in Int /\ r[2] \in Int /\ r[1] <= r[2]
           /\ x[1] \in Int /\ x[2] \in Int /\ x[1] <= x[2]
    PROVE  Meets(r, kept, open, x, MeetRange(st, x))
<1> DEFINE A == ~ open \/ x[2] + 1 < r[1]
           B == open /\ r[2] + 1 < x[1]
           C == open /\ x[1] <= r[1] /\ r[2] <= x[2]
           a == Inserting(r, Append(kept, x), open)
           b == Inserting(r, kept \o <<r, x>>, FALSE)
           c == Inserting(r, Append(kept, x), FALSE)
           d == Inserting(Merged(r, x), kept, TRUE)
<1>1. st.r = r /\ st.kept = kept /\ st.open = open
  BY DEF Inserting
<1>2. MeetRange(st, x) = CASE A -> a [] B -> b [] C -> c [] OTHER -> d
  BY <1>1 DEF MeetRange
<1>3. ~ (A /\ B) /\ ~ (A /\ C) /\ ~ (B /\ C)
  OBVIOUS
<1> HIDE DEF A, B, C, a, b, c, d
<1>4. /\ A => MeetRange(st, x) = a
      /\ B => MeetRange(st, x) = b
      /\ C => MeetRange(st, x) = c
      /\ (~ A /\ ~ B /\ ~ C) => MeetRange(st, x) = d
  BY <1>2, <1>3
<1> DEFINE next == MeetRange(st, x)
<1> HIDE DEF next
<1>5. /\ A => next = a
      /\ B => next = b
      /\ C => next = c
      /\ (~ A /\ ~ B /\ ~ C) => next = d
  BY <1>4 DEF next
<1>6. Meets(r, kept, open, x, next)
  BY <1>5 DEF Meets, A, B, C, a, b, c, d
<1> QED
  BY <1>6 DEF next

(* Seen k ranges: what was kept lies before the rest and, while r is     *)
(* still to be placed, before r; and together it is what went in.          *)
InsertInv(st, s, r, k) ==
    /\ st.kept \in CharSet /\ IsRange(st.r)
    /\ \A q \in 1 .. Len(st.kept) :
          /\ \A p \in k + 1 .. Len(s) : st.kept[q][2] + 1 < s[p][1]
          /\ st.open => st.kept[q][2] + 1 < st.r[1]
    /\ \A c \in Int : c \in Chars(st.kept) \/ (st.open /\ In(c, st.r))
                      <=> (\E p \in 1 .. k : In(c, s[p])) \/ In(c, r)

(* One range of the set keeps the invariant of Insert. *)
LEMMA InsertStep ==
    ASSUME NEW s \in CharSet, NEW r, IsRange(r), NEW k \in 0 .. Len(s) - 1,
           NEW st \in InsertStates, InsertInv(st, s, r, k)
    PROVE  InsertInv(MeetRange(st, s[k + 1]), s, r, k + 1)
<1> DEFINE x == s[k + 1]
           n == Len(s)
           Rest(list) == \A q \in 1 .. Len(list) :
                            \A p \in k + 2 .. n : list[q][2] + 1 < s[p][1]
           Before(c) == (\E p \in 1 .. k : In(c, s[p])) \/ In(c, r)
           Seen(c) == (\E p \in 1 .. k + 1 : In(c, s[p])) \/ In(c, r)
<1>1. /\ n \in Nat /\ k + 1 \in 1 .. n /\ (k + 1) + 1 = k + 2 /\ k \in Nat
      /\ k + 1 \in k + 1 .. n
  BY CharSetRanges
<1>2. /\ x \in Pair /\ IsRange(x)
      /\ x[1] \in Char /\ x[2] \in Char /\ x[1] <= x[2]
  BY <1>1, CharSetRanges
<1>3. \A p \in k + 2 .. n : x[2] + 1 < s[p][1]
  <2> TAKE p \in k + 2 .. n
  <2>1. p \in 1 .. n /\ k + 1 < p
    BY <1>1
  <2> QED
    BY <1>1, <2>1, CharSetRanges
<1>4. /\ st.kept \in CharSet /\ IsRange(st.r) /\ Len(st.kept) \in Nat
      /\ \A q \in 1 .. Len(st.kept) : /\ st.kept[q][2] + 1 < x[1]
                                      /\ st.open => st.kept[q][2] + 1 < st.r[1]
      /\ Rest(st.kept)
  <2>1. \A p \in k + 2 .. n : p \in k + 1 .. n
    BY <1>1
  <2>2. Len(st.kept) \in Nat
    BY CharSetRanges DEF InsertInv
  <2> QED
    BY <1>1, <2>1, <2>2 DEF InsertInv
<1>5. \A c \in Int : c \in Chars(st.kept) \/ (st.open /\ In(c, st.r)) <=> Before(c)
  BY DEF InsertInv
<1>6. \A c \in Int : Seen(c) <=> Before(c) \/ In(c, x)
  <2>1. \A p \in 1 .. k + 1 : p = k + 1 \/ p \in 1 .. k
    BY <1>1
  <2>2. \A p \in 1 .. k : p \in 1 .. k + 1
    BY <1>1
  <2> QED
    BY <1>1, <2>1, <2>2
<1>7. st = Inserting(st.r, st.kept, st.open) /\ st.open \in BOOLEAN
  BY DEF InsertStates, Inserting
<1>71. /\ st.r[1] \in Int /\ st.r[2] \in Int /\ st.r[1] <= st.r[2]
       /\ x[1] \in Int /\ x[2] \in Int /\ x[1] <= x[2]
  BY <1>2, <1>4, CharBounds, RangeElements DEF IsRange
<1>72. /\ ~ st.open \/ x[2] + 1 < st.r[1] =>
             MeetRange(st, x) = Inserting(st.r, Append(st.kept, x), st.open)
       /\ st.open /\ ~ (x[2] + 1 < st.r[1]) /\ st.r[2] + 1 < x[1] =>
             MeetRange(st, x) = Inserting(st.r, st.kept \o <<st.r, x>>, FALSE)
       /\ (/\ st.open /\ ~ (x[2] + 1 < st.r[1]) /\ ~ (st.r[2] + 1 < x[1])
           /\ x[1] <= st.r[1] /\ st.r[2] <= x[2]) =>
             MeetRange(st, x) = Inserting(st.r, Append(st.kept, x), FALSE)
       /\ (/\ st.open /\ ~ (x[2] + 1 < st.r[1]) /\ ~ (st.r[2] + 1 < x[1])
           /\ ~ (x[1] <= st.r[1] /\ st.r[2] <= x[2])) =>
             MeetRange(st, x) = Inserting(Merged(st.r, x), st.kept, TRUE)
  <2>1. Meets(st.r, st.kept, st.open, x, MeetRange(st, x))
    <3> HIDE DEF x
    <3> QED
      BY <1>7, <1>71, MeetRangeCases
  <2> QED
    BY <2>1 DEF Meets
<1>8. SUFFICES
        ASSUME NEW y, NEW list, NEW o \in BOOLEAN,
               MeetRange(st, x) = Inserting(y, list, o)
        PROVE  /\ list \in CharSet /\ IsRange(y)
               /\ Rest(list)
               /\ o => \A q \in 1 .. Len(list) : list[q][2] + 1 < y[1]
               /\ \A c \in Int : c \in Chars(list) \/ (o /\ In(c, y))
                                 <=> Seen(c)
  <2>1. MeetRange(st, x) \in InsertStates
    BY <1>2, MeetRangeTyped
  <2>2. PICK y, list, o :
           o \in BOOLEAN /\ MeetRange(st, x) = Inserting(y, list, o)
    <3> DEFINE next == MeetRange(st, x)
    <3>1. next = Inserting(next.r, next.kept, next.open) /\ next.open \in BOOLEAN
      <4> HIDE DEF next
      <4>1. next \in InsertStates
        BY <2>1 DEF next
      <4> QED
        BY <4>1 DEF InsertStates, Inserting
    <3> HIDE DEF next
    <3>2. \E y, list, o : o \in BOOLEAN /\ next = Inserting(y, list, o)
      BY <3>1
    <3> QED
      BY <3>2 DEF next
  <2>3. /\ list \in CharSet /\ IsRange(y)
        /\ Rest(list)
        /\ o => \A q \in 1 .. Len(list) : list[q][2] + 1 < y[1]
        /\ \A c \in Int : c \in Chars(list) \/ (o /\ In(c, y)) <=> Seen(c)
    BY <1>8, <2>2
  <2>4. /\ MeetRange(st, x).r = y /\ MeetRange(st, x).kept = list
        /\ MeetRange(st, x).open = o
    BY <2>2 DEF Inserting
  <2> QED
    BY <1>1, <2>3, <2>4 DEF InsertInv
<1> DEFINE more == Append(st.kept, x)
<1>9. /\ more \in CharSet
      /\ Len(more) = Len(st.kept) + 1
      /\ \A q \in 1 .. Len(st.kept) + 1 :
            more[q] = IF q = Len(st.kept) + 1 THEN x ELSE st.kept[q]
      /\ \A c : c \in Chars(more) <=> c \in Chars(st.kept) \/ (c \in Int /\ In(c, x))
  BY <1>2, <1>4, AppendRange
<1>10. Rest(more)
  <2> TAKE q \in 1 .. Len(more)
  <2>1. q = Len(st.kept) + 1 \/ (q # Len(st.kept) + 1 /\ q \in 1 .. Len(st.kept))
    BY <1>4, <1>9
  <2> QED
    BY <1>3, <1>4, <1>9, <2>1
<1>11. CASE ~ st.open \/ x[2] + 1 < st.r[1]
  <2>1. MeetRange(st, x) = Inserting(st.r, more, st.open)
    BY <1>72, <1>11
  <2>2. y = st.r /\ list = more /\ o = st.open
    BY <1>8, <2>1 DEF Inserting
  <2>3. st.open => \A q \in 1 .. Len(more) : more[q][2] + 1 < st.r[1]
    <3> SUFFICES ASSUME st.open, NEW q \in 1 .. Len(more)
                 PROVE  more[q][2] + 1 < st.r[1]
      OBVIOUS
    <3>1. q = Len(st.kept) + 1 \/ (q # Len(st.kept) + 1 /\ q \in 1 .. Len(st.kept))
      BY <1>4, <1>9
    <3> QED
      BY <1>4, <1>9, <1>11, <3>1
  <2>4. \A c \in Int : c \in Chars(more) \/ (st.open /\ In(c, st.r)) <=> Seen(c)
    BY <1>5, <1>6, <1>9
  <2> QED
    BY <1>4, <1>9, <1>10, <2>2, <2>3, <2>4
<1>12. CASE st.open /\ ~ (x[2] + 1 < st.r[1]) /\ st.r[2] + 1 < x[1]
  <2> DEFINE with == Append(st.kept, st.r)
             both == Append(with, x)
  <2>1. /\ with \in CharSet
        /\ Len(with) = Len(st.kept) + 1
        /\ \A q \in 1 .. Len(st.kept) + 1 :
              with[q] = IF q = Len(st.kept) + 1 THEN st.r ELSE st.kept[q]
        /\ \A c : c \in Chars(with)
                  <=> c \in Chars(st.kept) \/ (c \in Int /\ In(c, st.r))
    BY <1>4, <1>12, AppendRange
  <2>2. \A q \in 1 .. Len(with) : with[q][2] + 1 < x[1]
    <3> TAKE q \in 1 .. Len(with)
    <3>1. q = Len(st.kept) + 1 \/ (q # Len(st.kept) + 1 /\ q \in 1 .. Len(st.kept))
      BY <1>4, <2>1
    <3> QED
      BY <1>4, <1>12, <2>1, <3>1
  <2>3. /\ both \in CharSet
        /\ Len(both) = Len(with) + 1
        /\ \A q \in 1 .. Len(with) + 1 :
              both[q] = IF q = Len(with) + 1 THEN x ELSE with[q]
        /\ \A c : c \in Chars(both) <=> c \in Chars(with) \/ (c \in Int /\ In(c, x))
    BY <1>2, <2>1, <2>2, AppendRange
  <2>4. both = st.kept \o <<st.r, x>>
    BY <1>2, <1>4, CharSetRanges DEF IsRange
  <2>5. MeetRange(st, x) = Inserting(st.r, both, FALSE)
    BY <1>72, <1>12, <2>4
  <2>6. y = st.r /\ list = both /\ o = FALSE
    BY <1>8, <2>5 DEF Inserting
  <2>7. Rest(both)
    <3> TAKE q \in 1 .. Len(both)
    <3>1. Len(with) \in Nat
      BY <1>4, <2>1
    <3>2. q = Len(with) + 1 \/ (q # Len(with) + 1 /\ q \in 1 .. Len(with))
      BY <2>3, <3>1
    <3>3. CASE q = Len(with) + 1
      BY <1>3, <2>3, <3>3
    <3>4. CASE q # Len(with) + 1 /\ q \in 1 .. Len(with)
      <4>1. both[q] = with[q] /\ with[q][2] + 1 < x[1]
        BY <2>2, <2>3, <3>4
      <4>2. \A p \in k + 2 .. n : x[1] < s[p][1] /\ s[p][1] \in Int
        <5> TAKE p \in k + 2 .. n
        <5>1. p \in 1 .. n
          BY <1>1
        <5>2. s[p][1] \in Char
          BY <5>1, CharSetRanges
        <5>3. x[1] \in Int /\ x[2] \in Int /\ s[p][1] \in Int
          BY <1>2, <5>2, CharBounds
        <5>4. x[2] + 1 < s[p][1] /\ x[1] <= x[2]
          BY <1>2, <1>3
        <5> QED
          BY <5>3, <5>4
      <4>3. with[q][2] \in Int /\ x[1] \in Int
        <5>1. with[q][2] \in Char
          BY <2>1, <3>4, CharSetRanges
        <5> QED
          BY <1>2, <5>1, CharBounds
      <4>4. \A a, b, c \in Int : a + 1 < b /\ b < c => a + 1 < c
        OBVIOUS
      <4>5. \A p \in k + 2 .. n : with[q][2] + 1 < s[p][1]
        BY <4>1, <4>2, <4>3, <4>4
      <4> QED
        BY <4>1, <4>5
    <3> QED
      BY <3>2, <3>3, <3>4
  <2>8. \A c \in Int : c \in Chars(both) <=> Seen(c)
    BY <1>5, <1>6, <1>12, <2>1, <2>3
  <2> QED
    BY <1>4, <2>3, <2>6, <2>7, <2>8
<1> DEFINE r1 == st.r[1]
           r2 == st.r[2]
<1>13. r1 \in Int /\ r2 \in Int /\ r1 <= r2 /\ x[1] \in Int /\ x[2] \in Int
       /\ r1 \in Char /\ r2 \in Char
  BY <1>2, <1>4, CharBounds, RangeElements DEF IsRange
<1>14. CASE /\ st.open /\ ~ (x[2] + 1 < r1) /\ ~ (r2 + 1 < x[1])
            /\ x[1] <= r1 /\ r2 <= x[2]
  <2>1. MeetRange(st, x) = Inserting(st.r, more, FALSE)
    BY <1>72, <1>14
  <2>2. y = st.r /\ list = more /\ o = FALSE
    BY <1>8, <2>1 DEF Inserting
  <2>3. \A c \in Int : In(c, st.r) => In(c, x)
    BY <1>13, <1>14 DEF In
  <2>4. \A c \in Int : c \in Chars(more) <=> Seen(c)
    BY <1>5, <1>6, <1>9, <1>14, <2>3
  <2> QED
    BY <1>4, <1>9, <1>10, <2>2, <2>4
<1>15. CASE /\ st.open /\ ~ (x[2] + 1 < r1) /\ ~ (r2 + 1 < x[1])
            /\ ~ (x[1] <= r1 /\ r2 <= x[2])
  <2> DEFINE z == Merged(st.r, x)
  <2>1. MeetRange(st, x) = Inserting(z, st.kept, TRUE)
    BY <1>72, <1>15
  <2>2. y = z /\ list = st.kept /\ o = TRUE
    BY <1>8, <2>1 DEF Inserting
  <2>3. z[1] = Lesser(r1, x[1]) /\ z[2] = Greater(r2, x[2]) /\ z \in Char \X Char
    BY <1>2, <1>13, LesserGreater DEF Merged
  <2>4. IsRange(z)
    BY <1>2, <1>13, <2>3 DEF IsRange, Pair, Lesser, Greater
  <2>5. \A q \in 1 .. Len(st.kept) : st.kept[q][2] + 1 < z[1]
    BY <1>4, <1>15, <2>3 DEF Lesser
  <2>6. \A c \in Int : In(c, z) <=> In(c, st.r) \/ In(c, x)
    <3>1. \A c \in Int : In(c, z) <=> z[1] <= c /\ c <= z[2]
      BY DEF In
    <3>2. \A a, b, d, e, c \in Int :
             /\ a <= b /\ d <= e /\ ~ (e + 1 < a) /\ ~ (b + 1 < d)
             => ((IF a < d THEN a ELSE d) <= c /\ c <= (IF b < e THEN e ELSE b)
                 <=> (a <= c /\ c <= b) \/ (d <= c /\ c <= e))
      OBVIOUS
    <3>3. \A c \in Int : (Lesser(r1, x[1]) <= c /\ c <= Greater(r2, x[2]))
                 <=> (r1 <= c /\ c <= r2) \/ (x[1] <= c /\ c <= x[2])
      <4>1. x[1] <= x[2]
        BY <1>2
      <4> HIDE DEF r1, r2
      <4> QED
        BY <1>13, <1>15, <3>2, <4>1 DEF Lesser, Greater
    <3> QED
      BY <2>3, <3>1, <3>3 DEF In
  <2>7. \A c \in Int : c \in Chars(st.kept) \/ In(c, z) <=> Seen(c)
    BY <1>5, <1>6, <1>15, <2>6
  <2> HIDE DEF z
  <2> QED
    BY <1>4, <2>2, <2>4, <2>5, <2>7
<1> QED
  BY <1>11, <1>12, <1>14, <1>15

(* A range is added to a set, and the set stays in normal form.            *)
THEOREM InsertExact ==
    ASSUME NEW s \in CharSet, NEW r, IsRange(r)
    PROVE  /\ Insert(s, r) \in CharSet
           /\ \A c : c \in Chars(Insert(s, r))
                     <=> c \in Chars(s) \/ (c \in Int /\ In(c, r))
<1> DEFINE n == Len(s)
<1>1. s \in Seq(Pair) /\ n \in Nat /\ r \in Pair
  BY CharSetRanges DEF IsRange
<1>2. PICK g : InsertRun(g, s, r)
  BY <1>1, InsertRuns
<1> DEFINE P == {k \in 0 .. n : InsertInv(g[k], s, r, k)}
<1>3. 0 \in P
  <2>1. g[0] = Inserting(r, <<>>, TRUE)
    BY <1>2 DEF InsertRun, InsertStart
  <2> /\ g[0].r = r /\ g[0].kept = <<>> /\ g[0].open = TRUE
    BY <2>1 DEF Inserting
  <2>2. Len(<<>>) = 0 /\ 1 .. 0 = {}
    BY EmptySeq
  <2>3. InsertInv(g[0], s, r, 0)
    BY <2>1, <2>2, EmptyCharSet DEF InsertInv
  <2> QED
    BY <1>1, <2>3
<1>4. ASSUME NEW k \in 0 .. n, k \in P, k < n
      PROVE  k + 1 \in P
  <2>1. k \in 0 .. Len(s) - 1 /\ k + 1 \in 1 .. Len(s) /\ (k + 1) - 1 = k
    BY <1>1, <1>4
  <2>2. g[k] \in InsertStates /\ g[k + 1] = MeetRange(g[k], s[k + 1])
    BY <1>2, <1>4, <2>1 DEF InsertRun
  <2>3. InsertInv(MeetRange(g[k], s[k + 1]), s, r, k + 1)
    BY <1>4, <2>1, <2>2, InsertStep
  <2> QED
    BY <2>1, <2>2, <2>3
<1>5. InsertInv(g[n], s, r, n) /\ g[n] \in InsertStates
  <2>1. 0 .. n \subseteq P
    <3> HIDE DEF P
    <3>1. \A k \in 0 .. n : k \in P /\ k < n => k + 1 \in P
      BY <1>4
    <3> QED
      BY <1>1, <1>3, <3>1, RangeInduction
  <2> QED
    BY <1>1, <1>2, <2>1 DEF InsertRun
<1>6. \A c : c \in Chars(s) <=> c \in Int /\ \E k \in 1 .. n : In(c, s[k])
  BY <1>1, InChars
<1>7. \A c : c \in Chars(g[n].kept) => c \in Int
  BY <1>5, CharSetRanges, InChars DEF InsertInv
<1>8. \A c : (c \in Chars(g[n].kept) \/ (c \in Int /\ g[n].open /\ In(c, g[n].r)))
             <=> c \in Chars(s) \/ (c \in Int /\ In(c, r))
  BY <1>5, <1>6, <1>7 DEF InsertInv
<1>9. CASE g[n].open
  <2>1. Insert(s, r) = Append(g[n].kept, g[n].r)
    BY <1>2, <1>9 DEF InsertRun
  <2>2. /\ g[n].kept \in CharSet /\ IsRange(g[n].r)
        /\ \A q \in 1 .. Len(g[n].kept) : g[n].kept[q][2] + 1 < g[n].r[1]
    BY <1>5, <1>9 DEF InsertInv
  <2>3. /\ Append(g[n].kept, g[n].r) \in CharSet
        /\ \A c : c \in Chars(Append(g[n].kept, g[n].r))
                  <=> c \in Chars(g[n].kept) \/ (c \in Int /\ In(c, g[n].r))
    BY <2>2, AppendRange
  <2> QED
    BY <1>8, <1>9, <2>1, <2>3
<1>10. CASE ~ g[n].open
  <2>1. Insert(s, r) = g[n].kept
    BY <1>2, <1>10 DEF InsertRun
  <2> QED
    BY <1>5, <1>8, <1>10, <2>1 DEF InsertInv
<1> QED
  BY <1>9, <1>10

-----------------------------------------------------------------------------
(* Unions, and what the normal form is for: equal sets are equal           *)
(* sequences.                                                              *)

(* InsertAll, range by range. *)
LEMMA InsertAllRuns ==
    ASSUME NEW s \in CharSet, NEW t \in CharSet
    PROVE  \E g :
              /\ g \in [0 .. Len(t) -> CharSet]
              /\ g[0] = s
              /\ \A k \in 1 .. Len(t) : g[k] = Insert(g[k - 1], t[k])
              /\ InsertAll(s, t) = g[Len(t)]
<1> DEFINE n == Len(t)
           step == [p \in (1 .. n) \X CharSet |-> Insert(p[2], t[p[1]])]
           Eq(f) == f = [T \in SUBSET DOMAIN t |->
                           IF T = {} THEN s
                           ELSE Insert(f[T \ {Max(T)}], t[Max(T)])]
           f == CHOOSE f : Eq(f)
<1>1. n \in Nat /\ DOMAIN t = 1 .. n /\ \A k \in 1 .. n : IsRange(t[k])
  BY CharSetRanges
<1>2. s \in CharSet
  OBVIOUS
<1>3. step \in StepFcn(n, CharSet)
  BY <1>1, InsertExact DEF StepFcn
<1> HIDE DEF n
<1>4. \A i \in 1 .. n : \A x \in CharSet :
         step[<<i, x>>] = Insert(x, t[i])
  OBVIOUS
<1> HIDE DEF step
<1>5. PICK h : FoldsSets(h, n, CharSet, s, step)
  BY <1>1, <1>2, <1>3, SetRecursion
<1>6. Eq(h)
  <2>1. \A T \in SUBSET (1 .. n) : T # {} =>
           Max(T) \in 1 .. n /\ h[T \ {Max(T)}] \in CharSet
    BY <1>1, <1>5, MaxOfNumbers DEF FoldsSets
  <2>2. \A T \in SUBSET (1 .. n) : T # {} =>
           h[T] = Insert(h[T \ {Max(T)}], t[Max(T)])
    BY <1>4, <1>5, <2>1 DEF FoldsSets
  <2>3. h[{}] = s /\ h = [T \in SUBSET (1 .. n) |-> h[T]]
    BY <1>5 DEF FoldsSets
  <2> QED
    BY <1>1, <2>2, <2>3
<1>7. Eq(f)
  BY <1>6
<1> HIDE DEF f
<1>8. f[1 .. 0] = s
  BY <1>1, <1>7
<1>9. \A k \in 1 .. n : f[1 .. k] = Insert(f[1 .. k - 1], t[k])
  <2> TAKE k \in 1 .. n
  <2>1. /\ 1 .. k \in SUBSET DOMAIN t /\ 1 .. k # {}
        /\ Max(1 .. k) = k /\ (1 .. k) \ {k} = 1 .. k - 1
    BY <1>1, MaxOfPrefix
  <2>2. f[1 .. k] = Insert(f[(1 .. k) \ {Max(1 .. k)}], t[Max(1 .. k)])
    BY <1>7, <2>1
  <2> QED
    BY <2>1, <2>2
<1>10. \A k \in 1 .. n : f[1 .. k - 1] \in CharSet =>
          f[1 .. k] = step[<<k, f[1 .. k - 1]>>]
  BY <1>4, <1>9
<1>11. PICK g : /\ Unrolls(g, n, CharSet, s, step)
                /\ g[n] = f[1 .. n]
  BY <1>1, <1>2, <1>3, <1>8, <1>10, FoldRun
<1>12. InsertAll(s, t) = f[1 .. n]
  BY <1>1 DEF InsertAll, FoldLeft, MapThenFoldSet, f
<1>13. \A k \in 1 .. n : g[k - 1] \in CharSet
  BY <1>1, <1>11 DEF Unrolls
<1> QED
  BY <1>4, <1>11, <1>12, <1>13 DEF Unrolls, n

(* The union of two sets. *)
LEMMA InsertAllExact ==
    ASSUME NEW s \in CharSet, NEW t \in CharSet
    PROVE  /\ InsertAll(s, t) \in CharSet
           /\ \A c : c \in Chars(InsertAll(s, t)) <=> c \in Chars(s) \/ c \in Chars(t)
<1> DEFINE n == Len(t)
<1>1. t \in Seq(Pair) /\ n \in Nat /\ \A k \in 1 .. n : IsRange(t[k])
  BY CharSetRanges
<1>2. PICK g : /\ g \in [0 .. n -> CharSet]
               /\ g[0] = s
               /\ \A k \in 1 .. n : g[k] = Insert(g[k - 1], t[k])
               /\ InsertAll(s, t) = g[n]
  BY InsertAllRuns
<1> DEFINE P == {k \in 0 .. n :
                   \A c : c \in Chars(g[k]) <=>
                             \/ c \in Chars(s)
                             \/ c \in Int /\ \E m \in 1 .. k : In(c, t[m])}
<1> HIDE DEF n
<1>3. 0 \in P
  BY <1>1, <1>2
<1>4. ASSUME NEW k \in 0 .. n, k \in P, k < n
      PROVE  k + 1 \in P
  <2>1. k + 1 \in 1 .. n /\ (k + 1) - 1 = k
    BY <1>1, <1>4
  <2>2. g[k] \in CharSet /\ g[k + 1] = Insert(g[k], t[k + 1]) /\ IsRange(t[k + 1])
    BY <1>1, <1>2, <2>1
  <2>3. \A c : c \in Chars(g[k + 1])
               <=> c \in Chars(g[k]) \/ (c \in Int /\ In(c, t[k + 1]))
    BY <2>2, InsertExact
  <2>4. \A m : m \in 1 .. k + 1 <=> m = k + 1 \/ m \in 1 .. k
    BY <1>1
  <2>5. \A c : (\E m \in 1 .. k + 1 : In(c, t[m]))
               <=> In(c, t[k + 1]) \/ \E m \in 1 .. k : In(c, t[m])
    BY <2>4
  <2>6. \A c : c \in Chars(g[k + 1]) <=>
                  \/ c \in Chars(s)
                  \/ c \in Int /\ \E m \in 1 .. k + 1 : In(c, t[m])
    BY <1>4, <2>3, <2>5
  <2> QED
    BY <2>1, <2>6
<1>5. n \in P
  <2>1. 0 .. n \subseteq P
    <3> HIDE DEF P
    <3>1. \A k \in 0 .. n : k \in P /\ k < n => k + 1 \in P
      BY <1>4
    <3> QED
      BY <1>1, <1>3, <3>1, RangeInduction
  <2> QED
    BY <1>1, <2>1
<1>6. \A c : c \in Chars(t) <=> c \in Int /\ \E m \in 1 .. n : In(c, t[m])
  BY <1>1, InChars DEF n
<1> QED
  BY <1>1, <1>2, <1>5, <1>6

-----------------------------------------------------------------------------
(* Equal sets are equal sequences.                                         *)

LEMMA RangeNumbers ==
    ASSUME NEW s \in CharSet, NEW k \in 1 .. Len(s)
    PROVE  /\ s[k][1] \in Int /\ s[k][2] \in Int /\ s[k][1] <= s[k][2]
           /\ k \in Nat /\ k >= 1
<1>1. Len(s) \in Nat /\ s[k][1] \in Char /\ s[k][2] \in Char /\ s[k][1] <= s[k][2]
  BY CharSetRanges
<1>2. \A c \in Char : c \in Int
  BY CharBounds
<1>3. s[k][1] \in Int /\ s[k][2] \in Int
  BY <1>1, <1>2
<1>4. k \in Nat /\ k >= 1
  BY <1>1
<1> QED
  BY <1>1, <1>3, <1>4

(* Ranges of a part of t, alike so far, cannot start before those of t. *)
LEMMA RangeStart ==
    ASSUME NEW s \in CharSet, NEW t \in CharSet, NEW k \in 1 .. Len(s),
           \A c : c \in Chars(s) => c \in Chars(t),
           \A m \in 1 .. Len(t) : m < k => m \in 1 .. Len(s) /\ s[m] = t[m]
    PROVE  k \in 1 .. Len(t) /\ t[k][1] <= s[k][1]
<1>1. /\ s \in Seq(Pair) /\ t \in Seq(Pair) /\ Len(t) \in Nat /\ k \in Nat /\ k >= 1
      /\ s[k][1] \in Int /\ s[k][2] \in Int /\ s[k][1] <= s[k][2]
  BY CharSetRanges, RangeNumbers
<1>2. s[k][1] \in Chars(s)
  BY <1>1, InChars DEF In
<1>3. PICK m \in 1 .. Len(t) : In(s[k][1], t[m])
  BY <1>1, <1>2, InChars
<1>4. ~ (m < k)
  <2> SUFFICES ASSUME m < k PROVE FALSE
    OBVIOUS
  <2>1. m \in 1 .. Len(s) /\ s[m] = t[m]
    OBVIOUS
  <2>2. s[m][2] + 1 < s[k][1] /\ s[m][2] \in Int
    BY <2>1, CharSetRanges, CharBounds
  <2>3. s[k][1] <= s[m][2]
    BY <1>3, <2>1 DEF In
  <2> QED
    BY <1>1, <2>2, <2>3
<1>5. k \in 1 .. Len(t)
  BY <1>1, <1>4
<1>6. t[m][1] <= s[k][1] /\ t[m][1] \in Int /\ t[k][1] \in Int /\ t[k][2] \in Int
      /\ t[k][1] <= t[k][2]
  BY <1>3, <1>5, CharSetRanges, CharBounds DEF In
<1>7. m = k \/ t[k][2] + 1 < t[m][1]
  <2>1. m = k \/ k < m
    BY <1>1, <1>4
  <2> QED
    BY <1>5, <2>1, CharSetRanges
<1> QED
  BY <1>1, <1>5, <1>6, <1>7

(* Nor can they end behind them: there is a gap behind a range. *)
LEMMA RangeEnd ==
    ASSUME NEW s \in CharSet, NEW t \in CharSet,
           NEW k \in 1 .. Len(s), k \in 1 .. Len(t),
           \A c : c \in Chars(t) => c \in Chars(s),
           s[k][1] = t[k][1]
    PROVE  t[k][2] <= s[k][2]
<1>1. /\ s \in Seq(Pair) /\ t \in Seq(Pair) /\ Len(s) \in Nat /\ k \in Nat
      /\ s[k][1] \in Int /\ s[k][2] \in Int /\ s[k][1] <= s[k][2]
      /\ t[k][1] \in Int /\ t[k][2] \in Int /\ t[k][1] <= t[k][2]
  BY CharSetRanges, RangeNumbers
<1> SUFFICES ASSUME s[k][2] < t[k][2] PROVE FALSE
  BY <1>1
<1> DEFINE d == s[k][2] + 1
<1>2. d \in Int /\ In(d, t[k])
  BY <1>1 DEF In
<1>3. d \in Chars(s)
  BY <1>1, <1>2, InChars
<1>4. PICK m \in 1 .. Len(s) : In(d, s[m])
  BY <1>1, <1>3, InChars
<1>5. s[m][1] \in Int /\ s[m][2] \in Int /\ s[m][1] <= d /\ d <= s[m][2]
  BY <1>4, CharSetRanges, CharBounds DEF In
<1>6. m = k \/ s[m][2] + 1 < s[k][1] \/ s[k][2] + 1 < s[m][1]
  <2>1. m = k \/ m < k \/ k < m
    BY <1>1
  <2> QED
    BY <2>1, CharSetRanges
<1> QED
  BY <1>1, <1>5, <1>6

(* Normal form: sets with the same characters are the same sequence, so a  *)
(* set can index a map.                                                    *)
THEOREM EqualSets ==
    ASSUME NEW s \in CharSet, NEW t \in CharSet,
           \A c : c \in Chars(s) <=> c \in Chars(t)
    PROVE  s = t
<1>1. /\ s \in Seq(Pair) /\ t \in Seq(Pair) /\ Len(s) \in Nat /\ Len(t) \in Nat
  BY CharSetRanges
<1> DEFINE n == Len(s)
           P == {k \in 0 .. n : k <= Len(t) /\ \A m \in 1 .. k : s[m] = t[m]}
<1>2. 0 \in P
  BY <1>1
<1>3. ASSUME NEW k \in 0 .. n, k \in P, k < n
      PROVE  k + 1 \in P
  <2> DEFINE i == k + 1
  <2>1. i \in 1 .. n /\ k \in Nat
    BY <1>1, <1>3
  <2>2. \A m \in 1 .. Len(t) : m < i => m \in 1 .. n /\ s[m] = t[m]
    BY <1>1, <1>3
  <2>3. \A m \in 1 .. n : m < i => m \in 1 .. Len(t) /\ t[m] = s[m]
    BY <1>1, <1>3
  <2> HIDE DEF i
  <2>4. i \in 1 .. Len(t) /\ t[i][1] <= s[i][1]
    BY <2>1, <2>2, RangeStart
  <2>5. s[i][1] <= t[i][1]
    BY <2>3, <2>4, RangeStart
  <2>6. /\ s[i] \in Pair /\ t[i] \in Pair
        /\ s[i][1] \in Int /\ s[i][2] \in Int /\ t[i][1] \in Int /\ t[i][2] \in Int
    BY <2>1, <2>4, CharSetRanges, CharBounds
  <2>7. s[i][1] = t[i][1]
    BY <2>4, <2>5, <2>6
  <2>8. t[i][2] <= s[i][2]
    BY <2>1, <2>4, <2>7, RangeEnd
  <2>9. s[i][2] <= t[i][2]
    BY <2>1, <2>4, <2>7, RangeEnd
  <2>10. s[i] = t[i]
    BY <2>6, <2>7, <2>8, <2>9 DEF Pair
  <2>11. \A m \in 1 .. k + 1 : m = i \/ m \in 1 .. k
    BY <2>1 DEF i
  <2>12. i <= Len(t) /\ \A m \in 1 .. i : s[m] = t[m]
    BY <1>1, <1>3, <2>4, <2>10, <2>11 DEF i
  <2> QED
    BY <2>1, <2>12 DEF i
<1>4. n \in P
  <2>1. 0 .. n \subseteq P
    <3> HIDE DEF P, n
    <3>1. \A k \in 0 .. n : k \in P /\ k < n => k + 1 \in P
      BY <1>3
    <3> QED
      BY <1>1, <1>2, <3>1, RangeInduction DEF n
  <2> QED
    BY <1>1, <2>1
<1>5. Len(t) <= n
  <2> SUFFICES ASSUME n < Len(t) PROVE FALSE
    BY <1>1
  <2>1. n + 1 \in 1 .. Len(t)
    BY <1>1
  <2>2. \A m \in 1 .. Len(s) : m < n + 1 => m \in 1 .. Len(t) /\ t[m] = s[m]
    BY <1>1, <1>4
  <2>3. n + 1 \in 1 .. Len(s)
    <3> DEFINE i == n + 1
    <3>1. i \in 1 .. Len(t) /\ \A m \in 1 .. Len(s) : m < i => m \in 1 .. Len(t) /\ t[m] = s[m]
      BY <2>1, <2>2
    <3> HIDE DEF i
    <3>2. i \in 1 .. Len(s)
      BY <3>1, RangeStart
    <3> QED
      BY <3>2 DEF i
  <2> QED
    BY <1>1, <2>3
<1>6. Len(s) = Len(t) /\ \A m \in 1 .. Len(s) : s[m] = t[m]
  BY <1>1, <1>4, <1>5
<1> QED
  BY <1>1, <1>6

-----------------------------------------------------------------------------
(* Negate: the gaps. *)

GapStates == [next : Nat, out : CharSet]
NegateStart == [next |-> 0, out |-> <<>>]

(* One gap of a complement. *)
LEMMA GapTyped ==
    ASSUME NEW st \in GapStates, NEW x, IsRange(x)
    PROVE  /\ Gap(st, x) \in GapStates
           /\ Gap(st, x).next = x[2] + 1
           /\ \A c : c \in Chars(Gap(st, x).out) <=>
                        \/ c \in Chars(st.out)
                        \/ c \in Int /\ st.next <= c /\ c < x[1]
<1>1. /\ x[1] \in Char /\ x[2] \in Char /\ x[1] <= x[2]
      /\ st.next \in Nat /\ st.out \in CharSet
  BY RangeElements DEF IsRange, GapStates
<1>2. x[1] \in Nat /\ x[2] \in Nat /\ x[1] <= MAX_VAL /\ MAX_VAL \in Nat
  BY <1>1, CharAssumption DEF Char
<1>3. CASE st.next < x[1]
  <2> DEFINE r == <<st.next, x[1] - 1>>
  <2>1. st.next \in Char /\ x[1] - 1 \in Char /\ st.next <= x[1] - 1
    BY <1>1, <1>2, <1>3 DEF Char
  <2>2. IsRange(r) /\ r[1] = st.next /\ r[2] = x[1] - 1
    BY <2>1 DEF IsRange, Pair
  <2> HIDE DEF r
  <2>3. /\ Insert(st.out, r) \in CharSet
        /\ \A c : c \in Chars(Insert(st.out, r))
                  <=> c \in Chars(st.out) \/ (c \in Int /\ In(c, r))
    BY <1>1, <2>2, InsertExact
  <2>4. Gap(st, x) = [next |-> x[2] + 1, out |-> Insert(st.out, r)]
    BY <1>3 DEF Gap, r
  <2>5. \A c \in Int : In(c, r) <=> st.next <= c /\ c < x[1]
    BY <1>1, <1>2, <2>2 DEF In
  <2> QED
    BY <1>2, <2>3, <2>4, <2>5 DEF GapStates
<1>4. CASE ~ (st.next < x[1])
  <2>1. Gap(st, x) = [next |-> x[2] + 1, out |-> st.out]
    BY <1>4 DEF Gap
  <2>2. \A c \in Int : ~ (st.next <= c /\ c < x[1])
    BY <1>1, <1>2, <1>4
  <2> QED
    BY <1>1, <1>2, <2>1, <2>2 DEF GapStates
<1> QED
  BY <1>3, <1>4

(* Negate, gap by gap. *)
LEMMA GapRuns ==
    ASSUME NEW s \in CharSet
    PROVE  \E g :
              /\ g \in [0 .. Len(s) -> GapStates]
              /\ g[0] = NegateStart
              /\ \A k \in 1 .. Len(s) : g[k] = Gap(g[k - 1], s[k])
              /\ FoldLeft(Gap, NegateStart, s) = g[Len(s)]
<1> DEFINE n == Len(s)
           step == [p \in (1 .. n) \X GapStates |-> Gap(p[2], s[p[1]])]
           Eq(f) == f = [T \in SUBSET DOMAIN s |->
                           IF T = {} THEN NegateStart
                           ELSE Gap(f[T \ {Max(T)}], s[Max(T)])]
           f == CHOOSE f : Eq(f)
<1>1. n \in Nat /\ DOMAIN s = 1 .. n /\ \A k \in 1 .. n : IsRange(s[k])
  BY CharSetRanges
<1>2. NegateStart \in GapStates
  BY EmptyCharSet DEF NegateStart, GapStates
<1>3. step \in StepFcn(n, GapStates)
  BY <1>1, GapTyped DEF StepFcn
<1> HIDE DEF n
<1>4. \A i \in 1 .. n : \A x \in GapStates :
         step[<<i, x>>] = Gap(x, s[i])
  OBVIOUS
<1> HIDE DEF step
<1>5. PICK h : FoldsSets(h, n, GapStates, NegateStart, step)
  BY <1>1, <1>2, <1>3, SetRecursion
<1>6. Eq(h)
  <2>1. \A T \in SUBSET (1 .. n) : T # {} =>
           Max(T) \in 1 .. n /\ h[T \ {Max(T)}] \in GapStates
    BY <1>1, <1>5, MaxOfNumbers DEF FoldsSets
  <2>2. \A T \in SUBSET (1 .. n) : T # {} =>
           h[T] = Gap(h[T \ {Max(T)}], s[Max(T)])
    BY <1>4, <1>5, <2>1 DEF FoldsSets
  <2>3. h[{}] = NegateStart /\ h = [T \in SUBSET (1 .. n) |-> h[T]]
    BY <1>5 DEF FoldsSets
  <2> QED
    BY <1>1, <2>2, <2>3
<1>7. Eq(f)
  BY <1>6
<1> HIDE DEF f
<1>8. f[1 .. 0] = NegateStart
  BY <1>1, <1>7
<1>9. \A k \in 1 .. n : f[1 .. k] = Gap(f[1 .. k - 1], s[k])
  <2> TAKE k \in 1 .. n
  <2>1. /\ 1 .. k \in SUBSET DOMAIN s /\ 1 .. k # {}
        /\ Max(1 .. k) = k /\ (1 .. k) \ {k} = 1 .. k - 1
    BY <1>1, MaxOfPrefix
  <2>2. f[1 .. k] = Gap(f[(1 .. k) \ {Max(1 .. k)}], s[Max(1 .. k)])
    BY <1>7, <2>1
  <2> QED
    BY <2>1, <2>2
<1>10. \A k \in 1 .. n : f[1 .. k - 1] \in GapStates =>
          f[1 .. k] = step[<<k, f[1 .. k - 1]>>]
  BY <1>4, <1>9
<1>11. PICK g : /\ Unrolls(g, n, GapStates, NegateStart, step)
                /\ g[n] = f[1 .. n]
  BY <1>1, <1>2, <1>3, <1>8, <1>10, FoldRun
<1>12. FoldLeft(Gap, NegateStart, s) = f[1 .. n]
  BY <1>1 DEF FoldLeft, MapThenFoldSet, f
<1>13. \A k \in 1 .. n : g[k - 1] \in GapStates
  BY <1>1, <1>11 DEF Unrolls
<1> QED
  BY <1>4, <1>11, <1>12, <1>13 DEF Unrolls, n

(* A set and its complement.                                               *)
THEOREM NegateExact ==
    ASSUME NEW s \in CharSet
    PROVE  /\ Negate(s) \in CharSet
           /\ \A c : c \in Chars(Negate(s)) <=> c \in Char /\ c \notin Chars(s)
<1> DEFINE n == Len(s)
           Held(c, k) == \E m \in 1 .. k : In(c, s[m])
<1>1. s \in Seq(Pair) /\ n \in Nat /\ \A k \in 1 .. n : IsRange(s[k])
  BY CharSetRanges
<1>2. PICK g : /\ g \in [0 .. n -> GapStates]
               /\ g[0] = NegateStart
               /\ \A k \in 1 .. n : g[k] = Gap(g[k - 1], s[k])
               /\ FoldLeft(Gap, NegateStart, s) = g[n]
  BY GapRuns
<1> DEFINE Inv(k) ==
             /\ g[k].next <= MAX_VAL + 1
             /\ \A m \in 1 .. k : s[m][2] < g[k].next
             /\ \A p \in k + 1 .. n : g[k].next <= s[p][1]
             /\ \A c \in Int : c \in Chars(g[k].out) <=>
                                  0 <= c /\ c < g[k].next /\ ~ Held(c, k)
           P == {k \in 0 .. n : Inv(k)}
<1>3. 0 \in P
  <2>1. g[0].next = 0 /\ g[0].out = <<>>
    BY <1>2 DEF NegateStart
  <2>2. \A p \in 1 .. n : s[p][1] \in Nat
    BY CharSetRanges, CharBounds
  <2>3. \A c \in Int : c \notin Chars(g[0].out) /\ ~ (0 <= c /\ c < 0)
    BY <2>1, EmptyCharSet
  <2> QED
    BY <1>1, <2>1, <2>2, <2>3, CharAssumption
<1>4. ASSUME NEW k \in 0 .. n, k \in P, k < n
      PROVE  k + 1 \in P
  <2> DEFINE i == k + 1
             x == s[i]
             now == g[k].next
             next == g[i].next
  <2>1. i \in 1 .. n /\ k \in Nat /\ i - 1 = k /\ i \in k + 1 .. n
    BY <1>1, <1>4
  <2>2. g[k] \in GapStates /\ g[i] = Gap(g[k], x) /\ IsRange(x)
    BY <1>1, <1>2, <2>1
  <2>3. /\ g[i] \in GapStates
        /\ next = x[2] + 1
        /\ \A c : c \in Chars(g[i].out) <=>
                     c \in Chars(g[k].out) \/ (c \in Int /\ now <= c /\ c < x[1])
    BY <2>2, GapTyped
  <2>4. /\ x[1] \in Nat /\ x[2] \in Nat /\ x[1] <= x[2] /\ x[2] <= MAX_VAL
        /\ now \in Nat /\ MAX_VAL \in Nat
    <3>1. x[1] \in Char /\ x[2] \in Char /\ x[1] <= x[2] /\ now \in Nat
      BY <2>1, <2>2, CharSetRanges DEF GapStates
    <3> HIDE DEF x, now
    <3> QED
      BY <3>1, CharAssumption DEF Char
  <2>5. /\ \A m \in 1 .. k : s[m][2] < now
        /\ \A p \in k + 1 .. n : now <= s[p][1]
        /\ \A c \in Int : c \in Chars(g[k].out) <=>
                             0 <= c /\ c < now /\ ~ Held(c, k)
    BY <1>4
  <2>6. \A m : m \in 1 .. i <=> m = i \/ m \in 1 .. k
    BY <2>1
  <2>7. \A m \in 1 .. k : s[m][1] \in Int /\ s[m][2] \in Int
    <3>1. \A m \in 1 .. k : m \in 1 .. Len(s)
      BY <1>1, <2>1
    <3> QED
      BY <3>1, RangeNumbers
  <2>8. now <= x[1]
    BY <2>1, <2>5
  <2>9. \A c \in Int : Held(c, i) <=> Held(c, k) \/ In(c, x)
    BY <2>6
  <2>10. \A c \in Int : now <= c => ~ Held(c, k)
    <3> TAKE c \in Int
    <3> SUFFICES ASSUME now <= c, NEW m \in 1 .. k, In(c, s[m])
                 PROVE  FALSE
      OBVIOUS
    <3> HIDE DEF now
    <3> QED
      BY <2>4, <2>5, <2>7 DEF In
  <2>11. \A c \in Int : c \in Chars(g[i].out) <=>
                            0 <= c /\ c < next /\ ~ Held(c, i)
    <3> TAKE c \in Int
    <3>1. c \in Chars(g[i].out) <=>
             (0 <= c /\ c < now /\ ~ Held(c, k)) \/ (now <= c /\ c < x[1])
      BY <2>3, <2>5
    <3>2. Held(c, i) <=> Held(c, k) \/ (x[1] <= c /\ c <= x[2])
      BY <2>9 DEF In
    <3>3. now <= c => ~ Held(c, k)
      BY <2>10
    <3> HIDE DEF now, next, Held
    <3> QED
      BY <2>3, <2>4, <2>8, <3>1, <3>2, <3>3 DEF next
  <2>12. next <= MAX_VAL + 1
    BY <2>3, <2>4
  <2>13. \A m \in 1 .. i : s[m][2] < next
    <3> TAKE m \in 1 .. i
    <3>1. CASE m = i
      BY <2>3, <2>4, <3>1
    <3>2. CASE m \in 1 .. k
      <4>1. s[m][2] < now /\ s[m][2] \in Int
        BY <2>5, <2>7, <3>2
      <4> HIDE DEF now, next
      <4> QED
        BY <2>3, <2>4, <2>8, <4>1
    <3> QED
      BY <2>6, <3>1, <3>2
  <2>14. \A p \in i + 1 .. n : next <= s[p][1]
    <3> TAKE p \in i + 1 .. n
    <3>1. p \in 1 .. n /\ i < p
      BY <1>1, <2>1
    <3>2. x[2] + 1 < s[p][1] /\ s[p][1] \in Int
      BY <2>1, <3>1, CharSetRanges, RangeNumbers
    <3> HIDE DEF next
    <3> QED
      BY <2>3, <2>4, <3>2
  <2>15. Inv(i)
    BY <2>11, <2>12, <2>13, <2>14
  <2> HIDE DEF Inv
  <2> QED
    BY <2>1, <2>15
<1>5. n \in P
  <2>1. 0 .. n \subseteq P
    <3> HIDE DEF P, n
    <3>1. \A k \in 0 .. n : k \in P /\ k < n => k + 1 \in P
      BY <1>4
    <3> QED
      BY <1>1, <1>3, <3>1, RangeInduction
  <2> QED
    BY <1>1, <2>1
<1> DEFINE last == g[n].next
           rest == g[n].out
<1>6. /\ last \in Nat /\ last <= MAX_VAL + 1 /\ rest \in CharSet
      /\ \A m \in 1 .. n : s[m][2] < last
      /\ \A c \in Int : c \in Chars(rest) <=> 0 <= c /\ c < last /\ ~ Held(c, n)
  <2>1. g[n] \in GapStates
    BY <1>1, <1>2
  <2> QED
    BY <1>5, <2>1 DEF GapStates
<1>7. \A c : c \in Chars(s) <=> c \in Int /\ Held(c, n)
  BY <1>1, InChars
<1>8. \A c \in Int : last <= c => ~ Held(c, n)
  <2> TAKE c \in Int
  <2> SUFFICES ASSUME last <= c, NEW m \in 1 .. n, In(c, s[m])
               PROVE  FALSE
    OBVIOUS
  <2>1. s[m][2] \in Int /\ s[m][2] < last
    BY <1>6, RangeNumbers
  <2> HIDE DEF last
  <2> QED
    BY <1>6, <2>1 DEF In
<1>9. \A c : c \in Chars(rest) => c \in Int
  BY <1>6, CharSetRanges, InChars
<1>10. Negate(s) = IF last <= MAX_VAL THEN Insert(rest, <<last, MAX_VAL>>) ELSE rest
  BY <1>2 DEF Negate, NegateStart
<1> HIDE DEF Held
<1> HIDE DEF last, rest, n
<1>11. CASE last <= MAX_VAL
  <2> DEFINE r == <<last, MAX_VAL>>
  <2>1. IsRange(r) /\ r[1] = last /\ r[2] = MAX_VAL
    BY <1>6, <1>11, CharAssumption DEF IsRange, Pair, Char
  <2> HIDE DEF r
  <2>2. /\ Insert(rest, r) \in CharSet
        /\ \A c : c \in Chars(Insert(rest, r))
                  <=> c \in Chars(rest) \/ (c \in Int /\ In(c, r))
    BY <1>6, <2>1, InsertExact
  <2>3. \A c \in Int : In(c, r) <=> last <= c /\ c <= MAX_VAL
    BY <2>1 DEF In
  <2>4. \A c : c \in Chars(Insert(rest, r)) <=> c \in Char /\ c \notin Chars(s)
    <3> TAKE c
    <3>1. CASE c \in Int
      <4>1. c \in Chars(Insert(rest, r)) <=>
               (0 <= c /\ c < last /\ ~ Held(c, n)) \/ (last <= c /\ c <= MAX_VAL)
        BY <1>6, <2>2, <2>3, <3>1
      <4>2. c \in Char <=> 0 <= c /\ c <= MAX_VAL
        BY <3>1, CharAssumption DEF Char
      <4>3. c \in Chars(s) <=> Held(c, n)
        BY <1>7, <3>1
      <4>4. last <= c => ~ Held(c, n)
        BY <1>8, <3>1
      <4> QED
        BY <1>6, <1>11, <3>1, <4>1, <4>2, <4>3, <4>4, CharAssumption
    <3>2. CASE c \notin Int
      BY <1>9, <2>2, <3>2, CharBounds
    <3> QED
      BY <3>1, <3>2
  <2> QED
    BY <1>10, <1>11, <2>2, <2>4 DEF r
<1>12. CASE ~ (last <= MAX_VAL)
  <2>1. last = MAX_VAL + 1
    BY <1>6, <1>12, CharAssumption
  <2>2. \A c : c \in Chars(rest) <=> c \in Char /\ c \notin Chars(s)
    <3> TAKE c
    <3>1. CASE c \in Int
      <4>1. c \in Chars(rest) <=> (0 <= c /\ c < last /\ ~ Held(c, n))
        BY <1>6, <3>1
      <4>2. c \in Char <=> 0 <= c /\ c < last
        BY <2>1, <3>1, CharAssumption DEF Char
      <4>3. c \in Chars(s) <=> Held(c, n)
        BY <1>7, <3>1
      <4> QED
        BY <4>1, <4>2, <4>3
    <3>2. CASE c \notin Int
      BY <1>9, <3>2, CharBounds
    <3> QED
      BY <3>1, <3>2
  <2> QED
    BY <1>6, <1>10, <1>12, <2>2
<1> QED
  BY <1>11, <1>12

-----------------------------------------------------------------------------
(* Sets put together from parts.                                           *)

(* A range alone.                                                          *)
LEMMA OneRange ==
    ASSUME NEW r, IsRange(r)
    PROVE  /\ <<r>> \in CharSet /\ Len(<<r>>) = 1 /\ <<r>>[1] = r
           /\ \A c : c \in Chars(<<r>>) <=> c \in Int /\ In(c, r)
<1>1. /\ <<>> \in CharSet /\ Len(<<>>) = 0 /\ 1 .. 0 = {} /\ \A c : c \notin Chars(<<>>)
      /\ Append(<<>>, r) = <<r>>
  BY EmptyCharSet
<1>2. /\ Append(<<>>, r) \in CharSet
      /\ \A c : c \in Chars(Append(<<>>, r)) <=> c \in Chars(<<>>) \/ (c \in Int /\ In(c, r))
  <2>1. \A q \in 1 .. Len(<<>>) : <<>>[q][2] + 1 < r[1]
    BY <1>1
  <2> QED
    BY <1>1, <2>1, AppendRange
<1> QED
  BY <1>1, <1>2

(* What a range holds. *)
LEMMA SameChars ==
    ASSUME NEW r, IsRange(r)
    PROVE  /\ r[1] \in Int /\ r[2] \in Int /\ r[1] <= r[2]
           /\ \A c \in Int : In(c, r) <=> r[1] <= c /\ c <= r[2]
           /\ In(r[1], r) /\ In(r[2], r)
<1>1. r[1] \in Char /\ r[2] \in Char /\ r[1] <= r[2]
  BY RangeElements DEF IsRange
<1>2. r[1] \in Int /\ r[2] \in Int
  BY <1>1, CharBounds
<1> QED
  BY <1>1, <1>2 DEF In

(* A stretch of the ranges of a set is a set. *)
LEMMA SubRanges ==
    ASSUME NEW s \in CharSet, NEW i \in Nat, NEW j \in Nat,
           1 <= i, i <= j + 1, j <= Len(s)
    PROVE  /\ SubSeq(s, i, j) \in CharSet
           /\ Len(SubSeq(s, i, j)) = j - i + 1
           /\ \A k \in 1 .. j - i + 1 : SubSeq(s, i, j)[k] = s[i + k - 1]
           /\ \A c : c \in Chars(SubSeq(s, i, j))
                     <=> c \in Int /\ \E k \in i .. j : In(c, s[k])
<1> DEFINE n == Len(s)
           m == j - i + 1
           t == SubSeq(s, i, j)
<1>1. s \in Seq(Pair) /\ n \in Nat /\ m \in Nat
  BY CharSetRanges
<1>2. t \in Seq(Pair) /\ Len(t) = m /\ \A k \in 1 .. m : t[k] = s[i + k - 1]
  <2>1. \A k \in i .. j : k \in 1 .. n
    BY <1>1
  <2>2. t \in Seq(Pair) /\ Len(t) = m
    <3>1. \A k \in i .. j : s[k] \in Pair
      BY <1>1, <2>1
    <3> QED
      BY <1>1, <3>1
  <2>3. \A k \in 1 .. m : t[k] = s[i + k - 1]
    BY <1>1
  <2> QED
    BY <2>2, <2>3
<1>3. \A k \in 1 .. m : i + k - 1 \in 1 .. n /\ i + k - 1 \in i .. j
  BY <1>1
<1>4. \A k \in i .. j : k - i + 1 \in 1 .. m /\ i + (k - i + 1) - 1 = k
  BY <1>1
<1>5. \A k, l \in 1 .. m : k < l => i + k - 1 < i + l - 1
  BY <1>1
<1> HIDE DEF m, t, n
<1>6. \A k \in 1 .. m : IsRange(t[k])
  BY <1>2, <1>3, CharSetRanges DEF n
<1>7. ASSUME NEW k \in 1 .. m, NEW l \in 1 .. m, k < l
      PROVE  t[k][2] + 1 < t[l][1]
  BY <1>2, <1>3, <1>5, <1>7, CharSetRanges DEF n
<1>8. t \in CharSet
  BY <1>2, <1>6, <1>7, NormalForm
<1>9. \A c : c \in Chars(t) <=> c \in Int /\ \E k \in 1 .. m : In(c, t[k])
  BY <1>2, InChars
<1>10. \A c : (\E k \in 1 .. m : In(c, t[k])) <=> \E k \in i .. j : In(c, s[k])
  <2> TAKE c
  <2>1. ASSUME NEW k \in 1 .. m, In(c, t[k])
        PROVE  \E l \in i .. j : In(c, s[l])
    BY <1>2, <1>3, <2>1
  <2>2. ASSUME NEW k \in i .. j, In(c, s[k])
        PROVE  \E l \in 1 .. m : In(c, t[l])
    <3>1. t[k - i + 1] = s[k] /\ k - i + 1 \in 1 .. m
      BY <1>2, <1>4
    <3> QED
      BY <2>2, <3>1
  <2> QED
    BY <2>1, <2>2
<1> QED
  BY <1>2, <1>8, <1>9, <1>10 DEF m, t

(* Two sets with a gap between them, end to end, are a set. *)
LEMMA ConcatSets ==
    ASSUME NEW s \in CharSet, NEW t \in CharSet,
           \A c, d \in Int : c \in Chars(s) /\ d \in Chars(t) => c + 1 < d
    PROVE  /\ s \o t \in CharSet
           /\ Len(s \o t) = Len(s) + Len(t)
           /\ \A k \in 1 .. Len(s) : (s \o t)[k] = s[k]
           /\ \A k \in 1 .. Len(t) : (s \o t)[Len(s) + k] = t[k]
           /\ \A c : c \in Chars(s \o t) <=> c \in Chars(s) \/ c \in Chars(t)
<1> DEFINE n == Len(s)
           m == Len(t)
           u == s \o t
<1>1. s \in Seq(Pair) /\ t \in Seq(Pair) /\ n \in Nat /\ m \in Nat
  BY CharSetRanges
<1>2. /\ u \in Seq(Pair) /\ Len(u) = n + m
      /\ \A k \in 1 .. n : u[k] = s[k]
      /\ \A k \in 1 .. m : u[n + k] = t[k]
  BY <1>1
<1>3. \A k \in 1 .. n + m : k \in 1 .. n \/ (k - n \in 1 .. m /\ n + (k - n) = k)
  BY <1>1
<1>4. /\ \A k \in 1 .. n : k \in 1 .. n + m
      /\ \A k \in 1 .. m : n + k \in 1 .. n + m
  BY <1>1
<1>5. ASSUME NEW q \in 1 .. n, NEW p \in 1 .. m
      PROVE  s[q][2] + 1 < t[p][1]
  <2>1. IsRange(s[q]) /\ IsRange(t[p])
    BY CharSetRanges
  <2>2. s[q][2] \in Int /\ In(s[q][2], s[q]) /\ t[p][1] \in Int /\ In(t[p][1], t[p])
    BY <2>1, SameChars
  <2>3. s[q][2] \in Chars(s) /\ t[p][1] \in Chars(t)
    BY <1>1, <2>2, InChars
  <2> QED
    BY <2>2, <2>3
<1>6. \A c : c \in Chars(s) <=> c \in Int /\ \E k \in 1 .. n : In(c, s[k])
  BY <1>1, InChars
<1>7. \A c : c \in Chars(t) <=> c \in Int /\ \E k \in 1 .. m : In(c, t[k])
  BY <1>1, InChars
<1>8. \A k \in 1 .. n : IsRange(s[k])
  BY CharSetRanges
<1>9. \A k \in 1 .. m : IsRange(t[k])
  BY CharSetRanges
<1>10. \A k, l \in 1 .. n : k < l => s[k][2] + 1 < s[l][1]
  BY CharSetRanges
<1>11. \A k, l \in 1 .. m : k < l => t[k][2] + 1 < t[l][1]
  BY CharSetRanges
<1> HIDE DEF u, n, m
<1>12. \A k \in 1 .. n + m : IsRange(u[k])
  BY <1>2, <1>3, <1>8, <1>9
<1>13. ASSUME NEW k \in 1 .. n + m, NEW l \in 1 .. n + m, k < l
       PROVE  u[k][2] + 1 < u[l][1]
  <2>1. CASE k \in 1 .. n /\ l \in 1 .. n
    BY <1>2, <1>10, <1>13, <2>1
  <2>2. CASE k \in 1 .. n /\ l \notin 1 .. n
    <3>1. l - n \in 1 .. m /\ u[l] = t[l - n]
      BY <1>2, <1>3, <2>2
    <3> QED
      BY <1>2, <1>5, <2>2, <3>1
  <2>3. CASE k \notin 1 .. n
    <3>1. k - n \in 1 .. m /\ n + (k - n) = k /\ l \notin 1 .. n
      BY <1>1, <1>3, <1>13, <2>3
    <3>2. l - n \in 1 .. m /\ n + (l - n) = l
      BY <1>3, <3>1
    <3>3. u[k] = t[k - n] /\ u[l] = t[l - n] /\ k - n < l - n
      <4>1. k - n < l - n
        BY <1>1, <1>13
      <4>2. u[n + (k - n)] = t[k - n] /\ u[n + (l - n)] = t[l - n]
        BY <1>2, <3>1, <3>2
      <4> QED
        BY <3>1, <3>2, <4>1, <4>2
    <3> QED
      BY <1>11, <3>1, <3>2, <3>3
  <2> QED
    BY <2>1, <2>2, <2>3
<1>14. u \in CharSet
  BY <1>2, <1>12, <1>13, NormalForm
<1>15. \A c : c \in Chars(u) <=> c \in Int /\ \E k \in 1 .. n + m : In(c, u[k])
  BY <1>2, InChars
<1>16. \A c : (\E k \in 1 .. n + m : In(c, u[k])) <=>
                (\E k \in 1 .. n : In(c, s[k])) \/ (\E k \in 1 .. m : In(c, t[k]))
  <2> TAKE c
  <2>1. ASSUME NEW k \in 1 .. n + m, In(c, u[k])
        PROVE  (\E l \in 1 .. n : In(c, s[l])) \/ (\E l \in 1 .. m : In(c, t[l]))
    <3>1. CASE k \in 1 .. n
      BY <1>2, <2>1, <3>1
    <3>2. CASE k \notin 1 .. n
      <4>1. k - n \in 1 .. m /\ u[k] = t[k - n]
        BY <1>2, <1>3, <3>2
      <4> QED
        BY <2>1, <4>1
    <3> QED
      BY <3>1, <3>2
  <2>2. ASSUME NEW k \in 1 .. n, In(c, s[k])
        PROVE  \E l \in 1 .. n + m : In(c, u[l])
    BY <1>2, <1>4, <2>2
  <2>3. ASSUME NEW k \in 1 .. m, In(c, t[k])
        PROVE  \E l \in 1 .. n + m : In(c, u[l])
    BY <1>2, <1>4, <2>3
  <2> QED
    BY <2>1, <2>2, <2>3
<1>17. \A c : c \in Chars(u) <=> c \in Chars(s) \/ c \in Chars(t)
  BY <1>6, <1>7, <1>15, <1>16
<1> QED
  BY <1>2, <1>14, <1>17 DEF u, n, m

-----------------------------------------------------------------------------
(* adjust                                                                  *)

(* What is left of a range x on the one side of r.                         *)
Front1(x, r) == IF x[1] < r[1] THEN << <<x[1], r[1] - 1>> >> ELSE <<>>
Back1(x, r) == IF r[2] < x[2] THEN << <<r[2] + 1, x[2]>> >> ELSE <<>>

(* What is left before r. *)
LEMMA FrontRange ==
    ASSUME NEW x, IsRange(x), NEW r, IsRange(r)
    PROVE  /\ Front1(x, r) \in CharSet
           /\ Len(Front1(x, r)) = IF x[1] < r[1] THEN 1 ELSE 0
           /\ x[1] < r[1] => Front1(x, r)[1] = <<x[1], r[1] - 1>>
           /\ \A c : c \in Chars(Front1(x, r)) <=> c \in Int /\ x[1] <= c /\ c < r[1]
<1>1. /\ x[1] \in Char /\ x[2] \in Char /\ x[1] <= x[2]
      /\ r[1] \in Char /\ r[2] \in Char /\ r[1] <= r[2]
  BY RangeElements DEF IsRange
<1>2. x[1] \in Int /\ r[1] \in Int
  BY <1>1, CharBounds
<1>3. CASE x[1] < r[1]
  <2> DEFINE b == <<x[1], r[1] - 1>>
  <2>1. IsRange(b) /\ b[1] = x[1] /\ b[2] = r[1] - 1
    BY <1>1, <1>3, CharAssumption DEF IsRange, Pair, Char
  <2>2. Front1(x, r) = <<b>>
    BY <1>3 DEF Front1
  <2> HIDE DEF b
  <2>3. /\ <<b>> \in CharSet /\ Len(<<b>>) = 1 /\ <<b>>[1] = b
        /\ \A c : c \in Chars(<<b>>) <=> c \in Int /\ In(c, b)
    BY <2>1, OneRange
  <2>4. \A c \in Int : In(c, b) <=> x[1] <= c /\ c < r[1]
    BY <1>2, <2>1 DEF In
  <2> QED
    BY <1>3, <2>2, <2>3, <2>4 DEF b
<1>4. CASE ~ (x[1] < r[1])
  <2>1. Front1(x, r) = <<>>
    BY <1>4 DEF Front1
  <2>2. \A c \in Int : ~ (x[1] <= c /\ c < r[1])
    BY <1>2, <1>4
  <2> QED
    BY <1>4, <2>1, <2>2, EmptyCharSet
<1> QED
  BY <1>3, <1>4

(* What is left behind r. *)
LEMMA BackRange ==
    ASSUME NEW x, IsRange(x), NEW r, IsRange(r)
    PROVE  /\ Back1(x, r) \in CharSet
           /\ Len(Back1(x, r)) = IF r[2] < x[2] THEN 1 ELSE 0
           /\ r[2] < x[2] => Back1(x, r)[1] = <<r[2] + 1, x[2]>>
           /\ \A c : c \in Chars(Back1(x, r)) <=> c \in Int /\ r[2] < c /\ c <= x[2]
<1>1. /\ x[1] \in Char /\ x[2] \in Char /\ x[1] <= x[2]
      /\ r[1] \in Char /\ r[2] \in Char /\ r[1] <= r[2]
  BY RangeElements DEF IsRange
<1>2. x[2] \in Int /\ r[2] \in Int
  BY <1>1, CharBounds
<1>3. CASE r[2] < x[2]
  <2> DEFINE b == <<r[2] + 1, x[2]>>
  <2>1. IsRange(b) /\ b[1] = r[2] + 1 /\ b[2] = x[2]
    BY <1>1, <1>3, CharAssumption DEF IsRange, Pair, Char
  <2>2. Back1(x, r) = <<b>>
    BY <1>3 DEF Back1
  <2> HIDE DEF b
  <2>3. /\ <<b>> \in CharSet /\ Len(<<b>>) = 1 /\ <<b>>[1] = b
        /\ \A c : c \in Chars(<<b>>) <=> c \in Int /\ In(c, b)
    BY <2>1, OneRange
  <2>4. \A c \in Int : In(c, b) <=> r[2] < c /\ c <= x[2]
    BY <1>2, <2>1 DEF In
  <2> QED
    BY <1>3, <2>2, <2>3, <2>4 DEF b
<1>4. CASE ~ (r[2] < x[2])
  <2>1. Back1(x, r) = <<>>
    BY <1>4 DEF Back1
  <2>2. \A c \in Int : ~ (r[2] < c /\ c <= x[2])
    BY <1>2, <1>4
  <2> QED
    BY <1>4, <2>1, <2>2, EmptyCharSet
<1> QED
  BY <1>3, <1>4

(* How many ranges the cut of r leaves of x.                               *)
Left1(x, r) == IF x[1] < r[1] THEN 1 ELSE 0
Right1(x, r) == IF r[2] < x[2] THEN 1 ELSE 0

Adjusted(s, i, r, t) ==
    /\ t \in CharSet
    /\ \A c : c \in Chars(t) <=> c \in Chars(s) /\ ~ In(c, r)
    /\ Len(t) = Len(s) - 1 + Left1(s[i], r) + Right1(s[i], r)
    /\ \A k \in 1 .. i - 1 : t[k] = s[k]
    /\ s[i][1] < r[1] => t[i] = <<s[i][1], r[1] - 1>>
    /\ r[2] < s[i][2] => t[i + Left1(s[i], r)] = <<r[2] + 1, s[i][2]>>

(* adjust cuts r out of the range at i and leaves the others alone. *)
LEMMA AdjustExact ==
    ASSUME NEW s \in CharSet, NEW i \in 1 .. Len(s), NEW r, IsRange(r),
           s[i][1] <= r[1], r[2] <= s[i][2]
    PROVE  Adjusted(s, i, r, Adjust(s, i, r))
<1> DEFINE n == Len(s)
           x == s[i]
           a == SubSeq(s, 1, i - 1)
           b == Front1(x, r)
           e == Back1(x, r)
           z == SubSeq(s, i + 1, n)
           ab == a \o b
           abe == ab \o e
           t == abe \o z
           bn == Left1(x, r)
           en == Right1(x, r)
<1>1. /\ s \in Seq(Pair) /\ n \in Nat /\ i \in Nat /\ 1 <= i /\ i <= n
      /\ IsRange(x)
  BY CharSetRanges
<1>2. /\ x[1] \in Int /\ x[2] \in Int /\ r[1] \in Int /\ r[2] \in Int
      /\ x[1] <= r[1] /\ r[1] <= r[2] /\ r[2] <= x[2]
  BY <1>1, SameChars
<1>3. Adjust(s, i, r) = t
  BY DEF Adjust, Front1, Back1
<1>4. /\ a \in CharSet /\ Len(a) = i - 1
      /\ \A k \in 1 .. i - 1 : a[k] = s[k]
      /\ \A c : c \in Chars(a) <=> c \in Int /\ \E k \in 1 .. i - 1 : In(c, s[k])
  <2> DEFINE j == i - 1
  <2>1. j \in Nat /\ 1 <= j + 1 /\ j <= Len(s) /\ 1 \in Nat /\ 1 <= 1
    BY <1>1
  <2>2. j - 1 + 1 = j /\ \A k \in 1 .. j : 1 + k - 1 = k
    BY <2>1
  <2> HIDE DEF j
  <2>3. /\ SubSeq(s, 1, j) \in CharSet
        /\ Len(SubSeq(s, 1, j)) = j - 1 + 1
        /\ \A k \in 1 .. j - 1 + 1 : SubSeq(s, 1, j)[k] = s[1 + k - 1]
        /\ \A c : c \in Chars(SubSeq(s, 1, j))
                  <=> c \in Int /\ \E k \in 1 .. j : In(c, s[k])
    BY <2>1, SubRanges
  <2>4. /\ SubSeq(s, 1, j) \in CharSet
        /\ Len(SubSeq(s, 1, j)) = j
        /\ \A k \in 1 .. j : SubSeq(s, 1, j)[k] = s[k]
        /\ \A c : c \in Chars(SubSeq(s, 1, j))
                  <=> c \in Int /\ \E k \in 1 .. j : In(c, s[k])
    BY <2>2, <2>3
  <2> QED
    BY <2>4 DEF j
<1>5. /\ z \in CharSet /\ Len(z) = n - i
      /\ \A c : c \in Chars(z) <=> c \in Int /\ \E k \in i + 1 .. n : In(c, s[k])
  <2> DEFINE j == i + 1
  <2>1. j \in Nat /\ 1 <= j /\ j <= n + 1 /\ n <= Len(s) /\ n - j + 1 = n - i
    BY <1>1
  <2> HIDE DEF j
  <2>2. /\ SubSeq(s, j, n) \in CharSet
        /\ Len(SubSeq(s, j, n)) = n - j + 1
        /\ \A c : c \in Chars(SubSeq(s, j, n))
                  <=> c \in Int /\ \E k \in j .. n : In(c, s[k])
    BY <1>1, <2>1, SubRanges
  <2>3. /\ SubSeq(s, j, n) \in CharSet
        /\ Len(SubSeq(s, j, n)) = n - i
        /\ \A c : c \in Chars(SubSeq(s, j, n))
                  <=> c \in Int /\ \E k \in j .. n : In(c, s[k])
    BY <2>1, <2>2
  <2> QED
    BY <2>3 DEF j
<1>6. /\ b \in CharSet /\ Len(b) = bn /\ (x[1] < r[1] => b[1] = <<x[1], r[1] - 1>>)
      /\ \A c : c \in Chars(b) <=> c \in Int /\ x[1] <= c /\ c < r[1]
  BY <1>1, FrontRange DEF Left1
<1>7. /\ e \in CharSet /\ Len(e) = en /\ (r[2] < x[2] => e[1] = <<r[2] + 1, x[2]>>)
      /\ \A c : c \in Chars(e) <=> c \in Int /\ r[2] < c /\ c <= x[2]
  BY <1>1, BackRange DEF Right1
<1>8. \A c : c \in Chars(a) => c \in Int /\ c + 1 < x[1]
  <2> SUFFICES ASSUME NEW c \in Int, NEW k \in 1 .. i - 1, In(c, s[k])
               PROVE  c + 1 < x[1]
    BY <1>4
  <2>1. k \in 1 .. n /\ k < i
    BY <1>1
  <2>2. s[k][2] + 1 < x[1] /\ s[k][2] \in Int
    BY <2>1, CharSetRanges, RangeNumbers
  <2>3. c <= s[k][2]
    BY DEF In
  <2> HIDE DEF x
  <2> QED
    BY <1>2, <2>2, <2>3
<1>9. \A c : c \in Chars(z) => c \in Int /\ x[2] + 1 < c
  <2> SUFFICES ASSUME NEW c \in Int, NEW k \in i + 1 .. n, In(c, s[k])
               PROVE  x[2] + 1 < c
    BY <1>5
  <2>1. k \in 1 .. n /\ i < k
    BY <1>1
  <2>2. x[2] + 1 < s[k][1] /\ s[k][1] \in Int
    BY <2>1, CharSetRanges, RangeNumbers
  <2>3. s[k][1] <= c
    BY DEF In
  <2> HIDE DEF x
  <2> QED
    BY <1>2, <2>2, <2>3
<1> HIDE DEF a, b, e, z, n
<1>10. /\ ab \in CharSet /\ Len(ab) = (i - 1) + bn
       /\ \A k \in 1 .. i - 1 : ab[k] = s[k]
       /\ \A k \in 1 .. bn : ab[i - 1 + k] = b[k]
       /\ \A c : c \in Chars(ab) <=> c \in Chars(a) \/ c \in Chars(b)
  <2>1. \A c, d \in Int : c \in Chars(a) /\ d \in Chars(b) => c + 1 < d
    <3> SUFFICES ASSUME NEW c \in Int, NEW d \in Int, c \in Chars(a), d \in Chars(b)
                 PROVE  c + 1 < d
      OBVIOUS
    <3>1. c + 1 < x[1] /\ x[1] <= d
      BY <1>6, <1>8
    <3> HIDE DEF x
    <3> QED
      BY <1>2, <3>1
  <2>2. /\ a \o b \in CharSet
        /\ Len(a \o b) = Len(a) + Len(b)
        /\ \A k \in 1 .. Len(a) : (a \o b)[k] = a[k]
        /\ \A k \in 1 .. Len(b) : (a \o b)[Len(a) + k] = b[k]
        /\ \A c : c \in Chars(a \o b) <=> c \in Chars(a) \/ c \in Chars(b)
    BY <1>4, <1>6, <2>1, ConcatSets
  <2> HIDE DEF bn
  <2> QED
    BY <1>4, <1>6, <2>2
<1>11. \A c : c \in Chars(ab) => c \in Int /\ c < r[1]
  <2> SUFFICES ASSUME NEW c, c \in Chars(ab)
               PROVE  c \in Int /\ c < r[1]
    OBVIOUS
  <2>1. c \in Int /\ (c + 1 < x[1] \/ c < r[1])
    BY <1>6, <1>8, <1>10
  <2> HIDE DEF x
  <2> QED
    BY <1>2, <2>1
<1> HIDE DEF ab
<1>12. bn \in 0 .. 1 /\ en \in 0 .. 1 /\ (bn = 1 <=> x[1] < r[1]) /\ (en = 1 <=> r[2] < x[2])
  BY DEF Left1, Right1
<1> HIDE DEF bn, en
<1>13. /\ abe \in CharSet /\ Len(abe) = (i - 1) + bn + en
       /\ \A k \in 1 .. (i - 1) + bn : abe[k] = ab[k]
       /\ \A k \in 1 .. en : abe[(i - 1) + bn + k] = e[k]
       /\ \A c : c \in Chars(abe) <=> c \in Chars(ab) \/ c \in Chars(e)
  <2>1. \A c, d \in Int : c \in Chars(ab) /\ d \in Chars(e) => c + 1 < d
    <3> SUFFICES ASSUME NEW c \in Int, NEW d \in Int, c \in Chars(ab), d \in Chars(e)
                 PROVE  c + 1 < d
      OBVIOUS
    <3>1. c < r[1] /\ r[2] < d
      BY <1>7, <1>11
    <3> QED
      BY <1>2, <3>1
  <2>2. /\ ab \o e \in CharSet
        /\ Len(ab \o e) = Len(ab) + Len(e)
        /\ \A k \in 1 .. Len(ab) : (ab \o e)[k] = ab[k]
        /\ \A k \in 1 .. Len(e) : (ab \o e)[Len(ab) + k] = e[k]
        /\ \A c : c \in Chars(ab \o e) <=> c \in Chars(ab) \/ c \in Chars(e)
    BY <1>7, <1>10, <2>1, ConcatSets
  <2> QED
    BY <1>7, <1>10, <2>2
<1>14. \A c : c \in Chars(abe) => c \in Int /\ c <= x[2]
  <2> SUFFICES ASSUME NEW c, c \in Chars(abe)
               PROVE  c \in Int /\ c <= x[2]
    OBVIOUS
  <2>1. c \in Int /\ (c < r[1] \/ c <= x[2])
    BY <1>7, <1>11, <1>13
  <2> HIDE DEF x
  <2> QED
    BY <1>2, <2>1
<1> HIDE DEF abe
<1> DEFINE l == (i - 1) + bn + en
<1>15. /\ t \in CharSet /\ Len(t) = l + (n - i)
       /\ \A k \in 1 .. l : t[k] = abe[k]
       /\ \A c : c \in Chars(t) <=> c \in Chars(abe) \/ c \in Chars(z)
  <2>1. \A c, d \in Int : c \in Chars(abe) /\ d \in Chars(z) => c + 1 < d
    <3> SUFFICES ASSUME NEW c \in Int, NEW d \in Int, c \in Chars(abe), d \in Chars(z)
                 PROVE  c + 1 < d
      OBVIOUS
    <3>1. c <= x[2] /\ x[2] + 1 < d
      BY <1>9, <1>14
    <3> HIDE DEF x
    <3> QED
      BY <1>2, <3>1
  <2>2. /\ abe \o z \in CharSet
        /\ Len(abe \o z) = Len(abe) + Len(z)
        /\ \A k \in 1 .. Len(abe) : (abe \o z)[k] = abe[k]
        /\ \A c : c \in Chars(abe \o z) <=> c \in Chars(abe) \/ c \in Chars(z)
    BY <1>5, <1>13, <2>1, ConcatSets
  <2> HIDE DEF l
  <2> QED
    BY <1>5, <1>13, <2>2 DEF l
<1> HIDE DEF t
<1>16. \A c : c \in Chars(t) <=> c \in Chars(s) /\ ~ In(c, r)
  <2> TAKE c
  <2>1. c \in Chars(s) <=> c \in Int /\ \E k \in 1 .. n : In(c, s[k])
    BY <1>1, InChars DEF n
  <2>2. c \in Chars(t) => c \in Int
    BY <1>7, <1>9, <1>11, <1>13, <1>15
  <2>3. CASE c \in Int
    <3>1. \A k : k \in 1 .. n <=> k = i \/ k \in 1 .. i - 1 \/ k \in i + 1 .. n
      BY <1>1
    <3>2. c \in Chars(s) <=> In(c, x) \/ c \in Chars(a) \/ c \in Chars(z)
      BY <1>4, <1>5, <2>1, <2>3, <3>1
    <3>3. In(c, x) <=> x[1] <= c /\ c <= x[2]
      BY DEF In
    <3>4. In(c, r) <=> r[1] <= c /\ c <= r[2]
      BY DEF In
    <3>5. c \in Chars(t) <=> c \in Chars(a) \/ (x[1] <= c /\ c < r[1])
                             \/ (r[2] < c /\ c <= x[2]) \/ c \in Chars(z)
      BY <1>6, <1>7, <1>10, <1>13, <1>15, <2>3
    <3>6. (c \in Chars(a) => c + 1 < x[1]) /\ (c \in Chars(z) => x[2] + 1 < c)
      BY <1>8, <1>9
    <3> HIDE DEF x
    <3> QED
      BY <1>2, <2>3, <3>2, <3>3, <3>4, <3>5, <3>6
  <2>4. CASE c \notin Int
    BY <2>1, <2>2, <2>4
  <2> QED
    BY <2>3, <2>4
<1>17. Len(t) = n - 1 + bn + en
  BY <1>1, <1>12, <1>15
<1>18. \A k \in 1 .. i - 1 : t[k] = s[k]
  <2> TAKE k \in 1 .. i - 1
  <2>1. k \in 1 .. (i - 1) + bn /\ k \in 1 .. l
    BY <1>1, <1>12
  <2> QED
    BY <1>10, <1>13, <1>15, <2>1
<1>19. x[1] < r[1] => t[i] = <<x[1], r[1] - 1>>
  <2> SUFFICES ASSUME x[1] < r[1] PROVE t[i] = <<x[1], r[1] - 1>>
    OBVIOUS
  <2>1. bn = 1
    BY <1>12
  <2>2. i \in 1 .. (i - 1) + bn /\ i \in 1 .. l /\ 1 \in 1 .. bn /\ i - 1 + 1 = i
    BY <1>1, <1>12, <2>1
  <2>3. ab[i] = b[1]
    BY <1>10, <2>2
  <2> QED
    BY <1>6, <1>13, <1>15, <2>2, <2>3
<1>20. r[2] < x[2] => t[i + bn] = <<r[2] + 1, x[2]>>
  <2> SUFFICES ASSUME r[2] < x[2] PROVE t[i + bn] = <<r[2] + 1, x[2]>>
    OBVIOUS
  <2>1. en = 1
    BY <1>12
  <2>2. 1 \in 1 .. en /\ (i - 1) + bn + 1 = i + bn /\ i + bn \in 1 .. l
    BY <1>1, <1>12, <2>1
  <2>3. abe[i + bn] = e[1]
    BY <1>13, <2>2
  <2> QED
    BY <1>7, <1>15, <2>2, <2>3
<1>21. Adjusted(s, i, r, t)
  BY <1>15, <1>16, <1>17, <1>18, <1>19, <1>20 DEF Adjusted, n, bn, en
<1> QED
  BY <1>3, <1>21

-----------------------------------------------------------------------------
(* intersect                                                               *)

(* The set s with the cursor at i becomes t with the cursor at p: r is cut *)
(* out of the range at i, and the cursor is on what is left behind r, else *)
(* on what is left before it.                                              *)
Shortened(s, i, r, t, p) ==
    /\ t \in CharSet
    /\ \A c : c \in Chars(t) <=> c \in Chars(s) /\ ~ In(c, r)
    /\ p \in 1 .. Len(t) + 1
    /\ \A k \in 1 .. p - 1 :
          \/ k \in 1 .. i - 1 /\ t[k] = s[k]
          \/ s[i][1] < r[1] /\ t[k] = <<s[i][1], r[1] - 1>>
    /\ Len(t) + 1 - p = IF s[i][1] < r[1] \/ r[2] < s[i][2] THEN Len(s) + 1 - i
                        ELSE Len(s) - i
    /\ r[2] < s[i][2] => t[p] = <<r[2] + 1, s[i][2]>>
    /\ s[i][1] < r[1] /\ ~ (r[2] < s[i][2]) => t[p] = <<s[i][1], r[1] - 1>>

(* With the cursor that intersect moves along. *)
LEMMA AdjustCursor ==
    ASSUME NEW s \in CharSet, NEW i \in 1 .. Len(s), NEW r, IsRange(r),
           s[i][1] <= r[1], r[2] <= s[i][2]
    PROVE  Shortened(s, i, r, Adjust(s, i, r), Past(i, s[i], r))
<1> DEFINE n == Len(s)
           x == s[i]
           t == Adjust(s, i, r)
           p == Past(i, x, r)
           m == Len(t)
<1>1. /\ t \in CharSet
      /\ \A c : c \in Chars(t) <=> c \in Chars(s) /\ ~ In(c, r)
      /\ m = n - 1 + Left1(x, r) + Right1(x, r)
      /\ \A k \in 1 .. i - 1 : t[k] = s[k]
      /\ x[1] < r[1] => t[i] = <<x[1], r[1] - 1>>
      /\ r[2] < x[2] => t[i + Left1(x, r)] = <<r[2] + 1, x[2]>>
  BY AdjustExact DEF Adjusted
<1>2. n \in Nat /\ i \in Nat /\ 1 <= i /\ i <= n
  BY CharSetRanges
<1> HIDE DEF t, n, m
<1>3. CASE x[1] < r[1] /\ r[2] < x[2]
  <2>1. Left1(x, r) = 1 /\ Right1(x, r) = 1 /\ p = i + 1
    BY <1>3 DEF Left1, Right1, Past
  <2>2. m = n + 1
    BY <1>1, <1>2, <2>1
  <2>3. p \in 1 .. m + 1 /\ m + 1 - p = n + 1 - i
    BY <1>2, <2>1, <2>2
  <2>4. \A k \in 1 .. p - 1 : k = i \/ k \in 1 .. i - 1
    BY <1>2, <2>1
  <2> HIDE DEF p, x
  <2> QED
    BY <1>1, <1>3, <2>1, <2>3, <2>4 DEF Shortened, n, m, x, t, p
<1>4. CASE x[1] < r[1] /\ ~ (r[2] < x[2])
  <2>1. Left1(x, r) = 1 /\ Right1(x, r) = 0 /\ p = i
    BY <1>4 DEF Left1, Right1, Past
  <2>2. m = n
    BY <1>1, <1>2, <2>1
  <2>3. p \in 1 .. m + 1 /\ m + 1 - p = n + 1 - i
    BY <1>2, <2>1, <2>2
  <2> HIDE DEF p, x
  <2> QED
    BY <1>1, <1>4, <2>1, <2>3 DEF Shortened, n, m, x, t, p
<1>5. CASE ~ (x[1] < r[1]) /\ r[2] < x[2]
  <2>1. Left1(x, r) = 0 /\ Right1(x, r) = 1 /\ p = i /\ i + 0 = i
    BY <1>2, <1>5 DEF Left1, Right1, Past
  <2>2. m = n
    BY <1>1, <1>2, <2>1
  <2>3. p \in 1 .. m + 1 /\ m + 1 - p = n + 1 - i
    BY <1>2, <2>1, <2>2
  <2> HIDE DEF p, x
  <2> QED
    BY <1>1, <1>5, <2>1, <2>3 DEF Shortened, n, m, x, t, p
<1>6. CASE ~ (x[1] < r[1]) /\ ~ (r[2] < x[2])
  <2>1. Left1(x, r) = 0 /\ Right1(x, r) = 0 /\ p = i
    BY <1>6 DEF Left1, Right1, Past
  <2>2. m = n - 1
    BY <1>1, <1>2, <2>1
  <2>3. p \in 1 .. m + 1 /\ m + 1 - p = n - i
    BY <1>2, <2>1, <2>2
  <2> HIDE DEF p, x
  <2> QED
    BY <1>1, <1>6, <2>1, <2>3 DEF Shortened, n, m, x, t, p
<1> QED
  BY <1>3, <1>4, <1>5, <1>6

MeetStates == [lhs : CharSet, rhs : CharSet, i : Nat, j : Nat, overlap : CharSet]

Over(st) == st.i > Len(st.lhs) \/ st.j > Len(st.rhs)

(* The ranges before the cursor at i in u have nothing in common with v.   *)
Passed(u, i, v) ==
    \A k \in 1 .. i - 1 : \A c \in Int : In(c, u[k]) => c \notin Chars(v)

MeetInv(st, s, t, both) ==
    /\ st.i \in 1 .. Len(st.lhs) + 1 /\ st.j \in 1 .. Len(st.rhs) + 1
    /\ \A c : /\ c \in Chars(s) <=> c \in Chars(st.lhs) \/ c \in Chars(st.overlap)
              /\ ~ (c \in Chars(st.lhs) /\ c \in Chars(st.overlap))
              /\ c \in Chars(t) <=> c \in Chars(st.rhs) \/ c \in Chars(st.overlap)
              /\ ~ (both /\ c \in Chars(st.rhs) /\ c \in Chars(st.overlap))
    /\ ~ both => st.rhs = t
    /\ Passed(st.lhs, st.i, st.rhs)
    /\ Passed(st.rhs, st.j, st.lhs)

(* What a turn lowers: the ranges from the cursors on, and whether those   *)
(* at the cursors overlap.                                                 *)
Touch(x, y) == x[1] <= y[2] /\ y[1] <= x[2]
Touches(st) == ~ Over(st) /\ Touch(st.lhs[st.i], st.rhs[st.j])
Turns(st) == 2 * ((Len(st.lhs) + 1 - st.i) + (Len(st.rhs) + 1 - st.j))
             + IF Touches(st) THEN 1 ELSE 0

(* Behind a cursor that has passed everything smaller, nothing of the      *)
(* other set is left.                                                      *)
LEMMA NothingBefore ==
    ASSUME NEW u \in CharSet, NEW v \in CharSet, NEW j \in 1 .. Len(v),
           Passed(v, j, u)
    PROVE  \A c \in Int : c \in Chars(u) /\ c < v[j][1] => c \notin Chars(v)
<1> SUFFICES ASSUME NEW c \in Int, c \in Chars(u), c < v[j][1], c \in Chars(v)
             PROVE  FALSE
  OBVIOUS
<1>1. v \in Seq(Pair) /\ Len(v) \in Nat
  BY CharSetRanges
<1>2. PICK m \in 1 .. Len(v) : In(c, v[m])
  BY <1>1, InChars
<1>3. m \notin 1 .. j - 1
  BY <1>2 DEF Passed
<1>4. m = j \/ j < m
  BY <1>1, <1>3
<1>5. m = j \/ v[j][2] + 1 < v[m][1]
  BY <1>4, CharSetRanges
<1>6. /\ v[j][1] \in Int /\ v[j][2] \in Int /\ v[j][1] <= v[j][2]
      /\ v[m][1] \in Int
  BY RangeNumbers
<1>7. v[m][1] <= c
  BY <1>2 DEF In
<1> QED
  BY <1>5, <1>6, <1>7

(* A cursor moves on.                                                      *)
LEMMA CursorMoves ==
    ASSUME NEW u \in CharSet, NEW v \in CharSet,
           NEW i \in 1 .. Len(u), NEW j \in 1 .. Len(v),
           Passed(u, i, v), Passed(v, j, u), u[i][2] < v[j][1]
    PROVE  /\ Passed(u, i + 1, v)
           /\ i + 1 \in 1 .. Len(u) + 1
           /\ ~ Touch(u[i], v[j]) /\ ~ Touch(v[j], u[i])
<1>1. /\ u \in Seq(Pair) /\ Len(u) \in Nat /\ i \in Nat
      /\ u[i][1] \in Int /\ u[i][2] \in Int /\ v[j][1] \in Int
  BY CharSetRanges, RangeNumbers
<1>2. \A c \in Int : In(c, u[i]) => c \notin Chars(v)
  <2> TAKE c \in Int
  <2> SUFFICES ASSUME In(c, u[i]) PROVE c \notin Chars(v)
    OBVIOUS
  <2>1. c <= u[i][2]
    BY DEF In
  <2>2. c < v[j][1]
    BY <1>1, <2>1
  <2>3. c \in Chars(u)
    BY <1>1, InChars
  <2> QED
    BY <2>2, <2>3, NothingBefore
<1>3. \A k \in 1 .. (i + 1) - 1 : k = i \/ k \in 1 .. i - 1
  BY <1>1
<1>4. Passed(u, i + 1, v)
  BY <1>2, <1>3 DEF Passed
<1>5. i + 1 \in 1 .. Len(u) + 1
  BY <1>1
<1>6. ~ (v[j][1] <= u[i][2])
  BY <1>1
<1> QED
  BY <1>4, <1>5, <1>6 DEF Touch

(* The set u is shortened at the cursor, v may be: what was passed stays   *)
(* passed.                                                                 *)
LEMMA ShortenedPassed ==
    ASSUME NEW u \in CharSet, NEW v \in CharSet,
           NEW i \in 1 .. Len(u), NEW j \in 1 .. Len(v),
           Passed(u, i, v), Passed(v, j, u),
           NEW r, IsRange(r), r[1] = u[i][1] \/ r[1] = v[j][1],
           r[2] <= u[i][2],
           NEW u2, NEW i2, Shortened(u, i, r, u2, i2),
           NEW v2, \A c : c \in Chars(v2) => c \in Chars(v)
    PROVE  Passed(u2, i2, v2)
<1>1. /\ u \in Seq(Pair) /\ Len(u) \in Nat /\ i \in Nat
      /\ u[i][1] \in Int /\ u[i][2] \in Int /\ v[j][1] \in Int
      /\ r[1] \in Int /\ r[2] \in Int /\ r[1] <= r[2]
  BY CharSetRanges, RangeNumbers, SameChars
<1> SUFFICES ASSUME NEW k \in 1 .. i2 - 1, NEW c \in Int, In(c, u2[k])
             PROVE  c \notin Chars(v)
  BY DEF Passed
<1>2. CASE k \in 1 .. i - 1 /\ u2[k] = u[k]
  BY <1>2 DEF Passed
<1>3. CASE u[i][1] < r[1] /\ u2[k] = <<u[i][1], r[1] - 1>>
  <2>1. r[1] = v[j][1]
    BY <1>1, <1>3
  <2>2. u[i][1] <= c /\ c <= r[1] - 1
    BY <1>3 DEF In
  <2>3. c < v[j][1] /\ c <= u[i][2]
    BY <1>1, <2>1, <2>2
  <2>4. In(c, u[i])
    BY <2>2, <2>3 DEF In
  <2>5. c \in Chars(u)
    BY <1>1, <2>4, InChars
  <2> QED
    BY <2>3, <2>5, NothingBefore
<1> QED
  BY <1>2, <1>3 DEF Shortened

(* What has been passed stays passed when the other set shrinks. *)
LEMMA PassedLess ==
    ASSUME NEW u, NEW i, NEW v, NEW v2, Passed(u, i, v),
           \A c : c \in Chars(v2) => c \in Chars(v)
    PROVE  Passed(u, i, v2)
BY DEF Passed

(* The overlap of two ranges that touch is a range of both and ends where  *)
(* one of them does.                                                       *)
LEMMA OverlapRange ==
    ASSUME NEW x, IsRange(x), NEW y, IsRange(y), Touch(x, y)
    PROVE  LET r == Overlap(x, y)
           IN  /\ IsRange(r)
               /\ x[1] <= r[1] /\ r[2] <= x[2] /\ y[1] <= r[1] /\ r[2] <= y[2]
               /\ r[1] = x[1] \/ r[1] = y[1]
               /\ r[2] = x[2] \/ r[2] = y[2]
               /\ \A c \in Int : In(c, r) => In(c, x) /\ In(c, y)
<1> DEFINE r == Overlap(x, y)
<1>1. /\ x[1] \in Char /\ x[2] \in Char /\ x[1] <= x[2]
      /\ y[1] \in Char /\ y[2] \in Char /\ y[1] <= y[2]
  BY RangeElements DEF IsRange
<1>2. x[1] \in Int /\ x[2] \in Int /\ y[1] \in Int /\ y[2] \in Int
  BY <1>1, CharBounds
<1>3. r[1] = Greater(x[1], y[1]) /\ r[2] = Lesser(x[2], y[2])
      /\ r = <<Greater(x[1], y[1]), Lesser(x[2], y[2])>>
  BY DEF Overlap
<1>4. /\ r[1] \in Char /\ r[2] \in Char
      /\ x[1] <= r[1] /\ y[1] <= r[1] /\ r[2] <= x[2] /\ r[2] <= y[2]
      /\ r[1] = x[1] \/ r[1] = y[1]
      /\ r[2] = x[2] \/ r[2] = y[2]
  BY <1>1, <1>3, LesserGreater
<1>5. r[1] <= r[2]
  BY <1>1, <1>2, <1>4 DEF Touch
<1>6. r \in Pair
  BY <1>1, <1>3, LesserGreater DEF Pair
<1>7. IsRange(r)
  BY <1>5, <1>6 DEF IsRange
<1>8. \A c \in Int : In(c, r) => In(c, x) /\ In(c, y)
  <2> TAKE c \in Int
  <2>1. r[1] \in Int /\ r[2] \in Int
    BY <1>4, CharBounds
  <2> HIDE DEF r
  <2> QED
    BY <1>2, <1>4, <2>1 DEF In
<1> HIDE DEF r
<1>9. /\ IsRange(r)
      /\ x[1] <= r[1] /\ r[2] <= x[2] /\ y[1] <= r[1] /\ r[2] <= y[2]
      /\ r[1] = x[1] \/ r[1] = y[1]
      /\ r[2] = x[2] \/ r[2] = y[2]
      /\ \A c \in Int : In(c, r) => In(c, x) /\ In(c, y)
  BY <1>4, <1>7, <1>8
<1> QED
  BY <1>9 DEF r

(* What a turn that cuts leaves at the cursors does not overlap, or fewer  *)
(* ranges are left.                                                        *)
LEMMA CutApart ==
    ASSUME NEW x, IsRange(x), NEW y, IsRange(y), NEW r, IsRange(r),
           x[1] <= r[1], r[2] <= x[2], y[1] <= r[1], r[2] <= y[2],
           r[1] = x[1] \/ r[1] = y[1],
           r[2] = x[2] \/ r[2] = y[2],
           x[1] < r[1] \/ r[2] < x[2],
           NEW x2, r[2] < x[2] => x2 = <<r[2] + 1, x[2]>>,
           x[1] < r[1] /\ ~ (r[2] < x[2]) => x2 = <<x[1], r[1] - 1>>,
           NEW y2, \/ y2 = y
                   \/ /\ y[1] < r[1] \/ r[2] < y[2]
                      /\ r[2] < y[2] => y2 = <<r[2] + 1, y[2]>>
                      /\ y[1] < r[1] /\ ~ (r[2] < y[2]) => y2 = <<y[1], r[1] - 1>>
    PROVE  ~ Touch(x2, y2)
<1>1. /\ x[1] \in Int /\ x[2] \in Int /\ y[1] \in Int /\ y[2] \in Int
      /\ r[1] \in Int /\ r[2] \in Int
      /\ x[1] <= x[2] /\ y[1] <= y[2] /\ r[1] <= r[2]
  BY SameChars
<1>2. CASE r[2] < x[2]
  <2>1. x2[1] = r[2] + 1 /\ x2[2] = x[2] /\ r[2] = y[2]
    BY <1>1, <1>2
  <2>2. y2 = y \/ y2 = <<y[1], r[1] - 1>>
    BY <1>1, <2>1
  <2>3. y2[2] = y[2] \/ y2[2] = r[1] - 1
    BY <2>2
  <2>4. ~ (x2[1] <= y2[2])
    BY <1>1, <2>1, <2>3
  <2> QED
    BY <2>4 DEF Touch
<1>3. CASE ~ (r[2] < x[2])
  <2>1. x2[1] = x[1] /\ x2[2] = r[1] - 1 /\ r[1] = y[1] /\ x[1] < r[1]
    BY <1>1, <1>3
  <2>2. y2 = y \/ y2 = <<r[2] + 1, y[2]>>
    BY <1>1, <2>1
  <2>3. y2[1] = y[1] \/ y2[1] = r[2] + 1
    BY <2>2
  <2>4. ~ (y2[1] <= x2[2])
    BY <1>1, <2>1, <2>3
  <2> QED
    BY <2>4 DEF Touch
<1> QED
  BY <1>2, <1>3

(* A range of lhs that is before that of rhs is passed. *)
LEMMA MoveLeft ==
    ASSUME NEW s, NEW t, NEW both \in BOOLEAN,
           NEW st \in MeetStates, MeetInv(st, s, t, both), ~ Over(st),
           st.lhs[st.i][2] < st.rhs[st.j][1]
    PROVE  LET next == Move(st, st.i + 1, st.j)
           IN  next \in MeetStates /\ MeetInv(next, s, t, both)
               /\ Turns(next) < Turns(st)
<1> DEFINE u == st.lhs
           v == st.rhs
           i == st.i
           j == st.j
           next == Move(st, i + 1, j)
<1>1. /\ u \in CharSet /\ v \in CharSet /\ i \in Nat /\ j \in Nat /\ st.overlap \in CharSet
      /\ i \in 1 .. Len(u) + 1 /\ j \in 1 .. Len(v) + 1
      /\ ~ (i > Len(u)) /\ ~ (j > Len(v))
      /\ Passed(u, i, v) /\ Passed(v, j, u)
  BY DEF MeetStates, MeetInv, Over
<1>2. Len(u) \in Nat /\ Len(v) \in Nat
  BY <1>1, CharSetRanges
<1>3. i \in 1 .. Len(u) /\ j \in 1 .. Len(v)
  BY <1>1, <1>2
<1>4. Passed(u, i + 1, v) /\ i + 1 \in 1 .. Len(u) + 1 /\ ~ Touch(u[i], v[j])
  BY <1>1, <1>3, CursorMoves
<1>5. /\ next.lhs = u /\ next.rhs = v /\ next.i = i + 1 /\ next.j = j
      /\ next.overlap = st.overlap
      /\ next = [lhs |-> u, rhs |-> v, i |-> i + 1, j |-> j, overlap |-> st.overlap]
  BY DEF Move
<1>6. next \in MeetStates
  BY <1>1, <1>5 DEF MeetStates
<1>7. MeetInv(next, s, t, both)
  BY <1>1, <1>4, <1>5 DEF MeetInv
<1>8. ~ Touches(st)
  BY <1>4 DEF Touches
<1>9. Turns(next) < Turns(st)
  <2> DEFINE a == Len(u)
             b == Len(v)
             e == IF Touches(next) THEN 1 ELSE 0
  <2>1. e \in 0 .. 1
    OBVIOUS
  <2>2. Turns(next) = 2 * ((a + 1 - (i + 1)) + (b + 1 - j)) + e
    BY <1>5 DEF Turns
  <2>3. Turns(st) = 2 * ((a + 1 - i) + (b + 1 - j)) + 0
    BY <1>8 DEF Turns
  <2> HIDE DEF a, b, e, i, j
  <2>4. \A m, n, p, q \in Nat : \A h \in 0 .. 1 :
           2 * ((m + 1 - (p + 1)) + (n + 1 - q)) + h
              < 2 * ((m + 1 - p) + (n + 1 - q)) + 0
    OBVIOUS
  <2>5. a \in Nat /\ b \in Nat
    BY <1>2 DEF a, b
  <2> QED
    BY <1>1, <2>1, <2>2, <2>3, <2>4, <2>5
<1> QED
  BY <1>6, <1>7, <1>9

(* A range of rhs that is before that of lhs is passed. *)
LEMMA MoveRight ==
    ASSUME NEW s, NEW t, NEW both \in BOOLEAN,
           NEW st \in MeetStates, MeetInv(st, s, t, both), ~ Over(st),
           st.rhs[st.j][2] < st.lhs[st.i][1]
    PROVE  LET next == Move(st, st.i, st.j + 1)
           IN  next \in MeetStates /\ MeetInv(next, s, t, both)
               /\ Turns(next) < Turns(st)
<1> DEFINE u == st.lhs
           v == st.rhs
           i == st.i
           j == st.j
           next == Move(st, i, j + 1)
<1>1. /\ u \in CharSet /\ v \in CharSet /\ i \in Nat /\ j \in Nat /\ st.overlap \in CharSet
      /\ i \in 1 .. Len(u) + 1 /\ j \in 1 .. Len(v) + 1
      /\ ~ (i > Len(u)) /\ ~ (j > Len(v))
      /\ Passed(u, i, v) /\ Passed(v, j, u)
  BY DEF MeetStates, MeetInv, Over
<1>2. Len(u) \in Nat /\ Len(v) \in Nat
  BY <1>1, CharSetRanges
<1>3. i \in 1 .. Len(u) /\ j \in 1 .. Len(v)
  BY <1>1, <1>2
<1>4. Passed(v, j + 1, u) /\ j + 1 \in 1 .. Len(v) + 1 /\ ~ Touch(u[i], v[j])
  BY <1>1, <1>3, CursorMoves
<1>5. /\ next.lhs = u /\ next.rhs = v /\ next.i = i /\ next.j = j + 1
      /\ next.overlap = st.overlap
      /\ next = [lhs |-> u, rhs |-> v, i |-> i, j |-> j + 1, overlap |-> st.overlap]
  BY DEF Move
<1>6. next \in MeetStates
  BY <1>1, <1>5 DEF MeetStates
<1>7. MeetInv(next, s, t, both)
  BY <1>1, <1>4, <1>5 DEF MeetInv
<1>8. ~ Touches(st)
  BY <1>4 DEF Touches
<1>9. Turns(next) < Turns(st)
  <2> DEFINE a == Len(u)
             b == Len(v)
             e == IF Touches(next) THEN 1 ELSE 0
  <2>1. e \in 0 .. 1
    OBVIOUS
  <2>2. Turns(next) = 2 * ((a + 1 - i) + (b + 1 - (j + 1))) + e
    BY <1>5 DEF Turns
  <2>3. Turns(st) = 2 * ((a + 1 - i) + (b + 1 - j)) + 0
    BY <1>8 DEF Turns
  <2> HIDE DEF a, b, e, i, j
  <2>4. \A m, n, p, q \in Nat : \A h \in 0 .. 1 :
           2 * ((m + 1 - p) + (n + 1 - (q + 1))) + h
              < 2 * ((m + 1 - p) + (n + 1 - q)) + 0
    OBVIOUS
  <2>5. a \in Nat /\ b \in Nat
    BY <1>2 DEF a, b
  <2> QED
    BY <1>1, <2>1, <2>2, <2>3, <2>4, <2>5
<1> QED
  BY <1>6, <1>7, <1>9

(* Ranges that touch lose what they share, and what they share is kept if  *)
(* both sets want it.                                                      *)
LEMMA CutBoth ==
    ASSUME NEW s, NEW t, NEW both \in BOOLEAN,
           NEW st \in MeetStates, MeetInv(st, s, t, both), ~ Over(st),
           Touch(st.lhs[st.i], st.rhs[st.j])
    PROVE  LET x == st.lhs[st.i]
               y == st.rhs[st.j]
               next == Cut(st, x, y, Overlap(x, y), both)
           IN  next \in MeetStates /\ MeetInv(next, s, t, both)
               /\ Turns(next) < Turns(st)
<1> DEFINE u == st.lhs
           v == st.rhs
           i == st.i
           j == st.j
           x == u[i]
           y == v[j]
           r == Overlap(x, y)
           next == Cut(st, x, y, r, both)
           u2 == Adjust(u, i, r)
           i2 == Past(i, x, r)
           v2 == IF both THEN Adjust(v, j, r) ELSE v
           j2 == IF both THEN Past(j, y, r) ELSE j
           o2 == Insert(st.overlap, r)
<1>1. /\ u \in CharSet /\ v \in CharSet /\ i \in Nat /\ j \in Nat /\ st.overlap \in CharSet
      /\ i \in 1 .. Len(u) + 1 /\ j \in 1 .. Len(v) + 1
      /\ ~ (i > Len(u)) /\ ~ (j > Len(v))
      /\ Passed(u, i, v) /\ Passed(v, j, u)
  BY DEF MeetStates, MeetInv, Over
<1>2. Len(u) \in Nat /\ Len(v) \in Nat /\ u \in Seq(Pair) /\ v \in Seq(Pair)
  BY <1>1, CharSetRanges
<1>3. i \in 1 .. Len(u) /\ j \in 1 .. Len(v)
  BY <1>1, <1>2
<1>4. IsRange(x) /\ IsRange(y) /\ Touch(x, y)
  BY <1>1, <1>3, CharSetRanges
<1>5. next = [lhs |-> u2, rhs |-> v2, i |-> i2, j |-> j2, overlap |-> o2]
  BY DEF Cut
<1>6. /\ IsRange(r)
      /\ x[1] <= r[1] /\ r[2] <= x[2] /\ y[1] <= r[1] /\ r[2] <= y[2]
      /\ r[1] = x[1] \/ r[1] = y[1]
      /\ r[2] = x[2] \/ r[2] = y[2]
      /\ \A c \in Int : In(c, r) => In(c, x) /\ In(c, y)
  <2> HIDE DEF x, y
  <2> QED
    BY <1>4, OverlapRange
<1> HIDE DEF r
<1>7. Shortened(u, i, r, u2, i2)
  BY <1>1, <1>3, <1>6, AdjustCursor
<1>8. both => Shortened(v, j, r, v2, j2)
  BY <1>1, <1>3, <1>6, AdjustCursor
<1>9. ~ both => v2 = v /\ j2 = j
  OBVIOUS
<1> HIDE DEF u2, i2, v2, j2
<1>10. /\ o2 \in CharSet
       /\ \A c : c \in Chars(o2) <=> c \in Chars(st.overlap) \/ (c \in Int /\ In(c, r))
  BY <1>1, <1>6, InsertExact
<1> HIDE DEF o2
<1>11. /\ u2 \in CharSet /\ i2 \in 1 .. Len(u2) + 1
       /\ \A c : c \in Chars(u2) <=> c \in Chars(u) /\ ~ In(c, r)
  BY <1>7 DEF Shortened
<1>12. /\ v2 \in CharSet /\ j2 \in 1 .. Len(v2) + 1
       /\ \A c : c \in Chars(v2) <=> c \in Chars(v) /\ ~ (both /\ In(c, r))
  BY <1>1, <1>8, <1>9 DEF Shortened
<1>13. Len(u2) \in Nat /\ Len(v2) \in Nat /\ i2 \in Nat /\ j2 \in Nat
  BY <1>11, <1>12, CharSetRanges
<1>14. \A c \in Int : In(c, r) => c \in Chars(u) /\ c \in Chars(v)
  <2> TAKE c \in Int
  <2> SUFFICES ASSUME In(c, r) PROVE c \in Chars(u) /\ c \in Chars(v)
    OBVIOUS
  <2>1. In(c, u[i]) /\ In(c, v[j])
    BY <1>6
  <2> QED
    BY <1>2, <1>3, <2>1, InChars
<1>15. next \in MeetStates
  BY <1>5, <1>10, <1>11, <1>12, <1>13 DEF MeetStates
<1>16. MeetInv(next, s, t, both)
  <2>1. /\ next.lhs = u2 /\ next.rhs = v2 /\ next.i = i2 /\ next.j = j2
        /\ next.overlap = o2
    BY <1>5
  <2> HIDE DEF next
  <2>2. ASSUME NEW c
        PROVE  /\ c \in Chars(s) <=> c \in Chars(u2) \/ c \in Chars(o2)
               /\ ~ (c \in Chars(u2) /\ c \in Chars(o2))
               /\ c \in Chars(t) <=> c \in Chars(v2) \/ c \in Chars(o2)
               /\ ~ (both /\ c \in Chars(v2) /\ c \in Chars(o2))
    <3>1. /\ c \in Chars(s) <=> c \in Chars(u) \/ c \in Chars(st.overlap)
          /\ ~ (c \in Chars(u) /\ c \in Chars(st.overlap))
          /\ c \in Chars(t) <=> c \in Chars(v) \/ c \in Chars(st.overlap)
          /\ ~ (both /\ c \in Chars(v) /\ c \in Chars(st.overlap))
      BY DEF MeetInv
    <3>2. c \in Int \/ (c \notin Chars(u) /\ c \notin Chars(v))
      BY <1>2, InChars
    <3> HIDE DEF u, v
    <3> QED
      BY <1>10, <1>11, <1>12, <1>14, <3>1, <3>2
  <2>3. ~ both => v2 = t
    BY <1>9 DEF MeetInv
  <2>4. Passed(u2, i2, v2)
    BY <1>1, <1>3, <1>6, <1>7, <1>12, ShortenedPassed
  <2>5. Passed(v2, j2, u2)
    <3>1. CASE both
      <4>1. Shortened(v, j, r, v2, j2) /\ \A c : c \in Chars(u2) => c \in Chars(u)
        BY <1>8, <1>11, <3>1
      <4> QED
        BY <1>1, <1>3, <1>6, <4>1, ShortenedPassed
    <3>2. CASE ~ both
      BY <1>1, <1>9, <1>11, <3>2, PassedLess
    <3> QED
      BY <3>1, <3>2
  <2> QED
    BY <1>11, <1>12, <2>1, <2>2, <2>3, <2>4, <2>5 DEF MeetInv
<1>17. Turns(next) < Turns(st)
  <2> DEFINE a == Len(u)
             b == Len(v)
             a2 == Len(u2) + 1 - i2
             b2 == Len(v2) + 1 - j2
             e == IF Touches(next) THEN 1 ELSE 0
  <2>1. e \in 0 .. 1
    OBVIOUS
  <2>2. Turns(next) = 2 * (a2 + b2) + e
    BY <1>5 DEF Turns
  <2>3. Turns(st) = 2 * ((a + 1 - i) + (b + 1 - j)) + 1
    BY <1>4 DEF Turns, Touches
  <2>4. a2 = IF x[1] < r[1] \/ r[2] < x[2] THEN a + 1 - i ELSE a - i
    BY <1>7 DEF Shortened
  <2>5. b2 = IF both /\ ~ (y[1] < r[1] \/ r[2] < y[2]) THEN b - j ELSE b + 1 - j
    <3>1. CASE both
      BY <1>8, <3>1 DEF Shortened
    <3>2. CASE ~ both
      BY <1>9, <3>2
    <3> QED
      BY <3>1, <3>2
  <2>6. a \in Nat /\ b \in Nat
    BY <1>2
  <2>7. (x[1] < r[1] \/ r[2] < x[2]) /\ ~ (both /\ ~ (y[1] < r[1] \/ r[2] < y[2]))
           => ~ Touches(next)
    <3> SUFFICES ASSUME x[1] < r[1] \/ r[2] < x[2],
                        ~ (both /\ ~ (y[1] < r[1] \/ r[2] < y[2]))
                 PROVE  ~ Touch(u2[i2], v2[j2])
      BY <1>5 DEF Touches
    <3>1. /\ r[2] < x[2] => u2[i2] = <<r[2] + 1, x[2]>>
          /\ x[1] < r[1] /\ ~ (r[2] < x[2]) => u2[i2] = <<x[1], r[1] - 1>>
      BY <1>7 DEF Shortened
    <3>2. \/ v2[j2] = y
          \/ /\ y[1] < r[1] \/ r[2] < y[2]
             /\ r[2] < y[2] => v2[j2] = <<r[2] + 1, y[2]>>
             /\ y[1] < r[1] /\ ~ (r[2] < y[2]) => v2[j2] = <<y[1], r[1] - 1>>
      <4>1. CASE both
        BY <1>8, <4>1 DEF Shortened
      <4>2. CASE ~ both
        BY <1>9, <4>2
      <4> QED
        BY <4>1, <4>2
    <3> HIDE DEF x, y
    <3> QED
      BY <1>4, <1>6, <3>1, <3>2, CutApart
  <2> HIDE DEF a, b, a2, b2, i, j, next, x, y, e
  <2>8. \A m, n, p, q \in Nat : \A h \in 0 .. 1 :
           /\ 2 * ((m - p) + (n + 1 - q)) + h < 2 * ((m + 1 - p) + (n + 1 - q)) + 1
           /\ 2 * ((m + 1 - p) + (n - q)) + h < 2 * ((m + 1 - p) + (n + 1 - q)) + 1
           /\ 2 * ((m - p) + (n - q)) + h < 2 * ((m + 1 - p) + (n + 1 - q)) + 1
           /\ 2 * ((m + 1 - p) + (n + 1 - q)) < 2 * ((m + 1 - p) + (n + 1 - q)) + 1
    OBVIOUS
  <2>9. i \in Nat /\ j \in Nat
    BY <1>1
  <2>10. CASE (x[1] < r[1] \/ r[2] < x[2]) /\ ~ (both /\ ~ (y[1] < r[1] \/ r[2] < y[2]))
    <3>1. e = 0 /\ a2 = a + 1 - i /\ b2 = b + 1 - j
      BY <2>4, <2>5, <2>7, <2>10 DEF e
    <3>2. Turns(next) = 2 * ((a + 1 - i) + (b + 1 - j))
      BY <2>2, <2>6, <2>9, <3>1
    <3> QED
      BY <2>3, <2>6, <2>8, <2>9, <3>2
  <2>11. CASE ~ ((x[1] < r[1] \/ r[2] < x[2]) /\ ~ (both /\ ~ (y[1] < r[1] \/ r[2] < y[2])))
    <3>1. \/ a2 = a - i /\ b2 = b + 1 - j
          \/ a2 = a + 1 - i /\ b2 = b - j
          \/ a2 = a - i /\ b2 = b - j
      BY <2>4, <2>5, <2>11
    <3> QED
      BY <2>1, <2>2, <2>3, <2>6, <2>8, <2>9, <3>1
  <2> QED
    BY <2>10, <2>11
<1> HIDE DEF next
<1>18. next \in MeetStates /\ MeetInv(next, s, t, both) /\ Turns(next) < Turns(st)
  BY <1>15, <1>16, <1>17
<1> QED
  BY <1>18 DEF next, r

(* Where the loop of intersect starts, and where it may be. *)
MeetStart(s, t) == [lhs |-> s, rhs |-> t, i |-> 1, j |-> 1, overlap |-> <<>>]
MeetRun(s, t, both) == {st \in MeetStates : MeetInv(st, s, t, both)}

(* The loop of intersect starts in its invariant. *)
LEMMA MeetStarts ==
    ASSUME NEW s \in CharSet, NEW t \in CharSet, NEW both \in BOOLEAN
    PROVE  MeetStart(s, t) \in MeetRun(s, t, both)
<1>1. /\ Len(s) \in Nat /\ Len(t) \in Nat
      /\ <<>> \in CharSet /\ \A c : c \notin Chars(<<>>)
  BY CharSetRanges, EmptyCharSet
<1>2. 1 \in 1 .. Len(s) + 1 /\ 1 \in 1 .. Len(t) + 1 /\ 1 .. 1 - 1 = {}
  BY <1>1
<1>3. MeetStart(s, t) \in MeetStates
  BY <1>1 DEF MeetStart, MeetStates
<1>4. MeetInv(MeetStart(s, t), s, t, both)
  BY <1>1, <1>2 DEF MeetStart, MeetInv, Passed
<1> QED
  BY <1>3, <1>4 DEF MeetRun

(* A turn keeps what a run holds and, until it is over, brings it closer   *)
(* to its end.                                                             *)
LEMMA MeetTurn ==
    ASSUME NEW s \in CharSet, NEW t \in CharSet, NEW both \in BOOLEAN,
           NEW st \in MeetRun(s, t, both)
    PROVE  /\ MeetRanges(st, both) \in MeetRun(s, t, both)
           /\ Over(st) => MeetRanges(st, both) = st
           /\ ~ Over(st) => Turns(MeetRanges(st, both)) < Turns(st)
<1> DEFINE x == st.lhs[st.i]
           y == st.rhs[st.j]
<1>1. st \in MeetStates /\ MeetInv(st, s, t, both)
  BY DEF MeetRun
<1>2. MeetRanges(st, both) =
        IF Over(st) THEN st
        ELSE IF x[2] < y[1] THEN Move(st, st.i + 1, st.j)
        ELSE IF y[2] < x[1] THEN Move(st, st.i, st.j + 1)
        ELSE Cut(st, x, y, Overlap(x, y), both)
  BY DEF MeetRanges, Over
<1>3. CASE Over(st)
  BY <1>1, <1>2, <1>3
<1>4. CASE ~ Over(st) /\ x[2] < y[1]
  <2>1. MeetRanges(st, both) = Move(st, st.i + 1, st.j)
    BY <1>2, <1>4
  <2> QED
    BY <1>1, <1>4, <2>1, MoveLeft DEF MeetRun
<1>5. CASE ~ Over(st) /\ ~ (x[2] < y[1]) /\ y[2] < x[1]
  <2>1. MeetRanges(st, both) = Move(st, st.i, st.j + 1)
    BY <1>2, <1>5
  <2> QED
    BY <1>1, <1>5, <2>1, MoveRight DEF MeetRun
<1>6. CASE ~ Over(st) /\ ~ (x[2] < y[1]) /\ ~ (y[2] < x[1])
  <2>1. MeetRanges(st, both) = Cut(st, x, y, Overlap(x, y), both)
    BY <1>2, <1>6
  <2>2. Touch(x, y)
    <3>1. /\ st.lhs \in CharSet /\ st.rhs \in CharSet
          /\ st.i \in 1 .. Len(st.lhs) /\ st.j \in 1 .. Len(st.rhs)
      <4>1. /\ st.lhs \in CharSet /\ st.rhs \in CharSet
            /\ st.i \in 1 .. Len(st.lhs) + 1 /\ st.j \in 1 .. Len(st.rhs) + 1
            /\ ~ (st.i > Len(st.lhs)) /\ ~ (st.j > Len(st.rhs))
        BY <1>1, <1>6 DEF MeetStates, MeetInv, Over
      <4>2. Len(st.lhs) \in Nat /\ Len(st.rhs) \in Nat
        BY <4>1, CharSetRanges
      <4> QED
        BY <4>1, <4>2
    <3>2. /\ x[1] \in Int /\ x[2] \in Int /\ y[1] \in Int /\ y[2] \in Int
      BY <3>1, RangeNumbers
    <3> HIDE DEF x, y
    <3> QED
      BY <1>6, <3>2 DEF Touch
  <2> QED
    BY <1>1, <1>6, <2>1, <2>2, CutBoth DEF MeetRun
<1> QED
  BY <1>3, <1>4, <1>5, <1>6

(* The loop of intersect, turn by turn.                                    *)
LEMMA MeetRuns ==
    ASSUME NEW s \in CharSet, NEW t \in CharSet, NEW both \in BOOLEAN,
           NEW q \in Seq(Nat)
    PROVE  \E g :
              /\ g \in [0 .. Len(q) -> MeetRun(s, t, both)]
              /\ g[0] = MeetStart(s, t)
              /\ \A k \in 1 .. Len(q) : g[k] = MeetRanges(g[k - 1], both)
              /\ FoldLeft(LAMBDA z, w : MeetRanges(z, both), MeetStart(s, t), q) = g[Len(q)]
<1> DEFINE n == Len(q)
           step == [p \in (1 .. n) \X MeetRun(s, t, both) |-> MeetRanges(p[2], both)]
           Eq(f) == f = [T \in SUBSET DOMAIN q |->
                           IF T = {} THEN MeetStart(s, t)
                           ELSE MeetRanges(f[T \ {Max(T)}], both)]
           f == CHOOSE f : Eq(f)
<1>1. n \in Nat /\ DOMAIN q = 1 .. n /\ \A k \in 1 .. n : q[k] \in Nat
  OBVIOUS
<1>2. MeetStart(s, t) \in MeetRun(s, t, both)
  BY MeetStarts
<1>3. step \in StepFcn(n, MeetRun(s, t, both))
  BY <1>1, MeetTurn DEF StepFcn
<1> HIDE DEF n
<1>4. \A i \in 1 .. n : \A x \in MeetRun(s, t, both) :
         step[<<i, x>>] = MeetRanges(x, both)
  OBVIOUS
<1> HIDE DEF step
<1>5. PICK h : FoldsSets(h, n, MeetRun(s, t, both), MeetStart(s, t), step)
  BY <1>1, <1>2, <1>3, SetRecursion
<1>6. Eq(h)
  <2>1. \A T \in SUBSET (1 .. n) : T # {} =>
           Max(T) \in 1 .. n /\ h[T \ {Max(T)}] \in MeetRun(s, t, both)
    BY <1>1, <1>5, MaxOfNumbers DEF FoldsSets
  <2>2. \A T \in SUBSET (1 .. n) : T # {} =>
           h[T] = MeetRanges(h[T \ {Max(T)}], both)
    BY <1>4, <1>5, <2>1 DEF FoldsSets
  <2>3. h[{}] = MeetStart(s, t) /\ h = [T \in SUBSET (1 .. n) |-> h[T]]
    BY <1>5 DEF FoldsSets
  <2> QED
    BY <1>1, <2>2, <2>3
<1>7. Eq(f)
  BY <1>6
<1> HIDE DEF f
<1>8. f[1 .. 0] = MeetStart(s, t)
  BY <1>1, <1>7
<1>9. \A k \in 1 .. n : f[1 .. k] = MeetRanges(f[1 .. k - 1], both)
  <2> TAKE k \in 1 .. n
  <2>1. /\ 1 .. k \in SUBSET DOMAIN q /\ 1 .. k # {}
        /\ Max(1 .. k) = k /\ (1 .. k) \ {k} = 1 .. k - 1
    BY <1>1, MaxOfPrefix
  <2>2. f[1 .. k] = MeetRanges(f[(1 .. k) \ {Max(1 .. k)}], both)
    BY <1>7, <2>1
  <2> QED
    BY <2>1, <2>2
<1>10. \A k \in 1 .. n : f[1 .. k - 1] \in MeetRun(s, t, both) =>
          f[1 .. k] = step[<<k, f[1 .. k - 1]>>]
  BY <1>4, <1>9
<1>11. PICK g : /\ Unrolls(g, n, MeetRun(s, t, both), MeetStart(s, t), step)
                /\ g[n] = f[1 .. n]
  BY <1>1, <1>2, <1>3, <1>8, <1>10, FoldRun
<1>12. FoldLeft(LAMBDA z, w : MeetRanges(z, both), MeetStart(s, t), q) = f[1 .. n]
  BY <1>1 DEF FoldLeft, MapThenFoldSet, f
<1>13. \A k \in 1 .. n : g[k - 1] \in MeetRun(s, t, both)
  BY <1>1, <1>11 DEF Unrolls
<1> QED
  BY <1>4, <1>11, <1>12, <1>13 DEF Unrolls, n

(* The turns are enough: the run is over.                                  *)
LEMMA MeetEnds ==
    ASSUME NEW s \in CharSet, NEW t \in CharSet, NEW both \in BOOLEAN
    PROVE  /\ MeetSets(s, t, both) \in MeetRun(s, t, both)
           /\ Over(MeetSets(s, t, both))
<1> DEFINE a == Len(s)
           b == Len(t)
           m == 3 * (a + b)
           q == [w \in 1 .. m |-> w]
           S == MeetRun(s, t, both)
<1>1. a \in Nat /\ b \in Nat
  BY CharSetRanges
<1>2. m \in Nat
  <2> HIDE DEF a, b
  <2> QED
    BY <1>1
<1>3. q \in Seq(Nat) /\ Len(q) = m
  <2> HIDE DEF m
  <2> QED
    BY <1>2
<1>4. MeetSets(s, t, both) = FoldLeft(LAMBDA z, w : MeetRanges(z, both), MeetStart(s, t), q)
  BY DEF MeetSets, MeetStart
<1> HIDE DEF q
<1>5. PICK g : /\ g \in [0 .. Len(q) -> S]
               /\ g[0] = MeetStart(s, t)
               /\ \A k \in 1 .. Len(q) : g[k] = MeetRanges(g[k - 1], both)
               /\ FoldLeft(LAMBDA z, w : MeetRanges(z, both), MeetStart(s, t), q) = g[Len(q)]
  BY <1>3, MeetRuns
<1> HIDE DEF m, S
<1>6. /\ g \in [0 .. m -> S]
      /\ \A k \in 1 .. m : g[k] = MeetRanges(g[k - 1], both)
      /\ MeetSets(s, t, both) = g[m]
  BY <1>3, <1>4, <1>5
<1> DEFINE P == {k \in 0 .. m : Over(g[k]) \/ Turns(g[k]) + k <= 2 * (a + b) + 1}
<1>7. \A k \in 0 .. m : g[k] \in MeetStates /\ Turns(g[k]) \in Nat
                         /\ (~ Over(g[k]) => Turns(g[k]) >= 4)
  <2> TAKE k \in 0 .. m
  <2> DEFINE st == g[k]
             c == Len(st.lhs)
             d == Len(st.rhs)
             i == st.i
             j == st.j
             e == IF Touches(st) THEN 1 ELSE 0
  <2>1. /\ st \in MeetStates /\ st.lhs \in CharSet /\ st.rhs \in CharSet
        /\ i \in 1 .. c + 1 /\ j \in 1 .. d + 1
    BY <1>6 DEF S, MeetRun, MeetStates, MeetInv
  <2>2. c \in Nat /\ d \in Nat
    BY <2>1, CharSetRanges
  <2>3. e \in 0 .. 1
    OBVIOUS
  <2>4. Turns(st) = 2 * ((c + 1 - i) + (d + 1 - j)) + e
    BY DEF Turns
  <2>5. ~ Over(st) => i <= c /\ j <= d
    BY <2>1, <2>2 DEF Over
  <2> HIDE DEF st, c, d, i, j, e
  <2> QED
    BY <2>1, <2>2, <2>3, <2>4, <2>5 DEF st
<1>8. 0 \in P
  <2> DEFINE z == MeetStart(s, t)
             e == IF Touches(z) THEN 1 ELSE 0
  <2>1. e \in 0 .. 1
    OBVIOUS
  <2>2. Turns(g[0]) = 2 * ((a + 1 - 1) + (b + 1 - 1)) + e
    <3>1. z.lhs = s /\ z.rhs = t /\ z.i = 1 /\ z.j = 1 /\ g[0] = z
      BY <1>5 DEF MeetStart
    <3> HIDE DEF z
    <3> QED
      BY <3>1 DEF Turns
  <2>3. Turns(g[0]) + 0 <= 2 * (a + b) + 1
    <3> HIDE DEF e, a, b
    <3> QED
      BY <1>1, <2>1, <2>2
  <2> QED
    BY <1>2, <2>3
<1>9. ASSUME NEW k \in 0 .. m, k \in P, k < m
      PROVE  k + 1 \in P
  <2>1. k + 1 \in 1 .. m /\ (k + 1) - 1 = k /\ k + 1 \in 0 .. m
    BY <1>2, <1>9
  <2>2. g[k] \in MeetRun(s, t, both) /\ g[k + 1] = MeetRanges(g[k], both)
    BY <1>6, <2>1 DEF S
  <2>3. /\ Over(g[k]) => g[k + 1] = g[k]
        /\ ~ Over(g[k]) => Turns(g[k + 1]) < Turns(g[k])
    BY <2>2, MeetTurn
  <2>4. CASE Over(g[k])
    BY <2>1, <2>3, <2>4
  <2>5. CASE ~ Over(g[k])
    <3>1. Turns(g[k]) + k <= 2 * (a + b) + 1
      BY <1>9, <2>5
    <3>2. Turns(g[k + 1]) \in Nat /\ Turns(g[k]) \in Nat /\ Turns(g[k + 1]) < Turns(g[k])
      BY <1>7, <2>1, <2>3, <2>5
    <3> DEFINE f == Turns(g[k + 1])
               h == Turns(g[k])
               l == 2 * (a + b) + 1
    <3>3. l \in Int
      <4> HIDE DEF a, b
      <4> QED
        BY <1>1
    <3> HIDE DEF f, h, l
    <3>4. f + (k + 1) <= l
      BY <1>2, <3>1, <3>2, <3>3 DEF f, h, l
    <3> QED
      BY <2>1, <3>4 DEF f, l
  <2> QED
    BY <2>4, <2>5
<1>10. m \in P
  <2>1. 0 .. m \subseteq P
    <3> HIDE DEF P
    <3>1. \A k \in 0 .. m : k \in P /\ k < m => k + 1 \in P
      BY <1>9
    <3> QED
      BY <1>2, <1>8, <3>1, RangeInduction
  <2> QED
    BY <1>2, <2>1
<1>11. Over(g[m])
  <2> SUFFICES ASSUME ~ Over(g[m]) PROVE FALSE
    OBVIOUS
  <2> DEFINE h == Turns(g[m])
  <2>1. h + m <= 2 * (a + b) + 1 /\ h \in Nat /\ h >= 4
    BY <1>2, <1>7, <1>10
  <2> HIDE DEF h, a, b
  <2> QED
    BY <1>1, <2>1 DEF m
<1> QED
  BY <1>2, <1>6, <1>11 DEF S

(* When it ends, what is left of the sets has nothing in common. *)
LEMMA NothingShared ==
    ASSUME NEW s, NEW t, NEW both, NEW st \in MeetRun(s, t, both), Over(st)
    PROVE  \A c : ~ (c \in Chars(st.lhs) /\ c \in Chars(st.rhs))
<1> DEFINE u == st.lhs
           v == st.rhs
<1>1. /\ u \in CharSet /\ v \in CharSet
      /\ st.i \in 1 .. Len(u) + 1 /\ st.j \in 1 .. Len(v) + 1
      /\ Passed(u, st.i, v) /\ Passed(v, st.j, u)
  BY DEF MeetRun, MeetStates, MeetInv
<1>2. u \in Seq(Pair) /\ v \in Seq(Pair) /\ Len(u) \in Nat /\ Len(v) \in Nat
  BY <1>1, CharSetRanges
<1>3. st.i - 1 = Len(u) \/ st.j - 1 = Len(v)
  BY <1>1, <1>2 DEF Over
<1> SUFFICES ASSUME NEW c, c \in Chars(u), c \in Chars(v)
             PROVE  FALSE
  OBVIOUS
<1>4. c \in Int /\ (\E k \in 1 .. Len(u) : In(c, u[k]))
              /\ (\E k \in 1 .. Len(v) : In(c, v[k]))
  BY <1>2, InChars
<1> QED
  BY <1>1, <1>3, <1>4 DEF Passed

(* What is only in the one set, only in the other, and in both.            *)
THEOREM IntersectExact ==
    ASSUME NEW s \in CharSet, NEW t \in CharSet
    PROVE  LET met == Intersect(s, t)
           IN  /\ met.lhs \in CharSet /\ met.rhs \in CharSet /\ met.overlap \in CharSet
               /\ \A c : /\ c \in Chars(met.lhs) <=> c \in Chars(s) /\ c \notin Chars(t)
                         /\ c \in Chars(met.rhs) <=> c \in Chars(t) /\ c \notin Chars(s)
                         /\ c \in Chars(met.overlap) <=> c \in Chars(s) /\ c \in Chars(t)
<1> DEFINE met == MeetSets(s, t, TRUE)
<1>1. met \in MeetRun(s, t, TRUE) /\ Over(met)
  BY MeetEnds
<1>2. Intersect(s, t) = met
  BY DEF Intersect
<1> HIDE DEF met
<1>3. \A c : ~ (c \in Chars(met.lhs) /\ c \in Chars(met.rhs))
  BY <1>1, NothingShared
<1>4. met \in MeetStates /\ MeetInv(met, s, t, TRUE)
  BY <1>1 DEF MeetRun
<1>5. \A c : /\ c \in Chars(s) <=> c \in Chars(met.lhs) \/ c \in Chars(met.overlap)
             /\ ~ (c \in Chars(met.lhs) /\ c \in Chars(met.overlap))
             /\ c \in Chars(t) <=> c \in Chars(met.rhs) \/ c \in Chars(met.overlap)
             /\ ~ (c \in Chars(met.rhs) /\ c \in Chars(met.overlap))
  BY <1>4 DEF MeetInv
<1>6. met.lhs \in CharSet /\ met.rhs \in CharSet /\ met.overlap \in CharSet
  BY <1>4 DEF MeetStates
<1>7. ASSUME NEW c
      PROVE  /\ c \in Chars(met.lhs) <=> c \in Chars(s) /\ c \notin Chars(t)
             /\ c \in Chars(met.rhs) <=> c \in Chars(t) /\ c \notin Chars(s)
             /\ c \in Chars(met.overlap) <=> c \in Chars(s) /\ c \in Chars(t)
  BY <1>3, <1>5
<1> QED
  BY <1>2, <1>6, <1>7

(* remove: the difference of two sets. *)
THEOREM RemoveExact ==
    ASSUME NEW s \in CharSet, NEW t \in CharSet
    PROVE  /\ RemoveChars(s, t) \in CharSet
           /\ \A c : c \in Chars(RemoveChars(s, t)) <=> c \in Chars(s) /\ c \notin Chars(t)
<1> DEFINE met == MeetSets(s, t, FALSE)
<1>1. met \in MeetRun(s, t, FALSE) /\ Over(met)
  BY MeetEnds
<1>2. RemoveChars(s, t) = met.lhs
  BY DEF RemoveChars
<1> HIDE DEF met
<1>3. \A c : ~ (c \in Chars(met.lhs) /\ c \in Chars(met.rhs))
  BY <1>1, NothingShared
<1>4. met \in MeetStates /\ MeetInv(met, s, t, FALSE)
  BY <1>1 DEF MeetRun
<1>5. /\ met.rhs = t
      /\ \A c : /\ c \in Chars(s) <=> c \in Chars(met.lhs) \/ c \in Chars(met.overlap)
                /\ ~ (c \in Chars(met.lhs) /\ c \in Chars(met.overlap))
                /\ c \in Chars(t) <=> c \in Chars(met.rhs) \/ c \in Chars(met.overlap)
  BY <1>4 DEF MeetInv
<1>6. met.lhs \in CharSet
  BY <1>4 DEF MeetStates
<1>7. ASSUME NEW c
      PROVE  c \in Chars(met.lhs) <=> c \in Chars(s) /\ c \notin Chars(t)
  BY <1>3, <1>5
<1> QED
  BY <1>2, <1>6, <1>7

-----------------------------------------------------------------------------
(* The sets the reader makes: cases, and the tables of classes. *)

LEMMA CharNumbers ==
    /\ \A c \in Char : c \in Nat /\ c <= MAX_VAL
    /\ \A n \in Nat : n <= MAX_VAL => n \in Char
    /\ \A n \in 0 .. 255 : n \in Char
BY CharAssumption DEF Char

(* A character alone is a set. *)
LEMMA SingleRange ==
    ASSUME NEW c \in Char
    PROVE  /\ IsRange(<<c, c>>) /\ Single(c) \in CharSet /\ Single(c) # <<>>
           /\ \A d : d \in Chars(Single(c)) <=> d = c
<1> DEFINE r == <<c, c>>
<1>1. c \in Int
  BY CharBounds
<1>2. IsRange(r) /\ r[1] = c /\ r[2] = c
  BY <1>1 DEF IsRange, Pair
<1> HIDE DEF r
<1>3. /\ <<r>> \in CharSet
      /\ \A d : d \in Chars(<<r>>) <=> d \in Int /\ In(d, r)
  BY <1>2, OneRange
<1>4. \A d \in Int : In(d, r) <=> d = c
  BY <1>1, <1>2 DEF In
<1>5. <<r>> # <<>>
  OBVIOUS
<1> QED
  BY <1>1, <1>2, <1>3, <1>4, <1>5 DEF Single, r

(* Adding the other case of a letter makes a set. *)
LEMMA OtherCaseTyped ==
    ASSUME NEW out \in CharSet, NEW c \in Char
    PROVE  OtherCase(out, c) \in CharSet
<1> DEFINE up == IF ToUpper(c) # c THEN Insert(out, <<c - 32, c - 32>>) ELSE out
<1>1. ToUpper(c) # c => c - 32 \in Char
  BY CharNumbers DEF ToUpper
<1>2. ToLower(c) # c => c + 32 \in Char
  BY CharNumbers DEF ToLower
<1>3. up \in CharSet
  <2>1. CASE ToUpper(c) # c
    <3>1. IsRange(<<c - 32, c - 32>>)
      BY <1>1, <2>1, SingleRange
    <3> QED
      BY <2>1, <3>1, InsertExact
  <2> QED
    BY <2>1
<1> HIDE DEF up
<1>4. CASE ToLower(c) # c
  <2>1. IsRange(<<c + 32, c + 32>>)
    BY <1>2, <1>4, SingleRange
  <2>2. Insert(up, <<c + 32, c + 32>>) \in CharSet
    BY <1>3, <2>1, InsertExact
  <2> QED
    BY <1>4, <2>2 DEF OtherCase, up
<1> QED
  BY <1>3, <1>4 DEF OtherCase, up

(* Fold, letter by letter. *)
LEMMA OtherCases ==
    ASSUME NEW q \in Seq(Char)
    PROVE  \E g :
              /\ g \in [0 .. Len(q) -> CharSet]
              /\ g[0] = <<>>
              /\ \A k \in 1 .. Len(q) : g[k] = OtherCase(g[k - 1], q[k])
              /\ FoldLeft(OtherCase, <<>>, q) = g[Len(q)]
<1> DEFINE n == Len(q)
           step == [p \in (1 .. n) \X CharSet |-> OtherCase(p[2], q[p[1]])]
           Eq(f) == f = [T \in SUBSET DOMAIN q |->
                           IF T = {} THEN <<>>
                           ELSE OtherCase(f[T \ {Max(T)}], q[Max(T)])]
           f == CHOOSE f : Eq(f)
<1>1. n \in Nat /\ DOMAIN q = 1 .. n /\ \A k \in 1 .. n : q[k] \in Char
  OBVIOUS
<1>2. <<>> \in CharSet
  BY EmptyCharSet
<1>3. step \in StepFcn(n, CharSet)
  BY <1>1, OtherCaseTyped DEF StepFcn
<1> HIDE DEF n
<1>4. \A i \in 1 .. n : \A x \in CharSet :
         step[<<i, x>>] = OtherCase(x, q[i])
  OBVIOUS
<1> HIDE DEF step
<1>5. PICK h : FoldsSets(h, n, CharSet, <<>>, step)
  BY <1>1, <1>2, <1>3, SetRecursion
<1>6. Eq(h)
  <2>1. \A T \in SUBSET (1 .. n) : T # {} =>
           Max(T) \in 1 .. n /\ h[T \ {Max(T)}] \in CharSet
    BY <1>1, <1>5, MaxOfNumbers DEF FoldsSets
  <2>2. \A T \in SUBSET (1 .. n) : T # {} =>
           h[T] = OtherCase(h[T \ {Max(T)}], q[Max(T)])
    BY <1>4, <1>5, <2>1 DEF FoldsSets
  <2>3. h[{}] = <<>> /\ h = [T \in SUBSET (1 .. n) |-> h[T]]
    BY <1>5 DEF FoldsSets
  <2> QED
    BY <1>1, <2>2, <2>3
<1>7. Eq(f)
  BY <1>6
<1> HIDE DEF f
<1>8. f[1 .. 0] = <<>>
  BY <1>1, <1>7
<1>9. \A k \in 1 .. n : f[1 .. k] = OtherCase(f[1 .. k - 1], q[k])
  <2> TAKE k \in 1 .. n
  <2>1. /\ 1 .. k \in SUBSET DOMAIN q /\ 1 .. k # {}
        /\ Max(1 .. k) = k /\ (1 .. k) \ {k} = 1 .. k - 1
    BY <1>1, MaxOfPrefix
  <2>2. f[1 .. k] = OtherCase(f[(1 .. k) \ {Max(1 .. k)}], q[Max(1 .. k)])
    BY <1>7, <2>1
  <2> QED
    BY <2>1, <2>2
<1>10. \A k \in 1 .. n : f[1 .. k - 1] \in CharSet =>
          f[1 .. k] = step[<<k, f[1 .. k - 1]>>]
  BY <1>4, <1>9
<1>11. PICK g : /\ Unrolls(g, n, CharSet, <<>>, step)
                /\ g[n] = f[1 .. n]
  BY <1>1, <1>2, <1>3, <1>8, <1>10, FoldRun
<1>12. FoldLeft(OtherCase, <<>>, q) = f[1 .. n]
  BY <1>1 DEF FoldLeft, MapThenFoldSet, f
<1>13. \A k \in 1 .. n : g[k - 1] \in CharSet
  BY <1>1, <1>11 DEF Unrolls
<1> QED
  BY <1>4, <1>11, <1>12, <1>13 DEF Unrolls, n

(* The cases of a range are a set. *)
LEMMA FoldTyped ==
    ASSUME NEW r, IsRange(r)
    PROVE  Fold(r) \in CharSet
<1> DEFINE m == r[2] - r[1] + 1
           q == [n \in 1 .. m |-> r[1] + n - 1]
<1>1. /\ r[1] \in Char /\ r[2] \in Char /\ r[1] <= r[2]
  BY RangeElements DEF IsRange
<1>2. m \in Nat
  BY <1>1, CharNumbers
<1>3. \A n \in 1 .. m : r[1] + n - 1 \in Char
  <2> TAKE n \in 1 .. m
  <2>1. r[1] \in Nat /\ r[2] \in Nat /\ r[2] <= MAX_VAL
    BY <1>1, CharNumbers
  <2>2. r[1] + n - 1 \in Nat /\ r[1] + n - 1 <= MAX_VAL
    BY <1>1, <2>1, CharAssumption
  <2> QED
    BY <2>2, CharNumbers
<1>4. q \in Seq(Char) /\ Len(q) = m
  <2> HIDE DEF m
  <2> QED
    BY <1>2, <1>3
<1>5. Fold(r) = FoldLeft(OtherCase, <<>>, q)
  BY DEF Fold
<1> HIDE DEF q
<1>6. PICK g : /\ g \in [0 .. Len(q) -> CharSet]
               /\ FoldLeft(OtherCase, <<>>, q) = g[Len(q)]
  BY <1>4, OtherCases
<1> QED
  BY <1>2, <1>4, <1>5, <1>6

(* A set and a range, with its cases when cases are folded. *)
LEMMA WithCasesTyped ==
    ASSUME NEW s \in CharSet, NEW r, IsRange(r), NEW fs
    PROVE  WithCases(s, r, fs) \in CharSet /\ WithCases(s, r, fs) # <<>>
<1>1. /\ Insert(s, r) \in CharSet
      /\ \A c : c \in Chars(Insert(s, r)) <=> c \in Chars(s) \/ (c \in Int /\ In(c, r))
  BY InsertExact
<1>2. PICK c \in Int : In(c, r)
  BY RangeElements, CharBounds
<1>3. Fold(r) \in CharSet
  BY FoldTyped
<1>4. /\ InsertAll(Insert(s, r), Fold(r)) \in CharSet
      /\ \A d : d \in Chars(Insert(s, r)) => d \in Chars(InsertAll(Insert(s, r), Fold(r)))
  BY <1>1, <1>3, InsertAllExact
<1>5. WithCases(s, r, fs) \in CharSet /\ c \in Chars(WithCases(s, r, fs))
  BY <1>1, <1>2, <1>4 DEF WithCases
<1> QED
  BY <1>5, NonEmpty

(* Folded, range by range. *)
LEMMA FoldAlls ==
    ASSUME NEW s \in CharSet
    PROVE  \E g :
              /\ g \in [0 .. Len(s) -> CharSet]
              /\ g[0] = s
              /\ \A k \in 1 .. Len(s) : g[k] = InsertAll(g[k - 1], Fold(s[k]))
              /\ FoldLeft(LAMBDA z, w : InsertAll(z, Fold(w)), s, s) = g[Len(s)]
<1> DEFINE n == Len(s)
           step == [p \in (1 .. n) \X CharSet |-> InsertAll(p[2], Fold(s[p[1]]))]
           Eq(f) == f = [T \in SUBSET DOMAIN s |->
                           IF T = {} THEN s
                           ELSE InsertAll(f[T \ {Max(T)}], Fold(s[Max(T)]))]
           f == CHOOSE f : Eq(f)
<1>1. n \in Nat /\ DOMAIN s = 1 .. n /\ \A k \in 1 .. n : IsRange(s[k])
  BY CharSetRanges
<1>2. s \in CharSet
  OBVIOUS
<1>3. step \in StepFcn(n, CharSet)
  BY <1>1, FoldTyped, InsertAllExact DEF StepFcn
<1> HIDE DEF n
<1>4. \A i \in 1 .. n : \A x \in CharSet :
         step[<<i, x>>] = InsertAll(x, Fold(s[i]))
  OBVIOUS
<1> HIDE DEF step
<1>5. PICK h : FoldsSets(h, n, CharSet, s, step)
  BY <1>1, <1>2, <1>3, SetRecursion
<1>6. Eq(h)
  <2>1. \A T \in SUBSET (1 .. n) : T # {} =>
           Max(T) \in 1 .. n /\ h[T \ {Max(T)}] \in CharSet
    BY <1>1, <1>5, MaxOfNumbers DEF FoldsSets
  <2>2. \A T \in SUBSET (1 .. n) : T # {} =>
           h[T] = InsertAll(h[T \ {Max(T)}], Fold(s[Max(T)]))
    BY <1>4, <1>5, <2>1 DEF FoldsSets
  <2>3. h[{}] = s /\ h = [T \in SUBSET (1 .. n) |-> h[T]]
    BY <1>5 DEF FoldsSets
  <2> QED
    BY <1>1, <2>2, <2>3
<1>7. Eq(f)
  BY <1>6
<1> HIDE DEF f
<1>8. f[1 .. 0] = s
  BY <1>1, <1>7
<1>9. \A k \in 1 .. n : f[1 .. k] = InsertAll(f[1 .. k - 1], Fold(s[k]))
  <2> TAKE k \in 1 .. n
  <2>1. /\ 1 .. k \in SUBSET DOMAIN s /\ 1 .. k # {}
        /\ Max(1 .. k) = k /\ (1 .. k) \ {k} = 1 .. k - 1
    BY <1>1, MaxOfPrefix
  <2>2. f[1 .. k] = InsertAll(f[(1 .. k) \ {Max(1 .. k)}], Fold(s[Max(1 .. k)]))
    BY <1>7, <2>1
  <2> QED
    BY <2>1, <2>2
<1>10. \A k \in 1 .. n : f[1 .. k - 1] \in CharSet =>
          f[1 .. k] = step[<<k, f[1 .. k - 1]>>]
  BY <1>4, <1>9
<1>11. PICK g : /\ Unrolls(g, n, CharSet, s, step)
                /\ g[n] = f[1 .. n]
  BY <1>1, <1>2, <1>3, <1>8, <1>10, FoldRun
<1>12. FoldLeft(LAMBDA z, w : InsertAll(z, Fold(w)), s, s) = f[1 .. n]
  BY <1>1 DEF FoldLeft, MapThenFoldSet, f
<1>13. \A k \in 1 .. n : g[k - 1] \in CharSet
  BY <1>1, <1>11 DEF Unrolls
<1> QED
  BY <1>4, <1>11, <1>12, <1>13 DEF Unrolls, n

(* A set with its cases when cases are folded. *)
LEMMA FoldedTyped ==
    ASSUME NEW s \in CharSet, NEW fs
    PROVE  Folded(s, fs) \in CharSet
<1>1. PICK g : /\ g \in [0 .. Len(s) -> CharSet]
               /\ FoldLeft(LAMBDA z, w : InsertAll(z, Fold(w)), s, s) = g[Len(s)]
  BY FoldAlls
<1> DEFINE y == FoldLeft(LAMBDA z, w : InsertAll(z, Fold(w)), s, s)
<1>2. y \in CharSet
  <2>1. Len(s) \in Nat
    BY CharSetRanges
  <2>2. Len(s) \in 0 .. Len(s)
    BY <2>1
  <2>3. y = g[Len(s)]
    BY <1>1
  <2> HIDE DEF y
  <2> QED
    BY <1>1, <2>2, <2>3
<1> QED
  BY <1>2 DEF Folded

-----------------------------------------------------------------------------
(* The classes of characters.                                              *)

LEMMA Between ==
    \A n1, n2, n3, n4 \in Int : n1 + 1 < n2 /\ n2 <= n3 /\ n3 + 1 < n4 => n1 + 1 < n4
OBVIOUS

(* Ranges that are apart from one to the next are a set. *)
LEMMA FewRanges ==
    ASSUME NEW s \in Seq(Pair), Len(s) <= 4, s # <<>>,
           \A k \in 1 .. Len(s) : IsRange(s[k]),
           \A k \in 1 .. Len(s) - 1 : s[k][2] + 1 < s[k + 1][1]
    PROVE  s \in CharSet \ {<<>>}
<1>1. Len(s) \in Nat
  OBVIOUS
<1>2. \A k \in 1 .. Len(s) : /\ s[k][1] \in Int /\ s[k][2] \in Int
                            /\ s[k][1] <= s[k][2]
  BY SameChars
<1>3. ASSUME NEW k \in 1 .. Len(s), NEW l \in 1 .. Len(s), k < l
      PROVE  s[k][2] + 1 < s[l][1]
  <2>1. l = k + 1 \/ l = k + 2 \/ l = k + 3
    BY <1>1, <1>3
  <2>2. k \in 1 .. Len(s) - 1
    BY <1>1, <1>3
  <2>3. CASE l = k + 1
    BY <2>2, <2>3
  <2>4. CASE l = k + 2
    <3>1. k + 1 \in 1 .. Len(s) - 1 /\ (k + 1) + 1 = l /\ k + 1 \in 1 .. Len(s)
      BY <1>1, <1>3, <2>4
    <3>2. s[k][2] + 1 < s[k + 1][1] /\ s[k + 1][2] + 1 < s[l][1]
      BY <2>2, <3>1
    <3>3. /\ s[k][2] \in Int /\ s[k + 1][1] \in Int /\ s[k + 1][2] \in Int
          /\ s[k + 1][1] <= s[k + 1][2] /\ s[l][1] \in Int
      BY <1>2, <3>1
    <3> QED
      BY <3>2, <3>3, Between
  <2>5. CASE l = k + 3
    <3>1. /\ k + 1 \in 1 .. Len(s) - 1 /\ k + 1 \in 1 .. Len(s)
          /\ k + 2 \in 1 .. Len(s) - 1 /\ k + 2 \in 1 .. Len(s)
          /\ (k + 1) + 1 = k + 2 /\ (k + 2) + 1 = l
      BY <1>1, <1>3, <2>5
    <3>2. /\ s[k][2] + 1 < s[k + 1][1] /\ s[k + 1][2] + 1 < s[k + 2][1]
          /\ s[k + 2][2] + 1 < s[l][1]
      BY <2>2, <3>1
    <3>3. /\ s[k][2] \in Int /\ s[k + 1][1] \in Int /\ s[k + 1][2] \in Int
          /\ s[k + 1][1] <= s[k + 1][2] /\ s[k + 2][1] \in Int
          /\ s[k + 2][2] \in Int /\ s[k + 2][1] <= s[k + 2][2] /\ s[l][1] \in Int
      BY <1>2, <3>1
    <3>4. s[k][2] + 1 < s[k + 2][1]
      BY <3>2, <3>3, Between
    <3> QED
      BY <3>2, <3>3, <3>4, Between
  <2> QED
    BY <2>1, <2>3, <2>4, <2>5
<1> QED
  BY <1>3, NormalForm

(* From a number to another one. *)
Interval(a, b) == <<a, b>>

(* A range is a set, *)
LEMMA Ranges1 ==
    ASSUME NEW r, IsRange(r)
    PROVE  <<r>> \in CharSet \ {<<>>}
<1>1. r \in Pair
  BY DEF IsRange
<1>2. <<r>> \in Seq(Pair) /\ Len(<<r>>) = 1 /\ <<r>> # <<>>
  BY <1>1
<1>3. <<r>> \in CharSet
  BY OneRange
<1> QED
  BY <1>2, <1>3

(* so are two that are apart, *)
LEMMA Ranges2 ==
    ASSUME NEW r, IsRange(r), NEW x, IsRange(x), r[2] + 1 < x[1]
    PROVE  <<r, x>> \in CharSet \ {<<>>}
<1> DEFINE s == <<r, x>>
<1>1. r \in Pair /\ x \in Pair
  BY DEF IsRange
<1>2. s \in Seq(Pair) /\ Len(s) = 2 /\ s[1] = r /\ s[2] = x /\ s # <<>>
  BY <1>1
<1> HIDE DEF s
<1>3. \A k \in 1 .. Len(s) : IsRange(s[k])
  <2>1. \A k \in 1 .. Len(s) : k = 1 \/ k = 2
    BY <1>2
  <2> QED
    BY <1>2, <2>1
<1>4. \A k \in 1 .. Len(s) - 1 : s[k][2] + 1 < s[k + 1][1]
  <2>1. \A k \in 1 .. Len(s) - 1 : k = 1 /\ k + 1 = 2
    BY <1>2
  <2> QED
    BY <1>2, <2>1
<1>5. Len(s) <= 4
  BY <1>2
<1>6. s \in CharSet \ {<<>>}
  BY <1>2, <1>3, <1>4, <1>5, FewRanges
<1> QED
  BY <1>6 DEF s

(* three *)
LEMMA Ranges3 ==
    ASSUME NEW r, IsRange(r), NEW x, IsRange(x), NEW y, IsRange(y),
           r[2] + 1 < x[1], x[2] + 1 < y[1]
    PROVE  <<r, x, y>> \in CharSet \ {<<>>}
<1> DEFINE s == <<r, x, y>>
<1>1. r \in Pair /\ x \in Pair /\ y \in Pair
  BY DEF IsRange
<1>2. s \in Seq(Pair) /\ Len(s) = 3 /\ s[1] = r /\ s[2] = x /\ s[3] = y /\ s # <<>>
  BY <1>1
<1> HIDE DEF s
<1>3. \A k \in 1 .. Len(s) : IsRange(s[k])
  <2>1. \A k \in 1 .. Len(s) : k = 1 \/ k = 2 \/ k = 3
    BY <1>2
  <2> QED
    BY <1>2, <2>1
<1>4. \A k \in 1 .. Len(s) - 1 : s[k][2] + 1 < s[k + 1][1]
  <2>1. \A k \in 1 .. Len(s) - 1 : (k = 1 /\ k + 1 = 2) \/ (k = 2 /\ k + 1 = 3)
    BY <1>2
  <2> QED
    BY <1>2, <2>1
<1>5. Len(s) <= 4
  BY <1>2
<1>6. s \in CharSet \ {<<>>}
  BY <1>2, <1>3, <1>4, <1>5, FewRanges
<1> QED
  BY <1>6 DEF s

(* and four of them. *)
LEMMA Ranges4 ==
    ASSUME NEW r, IsRange(r), NEW x, IsRange(x), NEW y, IsRange(y), NEW z, IsRange(z),
           r[2] + 1 < x[1], x[2] + 1 < y[1], y[2] + 1 < z[1]
    PROVE  <<r, x, y, z>> \in CharSet \ {<<>>}
<1> DEFINE s == <<r, x, y, z>>
<1>1. r \in Pair /\ x \in Pair /\ y \in Pair /\ z \in Pair
  BY DEF IsRange
<1>2. /\ s \in Seq(Pair) /\ Len(s) = 4 /\ s # <<>>
      /\ s[1] = r /\ s[2] = x /\ s[3] = y /\ s[4] = z
  BY <1>1
<1> HIDE DEF s
<1>3. \A k \in 1 .. Len(s) : IsRange(s[k])
  <2>1. \A k \in 1 .. Len(s) : k = 1 \/ k = 2 \/ k = 3 \/ k = 4
    BY <1>2
  <2> QED
    BY <1>2, <2>1
<1>4. \A k \in 1 .. Len(s) - 1 : s[k][2] + 1 < s[k + 1][1]
  <2>1. \A k \in 1 .. Len(s) - 1 :
          (k = 1 /\ k + 1 = 2) \/ (k = 2 /\ k + 1 = 3) \/ (k = 3 /\ k + 1 = 4)
    BY <1>2
  <2> QED
    BY <1>2, <2>1
<1>5. Len(s) <= 4
  BY <1>2
<1>6. s \in CharSet \ {<<>>}
  BY <1>2, <1>3, <1>4, <1>5, FewRanges
<1> QED
  BY <1>6 DEF s

(* The sets that are not empty. *)
Classes == CharSet \ {<<>>}

(* The tables of character classes are sets that are not empty. *)
LEMMA ClassesTyped ==
    /\ Digit \in Classes /\ Blanks \in Classes /\ Word \in Classes
    /\ Upper \in Classes /\ Lower \in Classes /\ Alpha \in Classes
    /\ Alnum \in Classes /\ Blank \in Classes /\ Cntrl \in Classes
    /\ Graph \in Classes /\ Printable \in Classes /\ Punct \in Classes
    /\ Space \in Classes /\ XDigit \in Classes /\ OtherControl \in Classes
<1>1. /\ IsRange(Interval(0, 31))
      /\ Interval(0, 31)[1] = 0 /\ Interval(0, 31)[2] = 31
  BY CharNumbers DEF IsRange, Pair, Interval
<1>2. /\ IsRange(Interval(9, 9))
      /\ Interval(9, 9)[1] = 9 /\ Interval(9, 9)[2] = 9
  BY CharNumbers DEF IsRange, Pair, Interval
<1>3. /\ IsRange(Interval(9, 13))
      /\ Interval(9, 13)[1] = 9 /\ Interval(9, 13)[2] = 13
  BY CharNumbers DEF IsRange, Pair, Interval
<1>4. /\ IsRange(Interval(32, 32))
      /\ Interval(32, 32)[1] = 32 /\ Interval(32, 32)[2] = 32
  BY CharNumbers DEF IsRange, Pair, Interval
<1>5. /\ IsRange(Interval(32, 126))
      /\ Interval(32, 126)[1] = 32 /\ Interval(32, 126)[2] = 126
  BY CharNumbers DEF IsRange, Pair, Interval
<1>6. /\ IsRange(Interval(33, 47))
      /\ Interval(33, 47)[1] = 33 /\ Interval(33, 47)[2] = 47
  BY CharNumbers DEF IsRange, Pair, Interval
<1>7. /\ IsRange(Interval(33, 126))
      /\ Interval(33, 126)[1] = 33 /\ Interval(33, 126)[2] = 126
  BY CharNumbers DEF IsRange, Pair, Interval
<1>8. /\ IsRange(Interval(48, 57))
      /\ Interval(48, 57)[1] = 48 /\ Interval(48, 57)[2] = 57
  BY CharNumbers DEF IsRange, Pair, Interval
<1>9. /\ IsRange(Interval(58, 64))
      /\ Interval(58, 64)[1] = 58 /\ Interval(58, 64)[2] = 64
  BY CharNumbers DEF IsRange, Pair, Interval
<1>10. /\ IsRange(Interval(65, 70))
      /\ Interval(65, 70)[1] = 65 /\ Interval(65, 70)[2] = 70
  BY CharNumbers DEF IsRange, Pair, Interval
<1>11. /\ IsRange(Interval(65, 90))
      /\ Interval(65, 90)[1] = 65 /\ Interval(65, 90)[2] = 90
  BY CharNumbers DEF IsRange, Pair, Interval
<1>12. /\ IsRange(Interval(91, 96))
      /\ Interval(91, 96)[1] = 91 /\ Interval(91, 96)[2] = 96
  BY CharNumbers DEF IsRange, Pair, Interval
<1>13. /\ IsRange(Interval(95, 95))
      /\ Interval(95, 95)[1] = 95 /\ Interval(95, 95)[2] = 95
  BY CharNumbers DEF IsRange, Pair, Interval
<1>14. /\ IsRange(Interval(97, 102))
      /\ Interval(97, 102)[1] = 97 /\ Interval(97, 102)[2] = 102
  BY CharNumbers DEF IsRange, Pair, Interval
<1>15. /\ IsRange(Interval(97, 122))
      /\ Interval(97, 122)[1] = 97 /\ Interval(97, 122)[2] = 122
  BY CharNumbers DEF IsRange, Pair, Interval
<1>16. /\ IsRange(Interval(123, 126))
      /\ Interval(123, 126)[1] = 123 /\ Interval(123, 126)[2] = 126
  BY CharNumbers DEF IsRange, Pair, Interval
<1>17. /\ IsRange(Interval(127, 127))
      /\ Interval(127, 127)[1] = 127 /\ Interval(127, 127)[2] = 127
  BY CharNumbers DEF IsRange, Pair, Interval
<1>18. /\ IsRange(Interval(127, 159))
      /\ Interval(127, 159)[1] = 127 /\ Interval(127, 159)[2] = 159
  BY CharNumbers DEF IsRange, Pair, Interval
<1>19. Digit \in Classes
  <2>1. <<Interval(48, 57)>> \in CharSet \ {<<>>}
    BY <1>8, Ranges1
  <2> QED
    BY <2>1 DEF Digit, Interval, Classes
<1>20. Blanks \in Classes
  <2>1. <<Interval(9, 13), Interval(32, 32)>> \in CharSet \ {<<>>}
    BY <1>3, <1>4, Ranges2
  <2> QED
    BY <2>1 DEF Blanks, Interval, Classes
<1>21. Word \in Classes
  <2>1. <<Interval(48, 57), Interval(65, 90), Interval(95, 95), Interval(97, 122)>> \in CharSet \ {<<>>}
    BY <1>8, <1>11, <1>13, <1>15, Ranges4
  <2> QED
    BY <2>1 DEF Word, Interval, Classes
<1>22. Upper \in Classes
  <2>1. <<Interval(65, 90)>> \in CharSet \ {<<>>}
    BY <1>11, Ranges1
  <2> QED
    BY <2>1 DEF Upper, Interval, Classes
<1>23. Lower \in Classes
  <2>1. <<Interval(97, 122)>> \in CharSet \ {<<>>}
    BY <1>15, Ranges1
  <2> QED
    BY <2>1 DEF Lower, Interval, Classes
<1>24. Alpha \in Classes
  <2>1. <<Interval(65, 90), Interval(97, 122)>> \in CharSet \ {<<>>}
    BY <1>11, <1>15, Ranges2
  <2> QED
    BY <2>1 DEF Alpha, Interval, Classes
<1>25. Alnum \in Classes
  <2>1. <<Interval(48, 57), Interval(65, 90), Interval(97, 122)>> \in CharSet \ {<<>>}
    BY <1>8, <1>11, <1>15, Ranges3
  <2> QED
    BY <2>1 DEF Alnum, Interval, Classes
<1>26. Blank \in Classes
  <2>1. <<Interval(9, 9), Interval(32, 32)>> \in CharSet \ {<<>>}
    BY <1>2, <1>4, Ranges2
  <2> QED
    BY <2>1 DEF Blank, Interval, Classes
<1>27. Cntrl \in Classes
  <2>1. <<Interval(0, 31), Interval(127, 127)>> \in CharSet \ {<<>>}
    BY <1>1, <1>17, Ranges2
  <2> QED
    BY <2>1 DEF Cntrl, Interval, Classes
<1>28. Graph \in Classes
  <2>1. <<Interval(33, 126)>> \in CharSet \ {<<>>}
    BY <1>7, Ranges1
  <2> QED
    BY <2>1 DEF Graph, Interval, Classes
<1>29. Printable \in Classes
  <2>1. <<Interval(32, 126)>> \in CharSet \ {<<>>}
    BY <1>5, Ranges1
  <2> QED
    BY <2>1 DEF Printable, Interval, Classes
<1>30. Punct \in Classes
  <2>1. <<Interval(33, 47), Interval(58, 64), Interval(91, 96), Interval(123, 126)>> \in CharSet \ {<<>>}
    BY <1>6, <1>9, <1>12, <1>16, Ranges4
  <2> QED
    BY <2>1 DEF Punct, Interval, Classes
<1>31. XDigit \in Classes
  <2>1. <<Interval(48, 57), Interval(65, 70), Interval(97, 102)>> \in CharSet \ {<<>>}
    BY <1>8, <1>10, <1>14, Ranges3
  <2> QED
    BY <2>1 DEF XDigit, Interval, Classes
<1>32. OtherControl \in Classes
  <2>1. <<Interval(0, 31), Interval(127, 159)>> \in CharSet \ {<<>>}
    BY <1>1, <1>18, Ranges2
  <2> QED
    BY <2>1 DEF OtherControl, Interval, Classes
<1> QED
  BY <1>19, <1>20, <1>21, <1>22, <1>23, <1>24, <1>25, <1>26, <1>27, <1>28, <1>29, <1>30, <1>31, <1>32 DEF Space

-----------------------------------------------------------------------------
(* What a reading of a text may answer. *)

(* What a reading of a text is. *)
Place == Nat \ {0}
CharReadings == [ok : {TRUE}, char : Char, next : Place]
SetReadings == [ok : {TRUE}, str : CharSet, next : Place]

(* The code of what stands in a text is a character, its end included. *)
LEMMA Codes ==
    ASSUME NEW t \in Text
    PROVE  /\ Len(t) \in Nat /\ DOMAIN t = 1 .. Len(t)
           /\ \A p \in 1 .. Len(t) : t[p] \in DOMAIN Ord /\ Code(t[p]) \in Char
           /\ \A p : Code(At(t, p)) \in Char
<1>1. /\ Len(t) \in Nat /\ DOMAIN t = 1 .. Len(t)
      /\ \A p \in 1 .. Len(t) : t[p] \in DOMAIN Ord
  BY DEF Text
<1>2. 0 \in Char
  BY CharNumbers
<1>3. \A c \in DOMAIN Ord : Code(c) \in Char
  BY <1>2, OrdAssumption DEF Code
<1>4. Code("") \in Char
  BY <1>2 DEF Code
<1> QED
  BY <1>1, <1>3, <1>4 DEF At

(* The value of a digit. *)
LEMMA HexTyped ==
    ASSUME NEW c \in DOMAIN Ord
    PROVE  Hex(c) \in Nat
<1>1. Code(c) \in Nat
  <2>1. Ord[c] \in Char /\ 0 \in Char
    BY OrdAssumption, CharNumbers
  <2> QED
    BY <2>1, CharNumbers DEF Code
<1> DEFINE v == Code(c)
<1>2. Hex(c) = CASE v \in 48 .. 57 -> v - 48
                 [] v \in 97 .. 102 -> v - 87
                 [] v \in 65 .. 70 -> v - 55
                 [] OTHER -> 16
  BY DEF Hex, IsDigit
<1> HIDE DEF v
<1>3. v \in Nat
  BY <1>1 DEF v
<1> QED
  BY <1>2, <1>3

Sums == Nat

(* The digits of a number. *)
LEMMA NumberRuns ==
    ASSUME NEW b \in Nat, NEW s \in Seq(DOMAIN Ord)
    PROVE  \E g :
              /\ g \in [0 .. Len(s) -> Sums]
              /\ g[0] = 0
              /\ \A k \in 1 .. Len(s) : g[k] = b * g[k - 1] + Hex(s[k])
              /\ FoldLeft(LAMBDA n1, c1 : b * n1 + Hex(c1), 0, s) = g[Len(s)]
<1> DEFINE n == Len(s)
           step == [p \in (1 .. n) \X Sums |-> b * p[2] + Hex(s[p[1]])]
           Eq(f) == f = [T \in SUBSET DOMAIN s |->
                           IF T = {} THEN 0
                           ELSE b * f[T \ {Max(T)}] + Hex(s[Max(T)])]
           f == CHOOSE f : Eq(f)
<1>1. n \in Nat /\ DOMAIN s = 1 .. n /\ \A k \in 1 .. n : s[k] \in DOMAIN Ord
  OBVIOUS
<1>2. 0 \in Sums
  BY DEF Sums
<1>3. step \in StepFcn(n, Sums)
  <2>1. \A k \in 1 .. n : Hex(s[k]) \in Nat
    BY <1>1, HexTyped
  <2>2. \A x \in Nat, y \in Nat : b * x + y \in Nat
    OBVIOUS
  <2> QED
    BY <2>1, <2>2 DEF StepFcn, Sums
<1> HIDE DEF n
<1>4. \A i \in 1 .. n : \A x \in Sums :
         step[<<i, x>>] = b * x + Hex(s[i])
  OBVIOUS
<1> HIDE DEF step
<1>5. PICK h : FoldsSets(h, n, Sums, 0, step)
  BY <1>1, <1>2, <1>3, SetRecursion
<1>6. Eq(h)
  <2>1. \A T \in SUBSET (1 .. n) : T # {} =>
           Max(T) \in 1 .. n /\ h[T \ {Max(T)}] \in Sums
    BY <1>1, <1>5, MaxOfNumbers DEF FoldsSets
  <2>2. \A T \in SUBSET (1 .. n) : T # {} =>
           h[T] = b * h[T \ {Max(T)}] + Hex(s[Max(T)])
    BY <1>4, <1>5, <2>1 DEF FoldsSets
  <2>3. h[{}] = 0 /\ h = [T \in SUBSET (1 .. n) |-> h[T]]
    BY <1>5 DEF FoldsSets
  <2> QED
    BY <1>1, <2>2, <2>3
<1>7. Eq(f)
  BY <1>6
<1> HIDE DEF f
<1>8. f[1 .. 0] = 0
  BY <1>1, <1>7
<1>9. \A k \in 1 .. n : f[1 .. k] = b * f[1 .. k - 1] + Hex(s[k])
  <2> TAKE k \in 1 .. n
  <2>1. /\ 1 .. k \in SUBSET DOMAIN s /\ 1 .. k # {}
        /\ Max(1 .. k) = k /\ (1 .. k) \ {k} = 1 .. k - 1
    BY <1>1, MaxOfPrefix
  <2>2. f[1 .. k] = b * f[(1 .. k) \ {Max(1 .. k)}] + Hex(s[Max(1 .. k)])
    BY <1>7, <2>1
  <2> QED
    BY <2>1, <2>2
<1>10. \A k \in 1 .. n : f[1 .. k - 1] \in Sums =>
          f[1 .. k] = step[<<k, f[1 .. k - 1]>>]
  BY <1>4, <1>9
<1>11. PICK g : /\ Unrolls(g, n, Sums, 0, step)
                /\ g[n] = f[1 .. n]
  BY <1>1, <1>2, <1>3, <1>8, <1>10, FoldRun
<1>12. FoldLeft(LAMBDA n1, c1 : b * n1 + Hex(c1), 0, s) = f[1 .. n]
  BY <1>1 DEF FoldLeft, MapThenFoldSet, f
<1>13. \A k \in 1 .. n : g[k - 1] \in Sums
  BY <1>1, <1>11 DEF Unrolls
<1> QED
  BY <1>4, <1>11, <1>12, <1>13 DEF Unrolls, n

(* The value of a number in a text. *)
LEMMA NumberTyped ==
    ASSUME NEW t \in Text, NEW p \in Place, NEW q \in Nat, q <= Len(t) + 1,
           NEW b \in Nat
    PROVE  Number(t, p, q, b) \in Nat
<1> DEFINE s == SubSeq(t, p, q - 1)
<1>1. s \in Seq(DOMAIN Ord)
  <2>1. Len(t) \in Nat /\ t \in Seq(DOMAIN Ord)
    BY DEF Text
  <2>2. q - 1 \in Int /\ \A k \in p .. q - 1 : k \in 1 .. Len(t)
    BY <2>1 DEF Place
  <2> QED
    BY <2>1, <2>2 DEF Place
<1>2. Number(t, p, q, b) = FoldLeft(LAMBDA n1, c1 : b * n1 + Hex(c1), 0, s)
  BY DEF Number
<1> HIDE DEF s
<1>3. PICK g : /\ g \in [0 .. Len(s) -> Sums]
               /\ FoldLeft(LAMBDA n1, c1 : b * n1 + Hex(c1), 0, s) = g[Len(s)]
  BY <1>1, NumberRuns
<1>4. Len(s) \in 0 .. Len(s)
  BY <1>1
<1> QED
  BY <1>2, <1>3, <1>4 DEF Sums

(* A run of characters of a kind ends somewhere. *)
LEMMA RunExists ==
    ASSUME NEW t \in Text, NEW p \in 1 .. Len(t) + 1, NEW S
    PROVE  \E q \in p .. Len(t) + 1 : /\ q = Len(t) + 1 \/ q \in S
                                     /\ \A k \in p .. q - 1 : k \notin S
<1> DEFINE T == {q \in p .. Len(t) + 1 : q = Len(t) + 1 \/ q \in S}
<1>1. Len(t) \in Nat
  BY Codes
<1>2. T \subseteq Nat /\ Len(t) + 1 \in T
  BY <1>1
<1>3. PICK q \in T : \A k \in T : q <= k
  BY <1>2, LeastElement
<1>4. \A k \in p .. q - 1 : k \notin S
  <2> SUFFICES ASSUME NEW k \in p .. q - 1, k \in S
               PROVE  FALSE
    OBVIOUS
  <2>1. k \in T /\ k < q
    BY <1>1
  <2> QED
    BY <1>1, <1>3, <2>1
<1> QED
  BY <1>3, <1>4

(* Where the octal digits end. *)
LEMMA OctalRun ==
    ASSUME NEW t \in Text, NEW p \in 1 .. Len(t) + 1
    PROVE  RunEnd(t, p, Octal) \in p .. Len(t) + 1
<1> DEFINE S == {k \in 1 .. Len(t) : ~ Octal(t[k])}
<1>1. Len(t) \in Nat
  BY Codes
<1> HIDE DEF S
<1>2. PICK q \in p .. Len(t) + 1 : /\ q = Len(t) + 1 \/ q \in S
                                  /\ \A k \in p .. q - 1 : k \notin S
  BY RunExists
<1> USE DEF S
<1>3. /\ q = Len(t) + 1 \/ ~ Octal(t[q])
      /\ \A k \in p .. q - 1 : Octal(t[k])
  BY <1>1, <1>2
<1> QED
  BY <1>3 DEF RunEnd

(* Where the hexadecimal digits end. *)
LEMMA HexRun ==
    ASSUME NEW t \in Text, NEW p \in 1 .. Len(t) + 1
    PROVE  RunEnd(t, p, LAMBDA c1 : Hex(c1) < 16) \in p .. Len(t) + 1
<1> DEFINE S == {k \in 1 .. Len(t) : ~ (Hex(t[k]) < 16)}
<1>1. Len(t) \in Nat
  BY Codes
<1> HIDE DEF S
<1>2. PICK q \in p .. Len(t) + 1 : /\ q = Len(t) + 1 \/ q \in S
                                  /\ \A k \in p .. q - 1 : k \notin S
  BY RunExists
<1> USE DEF S
<1>3. /\ q = Len(t) + 1 \/ ~ (Hex(t[q]) < 16)
      /\ \A k \in p .. q - 1 : Hex(t[k]) < 16
  BY <1>1, <1>2
<1> QED
  BY <1>3 DEF RunEnd

(* A number is read as a character or refused. *)
LEMMA ReadCharTyped ==
    ASSUME NEW n \in Nat, NEW p \in Place
    PROVE  ReadChar(n, p) \in CharReadings \cup {Failed}
<1>1. ~ (n > MAX_VAL) => n \in Char
  BY CharAssumption, CharNumbers
<1> QED
  BY <1>1 DEF ReadChar, CharReadings

(* A character of a text is read as a character or refused. *)
LEMMA ChrTyped ==
    ASSUME NEW t \in Text, NEW p \in 1 .. Len(t)
    PROVE  Chr(t, p) \in CharReadings \cup {Failed}
<1>1. /\ Len(t) \in Nat /\ p \in Place /\ p + 1 \in Place
      /\ p + 1 \in 1 .. Len(t) + 1 /\ p \in 1 .. Len(t) + 1
      /\ (p + 1) + 1 \in Place
  BY Codes DEF Place
<1>2. DecodeOctal(t, p) \in CharReadings \cup {Failed}
  <2> DEFINE e == RunEnd(t, p, Octal)
             q == Lesser(e, p + 3)
  <2>1. e \in p .. Len(t) + 1
    BY <1>1, OctalRun
  <2> HIDE DEF e
  <2>2. q \in Place /\ q <= Len(t) + 1
    BY <1>1, <2>1 DEF Lesser, Place
  <2> HIDE DEF q
  <2>3. Number(t, p, q, 8) \in Nat
    BY <1>1, <2>2, NumberTyped DEF Place
  <2>4. DecodeOctal(t, p) = ReadChar(Number(t, p, q, 8), q)
    BY DEF DecodeOctal, q, e
  <2> QED
    BY <2>2, <2>3, <2>4, ReadCharTyped
<1>3. DecodeHex(t, p + 1) \in CharReadings \cup {Failed}
  <2> DEFINE m == p + 1
             q == RunEnd(t, m, LAMBDA c : Hex(c) < 16)
  <2>1. m \in Place /\ m \in 1 .. Len(t) + 1
    BY <1>1
  <2> HIDE DEF m
  <2>2. q \in m .. Len(t) + 1
    BY <2>1, HexRun
  <2>3. DecodeHex(t, m) = IF q = m THEN Failed ELSE ReadChar(Number(t, m, q, 16), q)
    BY DEF DecodeHex
  <2> HIDE DEF q
  <2>4. q \in Place /\ q <= Len(t) + 1
    BY <1>1, <2>1, <2>2 DEF Place
  <2>5. Number(t, m, q, 16) \in Nat
    BY <1>1, <2>1, <2>4, NumberTyped DEF Place
  <2> QED
    BY <2>3, <2>4, <2>5, ReadCharTyped DEF m
<1>4. DecodeControlChar(t, p + 1) \in CharReadings \cup {Failed}
  <2> DEFINE c == At(t, p + 1)
  <2>1. Code(c) \in Char
    BY Codes
  <2>2. DecodeControlChar(t, p + 1) =
           CASE IsLetter(c) -> ReadChar(ToUpper(Code(c)) - 64, (p + 1) + 1)
             [] c = "@" -> ReadChar(0, (p + 1) + 1)
             [] OTHER -> Failed
    BY DEF DecodeControlChar
  <2> HIDE DEF c
  <2>3. IsLetter(c) => ToUpper(Code(c)) - 64 \in Nat
    <3> DEFINE v == Code(c)
    <3>1. v \in Int
      BY <2>1, CharBounds
    <3>2. v \in 65 .. 90 \cup 97 .. 122 => ToUpper(v) - 64 \in Nat
      <4> HIDE DEF v
      <4> QED
        BY <3>1 DEF ToUpper
    <3> QED
      BY <3>2 DEF IsLetter
  <2>4. IsLetter(c) => ReadChar(ToUpper(Code(c)) - 64, (p + 1) + 1) \in CharReadings \cup {Failed}
    BY <1>1, <2>3, ReadCharTyped
  <2>5. ReadChar(0, (p + 1) + 1) \in CharReadings \cup {Failed}
    BY <1>1, ReadCharTyped
  <2> QED
    BY <2>2, <2>4, <2>5
<1>5. t[p] \in DOMAIN Controls => ReadChar(Controls[t[p]], p + 1) \in CharReadings \cup {Failed}
  <2>1. t[p] \in DOMAIN Controls => Controls[t[p]] \in Nat
    BY DEF Controls
  <2> QED
    BY <1>1, <2>1, ReadCharTyped
<1>6. ReadChar(Code(t[p]), p + 1) \in CharReadings \cup {Failed}
  <2>1. Code(t[p]) \in Nat
    BY Codes, CharBounds
  <2> QED
    BY <1>1, <2>1, ReadCharTyped
<1> QED
  BY <1>2, <1>3, <1>4, <1>5, <1>6 DEF Chr

-----------------------------------------------------------------------------
(* Escapes. *)

LEMMA NegatedClass ==
    ASSUME NEW s \in CharSet, \A k \in 1 .. Len(s) : s[k][1] >= 1
    PROVE  Negate(s) \in Classes
<1>1. 0 \in Char
  BY CharNumbers
<1>2. 0 \notin Chars(s)
  <2>1. \A k \in 1 .. Len(s) : s[k][1] \in Int
    BY CharSetRanges, CharBounds
  <2>2. \A k \in 1 .. Len(s) : ~ In(0, s[k])
    BY <2>1 DEF In
  <2>3. s \in Seq(Pair)
    BY CharSetRanges
  <2> QED
    BY <2>2, <2>3, InChars
<1>3. Negate(s) \in CharSet /\ 0 \in Chars(Negate(s))
  BY <1>1, <1>2, NegateExact
<1> QED
  BY <1>3, NonEmpty DEF Classes

(* The classes of \d, \s and \w and their complements. *)
LEMMA ShortcutsTyped ==
    \A c \in DOMAIN Shortcuts : Shortcuts[c] \in Classes
<1>1. Negate(Digit) \in Classes
  <2>1. Digit \in CharSet
    BY ClassesTyped DEF Classes
  <2>2. \A k \in 1 .. Len(Digit) : Digit[k][1] >= 1
    BY DEF Digit
  <2> QED
    BY <2>1, <2>2, NegatedClass
<1>2. Negate(Blanks) \in Classes
  <2>1. Blanks \in CharSet
    BY ClassesTyped DEF Classes
  <2>2. \A k \in 1 .. Len(Blanks) : Blanks[k][1] >= 1
    <3>1. Len(Blanks) = 2 /\ Blanks[1][1] = 9 /\ Blanks[2][1] = 32
      BY DEF Blanks
    <3>2. \A k \in 1 .. 2 : k = 1 \/ k = 2
      OBVIOUS
    <3> QED
      BY <3>1, <3>2
  <2> QED
    BY <2>1, <2>2, NegatedClass
<1>3. Negate(Word) \in Classes
  <2>1. Word \in CharSet
    BY ClassesTyped DEF Classes
  <2>2. \A k \in 1 .. Len(Word) : Word[k][1] >= 1
    <3>1. /\ Len(Word) = 4 /\ Word[1][1] = 48 /\ Word[2][1] = 65
          /\ Word[3][1] = 95 /\ Word[4][1] = 97
      BY DEF Word
    <3>2. \A k \in 1 .. 4 : k = 1 \/ k = 2 \/ k = 3 \/ k = 4
      OBVIOUS
    <3> QED
      BY <3>1, <3>2
  <2> QED
    BY <2>1, <2>2, NegatedClass
<1> DEFINE a == Negate(Digit)
           b == Negate(Blanks)
           c == Negate(Word)
<1>4. Shortcuts = [d |-> Digit, D |-> a, s |-> Blanks, S |-> b, w |-> Word, W |-> c]
  BY DEF Shortcuts
<1> HIDE DEF a, b, c
<1> QED
  BY <1>1, <1>2, <1>3, <1>4, ClassesTyped DEF a, b, c

(* A set that has been read. *)
LEMMA ReadSetTyped ==
    ASSUME NEW s \in CharSet, NEW p \in Place
    PROVE  ReadSet(s, p) \in SetReadings /\ ReadSet(s, p).str = s
BY DEF ReadSet, SetReadings

(* What stands behind a backslash is a character or a class that is not    *)
(* empty.                                                                  *)
LEMMA EscapeTyped ==
    ASSUME NEW t \in Text, NEW p \in Place
    PROVE  \/ EscapeSequence(t, p) = Failed
           \/ EscapeSequence(t, p) \in CharReadings
           \/ /\ EscapeSequence(t, p) \in SetReadings
              /\ EscapeSequence(t, p).str # <<>>
<1>1. Len(t) \in Nat
  BY Codes
<1>2. CASE Eos(t, p)
  BY <1>2 DEF EscapeSequence
<1>3. CASE ~ Eos(t, p)
  <2>1. p \in 1 .. Len(t) /\ p + 1 \in Place /\ (p + 1) + 4 \in Place
    BY <1>1, <1>3 DEF Place, Eos
  <2>2. CASE t[p] \in DOMAIN Shortcuts
    <3>1. EscapeSequence(t, p) = ReadSet(Shortcuts[t[p]], p + 1)
      BY <1>3, <2>2 DEF EscapeSequence, Shortcuts
    <3>2. Shortcuts[t[p]] \in Classes
      BY <2>2, ShortcutsTyped
    <3> QED
      BY <2>1, <3>1, <3>2, ReadSetTyped DEF Classes
  <2>3. CASE t[p] \notin DOMAIN Shortcuts /\ t[p] = "p"
    <3>1. EscapeSequence(t, p) = UnicodeEscape(t, p + 1)
      BY <1>3, <2>3 DEF EscapeSequence
    <3>2. \/ UnicodeEscape(t, p + 1) = Failed
          \/ UnicodeEscape(t, p + 1) = ReadSet(OtherControl, (p + 1) + 4)
      BY DEF UnicodeEscape
    <3>3. OtherControl \in Classes
      BY ClassesTyped
    <3> QED
      BY <2>1, <3>1, <3>2, <3>3, ReadSetTyped DEF Classes
  <2>4. CASE t[p] \notin DOMAIN Shortcuts /\ t[p] # "p"
    <3>1. EscapeSequence(t, p) = Chr(t, p)
      BY <1>3, <2>4 DEF EscapeSequence
    <3> QED
      BY <2>1, <3>1, ChrTyped
  <2> QED
    BY <2>2, <2>3, <2>4
<1> QED
  BY <1>2, <1>3

(* The text follows a word up to a first difference. *)
LEMMA FollowsTyped ==
    ASSUME NEW t, NEW p \in Nat, NEW w, Len(w) \in Nat
    PROVE  Follows(t, p, w) \in 0 .. Len(w)
<1> DEFINE T == {n \in 0 .. Len(w) : n < Len(w) => At(t, p + n) # w[n + 1]}
<1>1. T \subseteq Nat /\ Len(w) \in T
  OBVIOUS
<1> HIDE DEF T
<1>2. PICK n \in T : \A k \in T : n <= k
  BY <1>1, LeastElement
<1>3. \A k \in 1 .. n : At(t, p + k - 1) = w[k]
  <2> SUFFICES ASSUME NEW k \in 1 .. n, At(t, p + k - 1) # w[k]
               PROVE  FALSE
    OBVIOUS
  <2>0. n \in 0 .. Len(w)
    BY DEF T
  <2>1. /\ k - 1 \in 0 .. Len(w) /\ (k - 1) + 1 = k /\ p + (k - 1) = p + k - 1
        /\ k - 1 < n
    BY <2>0
  <2>2. k - 1 \in T
    BY <2>1 DEF T
  <2>3. n <= k - 1
    BY <1>2, <2>2
  <2>4. n \in Nat /\ k - 1 \in Int
    BY <1>1, <2>1
  <2> QED
    BY <2>1, <2>3, <2>4
<1>4. n \in 0 .. Len(w) /\ (n < Len(w) => At(t, p + n) # w[n + 1])
  BY DEF T
<1> QED
  BY <1>3, <1>4 DEF Follows

-----------------------------------------------------------------------------
(* Bracket expressions. *)

ByLetter(c) == PosixByLetter[c]
ByName(c) == PosixByName[c]

(* The tables of the POSIX names. *)
LEMMA PosixTables ==
    /\ \A c \in DOMAIN PosixByLetter :
          ByLetter(c).str \in CharSet /\ Len(ByLetter(c).name) \in Nat
    /\ \A c \in DOMAIN PosixByName :
          /\ ByName(c).first.str \in CharSet /\ ByName(c).second.str \in CharSet
          /\ Len(ByName(c).first.name) \in Nat /\ Len(ByName(c).second.name) \in Nat
<1>1. /\ Blank \in CharSet /\ Cntrl \in CharSet /\ Digit \in CharSet
      /\ Graph \in CharSet /\ Lower \in CharSet /\ Space \in CharSet
      /\ Upper \in CharSet /\ XDigit \in CharSet /\ Alnum \in CharSet
      /\ Alpha \in CharSet /\ Printable \in CharSet /\ Punct \in CharSet
  BY ClassesTyped DEF Classes
<1>2. ASSUME NEW c \in DOMAIN PosixByLetter
      PROVE  ByLetter(c).str \in CharSet /\ Len(ByLetter(c).name) \in Nat
  BY <1>1, <1>2 DEF PosixByLetter, ByLetter
<1>3. ASSUME NEW c \in DOMAIN PosixByName
      PROVE  /\ ByName(c).first.str \in CharSet /\ ByName(c).second.str \in CharSet
             /\ Len(ByName(c).first.name) \in Nat /\ Len(ByName(c).second.name) \in Nat
  BY <1>1, <1>3 DEF PosixByName, ByName
<1> QED
  BY <1>2, <1>3

(* A POSIX name is read as a set or refused, *)
LEMMA PosixNameTyped ==
    ASSUME NEW t \in Text, NEW p \in Place
    PROVE  PosixName(t, p) \in SetReadings \cup {Failed}
<1>1. p \in Nat /\ \A n \in Nat : p + n \in Place
  BY DEF Place
<1>2. At(t, p) # "" => At(t, p) = t[p]
  BY DEF At
<1>3. CASE At(t, p) \in DOMAIN PosixByLetter
  <2>1. At(t, p) = t[p]
    BY <1>2, <1>3 DEF PosixByLetter
  <2> DEFINE class == ByLetter(t[p])
             n == Follows(t, p, class.name)
  <2>2. class.str \in CharSet /\ Len(class.name) \in Nat
    BY <1>3, <2>1, PosixTables
  <2>3. At(t, p) \notin DOMAIN PosixByName
    BY <1>3 DEF PosixByLetter, PosixByName
  <2>4. PosixName(t, p) = IF n < Len(class.name) - 1 THEN Failed
                          ELSE ReadSet(class.str, p + n)
    BY <1>3, <2>3 DEF PosixName, ByLetter
  <2> HIDE DEF class
  <2>5. n \in Nat
    BY <1>1, <2>2, FollowsTyped
  <2> HIDE DEF n
  <2> QED
    BY <1>1, <2>2, <2>4, <2>5, ReadSetTyped
<1>4. CASE At(t, p) \in DOMAIN PosixByName
  <2>1. At(t, p) = t[p]
    BY <1>2, <1>4 DEF PosixByName
  <2> DEFINE class == ByName(t[p])
             m == Follows(t, p, class.first.name)
             n == Follows(t, p, class.second.name)
  <2>2. /\ class.first.str \in CharSet /\ class.second.str \in CharSet
        /\ Len(class.first.name) \in Nat /\ Len(class.second.name) \in Nat
    BY <1>4, <2>1, PosixTables
  <2>3. At(t, p) \notin DOMAIN PosixByLetter
    BY <1>4 DEF PosixByLetter, PosixByName
  <2>4. PosixName(t, p) =
           ReadSet(IF n = Len(class.second.name) THEN class.second.str
                   ELSE class.first.str, p + Greater(m, n))
    BY <1>4, <2>3 DEF PosixName, ByName
  <2> HIDE DEF class
  <2>5. n \in Nat /\ m \in Nat
    BY <1>1, <2>2, FollowsTyped
  <2> HIDE DEF n, m
  <2>6. Greater(m, n) \in Nat
    BY <2>5 DEF Greater
  <2> QED
    BY <1>1, <2>2, <2>4, <2>6, ReadSetTyped
<1>5. CASE At(t, p) \notin DOMAIN PosixByLetter /\ At(t, p) \notin DOMAIN PosixByName
  BY <1>5 DEF PosixName
<1> QED
  BY <1>3, <1>4, <1>5

(* folded and negated or not. *)
LEMMA PosixTyped ==
    ASSUME NEW t \in Text, NEW p \in Place, NEW fs
    PROVE  Posix(t, p, fs) \in SetReadings \cup {Failed}
<1> DEFINE negate == At(t, p) = "^"
           class == PosixName(t, IF negate THEN p + 1 ELSE p)
<1>1. class \in SetReadings \cup {Failed}
  <2>1. p + 1 \in Place
    BY DEF Place
  <2> QED
    BY <2>1, PosixNameTyped
<1>2. Posix(t, p, fs) = EndPosix(t, class, negate, fs)
  BY DEF Posix
<1> HIDE DEF class, negate
<1>3. CASE class.ok
  <2>1. class \in SetReadings
    BY <1>1, <1>3 DEF Failed
  <2>2. class.str \in CharSet /\ class.next \in Place
    BY <2>1 DEF SetReadings
  <2> DEFINE q == IF At(t, class.next) = ":" THEN class.next + 1 ELSE class.next
             str == Folded(class.str, fs)
  <2>3. q + 1 \in Place
    BY <2>2 DEF Place
  <2>4. str \in CharSet
    BY <2>2, FoldedTyped
  <2>5. EndPosix(t, class, negate, fs) =
           IF At(t, q) # "]" THEN Failed
           ELSE ReadSet(IF negate THEN Negate(str) ELSE str, q + 1)
    BY <1>3 DEF EndPosix
  <2> HIDE DEF q, str
  <2>6. Negate(str) \in CharSet
    BY <2>4, NegateExact
  <2> QED
    BY <1>2, <2>3, <2>4, <2>5, <2>6, ReadSetTyped
<1>4. CASE ~ class.ok
  BY <1>2, <1>4 DEF EndPosix
<1> QED
  BY <1>3, <1>4

(* What a reading is of says which fields it has. *)
LEMMA Kinds ==
    /\ \A x \in CharReadings : x.ok /\ x.char \in Char /\ x.next \in Place /\ ~ IsClass(x)
    /\ \A x \in SetReadings : x.ok /\ x.str \in CharSet /\ x.next \in Place /\ IsClass(x)
    /\ ~ Failed.ok
BY DEF CharReadings, SetReadings, Failed, IsClass

(* An item of a bracket expression is a character, a set or refused. *)
LEMMA ItemTyped ==
    ASSUME NEW t \in Text, NEW p \in 1 .. Len(t), NEW fs
    PROVE  Item(t, p, fs) \in CharReadings \cup SetReadings \cup {Failed}
<1>1. /\ Len(t) \in Nat /\ p + 1 \in Place /\ p + 2 \in Place
      /\ At(t, p) = t[p] /\ Code(t[p]) \in Nat
  <2>1. Len(t) \in Nat /\ DOMAIN t = 1 .. Len(t) /\ Code(t[p]) \in Char
    BY Codes
  <2>2. p + 1 \in Place /\ p + 2 \in Place
    BY <2>1 DEF Place
  <2> QED
    BY <2>1, <2>2, CharBounds DEF At
<1>2. /\ EscapeSequence(t, p + 1) \in CharReadings \cup SetReadings \cup {Failed}
      /\ Posix(t, p + 2, fs) \in CharReadings \cup SetReadings \cup {Failed}
      /\ ReadChar(Code(t[p]), p + 1) \in CharReadings \cup SetReadings \cup {Failed}
  BY <1>1, EscapeTyped, PosixTyped, ReadCharTyped
<1> QED
  BY <1>1, <1>2 DEF Item, OpensPosix

(* A turn of charset ends inside the text. *)
Turn(t, turn) == /\ turn.str \in CharSet
                 /\ turn.next \in 1 .. Len(t)

(* A range of a bracket expression that is not refused. *)
LEMMA CharsetRangeTyped ==
    ASSUME NEW t \in Text, NEW low \in Char, NEW fs,
           NEW high \in CharReadings \cup SetReadings \cup {Failed},
           CharsetRange(t, low, high, fs).ok
    PROVE  Turn(t, CharsetRange(t, low, high, fs))
<1>1. high.ok /\ ~ IsClass(high) /\ ~ Eos(t, high.next) /\ ~ (high.char < low)
  BY Kinds DEF CharsetRange
<1>2. high.char \in Char /\ high.next \in Place
  BY <1>1, Kinds
<1>3. IsRange(<<low, high.char>>)
  <2> DEFINE c == high.char
  <2>1. c \in Char /\ ~ (c < low)
    BY <1>1, <1>2
  <2> HIDE DEF c
  <2>2. low \in Int /\ c \in Int
    BY <2>1, CharBounds
  <2>3. IsRange(<<low, c>>)
    BY <2>1, <2>2 DEF IsRange, Pair
  <2> QED
    BY <2>3 DEF c
<1>4. WithCases(<<>>, <<low, high.char>>, fs) \in CharSet
  BY <1>3, EmptyCharSet, WithCasesTyped
<1>5. high.next \in 1 .. Len(t)
  BY <1>1, <1>2, Codes DEF Eos, Place
<1>6. CharsetRange(t, low, high, fs) =
         ReadSet(WithCases(<<>>, <<low, high.char>>, fs), high.next)
  BY <1>1 DEF CharsetRange
<1> QED
  BY <1>4, <1>5, <1>6 DEF Turn, ReadSet

(* A turn of the loop over a bracket expression that is not refused. *)
LEMMA CharsetTurnTyped ==
    ASSUME NEW t \in Text, NEW p \in 1 .. Len(t), NEW fs, CharsetTurn(t, p, fs).ok
    PROVE  Turn(t, CharsetTurn(t, p, fs))
<1> DEFINE item == Item(t, p, fs)
           turn == AddItem(t, item, fs)
           dash == item.next
           high == Item(t, dash + 1, fs)
<1>1. item \in CharReadings \cup SetReadings \cup {Failed}
  BY ItemTyped
<1>2. turn.ok /\ CharsetTurn(t, p, fs) = turn
  BY DEF CharsetTurn
<1>3. turn = IF ~ item.ok THEN Failed
             ELSE IF Eos(t, dash) THEN Failed
             ELSE IF t[dash] # "-"
             THEN IF IsClass(item) THEN item
                  ELSE ReadSet(WithCases(<<>>, <<item.char, item.char>>, fs), dash)
             ELSE IF IsClass(item) \/ Eos(t, dash + 1) \/ OpensPosix(t, dash + 1)
             THEN Failed
             ELSE CharsetRange(t, item.char, high, fs)
  BY DEF AddItem
<1> HIDE DEF item, turn
<1>4. item.ok /\ ~ Eos(t, dash)
  BY <1>2, <1>3, Kinds
<1>5. dash \in Place
  BY <1>1, <1>4, Kinds
<1>6. dash \in 1 .. Len(t)
  BY <1>4, <1>5, Codes DEF Eos, Place
<1>7. CASE IsClass(item)
  <2>1. turn = item
    BY <1>2, <1>3, <1>4, <1>7, Kinds
  <2> QED
    BY <1>1, <1>2, <1>4, <1>6, <1>7, <2>1, Kinds DEF Turn
<1>8. CASE ~ IsClass(item)
  <2>1. item.char \in Char
    BY <1>1, <1>4, <1>8, Kinds
  <2>2. CASE t[dash] # "-"
    <3>1. turn = ReadSet(WithCases(<<>>, <<item.char, item.char>>, fs), dash)
      BY <1>3, <1>4, <1>8, <2>2
    <3>2. WithCases(<<>>, <<item.char, item.char>>, fs) \in CharSet
      BY <2>1, SingleRange, EmptyCharSet, WithCasesTyped
    <3> QED
      BY <1>2, <1>6, <3>1, <3>2 DEF Turn, ReadSet
  <2>3. CASE t[dash] = "-"
    <3>1. turn = CharsetRange(t, item.char, high, fs) /\ ~ Eos(t, dash + 1)
      BY <1>2, <1>3, <1>4, <1>8, <2>3, Kinds
    <3>2. dash + 1 \in 1 .. Len(t)
      BY <1>6, <3>1, Codes DEF Eos
    <3>3. high \in CharReadings \cup SetReadings \cup {Failed}
      BY <3>2, ItemTyped
    <3> HIDE DEF high
    <3> QED
      BY <1>2, <2>1, <3>1, <3>3, CharsetRangeTyped
  <2> QED
    BY <2>2, <2>3
<1> QED
  BY <1>7, <1>8

-----------------------------------------------------------------------------
(* Tokens. *)

(* The types the tokeniser gives, and those of repeats by number.          *)
Lexed == {"BEGIN", "END", "CHARSET", "BOL", "EOL", "OPENPAREN", "CLOSEPAREN",
          "OR", "MACRO", "DIFF"} \cup Duplicators
Repeats == {"REPEATN", "AREPEATN"}

(* How often such a repeat is.                                             *)
Times == [min : Nat, comma : BOOLEAN, max : Nat]

(* A token whose set is in normal form, and not empty where it matters.    *)
TokenOk(tok) ==
    /\ tok = [type |-> tok.type, str |-> tok.str, extra |-> tok.extra]
    /\ tok.type \in Lexed
    /\ tok.str \in CharSet
    /\ tok.type = "CHARSET" => tok.str # <<>>
    /\ tok.type \in Repeats => tok.extra \in Times

(* A token without characters, and a token with a class. *)
LEMMA PlainToken ==
    /\ \A type \in Lexed : type # "CHARSET" /\ type \notin Repeats => TokenOk(Token(type))
    /\ \A type : Token(type).type = type /\ Token(type).str = <<>>
    /\ \A str \in Classes : TokenOk(Charset(str))
    /\ \A str : Charset(str).str = str /\ Charset(str).type = "CHARSET"
<1>1. "CHARSET" \in Lexed /\ "CHARSET" \notin Repeats
  BY DEF Lexed, Repeats
<1> QED
  BY <1>1, EmptyCharSet DEF TokenOk, Token, Charset, Classes

(* The tokens without characters that are read. *)
LEMMA PlainTypes ==
    \A type \in {"BEGIN", "END", "BOL", "EOL", "OPENPAREN", "CLOSEPAREN", "OR"} :
        TokenOk(Token(type))
<1>1. \A type \in {"BEGIN", "END", "BOL", "EOL", "OPENPAREN", "CLOSEPAREN", "OR"} :
         type \in Lexed /\ type # "CHARSET" /\ type \notin Repeats
  BY DEF Lexed, Repeats
<1> QED
  BY <1>1, PlainToken

(* A token with a bound or a macro. *)
LEMMA ExplicitToken ==
    \A type \in Lexed : \A extra :
        type # "CHARSET" /\ (type \in Repeats => extra \in Times) =>
            TokenOk([type |-> type, str |-> <<>>, extra |-> extra])
BY EmptyCharSet DEF TokenOk

(* A duplicator, lazy or not. *)
LEMMA DuplicatorTyped ==
    ASSUME NEW t, NEW p, NEW type \in Greedy, NEW extra,
           type = "REPEATN" => extra \in Times
    PROVE  LET tok == [type |-> type, str |-> <<>>, extra |-> extra]
           IN  TokenOk(Duplicator(t, p, tok).token)
<1> DEFINE tok == [type |-> type, str |-> <<>>, extra |-> extra]
<1>1. TokenOk(tok)
  <2>1. type \in Lexed /\ type # "CHARSET" /\ (type \in Repeats => type = "REPEATN")
    BY DEF Greedy, Lexed, Repeats, Duplicators
  <2> QED
    BY <2>1, ExplicitToken
<1>2. [tok EXCEPT !.type = Abstemious[@]] =
         [type |-> Abstemious[type], str |-> <<>>, extra |-> extra]
  OBVIOUS
<1>3. /\ Abstemious[type] # "CHARSET" /\ Abstemious[type] \in Lexed
      /\ Abstemious[type] \in Repeats => type = "REPEATN"
  BY DEF Abstemious, Greedy, Lexed, Repeats, Duplicators
<1>4. TokenOk([tok EXCEPT !.type = Abstemious[@]])
  BY <1>2, <1>3, ExplicitToken
<1> QED
  BY <1>1, <1>4 DEF Duplicator, ReadToken

(* Where the decimal digits end. *)
LEMMA DigitRun ==
    ASSUME NEW t \in Text, NEW p \in 1 .. Len(t) + 1
    PROVE  RunEnd(t, p, IsDigit) \in p .. Len(t) + 1
<1> DEFINE S == {k \in 1 .. Len(t) : ~ IsDigit(t[k])}
<1>1. Len(t) \in Nat
  BY Codes
<1> HIDE DEF S
<1>2. PICK q \in p .. Len(t) + 1 : /\ q = Len(t) + 1 \/ q \in S
                                  /\ \A k \in p .. q - 1 : k \notin S
  BY RunExists
<1> USE DEF S
<1>3. /\ q = Len(t) + 1 \/ ~ IsDigit(t[q])
      /\ \A k \in p .. q - 1 : IsDigit(t[k])
  BY <1>1, <1>2
<1> QED
  BY <1>3 DEF RunEnd

(* A repeat by number. *)
LEMMA RepeatNTyped ==
    ASSUME NEW t \in Text, NEW p \in 1 .. Len(t), RepeatN(t, p).ok
    PROVE  TokenOk(RepeatN(t, p).token)
<1> DEFINE q == RunEnd(t, p, IsDigit)
           comma == At(t, q) = ","
           r == IF comma THEN RunEnd(t, q + 1, IsDigit) ELSE q
           given == comma /\ r > q + 1
           min == Number(t, p, q, 10)
           max == IF given THEN Number(t, q + 1, r, 10) ELSE 0
           tok == RepeatToken(min, comma, max, given)
<1>1. RepeatN(t, p) =
         CASE At(t, r) # "}" -> Failed
           [] tok.type = "REPEATN" /\ min = 0 /\ max = 0 -> Failed
           [] given /\ max < min -> Failed
           [] OTHER -> Duplicator(t, r + 1, tok)
  BY DEF RepeatN
<1>2. min \in Nat /\ max \in Nat
  <2>1. /\ Len(t) \in Nat /\ q \in p .. Len(t) + 1 /\ p \in Place /\ 10 \in Nat
        /\ q \in Nat /\ q <= Len(t) + 1
    <3>1. Len(t) \in Nat /\ p \in 1 .. Len(t) + 1 /\ p \in Place
      BY Codes DEF Place
    <3> HIDE DEF q
    <3>2. q \in p .. Len(t) + 1
      BY <3>1, DigitRun DEF q
    <3> QED
      BY <3>1, <3>2
  <2>2. comma => /\ q + 1 \in Place /\ r \in Nat /\ r <= Len(t) + 1
    <3>1. comma => q \in 1 .. Len(t)
      BY Codes DEF At
    <3> HIDE DEF q
    <3> SUFFICES ASSUME comma
                 PROVE  q + 1 \in Place /\ r \in Nat /\ r <= Len(t) + 1
      OBVIOUS
    <3> DEFINE l == Len(t)
               e == RunEnd(t, q + 1, IsDigit)
    <3>2. q \in 1 .. l /\ l \in Nat
      BY <2>1, <3>1
    <3>3. r = e
      OBVIOUS
    <3> HIDE DEF comma, r
    <3>4. q + 1 \in 1 .. l + 1 /\ q + 1 \in Nat \ {0}
      <4> HIDE DEF l
      <4> QED
        BY <3>2
    <3>5. e \in q + 1 .. l + 1
      BY <3>4, DigitRun
    <3>6. e \in Nat /\ e <= l + 1
      <4> HIDE DEF e, l
      <4> QED
        BY <3>2, <3>5
    <3> QED
      BY <3>3, <3>4, <3>6 DEF Place
  <2> HIDE DEF q, r
  <2>3. Number(t, p, q, 10) \in Nat
    BY <2>1, NumberTyped
  <2>4. comma => Number(t, q + 1, r, 10) \in Nat
    BY <2>1, <2>2, NumberTyped
  <2> QED
    BY <2>3, <2>4
<1> HIDE DEF tok, given, max, min, r
<1>3. RepeatN(t, p) = Duplicator(t, r + 1, tok)
  BY <1>1, Kinds
<1>4. \E type \in Greedy : \E extra :
         /\ tok = [type |-> type, str |-> <<>>, extra |-> extra]
         /\ type = "REPEATN" => extra \in Times
  <2>1. comma \in BOOLEAN
    OBVIOUS
  <2> HIDE DEF comma
  <2>2. \/ tok = Token("ZEROORMORE") \/ tok = Token("ONEORMORE")
        \/ tok = Token("OPT")
        \/ tok = Repeat(min, FALSE, 0) \/ tok = Repeat(min, comma, max)
    BY DEF tok, RepeatToken
  <2>3. PICK m \in Nat, c \in BOOLEAN, x \in Nat :
           \/ tok = Token("ZEROORMORE") \/ tok = Token("ONEORMORE")
           \/ tok = Token("OPT") \/ tok = Repeat(m, c, x)
    <3>1. FALSE \in BOOLEAN /\ 0 \in Nat
      OBVIOUS
    <3> QED
      BY <1>2, <2>1, <2>2, <3>1
  <2>4. /\ "ZEROORMORE" \in Greedy /\ "ONEORMORE" \in Greedy /\ "OPT" \in Greedy
        /\ "REPEATN" \in Greedy
    BY DEF Greedy
  <2>5. tok = Repeat(m, c, x) =>
           tok = [type |-> "REPEATN", str |-> <<>>,
                  extra |-> [min |-> m, comma |-> c, max |-> x]]
    BY DEF Repeat
  <2>6. \A type : Token(type) = [type |-> type, str |-> <<>>, extra |-> <<>>]
    BY DEF Token
  <2>7. [min |-> m, comma |-> c, max |-> x] \in Times
    BY DEF Times
  <2> QED
    BY <2>3, <2>4, <2>5, <2>6, <2>7
<1> QED
  BY <1>3, <1>4, DuplicatorTyped

(* What an open brace begins. *)
LEMMA OpenCurlyTyped ==
    ASSUME NEW t \in Text, NEW p \in Place, NEW l, OpenCurly(t, p, l).ok
    PROVE  TokenOk(OpenCurly(t, p, l).token)
<1>1. ~ Eos(t, p) /\ p \in 1 .. Len(t)
  <2>1. ~ Eos(t, p)
    BY Kinds DEF OpenCurly
  <2>2. Len(t) \in Nat
    BY Codes
  <2> QED
    BY <2>1, <2>2 DEF Eos, Place
<1>0. "DIFF" \in Lexed /\ "MACRO" \in Lexed /\ "DIFF" \notin Repeats /\ "MACRO" \notin Repeats
  BY DEF Lexed, Repeats
<1>2. DiffSign(t, p, l).ok => TokenOk(DiffSign(t, p, l).token)
  <2>1. [Token("DIFF") EXCEPT !.extra = <<t[p]>>] =
           [type |-> "DIFF", str |-> <<>>, extra |-> <<t[p]>>]
    BY DEF Token
  <2>2. TokenOk([Token("DIFF") EXCEPT !.extra = <<t[p]>>])
    BY <1>0, <2>1, ExplicitToken
  <2>3. DiffSign(t, p, l).ok =>
           DiffSign(t, p, l) = ReadToken([Token("DIFF") EXCEPT !.extra = <<t[p]>>], p + 2)
    BY Kinds DEF DiffSign
  <2> QED
    BY <2>2, <2>3 DEF ReadToken
<1>3. MacroName(t, p).ok => TokenOk(MacroName(t, p).token)
  <2> DEFINE q == RunEnd(t, p, InName)
             x == SubSeq(t, p, q - 1)
             read == MacroName(t, p)
  <2>1. [Token("MACRO") EXCEPT !.extra = x] =
           [type |-> "MACRO", str |-> <<>>, extra |-> x]
    <3> HIDE DEF x
    <3> QED
      BY DEF Token
  <2>2. TokenOk([Token("MACRO") EXCEPT !.extra = x])
    BY <1>0, <2>1, ExplicitToken
  <2>3. read = Failed \/ read = ReadToken([Token("MACRO") EXCEPT !.extra = x], q + 1)
    BY DEF MacroName
  <2> HIDE DEF x, q, read
  <2>4. read.ok => TokenOk(read.token)
    BY <2>2, <2>3, Kinds DEF ReadToken
  <2> QED
    BY <2>4 DEF read
<1>4. \/ OpenCurly(t, p, l) = DiffSign(t, p, l)
      \/ OpenCurly(t, p, l) = RepeatN(t, p)
      \/ OpenCurly(t, p, l) = MacroName(t, p)
  BY <1>1 DEF OpenCurly
<1> QED
  BY <1>1, <1>2, <1>3, <1>4, RepeatNTyped

-----------------------------------------------------------------------------
(* Sequences of tokens, and what taking a token does to them. *)

(* A sequence of such tokens. *)
SeqOk(ts) == \E S : ts \in Seq(S) /\ \A x \in S : TokenOk(x)

(* A sequence of such tokens, token by token. *)
LEMMA SeqTokens ==
    ASSUME NEW ts, SeqOk(ts)
    PROVE  /\ Len(ts) \in Nat /\ DOMAIN ts = 1 .. Len(ts)
           /\ \A k \in 1 .. Len(ts) : TokenOk(ts[k])
BY DEF SeqOk

(* None and one token. *)
LEMMA SeqOne ==
    /\ SeqOk(<<>>)
    /\ \A x : TokenOk(x) => SeqOk(<<x>>)
<1>1. SeqOk(<<>>)
  <2> DEFINE S == {}
  <2>1. <<>> \in Seq(S) /\ \A y \in S : TokenOk(y)
    OBVIOUS
  <2> HIDE DEF S
  <2> QED
    BY <2>1 DEF SeqOk
<1>2. ASSUME NEW x, TokenOk(x)
      PROVE  SeqOk(<<x>>)
  <2> DEFINE S == {x}
  <2>1. <<x>> \in Seq(S) /\ \A y \in S : TokenOk(y)
    BY <1>2
  <2> HIDE DEF S
  <2> QED
    BY <2>1 DEF SeqOk
<1> QED
  BY <1>1, <1>2

(* A sequence over a set is one over a greater set. *)
LEMMA SeqWider ==
    ASSUME NEW S, NEW T, S \subseteq T, NEW s \in Seq(S)
    PROVE  s \in Seq(T)
<1>1. Len(s) \in Nat /\ s \in [1 .. Len(s) -> T]
  OBVIOUS
<1> QED
  BY <1>1

(* Such sequences end to end, *)
LEMMA SeqJoin ==
    ASSUME NEW s, SeqOk(s), NEW t, SeqOk(t)
    PROVE  SeqOk(s \o t) /\ Len(s \o t) = Len(s) + Len(t)
<1>1. PICK S : s \in Seq(S) /\ \A x \in S : TokenOk(x)
  BY DEF SeqOk
<1>2. PICK T : t \in Seq(T) /\ \A x \in T : TokenOk(x)
  BY DEF SeqOk
<1>3. s \in Seq(S \cup T)
  BY <1>1, SeqWider
<1>4. t \in Seq(S \cup T)
  BY <1>2, SeqWider
<1>5. s \o t \in Seq(S \cup T) /\ Len(s \o t) = Len(s) + Len(t)
  BY <1>3, <1>4
<1>6. \A x \in S \cup T : TokenOk(x)
  BY <1>1, <1>2
<1> QED
  BY <1>5, <1>6 DEF SeqOk

(* with a token more, *)
LEMMA SeqAppend ==
    ASSUME NEW s, SeqOk(s), NEW x, TokenOk(x)
    PROVE  SeqOk(Append(s, x)) /\ Len(Append(s, x)) = Len(s) + 1
<1>1. PICK S : s \in Seq(S) /\ \A y \in S : TokenOk(y)
  BY DEF SeqOk
<1>2. s \in Seq(S \cup {x})
  BY <1>1, SeqWider
<1>3. Append(s, x) \in Seq(S \cup {x}) /\ Len(Append(s, x)) = Len(s) + 1
  BY <1>2
<1>4. \A y \in S \cup {x} : TokenOk(y)
  BY <1>1
<1> QED
  BY <1>3, <1>4 DEF SeqOk

(* a stretch of them *)
LEMMA SeqPart ==
    ASSUME NEW s, SeqOk(s), NEW m \in Nat \ {0}, NEW n \in Int, n <= Len(s)
    PROVE  /\ SeqOk(SubSeq(s, m, n))
           /\ m <= n => Len(SubSeq(s, m, n)) = n - m + 1
<1>1. PICK S : s \in Seq(S) /\ \A y \in S : TokenOk(y)
  BY DEF SeqOk
<1>2. \A k \in m .. n : k \in 1 .. Len(s)
  BY <1>1
<1>3. SubSeq(s, m, n) \in Seq(S)
  BY <1>1, <1>2
<1>4. m <= n => Len(SubSeq(s, m, n)) = n - m + 1
  BY <1>1, <1>2
<1> QED
  BY <1>1, <1>3, <1>4 DEF SeqOk

(* and all but the last. *)
LEMMA SeqFront ==
    ASSUME NEW s, SeqOk(s), s # <<>>
    PROVE  SeqOk(Front(s)) /\ TokenOk(Last(s)) /\ Len(s) >= 1
<1>1. Len(s) \in Nat /\ Len(s) # 0
  <2>1. PICK S : s \in Seq(S)
    BY DEF SeqOk
  <2> QED
    BY <2>1
<1>2. Len(s) - 1 \in Int /\ Len(s) - 1 <= Len(s) /\ Len(s) \in 1 .. Len(s)
  BY <1>1
<1>3. SeqOk(SubSeq(s, 1, Len(s) - 1))
  BY <1>2, SeqPart
<1>4. TokenOk(s[Len(s)])
  BY <1>2, SeqTokens
<1> QED
  BY <1>1, <1>3, <1>4 DEF Front, Last

-----------------------------------------------------------------------------
(* tokenise.                                                               *)

(* Tokens begin with BEGIN, and END does not come next.                    *)
Opened(ts) == ts[1].type = "BEGIN" /\ (Len(ts) >= 2 => ts[2].type # "END")

(* What is stored of a macro or a rule. *)
Stored(ts) == SeqOk(ts) /\ Len(ts) >= 3 /\ Opened(ts)

(* Every macro has such tokens. *)
MacrosOk == \A n \in DOMAIN macro_map : Stored(macro_map[n])

(* The body of a macro. *)
LEMMA BodyOk ==
    ASSUME MacrosOk, NEW n \in DOMAIN macro_map
    PROVE  /\ SeqOk(Body(n)) /\ TokenOk(macro_map[n][2])
           /\ Len(Body(n)) >= 1 /\ Body(n)[1].type # "END"
<1> DEFINE m == macro_map[n]
           body == SubSeq(m, 2, Len(m) - 1)
<1>1. SeqOk(m) /\ Len(m) >= 3 /\ Len(m) \in Nat /\ m[2].type # "END"
  <2>1. SeqOk(m) /\ Len(m) >= 3 /\ Opened(m)
    BY DEF MacrosOk, Stored
  <2>2. Len(m) \in Nat
    BY <2>1, SeqTokens
  <2> HIDE DEF m
  <2>3. Len(m) >= 2
    BY <2>1, <2>2
  <2> QED
    BY <2>1, <2>2, <2>3 DEF Opened
<1>2. Body(n) = IF Multiple(n)
                THEN <<Token("OPENPAREN")>> \o body \o <<Token("CLOSEPAREN")>>
                ELSE body
  BY DEF Body
<1> HIDE DEF m
<1>3. SeqOk(body)
  <2>1. Len(m) - 1 \in Int /\ Len(m) - 1 <= Len(m) /\ 2 \in Nat \ {0}
    BY <1>1
  <2> QED
    BY <1>1, <2>1, SeqPart
<1>10. Len(body) >= 1 /\ Len(body) \in Nat /\ body[1].type # "END"
  <2>1. PICK S : m \in Seq(S)
    BY <1>1 DEF SeqOk
  <2>2. /\ 2 \in 1 .. Len(m) + 1 /\ Len(m) - 1 \in 1 - 1 .. Len(m)
        /\ \A k \in 2 .. Len(m) - 1 : k \in 1 .. Len(m)
    BY <1>1
  <2>3. Len(body) = (Len(m) - 1) - 2 + 1 /\ body[1] = m[2]
    BY <1>1, <2>1, <2>2
  <2> HIDE DEF body
  <2> QED
    BY <1>1, <2>3
<1> HIDE DEF body
<1>4. /\ TokenOk(Token("OPENPAREN")) /\ TokenOk(Token("CLOSEPAREN"))
  BY PlainTypes
<1>5. SeqOk(<<Token("OPENPAREN")>>) /\ SeqOk(<<Token("CLOSEPAREN")>>)
  BY <1>4, SeqOne
<1>6. SeqOk(<<Token("OPENPAREN")>> \o body)
  BY <1>3, <1>5, SeqJoin
<1>7. SeqOk((<<Token("OPENPAREN")>> \o body) \o <<Token("CLOSEPAREN")>>)
  BY <1>5, <1>6, SeqJoin
<1>8. 2 \in 1 .. Len(m)
  BY <1>1
<1>9. TokenOk(m[2])
  BY <1>1, <1>8, SeqTokens
<1>11. /\ Len((<<Token("OPENPAREN")>> \o body) \o <<Token("CLOSEPAREN")>>) >= 1
       /\ ((<<Token("OPENPAREN")>> \o body) \o <<Token("CLOSEPAREN")>>)[1] = Token("OPENPAREN")
  <2> DEFINE o == Token("OPENPAREN")
             c == Token("CLOSEPAREN")
  <2>1. PICK S : body \in Seq(S)
    BY <1>3 DEF SeqOk
  <2> HIDE DEF o, c
  <2>2. body \in Seq(S \cup {o, c})
    BY <2>1, SeqWider
  <2>3. /\ <<o>> \in Seq(S \cup {o, c}) /\ <<c>> \in Seq(S \cup {o, c})
        /\ Len(<<o>>) = 1 /\ Len(<<c>>) = 1 /\ <<o>>[1] = o
    OBVIOUS
  <2>4. /\ <<o>> \o body \in Seq(S \cup {o, c}) /\ Len(<<o>> \o body) = 1 + Len(body)
        /\ (<<o>> \o body)[1] = o
    BY <1>10, <2>2, <2>3
  <2>5. /\ Len((<<o>> \o body) \o <<c>>) = (1 + Len(body)) + 1
        /\ ((<<o>> \o body) \o <<c>>)[1] = (<<o>> \o body)[1]
    BY <1>10, <2>3, <2>4
  <2> QED
    BY <1>10, <2>4, <2>5 DEF o, c
<1>12. Token("OPENPAREN").type # "END"
  BY PlainToken
<1> QED
  BY <1>2, <1>3, <1>7, <1>9, <1>10, <1>11, <1>12 DEF m

(* The last token may be replaced by one of its type. *)
LEMMA LastReplaced ==
    ASSUME NEW ts, SeqOk(ts), ts # <<>>, Opened(ts), NEW x, x.type = Last(ts).type
    PROVE  Opened(Append(Front(ts), x))
<1> DEFINE n == Len(ts)
           new == Append(Front(ts), x)
<1>1. n \in Nat /\ n >= 1
  BY SeqFront, SeqTokens
<1>2. PICK S : ts \in Seq(S)
  BY DEF SeqOk
<1>3. /\ Len(Front(ts)) = n - 1 /\ \A k \in 1 .. n - 1 : Front(ts)[k] = ts[k]
      /\ Front(ts) \in Seq(S)
  <2>1. \A k \in 1 .. n - 1 : k \in 1 .. n
    BY <1>1
  <2> DEFINE f == SubSeq(ts, 1, n - 1)
  <2>2. Front(ts) = f
    BY DEF Front
  <2>3. 1 \in Nat /\ n - 1 \in Nat
    BY <1>1
  <2>4. f \in Seq(S)
    BY <1>2, <2>1, <2>3
  <2>5. Len(f) = n - 1 /\ \A k \in 1 .. n - 1 : f[k] = ts[k]
    <3>1. Len(f) = n - 1
      <4>1. n \in 1 .. Len(ts) /\ n \in Nat
        BY <1>1
      <4> HIDE DEF n
      <4> QED
        BY <1>2, <4>1
    <3>2. \A k \in 1 .. n - 1 : f[k] = ts[k]
      BY <1>2, <2>1, <2>3
    <3> QED
      BY <3>1, <3>2
  <2> QED
    BY <2>2, <2>4, <2>5
<1>4. Front(ts) \in Seq(S \cup {x})
  BY <1>3, SeqWider
<1> HIDE DEF n
<1>5. /\ Len(new) = n /\ new[n] = x /\ \A k \in 1 .. n - 1 : new[k] = ts[k]
  <2> DEFINE f == Front(ts)
  <2>1. f \in Seq(S \cup {x}) /\ Len(f) = n - 1
    BY <1>3, <1>4
  <2> HIDE DEF f
  <2>2. /\ Len(Append(f, x)) = n /\ Append(f, x)[n] = x
        /\ \A k \in 1 .. n - 1 : Append(f, x)[k] = f[k]
    BY <1>1, <2>1
  <2> QED
    BY <1>3, <2>2 DEF f
<1>6. x.type = ts[n].type
  BY DEF Last, n
<1>7. \A k \in 1 .. n : new[k].type = ts[k].type
  <2>1. \A k \in 1 .. n : k = n \/ k \in 1 .. n - 1
    BY <1>1
  <2> QED
    BY <1>5, <1>6, <2>1
<1>8. 1 \in 1 .. n /\ (n >= 2 => 2 \in 1 .. n)
  BY <1>1
<1> HIDE DEF new
<1> QED
  BY <1>5, <1>7, <1>8 DEF Opened, n, new

(* A token or more behind those that are there leave their start. *)
LEMMA OpenedJoin ==
    ASSUME NEW ts, SeqOk(ts), ts # <<>>, Opened(ts), NEW us, SeqOk(us),
           Len(us) >= 1, Len(ts) = 1 => us[1].type # "END"
    PROVE  Opened(ts \o us)
<1> DEFINE n == Len(ts)
           m == Len(us)
<1>1. n \in Nat /\ n >= 1 /\ m \in Nat /\ m >= 1
  BY SeqFront, SeqTokens
<1>2. PICK S : ts \in Seq(S)
  BY DEF SeqOk
<1>3. PICK T : us \in Seq(T)
  BY DEF SeqOk
<1>4. ts \in Seq(S \cup T) /\ us \in Seq(S \cup T)
  BY <1>2, <1>3, SeqWider
<1>5. /\ \A k \in 1 .. n : (ts \o us)[k] = ts[k]
      /\ (ts \o us)[n + 1] = us[1]
  BY <1>1, <1>4
<1> HIDE DEF n, m
<1>6. (ts \o us)[1] = ts[1]
  BY <1>1, <1>5
<1>7. CASE n = 1
  <2>1. (ts \o us)[2] = us[1]
    BY <1>5, <1>7
  <2> QED
    BY <1>6, <1>7, <2>1 DEF Opened, n
<1>8. CASE n # 1
  <2>1. n >= 2 /\ (ts \o us)[2] = ts[2]
    BY <1>1, <1>5, <1>8
  <2> QED
    BY <1>6, <2>1 DEF Opened, n
<1> QED
  BY <1>7, <1>8

(* The difference or the union of the last set and one more keeps the      *)
(* tokens in order: an empty set is refused.                               *)
LEMMA ApplyDiffKeeps ==
    ASSUME SeqOk(tokens), tokens # <<>>, Opened(tokens), MacrosOk, NEW rhs,
           TokenOk(rhs), ApplyDiff(rhs)
    PROVE  \/ pc' = "error" /\ tokens' = tokens
           \/ pc' = "token" /\ SeqOk(tokens') /\ Len(tokens') >= 1 /\ Opened(tokens')
<1> DEFINE operand == Operand(rhs)
           str == IF diff = "-" THEN RemoveChars(lhs.str, operand.str)
                  ELSE InsertAll(lhs.str, operand.str)
           tok == [lhs EXCEPT !.str = str]
<1>1. TokenOk(operand)
  BY BodyOk DEF Operand
<1>2. TokenOk(lhs) /\ SeqOk(Front(tokens))
  BY SeqFront DEF lhs
<1>3. \/ pc' = "error" /\ tokens' = tokens
      \/ /\ str # <<>> /\ pc' = "token"
         /\ tokens' = Append(Front(tokens), tok)
  BY DEF ApplyDiff, Fails
<1> HIDE DEF operand
<1>4. str \in CharSet
  <2>1. lhs.str \in CharSet /\ operand.str \in CharSet
    BY <1>1, <1>2 DEF TokenOk
  <2> QED
    BY <2>1, RemoveExact, InsertAllExact
<1> HIDE DEF str
<1>5. str # <<>> => TokenOk(tok)
  <2> DEFINE l == lhs
  <2>1. l = [type |-> l.type, str |-> l.str, extra |-> l.extra]
    BY <1>2 DEF TokenOk
  <2> HIDE DEF l
  <2>2. [l EXCEPT !.str = str] = [type |-> l.type, str |-> str, extra |-> l.extra]
    BY <2>1
  <2> QED
    BY <1>2, <1>4, <2>2 DEF TokenOk, l
<1>10. tok.type = lhs.type
  <2> DEFINE l == lhs
  <2>1. l = [type |-> l.type, str |-> l.str, extra |-> l.extra]
    BY <1>2 DEF TokenOk
  <2> HIDE DEF l
  <2>2. [l EXCEPT !.str = str].type = l.type
    BY <2>1
  <2> QED
    BY <2>2 DEF l
<1> HIDE DEF tok
<1>6. str # <<>> => /\ SeqOk(Append(Front(tokens), tok))
                    /\ Len(Append(Front(tokens), tok)) = Len(Front(tokens)) + 1
  BY <1>2, <1>5, SeqAppend
<1>7. Len(Front(tokens)) + 1 >= 1
  <2>1. Len(Front(tokens)) \in Nat
    BY <1>2, SeqTokens
  <2> QED
    BY <2>1
<1>8. CASE pc' = "error" /\ tokens' = tokens
  BY <1>8
<1>9. CASE /\ str # <<>> /\ pc' = "token"
           /\ tokens' = Append(Front(tokens), tok)
  <2>1. SeqOk(Append(Front(tokens), tok)) /\ Len(Append(Front(tokens), tok)) >= 1
    BY <1>6, <1>7, <1>9
  <2>2. tok.type = lhs.type
    BY <1>9, <1>10
  <2>3. Opened(Append(Front(tokens), tok))
    BY <2>2, LastReplaced DEF lhs
  <2> QED
    BY <1>9, <2>1, <2>3
<1> QED
  BY <1>3, <1>8, <1>9

(* Whatever a token is taken for, the tokens stay in order. *)
LEMMA TakeKeeps ==
    ASSUME SeqOk(tokens), tokens # <<>>, Opened(tokens), MacrosOk, NEW rhs,
           TokenOk(rhs), Take(rhs)
    PROVE  \/ pc' = "error" /\ tokens' = tokens
           \/ pc' = "token" /\ SeqOk(tokens') /\ Len(tokens') >= 1 /\ Opened(tokens')
           \/ /\ pc' = "end" /\ SeqOk(tokens') /\ Len(tokens') >= 2
              /\ Len(tokens') >= 3 => Opened(tokens')
<1>1. Len(tokens) \in Nat /\ Len(tokens) >= 1
  BY SeqFront, SeqTokens
<1>2. CASE Fails
  BY <1>2 DEF Fails
<1>3. CASE TakeDiff(rhs)
  BY <1>1, <1>3 DEF TakeDiff, Fails
<1>4. CASE ApplyDiff(rhs)
  BY <1>4, ApplyDiffKeeps
<1>5. CASE TakeMacro(rhs)
  <2>1. CASE rhs.extra \in DOMAIN macro_map
    <3>1. SeqOk(Body(rhs.extra))
      BY <2>1, BodyOk
    <3>2. /\ SeqOk(tokens \o Body(rhs.extra)) /\ Len(Body(rhs.extra)) \in Nat
          /\ Len(tokens \o Body(rhs.extra)) = Len(tokens) + Len(Body(rhs.extra))
      BY <3>1, SeqJoin, SeqTokens
    <3>3. tokens' = tokens \o Body(rhs.extra) /\ pc' = "token"
      BY <1>5, <2>1 DEF TakeMacro
    <3>4. Opened(tokens \o Body(rhs.extra))
      BY <2>1, <3>1, BodyOk, OpenedJoin
    <3> QED
      BY <1>1, <3>2, <3>3, <3>4
  <2>2. CASE rhs.extra \notin DOMAIN macro_map
    BY <1>5, <2>2 DEF TakeMacro, Fails
  <2> QED
    BY <2>1, <2>2
<1>6. CASE Store(rhs)
  <2>1. SeqOk(Append(tokens, rhs)) /\ Len(Append(tokens, rhs)) = Len(tokens) + 1
    BY SeqAppend
  <2>2. /\ tokens' = Append(tokens, rhs) /\ (pc' = "end" \/ pc' = "token")
        /\ rhs.type = "END" => pc' = "end"
    BY <1>6 DEF Store
  <2>3. Len(tokens) # 1 \/ rhs.type # "END" => Opened(Append(tokens, rhs))
    <3>1. SeqOk(<<rhs>>)
      BY SeqOne
    <3>2. Len(<<rhs>>) = 1 /\ <<rhs>>[1] = rhs
      OBVIOUS
    <3>3. Append(tokens, rhs) = tokens \o <<rhs>>
      <4>1. PICK S : tokens \in Seq(S)
        BY DEF SeqOk
      <4>2. tokens \in Seq(S \cup {rhs})
        BY <4>1, SeqWider
      <4> QED
        BY <4>2
    <3> QED
      BY <1>1, <3>1, <3>2, <3>3, OpenedJoin
  <2>4. CASE rhs.type = "END"
    <3>1. Len(Append(tokens, rhs)) >= 3 => Len(tokens) # 1
      <4> DEFINE m == Len(Append(tokens, rhs))
                 n == Len(tokens)
      <4>1. m = n + 1 /\ n \in Nat
        BY <1>1, <2>1
      <4> HIDE DEF m, n
      <4>2. m >= 3 => n # 1
        BY <4>1
      <4> QED
        BY <4>2 DEF m, n
    <3> QED
      BY <1>1, <2>1, <2>2, <2>3, <2>4, <3>1
  <2>5. CASE rhs.type # "END"
    BY <1>1, <2>1, <2>2, <2>3, <2>5
  <2> QED
    BY <2>4, <2>5
<1>7. \/ Fails \/ TakeDiff(rhs) \/ ApplyDiff(rhs) \/ TakeMacro(rhs) \/ Store(rhs)
  BY DEF Take
<1> QED
  BY <1>2, <1>3, <1>4, <1>5, <1>6, <1>7

-----------------------------------------------------------------------------
(* The reader: the invariant, and its steps one by one. *)

CsOk == cs = [negated |-> cs.negated, str |-> cs.str] /\ cs.str \in CharSet

RegexesOk == \E R : /\ regexes \in Seq(R)
                      /\ \A x \in R : Stored(x.tokens) /\ x.id \in Nat

(* What holds while the texts are read. *)
RulesInv ==
    /\ jobs \in Seq(Entry)
    /\ SeqOk(tokens)
    /\ MacrosOk
    /\ RegexesOk
    /\ pc \in {"token", "charset", "end"} => jobs # <<>> /\ Len(tokens) >= 1
    /\ pc \in {"token", "charset"} => Opened(tokens)
    /\ pc = "charset" => curr \in 1 .. Len(text) /\ CsOk
    /\ pc = "end" => Len(tokens) >= 2 /\ (Len(tokens) >= 3 => Opened(tokens))

(* The reader starts in its invariant. *)
LEMMA RulesInitially == RulesInit => RulesInv
<1> SUFFICES ASSUME RulesInit
             PROVE  RulesInv
  OBVIOUS
<1>1. jobs \in Seq(Entry)
  BY JobsAssumption DEF RulesInit
<1>2. SeqOk(tokens)
  BY SeqOne DEF RulesInit
<1>3. MacrosOk
  BY DEF MacrosOk, RulesInit
<1>4. RegexesOk
  <2> DEFINE R == {}
  <2>0. regexes = <<>>
    BY DEF RulesInit
  <2>1. regexes \in Seq(R) /\ \A x \in R : Stored(x.tokens) /\ x.id \in Nat
    BY <2>0
  <2> HIDE DEF R
  <2> QED
    BY <2>1 DEF RegexesOk
<1> QED
  BY <1>1, <1>2, <1>3, <1>4 DEF RulesInv, RulesInit

(* Nothing was stored and nothing is read any more, or the tokeniser goes  *)
(* on.                                                                     *)
LEMMA Kept ==
    ASSUME RulesInv, UNCHANGED <<rules, tokens>>,
           \/ pc' = "token" /\ pc = "token"
           \/ pc' \notin {"token", "charset", "end"}
    PROVE  RulesInv'
<1>1. /\ jobs' \in Seq(Entry) /\ SeqOk(tokens') /\ MacrosOk' /\ RegexesOk'
      /\ jobs' = jobs /\ tokens' = tokens
  BY DEF RulesInv, MacrosOk, RegexesOk, rules
<1>2. pc' # "charset" /\ pc' # "end"
  OBVIOUS
<1>3. pc' \in {"token", "charset", "end"} => /\ jobs' # <<>> /\ Len(tokens') >= 1
                                            /\ Opened(tokens')
  BY <1>1, <1>2 DEF RulesInv
<1> QED
  BY <1>1, <1>2, <1>3 DEF RulesInv

(* Refusing a rule keeps it. *)
LEMMA ThrowKeeps ==
    ASSUME RulesInv, NEW p, Throw(p)
    PROVE  RulesInv'
<1>1. UNCHANGED <<rules, tokens>> /\ pc' = "error"
  BY DEF Throw, ruleVars
<1> QED
  BY <1>1, Kept

(* While a text is read it is at the head of the jobs. *)
LEMMA TextTyped ==
    ASSUME RulesInv, pc \in {"token", "charset", "end"}
    PROVE  text \in Text /\ Head(jobs) \in Entry /\ Tail(jobs) \in Seq(Entry)
<1>1. jobs \in Seq(Entry) /\ jobs # <<>>
  BY DEF RulesInv
<1>2. Head(jobs) \in Entry /\ Tail(jobs) \in Seq(Entry)
  BY <1>1
<1> QED
  BY <1>2, JobsAssumption DEF text

(* Taking a token keeps it. *)
LEMMA TakeStep ==
    ASSUME RulesInv, pc \in {"token", "charset"}, NEW rhs, TokenOk(rhs), Take(rhs),
           UNCHANGED rules
    PROVE  RulesInv'
<1>1. SeqOk(tokens) /\ MacrosOk /\ jobs # <<>> /\ Len(tokens) >= 1 /\ Opened(tokens)
  BY DEF RulesInv
<1>2. tokens # <<>>
  <2>1. ~ (Len(<<>>) >= 1)
    OBVIOUS
  <2> QED
    BY <1>1, <2>1
<1>3. \/ pc' = "error" /\ tokens' = tokens
      \/ pc' = "token" /\ SeqOk(tokens') /\ Len(tokens') >= 1 /\ Opened(tokens')
      \/ /\ pc' = "end" /\ SeqOk(tokens') /\ Len(tokens') >= 2
         /\ Len(tokens') >= 3 => Opened(tokens')
  BY <1>1, <1>2, TakeKeeps
<1>4. /\ jobs' \in Seq(Entry) /\ MacrosOk' /\ RegexesOk' /\ jobs' # <<>>
  BY <1>1 DEF RulesInv, MacrosOk, RegexesOk, rules
<1>5. SeqOk(tokens') /\ pc' # "charset"
  BY <1>1, <1>3
<1>6. Len(tokens') \in Nat
  BY <1>5, SeqTokens
<1>7. Len(tokens') >= 1
  BY <1>1, <1>3, <1>6
<1>8. /\ pc' = "end" => Len(tokens') >= 2 /\ (Len(tokens') >= 3 => Opened(tokens'))
      /\ pc' = "token" => Opened(tokens')
  BY <1>3
<1> QED
  BY <1>4, <1>5, <1>7, <1>8 DEF RulesInv

(* Taking the token at a place of the text keeps it. *)
LEMMA TokenAtKeeps ==
    ASSUME RulesInv, pc = "token", NEW p, NEW tok, TokenOk(tok), TokenAt(p, tok)
    PROVE  RulesInv'
BY TakeStep DEF TokenAt

-----------------------------------------------------------------------------
(* The tokens that are read.                                               *)

LEMMA EscapeKeeps ==
    ASSUME RulesInv, ReadEscape
    PROVE  RulesInv'
<1> DEFINE esc == EscapeSequence(text, curr + 1)
<1>1. pc = "token" /\ Ch(curr) = "\\" /\ TakeEscape(esc)
  BY DEF ReadEscape, AtToken
<1>2. text \in Text
  BY <1>1, TextTyped
<1>3. curr \in 1 .. Len(text) /\ Len(text) \in Nat
  BY <1>1, <1>2, Codes DEF Ch, At
<1>4. curr + 1 \in Place
  BY <1>3 DEF Place
<1>5. \/ esc = Failed
      \/ esc \in CharReadings
      \/ esc \in SetReadings /\ esc.str # <<>>
  BY <1>2, <1>4, EscapeTyped
<1> HIDE DEF esc
<1>6. CASE ~ esc.ok
  BY <1>1, <1>6, ThrowKeeps DEF TakeEscape
<1>7. CASE esc.ok
  <2> DEFINE str == IF IsClass(esc) THEN esc.str ELSE Single(esc.char)
  <2>1. TokenAt(esc.next, Charset(str))
    BY <1>1, <1>7 DEF TakeEscape
  <2>2. str \in Classes
    <3>1. esc \in CharReadings \/ (esc \in SetReadings /\ esc.str # <<>>)
      BY <1>5, <1>7, Kinds
    <3> QED
      BY <3>1, Kinds, SingleRange DEF Classes
  <2> HIDE DEF str
  <2>3. TokenOk(Charset(str))
    BY <2>2, PlainToken
  <2> QED
    BY <1>1, <2>1, <2>3, TokenAtKeeps
<1> QED
  BY <1>6, <1>7

(* The set of one character is a class. *)
LEMMA SingleClass == \A c \in Char : Single(c) \in Classes
BY SingleRange DEF Classes

(* The character at the cursor makes a token. *)
LEMMA CodeClass ==
    ASSUME RulesInv, pc = "token"
    PROVE  /\ Code(Ch(curr)) \in Char
           /\ TokenOk(Charset(Single(Code(Ch(curr)))))
<1>1. Code(Ch(curr)) \in Char
  BY TextTyped, Codes DEF Ch
<1>2. Single(Code(Ch(curr))) \in Classes
  BY <1>1, SingleClass
<1> QED
  BY <1>1, <1>2, PlainToken

(* A character that means itself. *)
LEMMA LiteralKeeps ==
    ASSUME RulesInv, ReadLiteral
    PROVE  RulesInv'
<1> DEFINE c == Code(Ch(curr))
<1>1. pc = "token" /\ TokenAt(curr + 1, Literal(Ch(curr)))
  BY DEF ReadLiteral, Meta, Plain, AtToken
<1>2. c \in Char
  BY <1>1, CodeClass
<1>3. Literal(Ch(curr)) = Charset(WithCases(<<>>, <<c, c>>, flags))
  BY DEF Literal
<1> HIDE DEF c
<1>4. WithCases(<<>>, <<c, c>>, flags) \in Classes
  BY <1>2, SingleRange, EmptyCharSet, WithCasesTyped DEF Classes
<1>5. TokenOk(Literal(Ch(curr)))
  BY <1>3, <1>4, PlainToken
<1> QED
  BY <1>1, <1>5, TokenAtKeeps

(* A dot. *)
LEMMA DotKeeps ==
    ASSUME RulesInv, ReadDot
    PROVE  RulesInv'
<1> DEFINE s == IF "dot_not_newline" \in flags THEN Single(10) ELSE <<>>
<1>1. pc = "token" /\ TokenAt(curr + 1, Charset(Negate(s)))
  BY DEF ReadDot, Meta, Plain, AtToken
<1>2. s \in CharSet /\ \A k \in 1 .. Len(s) : s[k][1] >= 1
  <2>1. Single(10) \in CharSet /\ \A k \in 1 .. Len(Single(10)) : Single(10)[k][1] >= 1
    <3>1. 10 \in Char
      BY CharNumbers
    <3>2. Single(10) \in CharSet
      BY <3>1, SingleRange
    <3>3. \A k \in 1 .. Len(Single(10)) : Single(10)[k][1] >= 1
      BY DEF Single
    <3> QED
      BY <3>2, <3>3
  <2>2. <<>> \in CharSet /\ \A k \in 1 .. Len(<<>>) : <<>>[k][1] >= 1
    BY EmptyCharSet
  <2> QED
    BY <2>1, <2>2
<1> HIDE DEF s
<1>3. Negate(s) \in Classes
  BY <1>2, NegatedClass
<1>4. TokenOk(Charset(Negate(s)))
  BY <1>3, PlainToken
<1> QED
  BY <1>1, <1>4, TokenAtKeeps

(* A duplicator. *)
LEMMA DuplicatorKeeps ==
    ASSUME RulesInv, ReadDuplicator
    PROVE  RulesInv'
<1> DEFINE type == DuplicatorChars[Ch(curr)]
           read == Duplicator(text, curr + 1, Token(type))
<1>1. pc = "token" /\ TokenAt(read.next, read.token)
  BY DEF ReadDuplicator, Meta, Plain, AtToken
<1>2. type \in Greedy
  BY DEF ReadDuplicator, DuplicatorChars, Greedy
<1> HIDE DEF type
<1>3. TokenOk(read.token)
  <2>1. type # "REPEATN"
    BY DEF ReadDuplicator, DuplicatorChars, type
  <2> QED
    BY <1>2, <2>1, DuplicatorTyped DEF Token
<1> HIDE DEF read
<1> QED
  BY <1>1, <1>3, TokenAtKeeps

(* A repeat in braces, or a macro. *)
LEMMA CurlyKeeps ==
    ASSUME RulesInv, ReadCurly
    PROVE  RulesInv'
<1> DEFINE read == OpenCurly(text, curr + 1, lhs)
<1>1. /\ pc = "token"
      /\ IF read.ok THEN TokenAt(read.next, read.token) /\ SameLexer
         ELSE Throw("token")
  BY DEF ReadCurly, Meta, Plain, AtToken
<1>2. read.ok => TokenOk(read.token)
  <2>1. text \in Text
    BY <1>1, TextTyped
  <2>2. curr \in 1 .. Len(text) /\ Len(text) \in Nat
    BY <2>1, Codes DEF ReadCurly, Ch, At
  <2>3. curr + 1 \in Place
    BY <2>2 DEF Place
  <2> HIDE DEF read
  <2> QED
    BY <2>1, <2>3, OpenCurlyTyped DEF read
<1> HIDE DEF read
<1> QED
  BY <1>1, <1>2, TokenAtKeeps, ThrowKeeps

(* A group, or flags. *)
LEMMA OpenKeeps ==
    ASSUME RulesInv, ReadOpen
    PROVE  RulesInv'
<1> DEFINE options == Ch(curr + 1) = "?"
           read == ReadOptions(curr + 2)
<1>1. /\ pc = "token"
      /\ \/ Throw("token")
         \/ TokenAt(IF options THEN read.next ELSE curr + 1, Token("OPENPAREN"))
  BY DEF ReadOpen, Meta, Plain, AtToken
<1>2. TokenOk(Token("OPENPAREN"))
  BY PlainTypes
<1> HIDE DEF read, options
<1> QED
  BY <1>1, <1>2, TokenAtKeeps, ThrowKeeps

(* An anchor, or the character. *)
LEMMA AnchorKeeps ==
    ASSUME RulesInv, ReadAnchor
    PROVE  RulesInv'
<1> DEFINE anchor == /\ Head(jobs).name = <<>>
                     /\ curr = IF Ch(curr) = "^" THEN 1 ELSE Len(text)
           tok == CASE ~ anchor -> Charset(Single(Code(Ch(curr))))
                    [] anchor /\ Ch(curr) = "^" -> Token("BOL")
                    [] anchor /\ Ch(curr) = "$" -> Token("EOL")
<1>1. pc = "token" /\ TokenAt(curr + 1, tok) /\ Ch(curr) \in {"^", "$"}
  BY DEF ReadAnchor, Meta, Plain, AtToken
<1>2. /\ TokenOk(Charset(Single(Code(Ch(curr)))))
      /\ TokenOk(Token("BOL")) /\ TokenOk(Token("EOL"))
  BY <1>1, CodeClass, PlainTypes
<1> HIDE DEF anchor
<1>3. TokenOk(tok)
  BY <1>1, <1>2
<1> HIDE DEF tok
<1> QED
  BY <1>1, <1>3, TokenAtKeeps

(* The other tokens of one character. *)
LEMMA OtherTokensKeep ==
    ASSUME RulesInv, ReadEnd \/ ReadInString \/ ReadClose \/ ReadOr
    PROVE  RulesInv'
<1>1. pc = "token"
  BY DEF ReadEnd, ReadInString, ReadClose, ReadOr, Meta, Plain, AtToken
<1>2. /\ TokenOk(Token("END")) /\ TokenOk(Token("CLOSEPAREN")) /\ TokenOk(Token("OR"))
      /\ TokenOk(Charset(Single(Code(Ch(curr)))))
  BY <1>1, CodeClass, PlainTypes
<1>3. \/ TokenAt(curr, Token("END"))
      \/ TokenAt(curr + 1, Charset(Single(Code(Ch(curr)))))
      \/ TokenAt(curr + 1, Token("CLOSEPAREN")) \/ Throw("token")
      \/ TokenAt(curr + 1, Token("OR"))
  BY DEF ReadEnd, ReadInString, ReadClose, ReadOr
<1> QED
  BY <1>1, <1>2, <1>3, TokenAtKeeps, ThrowKeeps

(* The start of a bracket expression. *)
LEMMA BeginCharsetKeeps ==
    ASSUME RulesInv, BeginCharset
    PROVE  RulesInv'
<1> DEFINE p == IF Ch(curr + 1) = "^" THEN curr + 2 ELSE curr + 1
<1>1. pc = "token" /\ Ch(curr) = "["
  BY DEF BeginCharset, Meta, Plain, AtToken
<1>2. \/ Throw("token")
      \/ /\ ~ Eos(text, p)
         /\ cs' = [negated |-> Ch(curr + 1) = "^", str |-> <<>>]
         /\ curr' = p /\ pc' = "charset"
         /\ UNCHANGED <<tokens, rules>>
  BY DEF BeginCharset
<1>3. curr \in 1 .. Len(text) /\ Len(text) \in Nat
  BY <1>1, TextTyped, Codes DEF Ch, At
<1>4. CASE Throw("token")
  BY <1>4, ThrowKeeps
<1>5. CASE /\ ~ Eos(text, p)
           /\ cs' = [negated |-> Ch(curr + 1) = "^", str |-> <<>>]
           /\ curr' = p /\ pc' = "charset"
           /\ UNCHANGED <<tokens, rules>>
  <2>1. p \in 1 .. Len(text)
    BY <1>3, <1>5 DEF Eos
  <2> HIDE DEF p
  <2>2. text' = text
    BY <1>5 DEF text, rules
  <2>3. curr' \in 1 .. Len(text')
    BY <1>5, <2>1, <2>2
  <2>4. CsOk'
    BY <1>5, EmptyCharSet DEF CsOk
  <2>5. /\ jobs' \in Seq(Entry) /\ SeqOk(tokens') /\ MacrosOk' /\ RegexesOk'
        /\ jobs' # <<>> /\ Len(tokens') >= 1 /\ pc' = "charset" /\ Opened(tokens')
    BY <1>1, <1>5 DEF RulesInv, MacrosOk, RegexesOk, rules
  <2> QED
    BY <2>3, <2>4, <2>5 DEF RulesInv
<1> QED
  BY <1>2, <1>4, <1>5

(* One turn over a bracket expression. *)
LEMMA CharsetItemKeeps ==
    ASSUME RulesInv, CharsetItem
    PROVE  RulesInv'
<1> DEFINE turn == CharsetTurn(text, curr, flags)
<1>1. pc = "charset" /\ AddToCharset(turn)
  BY DEF CharsetItem
<1>2. text \in Text /\ curr \in 1 .. Len(text) /\ CsOk
  BY <1>1, TextTyped DEF RulesInv
<1>3. turn.ok => Turn(text, turn)
  BY <1>2, CharsetTurnTyped
<1> HIDE DEF turn
<1>4. CASE ~ turn.ok
  BY <1>1, <1>4, ThrowKeeps DEF AddToCharset
<1>5. CASE turn.ok
  <2>1. /\ cs' = [cs EXCEPT !.str = InsertAll(@, turn.str)]
        /\ curr' = turn.next
        /\ UNCHANGED <<pc, tokens, rules>>
    BY <1>1, <1>5 DEF AddToCharset
  <2>2. turn.str \in CharSet /\ turn.next \in 1 .. Len(text)
    BY <1>3, <1>5 DEF Turn
  <2>3. text' = text
    BY <2>1 DEF text, rules
  <2>4. InsertAll(cs.str, turn.str) \in CharSet
    BY <1>2, <2>2, InsertAllExact DEF CsOk
  <2>5. cs' = [negated |-> cs.negated, str |-> InsertAll(cs.str, turn.str)]
    BY <1>2, <2>1 DEF CsOk
  <2>6. CsOk'
    BY <2>4, <2>5 DEF CsOk
  <2>7. curr' \in 1 .. Len(text')
    BY <2>1, <2>2, <2>3
  <2>8. /\ jobs' \in Seq(Entry) /\ SeqOk(tokens') /\ MacrosOk' /\ RegexesOk'
        /\ jobs' # <<>> /\ Len(tokens') >= 1 /\ pc' = "charset" /\ Opened(tokens')
    BY <1>1, <2>1 DEF RulesInv, MacrosOk, RegexesOk, rules
  <2> QED
    BY <2>6, <2>7, <2>8 DEF RulesInv
<1> QED
  BY <1>4, <1>5

(* Its end: the set is negated or not, and an empty one is refused. *)
LEMMA EndCharsetKeeps ==
    ASSUME RulesInv, EndCharset
    PROVE  RulesInv'
<1> DEFINE str == IF cs.negated THEN Negate(cs.str) ELSE cs.str
<1>1. /\ pc = "charset"
      /\ \/ Throw("charset")
         \/ str # <<>> /\ Take(Charset(str)) /\ UNCHANGED rules
  BY DEF EndCharset
<1>2. str \in CharSet
  <2>1. cs.str \in CharSet
    BY <1>1 DEF RulesInv, CsOk
  <2> QED
    BY <2>1, NegateExact
<1> HIDE DEF str
<1>3. str # <<>> => TokenOk(Charset(str))
  BY <1>2, PlainToken DEF Classes
<1> QED
  BY <1>1, <1>3, TakeStep, ThrowKeeps

(* The start of a text. *)
LEMMA BeginTextKeeps ==
    ASSUME RulesInv, BeginText
    PROVE  RulesInv'
<1>1. /\ jobs # <<>> /\ pc' = "token" /\ tokens' = <<Token("BEGIN")>>
      /\ UNCHANGED rules
  BY DEF BeginText
<1>2. SeqOk(tokens') /\ Len(tokens') = 1
  <2>1. TokenOk(Token("BEGIN"))
    BY PlainTypes
  <2>2. SeqOk(<<Token("BEGIN")>>) /\ Len(<<Token("BEGIN")>>) = 1
    BY <2>1, SeqOne
  <2> QED
    BY <1>1, <2>2
<1>3. jobs' \in Seq(Entry) /\ MacrosOk' /\ RegexesOk' /\ jobs' # <<>>
  BY <1>1 DEF RulesInv, MacrosOk, RegexesOk, rules
<1>4. Opened(tokens')
  <2>1. <<Token("BEGIN")>>[1].type = "BEGIN" /\ ~ (Len(<<Token("BEGIN")>>) >= 2)
    BY PlainToken
  <2> QED
    BY <1>1, <2>1 DEF Opened
<1> QED
  BY <1>1, <1>2, <1>3, <1>4 DEF RulesInv

(* Its end: the tokens become those of a macro or of a rule. *)
LEMMA EndTextKeeps ==
    ASSUME RulesInv, EndText
    PROVE  RulesInv'
<1> DEFINE name == Head(jobs).name
           rec == [tokens |-> tokens, id |-> Head(jobs).id,
                   re |-> Head(jobs).re, bol |-> text[1] = "^"]
<1>1. pc = "end"
  BY DEF EndText
<1>2. CASE Len(tokens) = 2
  BY <1>2, ThrowKeeps DEF EndText
<1>3. CASE Len(tokens) # 2
  <2>1. /\ \/ regexes' = Append(regexes, rec) /\ macro_map' = macro_map
           \/ /\ macro_map' = [n \in DOMAIN macro_map \cup {name} |->
                                 IF n = name THEN tokens ELSE macro_map[n]]
              /\ regexes' = regexes
        /\ jobs' = Tail(jobs) /\ pc' = "rule" /\ tokens' = tokens
    BY <1>3 DEF EndText
  <2>2. Stored(tokens)
    <3>1. SeqOk(tokens) /\ Len(tokens) >= 2 /\ Len(tokens) \in Nat
      BY <1>1, SeqTokens DEF RulesInv
    <3>2. \A n \in Nat : n >= 2 /\ n # 2 => n >= 3
      OBVIOUS
    <3>3. Len(tokens) >= 3
      BY <1>3, <3>1, <3>2
    <3> QED
      BY <1>1, <3>1, <3>3 DEF Stored, RulesInv
  <2>3. rec.tokens = tokens /\ rec.id \in Nat
    BY <1>1, TextTyped, JobsAssumption
  <2> HIDE DEF rec, name
  <2>4. RegexesOk'
    <3>1. PICK R : /\ regexes \in Seq(R)
                   /\ \A x \in R : Stored(x.tokens) /\ x.id \in Nat
      BY DEF RulesInv, RegexesOk
    <3> DEFINE T == R \cup {rec}
    <3>2. regexes \in Seq(T)
      BY <3>1, SeqWider
    <3>3. Append(regexes, rec) \in Seq(T)
      BY <3>2
    <3>4. \A x \in T : Stored(x.tokens) /\ x.id \in Nat
      BY <2>2, <2>3, <3>1
    <3> HIDE DEF T
    <3>5. regexes' \in Seq(T)
      BY <2>1, <3>2, <3>3
    <3> QED
      BY <3>4, <3>5 DEF RegexesOk
  <2>5. MacrosOk'
    <3>1. MacrosOk
      BY DEF RulesInv
    <3> QED
      BY <2>1, <2>2, <3>1 DEF MacrosOk
  <2>6. jobs' \in Seq(Entry) /\ SeqOk(tokens')
    BY <1>1, <2>1, TextTyped DEF RulesInv
  <2> QED
    BY <2>1, <2>4, <2>5, <2>6 DEF RulesInv
<1> QED
  BY <1>2, <1>3

(* Every step of the reader keeps its invariant. *)
LEMMA RulesStep ==
    ASSUME RulesInv, RulesNext
    PROVE  RulesInv'
<1>1. CASE RefuseText
  BY <1>1, ThrowKeeps DEF RefuseText
<1>2. CASE EndRules
  <2>1. UNCHANGED <<rules, tokens>> /\ pc' \notin {"token", "charset", "end"}
    BY <1>2 DEF EndRules, ruleVars
  <2> QED
    BY <2>1, Kept
<1>3. CASE ToggleString \/ Skip
  <2>1. UNCHANGED <<rules, tokens>> /\ pc' = "token" /\ pc = "token"
    BY <1>3 DEF ToggleString, Skip, SkipTo
  <2> QED
    BY <2>1, Kept
<1>4. CASE SkipUnended \/ ReadEndFails \/ ReadLookahead
  BY <1>4, ThrowKeeps DEF SkipUnended, ReadEndFails, ReadLookahead
<1> QED
  BY <1>1, <1>2, <1>3, <1>4, BeginTextKeeps, EndTextKeeps, EscapeKeeps,
     LiteralKeeps, DotKeeps, DuplicatorKeeps, CurlyKeeps, OpenKeeps, AnchorKeeps,
     OtherTokensKeep, BeginCharsetKeeps, CharsetItemKeeps, EndCharsetKeeps
  DEF RulesNext

-----------------------------------------------------------------------------
(* The parser: its stack holds such tokens and no set gets two ids. *)

(* What the parser puts in the place of tokens it has reduced.             *)
Reduced == {"REGEX", "OREXP", "SEQUENCE", "SUB", "EXPRESSION", "REPEAT", "DUP"}

(* A token of the stack: one of the rule, or what some were reduced to.    *)
StackToken(x) == TokenOk(x) \/ \E type \in Reduced : x = Token(type)
StackOk(ts) == \E S : ts \in Seq(S) /\ \A x \in S : StackToken(x)

(* Such a stack, token by token, *)
LEMMA StackTokens ==
    ASSUME NEW ts, StackOk(ts)
    PROVE  /\ Len(ts) \in Nat /\ DOMAIN ts = 1 .. Len(ts)
           /\ \A k \in 1 .. Len(ts) : StackToken(ts[k])
           /\ ts # <<>> => Len(ts) >= 1
BY DEF StackOk

(* with one token or none, *)
LEMMA StackOne ==
    /\ StackOk(<<>>)
    /\ \A x : StackToken(x) => StackOk(<<x>>)
<1>1. StackOk(<<>>)
  <2> DEFINE S == {}
  <2>1. <<>> \in Seq(S) /\ \A y \in S : StackToken(y)
    OBVIOUS
  <2> HIDE DEF S
  <2> QED
    BY <2>1 DEF StackOk
<1>2. ASSUME NEW x, StackToken(x)
      PROVE  StackOk(<<x>>)
  <2> DEFINE S == {x}
  <2>1. <<x>> \in Seq(S) /\ \A y \in S : StackToken(y)
    BY <1>2
  <2> HIDE DEF S
  <2> QED
    BY <2>1 DEF StackOk
<1> QED
  BY <1>1, <1>2

(* with one more, *)
LEMMA StackAppend ==
    ASSUME NEW s, StackOk(s), NEW x, StackToken(x)
    PROVE  /\ StackOk(Append(s, x)) /\ Len(Append(s, x)) = Len(s) + 1
           /\ Append(s, x)[Len(s) + 1] = x
           /\ \A k \in 1 .. Len(s) : Append(s, x)[k] = s[k]
<1>1. PICK S : s \in Seq(S) /\ \A y \in S : StackToken(y)
  BY DEF StackOk
<1>2. s \in Seq(S \cup {x})
  BY <1>1, SeqWider
<1>3. /\ Append(s, x) \in Seq(S \cup {x}) /\ Len(Append(s, x)) = Len(s) + 1
      /\ Append(s, x)[Len(s) + 1] = x
      /\ \A k \in 1 .. Len(s) : Append(s, x)[k] = s[k]
  BY <1>2
<1>4. \A y \in S \cup {x} : StackToken(y)
  BY <1>1
<1> QED
  BY <1>3, <1>4 DEF StackOk

(* and what is below a place in it. *)
LEMMA StackBelow ==
    ASSUME NEW s, StackOk(s), NEW h \in 1 .. Len(s)
    PROVE  /\ StackOk(SubSeq(s, 1, h - 1)) /\ Len(SubSeq(s, 1, h - 1)) = h - 1
           /\ \A k \in 1 .. h - 1 : SubSeq(s, 1, h - 1)[k] = s[k]
<1>1. PICK S : s \in Seq(S) /\ \A y \in S : StackToken(y)
  BY DEF StackOk
<1>2. \A k \in 1 .. h - 1 : k \in 1 .. Len(s)
  BY <1>1
<1>3. /\ SubSeq(s, 1, h - 1) \in Seq(S) /\ Len(SubSeq(s, 1, h - 1)) = h - 1
      /\ \A k \in 1 .. h - 1 : SubSeq(s, 1, h - 1)[k] = s[k]
  BY <1>1, <1>2
<1> QED
  BY <1>1, <1>3 DEF StackOk

(* The sets that have an id: not empty, and each only once. *)
MapOk == /\ charsets \in Seq(Classes)
         /\ \A k, l \in 1 .. Len(charsets) : charsets[k] = charsets[l] => k = l

(* What holds of the parser. *)
ParserInv ==
    /\ StackOk(token_stack)
    /\ rule \in Nat \ {0}
    /\ pc = "shift" => /\ rule \in 1 .. Len(regexes)
                       /\ next_token \in 1 .. Len(rule_tokens)
    /\ MapOk

(* The reader and the parser. *)
CompileInv == RulesInv /\ ParserInv

(* A map of sets in normal form is a map of sets of characters. *)
LEMMA MapDistinct == MapOk => CharsetsDistinct
<1> SUFFICES ASSUME MapOk
             PROVE  CharsetsDistinct
  OBVIOUS
<1>1. /\ Len(charsets) \in Nat /\ DOMAIN charsets = 1 .. Len(charsets)
      /\ \A k \in 1 .. Len(charsets) : charsets[k] \in Classes
  BY DEF MapOk
<1>2. \A k \in 1 .. Len(charsets) : charsets[k] # <<>> /\ IsNormal(charsets[k])
  BY <1>1 DEF Classes, CharSet
<1>3. ASSUME NEW k \in 1 .. Len(charsets), NEW l \in 1 .. Len(charsets),
             Chars(charsets[k]) = Chars(charsets[l])
      PROVE  k = l
  <2>1. charsets[k] \in CharSet /\ charsets[l] \in CharSet
    BY <1>1 DEF Classes
  <2>2. charsets[k] = charsets[l]
    BY <1>3, <2>1, EqualSets
  <2> QED
    BY <2>2 DEF MapOk
<1> QED
  BY <1>1, <1>2, <1>3 DEF CharsetsDistinct

(* The tokens of a rule. *)
LEMMA StoredRule ==
    ASSUME RegexesOk, NEW k \in 1 .. Len(regexes)
    PROVE  /\ SeqOk(regexes[k].tokens) /\ Len(regexes[k].tokens) >= 3
           /\ Opened(regexes[k].tokens) /\ regexes[k].id \in Nat
<1>1. PICK R : /\ regexes \in Seq(R)
               /\ \A x \in R : Stored(x.tokens) /\ x.id \in Nat
  BY DEF RegexesOk
<1>2. Stored(regexes[k].tokens) /\ regexes[k].id \in Nat
  BY <1>1
<1> QED
  BY <1>2 DEF Stored

(* The stack has a handle. *)
LEMMA HandleExists ==
    ASSUME StackOk(token_stack), token_stack # <<>>
    PROVE  /\ HandleStart \in 1 .. Len(token_stack)
           /\ HandleStart = 1 \/ Joint(HandleStart) # "="
           /\ \A l \in HandleStart + 1 .. Len(token_stack) : Joint(l) = "="
<1> DEFINE n == Len(token_stack)
           S == {d \in 0 .. n - 1 : n - d = 1 \/ Joint(n - d) # "="}
<1>1. n \in Nat /\ n >= 1 /\ DOMAIN token_stack = 1 .. n
  BY StackTokens
<1> HIDE DEF n
<1>2. S \subseteq Nat /\ n - 1 \in S
  BY <1>1
<1>3. PICK d \in S : \A e \in S : d <= e
  BY <1>2, LeastElement
<1>4. /\ n - d \in 1 .. n /\ d \in 0 .. n - 1
      /\ n - d = 1 \/ Joint(n - d) # "="
  BY <1>1
<1>5. ASSUME NEW l \in (n - d) + 1 .. n, Joint(l) # "="
      PROVE  FALSE
  <2>1. n - l \in 0 .. n - 1 /\ n - (n - l) = l /\ n - l < d
    BY <1>1, <1>4
  <2>2. n - l \in S
    BY <1>5, <2>1
  <2>3. d <= n - l
    BY <1>3, <2>2
  <2> QED
    BY <1>4, <2>1, <2>3
<1>6. n - d \in DOMAIN token_stack /\ \A l \in (n - d) + 1 .. n : Joint(l) = "="
  BY <1>1, <1>4, <1>5
<1>7. \E k \in DOMAIN token_stack :
         /\ k = 1 \/ Joint(k) # "="
         /\ \A l \in k + 1 .. n : Joint(l) = "="
  BY <1>4, <1>6
<1>8. /\ HandleStart \in DOMAIN token_stack
      /\ HandleStart = 1 \/ Joint(HandleStart) # "="
      /\ \A l \in HandleStart + 1 .. n : Joint(l) = "="
  BY <1>7 DEF HandleStart, n
<1> QED
  BY <1>1, <1>8 DEF n

(* What a reduction puts on the stack: nothing, or one token.              *)
Result(types) == types = <<>> \/ \E type \in Reduced : types = <<type>>

(* A reduction leaves what is below the handle and puts its result there.  *)
LEMMA ReduceKeeps ==
    ASSUME StackOk(token_stack), token_stack # <<>>, NEW types, Result(types),
           ReduceTo(types)
    PROVE  LET kept == SubSeq(token_stack, 1, HandleStart - 1)
           IN  /\ StackOk(token_stack') /\ StackOk(kept)
               /\ Len(kept) = HandleStart - 1
               /\ \A k \in 1 .. HandleStart - 1 : kept[k] = token_stack[k]
               /\ types = <<>> => token_stack' = kept
               /\ \A type \in Reduced :
                     types = <<type>> => token_stack' = Append(kept, Token(type))
<1> DEFINE new == [k \in DOMAIN types |-> Token(types[k])]
           kept == SubSeq(token_stack, 1, HandleStart - 1)
<1>1. /\ StackOk(kept) /\ Len(kept) = HandleStart - 1
      /\ \A k \in 1 .. HandleStart - 1 : kept[k] = token_stack[k]
  BY HandleExists, StackBelow
<1>2. token_stack' = kept \o new
  BY DEF ReduceTo
<1>3. PICK S : kept \in Seq(S)
  BY <1>1 DEF StackOk
<1>4. ASSUME types = <<>>
      PROVE  token_stack' = kept
  <2>1. new = <<>>
    BY <1>4
  <2> HIDE DEF kept, new
  <2> QED
    BY <1>2, <1>3, <2>1
<1>5. ASSUME NEW type \in Reduced, types = <<type>>
      PROVE  token_stack' = Append(kept, Token(type))
  <2>1. new = <<Token(type)>>
    BY <1>5
  <2> DEFINE x == Token(type)
  <2> HIDE DEF kept, new, x
  <2>2. kept \in Seq(S \cup {x})
    BY <1>3, SeqWider
  <2>3. kept \o <<x>> = Append(kept, x)
    BY <2>2
  <2> QED
    BY <1>2, <2>1, <2>3 DEF x
<1>6. \A type \in Reduced : StackToken(Token(type))
  BY DEF StackToken
<1> HIDE DEF kept, new
<1>7. \A type \in Reduced : StackOk(Append(kept, Token(type)))
  BY <1>1, <1>6, StackAppend
<1>8. StackOk(token_stack')
  BY <1>1, <1>4, <1>5, <1>7 DEF Result
<1> QED
  BY <1>1, <1>4, <1>5, <1>8 DEF kept

(* lookup adds a set only if it is not there. *)
LEMMA LookedKeeps ==
    ASSUME MapOk, NEW str \in Classes, charsets' = Looked(str)
    PROVE  MapOk'
<1>1. CASE Contains(charsets, str)
  BY <1>1 DEF Looked, MapOk
<1>2. CASE ~ Contains(charsets, str)
  <2> DEFINE n == Len(charsets)
  <2>1. charsets \in Seq(Classes) /\ n \in Nat
    BY DEF MapOk
  <2>2. charsets' = Append(charsets, str)
    BY <1>2 DEF Looked
  <2>3. \A k \in 1 .. n : charsets[k] # str
    BY <1>2, <2>1 DEF Contains
  <2>4. /\ charsets' \in Seq(Classes) /\ Len(charsets') = n + 1
        /\ charsets'[n + 1] = str
        /\ \A k \in 1 .. n : charsets'[k] = charsets[k]
    BY <2>1, <2>2
  <2>5. \A k, l \in 1 .. n : charsets[k] = charsets[l] => k = l
    BY DEF MapOk
  <2> HIDE DEF n
  <2>6. \A k \in 1 .. n + 1 : k \in 1 .. n \/ k = n + 1
    BY <2>1
  <2>7. \A k, l \in 1 .. n + 1 : charsets'[k] = charsets'[l] => k = l
    BY <2>3, <2>4, <2>5, <2>6
  <2> QED
    BY <2>4, <2>7 DEF MapOk
<1> QED
  BY <1>1, <1>2

(* The productions that change nothing but a type make no token with       *)
(* characters.                                                             *)
LEMMA RenamedResults == \A production \in Renamed : Result(production[2])
<1>1. \A type \in Reduced : Result(<<type>>)
  BY DEF Result
<1>2. Result(<<>>)
  BY DEF Result
<1>3. \A production \in Renamed :
         \/ production[2] = <<>> \/ production[2] = <<"REGEX">>
         \/ production[2] = <<"OREXP">> \/ production[2] = <<"SEQUENCE">>
         \/ production[2] = <<"SUB">> \/ production[2] = <<"EXPRESSION">>
         \/ production[2] = <<"REPEAT">>
  BY DEF Renamed
<1>4. /\ Result(<<"REGEX">>) /\ Result(<<"OREXP">>) /\ Result(<<"SEQUENCE">>)
      /\ Result(<<"SUB">>) /\ Result(<<"EXPRESSION">>) /\ Result(<<"REPEAT">>)
  BY <1>1 DEF Reduced
<1> QED
  BY <1>2, <1>3, <1>4

(* What a reduction does to the stack keeps the invariant of the parser. *)
LEMMA ReductionKeeps ==
    ASSUME CompileInv, Reducing, NEW types, Result(types), ReduceTo(types),
           UNCHANGED ruleVars, MapOk'
    PROVE  ParserInv'
<1>1. /\ StackOk(token_stack) /\ token_stack # <<>> /\ pc = "shift"
      /\ rule \in Nat \ {0} /\ rule \in 1 .. Len(regexes)
      /\ next_token \in 1 .. Len(rule_tokens)
  BY DEF CompileInv, ParserInv, Reducing
<1>2. StackOk(token_stack')
  BY <1>1, ReduceKeeps
<1>3. rule' = rule /\ next_token' = next_token /\ regexes' = regexes
  BY DEF ReduceTo, ruleVars, rules
<1>4. rule_tokens' = rule_tokens
  BY <1>3 DEF rule_tokens
<1> QED
  BY <1>1, <1>2, <1>3, <1>4 DEF ParserInv

(* The set of a CHARSET token that is reduced is not empty. *)
LEMMA HandledCharset ==
    ASSUME CompileInv, Handle(<<"CHARSET">>)
    PROVE  handle_token.str \in Classes
<1>1. StackOk(token_stack) /\ token_stack # <<>>
  BY DEF CompileInv, ParserInv, Handle, Reducing
<1>2. HandleStart \in 1 .. Len(token_stack) /\ Len(token_stack) \in Nat
  BY <1>1, HandleExists, StackTokens
<1> DEFINE h == HandleStart
           n == Len(token_stack)
<1>3. handle = [k \in 1 .. n - h + 1 |-> token_stack[h + k - 1].type]
  BY DEF handle
<1>4. handle = <<"CHARSET">>
  BY DEF Handle
<1> HIDE DEF h, n
<1>5. n \in Nat /\ h \in 1 .. n
  BY <1>2 DEF h, n
<1>6. 1 \in 1 .. n - h + 1 /\ h + 1 - 1 = h
  BY <1>5
<1>7. handle[1] = token_stack[h].type
  BY <1>3, <1>6
<1>8. handle_token.type = "CHARSET"
  BY <1>4, <1>7 DEF handle_token, h
<1>9. TokenOk(handle_token)
  <2>1. StackToken(handle_token)
    BY <1>1, <1>2, StackTokens DEF handle_token
  <2>2. \A type \in Reduced : Token(type).type # "CHARSET"
    BY PlainToken DEF Reduced
  <2> QED
    BY <1>8, <2>1, <2>2 DEF StackToken
<1> QED
  BY <1>8, <1>9 DEF TokenOk, Classes

(* The reductions. *)
LEMMA ReductionsKeep ==
    ASSUME CompileInv, UNCHANGED ruleVars,
           \/ Rename \/ ReduceOr \/ ReduceSequence \/ ReduceCharset
           \/ ReduceBol \/ ReduceEol \/ ReduceDuplicator
    PROVE  ParserInv'
<1>1. MapOk
  BY DEF CompileInv, ParserInv
<1>2. charsets' = charsets => MapOk'
  BY <1>1 DEF MapOk
<1>3. \A type \in {"OREXP", "SUB", "REPEAT", "DUP"} : Result(<<type>>)
  BY DEF Result, Reduced
<1>4. CASE Rename
  <2>1. charsets' = charsets
    BY <1>4 DEF Rename, SameTree, treeVars
  <2>2. \E production \in Renamed : Handle(production[1]) /\ ReduceTo(production[2])
    BY <1>4 DEF Rename
  <2> QED
    BY <1>2, <2>1, <2>2, RenamedResults, ReductionKeeps DEF Handle
<1>5. CASE ReduceOr
  <2>1. charsets' = charsets /\ Reducing /\ ReduceTo(<<"OREXP">>)
    BY <1>5 DEF ReduceOr, Handle
  <2> QED
    BY <1>2, <1>3, <2>1, ReductionKeeps
<1>6. CASE ReduceSequence
  <2>1. charsets' = charsets /\ Reducing /\ ReduceTo(<<"SUB">>)
    BY <1>6 DEF ReduceSequence, Handle
  <2> QED
    BY <1>2, <1>3, <2>1, ReductionKeeps
<1>7. CASE ReduceCharset
  <2>1. /\ charsets' = Looked(handle_token.str) /\ Reducing
        /\ ReduceTo(<<"REPEAT">>) /\ Handle(<<"CHARSET">>)
    BY <1>7 DEF ReduceCharset, Handle
  <2>2. MapOk'
    BY <1>1, <2>1, HandledCharset, LookedKeeps
  <2> QED
    BY <1>3, <2>1, <2>2, ReductionKeeps
<1>8. CASE ReduceBol
  <2>1. charsets' = charsets /\ Reducing /\ ReduceTo(<<"REPEAT">>)
    BY <1>8 DEF ReduceBol, Handle
  <2> QED
    BY <1>2, <1>3, <2>1, ReductionKeeps
<1>9. CASE ReduceEol
  <2>1. charsets' = Looked(Single(10)) /\ Reducing /\ ReduceTo(<<"REPEAT">>)
    BY <1>9 DEF ReduceEol, Handle
  <2>2. Single(10) \in Classes
    BY CharNumbers, SingleClass
  <2>3. MapOk'
    BY <1>1, <2>1, <2>2, LookedKeeps
  <2> QED
    BY <1>3, <2>1, <2>3, ReductionKeeps
<1>10. CASE ReduceDuplicator
  <2>1. charsets' = charsets /\ Reducing /\ ReduceTo(<<"DUP">>)
    BY <1>10 DEF ReduceDuplicator, Handle
  <2> QED
    BY <1>2, <1>3, <2>1, ReductionKeeps
<1> QED
  BY <1>4, <1>5, <1>6, <1>7, <1>8, <1>9, <1>10

(* The start of a rule. *)
LEMMA BeginRuleKeeps ==
    ASSUME CompileInv, UNCHANGED ruleVars, BeginRule
    PROVE  ParserInv'
<1>1. /\ rule \in Nat \ {0} /\ rule <= Len(regexes) /\ RegexesOk /\ MapOk
      /\ token_stack' = <<rule_tokens[1]>> /\ next_token' = 2
      /\ rule' = rule /\ charsets' = charsets /\ regexes' = regexes
  BY DEF BeginRule, CompileInv, RulesInv, ParserInv, treeVars, ruleVars, rules
<1>2. rule \in 1 .. Len(regexes)
  <2>1. Len(regexes) \in Nat
    BY <1>1 DEF RegexesOk
  <2> QED
    BY <1>1, <2>1
<1>3. SeqOk(rule_tokens) /\ Len(rule_tokens) >= 3
  BY <1>1, <1>2, StoredRule DEF rule_tokens
<1>4. 1 \in 1 .. Len(rule_tokens) /\ 2 \in 1 .. Len(rule_tokens)
  BY <1>3, SeqTokens
<1>5. StackOk(token_stack')
  BY <1>1, <1>3, <1>4, SeqTokens, StackOne DEF StackToken
<1>6. rule_tokens' = rule_tokens
  BY <1>1 DEF rule_tokens
<1>7. MapOk'
  BY <1>1 DEF MapOk
<1> QED
  BY <1>1, <1>2, <1>4, <1>5, <1>6, <1>7 DEF ParserInv

(* A shift. *)
LEMMA ShiftKeeps ==
    ASSUME CompileInv, UNCHANGED ruleVars, Shift
    PROVE  ParserInv'
<1>1. /\ rule \in Nat \ {0} /\ RegexesOk /\ MapOk /\ StackOk(token_stack)
      /\ rule \in 1 .. Len(regexes) /\ next_token \in 1 .. Len(rule_tokens)
      /\ token_stack' = Append(token_stack, rhs_token)
      /\ next_token' = Lesser(next_token + 1, Len(rule_tokens))
      /\ rule' = rule /\ charsets' = charsets /\ regexes' = regexes
  BY DEF Shift, CompileInv, RulesInv, ParserInv, treeVars, ruleVars, rules
<1>2. SeqOk(rule_tokens) /\ Len(rule_tokens) >= 3 /\ Len(rule_tokens) \in Nat
  BY <1>1, StoredRule, SeqTokens DEF rule_tokens
<1>3. StackOk(token_stack')
  BY <1>1, <1>2, SeqTokens, StackAppend DEF rhs_token, StackToken
<1>4. rule_tokens' = rule_tokens
  BY <1>1 DEF rule_tokens
<1>5. next_token' \in 1 .. Len(rule_tokens)
  <2> DEFINE m == Len(rule_tokens)
  <2>1. m \in Nat /\ next_token \in 1 .. m /\ next_token' = Lesser(next_token + 1, m)
    BY <1>1, <1>2
  <2> HIDE DEF m
  <2>2. next_token' \in 1 .. m
    BY <2>1 DEF Lesser
  <2> QED
    BY <2>2 DEF m
<1>6. MapOk'
  BY <1>1 DEF MapOk
<1> QED
  BY <1>1, <1>3, <1>4, <1>5, <1>6 DEF ParserInv

(* The parser is not reading a rule. *)
LEMMA Idle ==
    ASSUME CompileInv, UNCHANGED <<token_stack, charsets>>, pc' # "shift",
           rule' = rule \/ rule' = rule + 1
    PROVE  ParserInv'
<1>1. rule' \in Nat \ {0} /\ StackOk(token_stack') /\ MapOk'
  BY DEF CompileInv, ParserInv, MapOk
<1> QED
  BY <1>1 DEF ParserInv

(* The places of the parser. *)
Parses == {"parse", "shift"}

(* Where the parser may be. *)
LEMMA ParserPlaces ==
    ASSUME ParserNext
    PROVE  pc \in Parses /\ pc' \in Parses \cup {"trees", "error", "abort"}
BY DEF ParserNext, BeginRule, Shift, SyntaxError, Rename, ReduceOr,
   ReduceSequence, ReduceCharset, ReduceBol, ReduceEol, ReduceDuplicator,
   ReduceFails, Reducing, Handle, ReduceTo, EndRule, EndParse, Parses

(* Every step of the parser keeps the invariants of the reader and the     *)
(* parser.                                                                 *)
LEMMA ParserStep ==
    ASSUME CompileInv, ParserNext, UNCHANGED ruleVars
    PROVE  CompileInv'
<1>1. ParserInv'
  <2>1. CASE SyntaxError \/ ReduceFails \/ EndParse
    <3>1. UNCHANGED <<token_stack, charsets, rule>> /\ pc' # "shift"
      BY <2>1 DEF SyntaxError, ReduceFails, EndParse, parserVars, treeVars
    <3> QED
      BY <3>1, Idle
  <2>2. CASE EndRule
    <3>1. UNCHANGED <<token_stack, charsets>> /\ pc' # "shift" /\ rule' = rule + 1
      BY <2>2 DEF EndRule
    <3> QED
      BY <3>1, Idle
  <2> QED
    BY <2>1, <2>2, BeginRuleKeeps, ShiftKeeps, ReductionsKeep DEF ParserNext
<1>2. RulesInv'
  <2>1. pc' \notin {"token", "charset", "end"}
    BY ParserPlaces DEF Parses
  <2>2. UNCHANGED <<rules, tokens>> /\ RulesInv
    BY DEF ruleVars, CompileInv
  <2> QED
    BY <2>1, <2>2, Kept
<1> QED
  BY <1>1, <1>2 DEF CompileInv

(* The places of the reader. *)
Reads == {"rule", "token", "charset", "end"}

(* Where the reader may be. *)
LEMMA ReaderPlaces ==
    ASSUME RulesNext
    PROVE  /\ pc \in Reads /\ pc' \in Reads \cup {"parse", "error"}
           /\ pc' = "parse" => EndRules
<1> DEFINE Ok == pc \in Reads /\ pc' \in Reads \cup {"error"}
<1>1. ASSUME NEW rhs, Take(rhs), pc \in Reads
      PROVE  Ok
  <2>1. \/ Fails \/ TakeDiff(rhs) \/ ApplyDiff(rhs) \/ TakeMacro(rhs) \/ Store(rhs)
    BY <1>1 DEF Take
  <2> QED
    BY <1>1, <2>1 DEF Fails, TakeDiff, ApplyDiff, TakeMacro, Store, Reads
<1>2. \A p, tok : TokenAt(p, tok) /\ pc \in Reads => Ok
  BY <1>1 DEF TokenAt
<1>3. \A p \in Reads : Throw(p) => Ok
  BY DEF Throw
<1>a. "parse" \notin Reads \cup {"error"}
  BY DEF Reads
<1>4. CASE BeginText \/ EndText
  BY <1>3, <1>4, <1>a DEF BeginText, EndText, Reads, Throw
<1>b. CASE EndRules
  BY <1>b DEF EndRules, Reads
<1>5. CASE RefuseText \/ ToggleString \/ Skip \/ SkipUnended
  BY <1>3, <1>5, <1>a DEF RefuseText, ToggleString, Skip, SkipTo, SkipUnended, Reads
<1>6. AtToken => pc \in Reads
  BY DEF AtToken, Reads
<1>7. CASE ReadEnd \/ ReadEndFails \/ ReadInString \/ ReadClose \/ ReadOr
           \/ ReadDot \/ ReadLookahead \/ ReadLiteral
  BY <1>2, <1>3, <1>6, <1>7, <1>a DEF ReadEnd, ReadEndFails, ReadInString, ReadClose, ReadOr,
     ReadDot, ReadLookahead, ReadLiteral, Meta, Plain, Reads
<1>8. CASE ReadEscape
  BY <1>2, <1>3, <1>6, <1>8, <1>a DEF ReadEscape, TakeEscape, Reads
<1>9. CASE ReadOpen
  BY <1>2, <1>3, <1>6, <1>9, <1>a DEF ReadOpen, Meta, Plain, Reads
<1>10. CASE ReadDuplicator \/ ReadCurly \/ ReadAnchor
  BY <1>2, <1>3, <1>6, <1>10, <1>a DEF ReadDuplicator, ReadCurly, ReadAnchor, Meta, Plain, Reads
<1>11. CASE BeginCharset \/ CharsetItem
  BY <1>3, <1>6, <1>11, <1>a DEF BeginCharset, CharsetItem, AddToCharset, Meta, Plain, Reads
<1>12. CASE EndCharset
  <2>1. pc \in Reads /\ "charset" \in Reads
    BY <1>12 DEF EndCharset, Reads
  <2> QED
    BY <1>1, <1>3, <1>12, <1>a, <2>1 DEF EndCharset
<1> QED
  BY <1>4, <1>b, <1>5, <1>7, <1>8, <1>9, <1>10, <1>11, <1>12 DEF RulesNext

(* So does every step of the reader. *)
LEMMA ReaderStep ==
    ASSUME CompileInv, RulesNext, UNCHANGED parserVars
    PROVE  CompileInv'
<1>1. RulesInv'
  BY RulesStep DEF CompileInv
<1>2. UNCHANGED <<token_stack, charsets, rule>> /\ pc' # "shift"
  BY ReaderPlaces DEF parserVars, treeVars, Reads
<1>3. ParserInv'
  BY <1>2, Idle
<1> QED
  BY <1>1, <1>3 DEF CompileInv

(* They hold at the start *)
LEMMA CompileInitially == ParseInit => CompileInv
<1> SUFFICES ASSUME ParseInit
             PROVE  CompileInv
  OBVIOUS
<1>1. RulesInv
  BY RulesInitially DEF ParseInit
<1>2. StackOk(token_stack) /\ rule \in Nat \ {0} /\ pc # "shift"
  <2>1. token_stack = <<>> /\ rule = 1 /\ pc = "rule"
    BY DEF ParseInit, RulesInit, ParserInit
  <2> QED
    BY <2>1, StackOne
<1>3. MapOk
  <2>1. charsets = <<>>
    BY DEF ParseInit, ParserInit
  <2> QED
    BY <2>1 DEF MapOk
<1> QED
  BY <1>1, <1>2, <1>3 DEF CompileInv, ParserInv

(* and in a step that changes nothing. *)
LEMMA SameCompile ==
    ASSUME CompileInv, UNCHANGED <<pc, ruleVars, parserVars>>
    PROVE  CompileInv'
<1>1. UNCHANGED <<jobs, curr, tokens, macro_map, regexes, cs, pc>>
  BY DEF ruleVars, rules, lexer
<1>2. UNCHANGED <<rule, token_stack, next_token, charsets>>
  BY DEF parserVars, treeVars
<1>3. RulesInv'
  BY <1>1 DEF CompileInv, RulesInv, MacrosOk, RegexesOk, text, CsOk
<1>4. ParserInv'
  BY <1>1, <1>2 DEF CompileInv, ParserInv, MapOk, rule_tokens
<1> QED
  BY <1>3, <1>4 DEF CompileInv

(* No two tokens ever get one set of characters under two ids.             *)
THEOREM CharsetsStayDistinct == ParseSpec => []CharsetsDistinct
<1>1. ParseInit => CompileInv
  BY CompileInitially
<1>2. CompileInv /\ [ParseNext]_<<pc, ruleVars, parserVars>> => CompileInv'
  <2> SUFFICES ASSUME CompileInv, [ParseNext]_<<pc, ruleVars, parserVars>>
               PROVE  CompileInv'
    OBVIOUS
  <2>1. CASE RulesNext /\ UNCHANGED parserVars
    BY <2>1, ReaderStep
  <2>2. CASE ParserNext /\ UNCHANGED ruleVars
    BY <2>2, ParserStep
  <2>3. CASE UNCHANGED <<pc, ruleVars, parserVars>>
    BY <2>3, SameCompile
  <2> QED
    BY <2>1, <2>2, <2>3 DEF ParseNext, ParseStep, ParseEnded
<1>3. CompileInv => CharsetsDistinct
  BY MapDistinct DEF CompileInv, ParserInv
<1> QED
  BY <1>1, <1>2, <1>3, PTL DEF ParseSpec

-----------------------------------------------------------------------------
(* The partition. The list of parts keeps two things: no two parts share a *)
(* character, and every character has the ids of the sets it came from.    *)

(* A set of characters and the ids of the tokens it is a part of. *)
Parts == [token : Classes, index_set : SUBSET Int]

(* A character is in a part, and one of the part's ids is i. *)
InPart(x, c) == c \in Chars(x.token)
Piece(x, i, c) == i \in x.index_set /\ c \in Chars(x.token)

(* The same of a list of parts. *)
Holds(list, c) == \E n \in 1 .. Len(list) : InPart(list[n], c)
Has(list, i, c) == \E n \in 1 .. Len(list) : Piece(list[n], i, c)

(* No two parts of a list share a character. *)
Apart(list) == \A k, l \in 1 .. Len(list) : \A c :
                  InPart(list[k], c) /\ InPart(list[l], c) => k = l

(* A list of parts that do not overlap. *)
PartsOk(list) == list \in Seq(Parts) /\ Apart(list)

(* A part that may be missing. *)
Maybe(S) == S = {} \/ \E x \in Parts : S = {x}

(* The same of a part that may be missing. *)
Within(S, c) == \E x \in S : InPart(x, c)
Bears(S, i, c) == \E x \in S : Piece(x, i, c)

(* A character with an id is a character. *)
LEMMA PieceParts ==
    /\ \A x, i, c : Piece(x, i, c) => InPart(x, c)
    /\ \A S, i, c : Bears(S, i, c) => Within(S, c)
    /\ \A list, i, c : Has(list, i, c) => Holds(list, c)
BY DEF Piece, InPart, Bears, Within, Has, Holds

(* A part with no character in common with the list goes to its end. *)
LEMMA AddPart ==
    ASSUME NEW list, PartsOk(list), NEW x \in Parts,
           \A c : InPart(x, c) => ~ Holds(list, c)
    PROVE  /\ PartsOk(Append(list, x))
           /\ \A c : Holds(Append(list, x), c) <=> Holds(list, c) \/ InPart(x, c)
           /\ \A i, c : Has(Append(list, x), i, c) <=> Has(list, i, c) \/ Piece(x, i, c)
<1> DEFINE new == Append(list, x)
           n == Len(list)
<1>1. list \in Seq(Parts) /\ n \in Nat
  BY DEF PartsOk
<1>2. /\ new \in Seq(Parts) /\ Len(new) = n + 1 /\ new[n + 1] = x
      /\ \A k \in 1 .. n : new[k] = list[k]
  BY <1>1
<1>3. /\ \A k \in 1 .. n + 1 : k \in 1 .. n \/ k = n + 1
      /\ \A k \in 1 .. n : k \in 1 .. n + 1
      /\ n + 1 \in 1 .. n + 1
  BY <1>1
<1>4. \A k, l \in 1 .. n : \A c : InPart(list[k], c) /\ InPart(list[l], c) => k = l
  BY DEF PartsOk, Apart
<1>5. \A k \in 1 .. n : \A c : InPart(list[k], c) => ~ InPart(x, c)
  BY DEF Holds
<1> HIDE DEF new
<1>6. \A c : Holds(new, c) <=> Holds(list, c) \/ InPart(x, c)
  <2> HIDE DEF n
  <2> QED
    BY <1>2, <1>3 DEF Holds, n
<1>7. \A i, c : Has(new, i, c) <=> Has(list, i, c) \/ Piece(x, i, c)
  <2> HIDE DEF n
  <2> QED
    BY <1>2, <1>3 DEF Has, n
<1> HIDE DEF n
<1>8. ASSUME NEW k \in 1 .. n + 1, NEW l \in 1 .. n + 1, NEW c,
             InPart(new[k], c), InPart(new[l], c)
      PROVE  k = l
  BY <1>2, <1>3, <1>4, <1>5, <1>8
<1>9. Apart(new)
  BY <1>2, <1>8 DEF Apart
<1> QED
  BY <1>2, <1>6, <1>7, <1>9 DEF PartsOk, new

(* The elements of no set *)
LEMMA NoSeq == SetToSeq({}) = <<>>
<1> DEFINE Fs == [1 .. Cardinality({}) -> {}]
<1>1. Cardinality({}) = 0
  BY FS_EmptySet
<1>2. 1 .. Cardinality({}) = {}
  BY <1>1
<1>3. \A f \in Fs : f \in Seq({}) /\ Len(f) = 0
  BY <1>1, SMT
<1>3a. \A f \in Fs : f = <<>>
  <2> HIDE DEF Fs
  <2> QED
    BY <1>3, EmptySeq
<1>4. <<>> \in Fs /\ IsInjective(<<>>)
  BY <1>2 DEF IsInjective
<1>5. (CHOOSE f \in Fs : IsInjective(f)) \in Fs
  BY <1>4
<1> QED
  BY <1>3a, <1>5 DEF SetToSeq

(* and of one element, as a sequence. *)
LEMMA OneSeq == ASSUME NEW x PROVE SetToSeq({x}) = <<x>>
<1> DEFINE Fs == [1 .. Cardinality({x}) -> {x}]
<1>1. Cardinality({x}) = 1
  BY FS_Singleton
<1>2. 1 .. Cardinality({x}) = {1}
  BY <1>1
<1>3. \A f \in Fs : f \in Seq({x}) /\ Len(f) = 1 /\ f[1] = x
  <2>1. ASSUME NEW f \in [1 .. 1 -> {x}]
        PROVE  f \in Seq({x}) /\ Len(f) = 1 /\ f[1] = x
    OBVIOUS
  <2>2. Fs = [1 .. 1 -> {x}]
    BY <1>1
  <2> HIDE DEF Fs
  <2> QED
    BY <2>1, <2>2
<1>3a. \A f \in Fs : f = <<x>>
  <2>1. <<x>> \in Seq({x}) /\ Len(<<x>>) = 1 /\ <<x>>[1] = x
    OBVIOUS
  <2> HIDE DEF Fs
  <2>2. ASSUME NEW f \in Fs PROVE f = <<x>>
    <3>1. /\ Len(f) = Len(<<x>>)
          /\ \A k \in 1 .. Len(f) : f[k] = <<x>>[k]
      BY <1>3, <2>1, SMT
    <3> QED
      BY <1>3, <2>1, <3>1, SeqEqual
  <2> QED
    BY <2>2
<1>4. <<x>> \in Fs /\ IsInjective(<<x>>)
  BY <1>2 DEF IsInjective
<1>5. (CHOOSE f \in Fs : IsInjective(f)) \in Fs
  BY <1>4
<1> QED
  BY <1>3a, <1>5 DEF SetToSeq

(* A part that may be missing goes to the end of the list. *)
LEMMA AddMaybe ==
    ASSUME NEW list, PartsOk(list), NEW S, Maybe(S),
           \A c : Within(S, c) => ~ Holds(list, c)
    PROVE  /\ PartsOk(list \o SetToSeq(S))
           /\ \A c : Holds(list \o SetToSeq(S), c) <=> Holds(list, c) \/ Within(S, c)
           /\ \A i, c : Has(list \o SetToSeq(S), i, c) <=> Has(list, i, c) \/ Bears(S, i, c)
<1>1. list \in Seq(Parts)
  BY DEF PartsOk
<1>2. CASE S = {}
  <2>1. list \o SetToSeq(S) = list
    BY <1>1, <1>2, NoSeq
  <2>2. \A c, i : ~ Within(S, c) /\ ~ Bears(S, i, c)
    BY <1>2 DEF Within, Bears
  <2> QED
    BY <2>1, <2>2
<1>3. ASSUME NEW x \in Parts, S = {x}
      PROVE  /\ PartsOk(list \o SetToSeq(S))
             /\ \A c : Holds(list \o SetToSeq(S), c) <=> Holds(list, c) \/ Within(S, c)
             /\ \A i, c : Has(list \o SetToSeq(S), i, c)
                              <=> Has(list, i, c) \/ Bears(S, i, c)
  <2>1. list \o SetToSeq(S) = Append(list, x)
    BY <1>1, <1>3, OneSeq, AppendIsConcat
  <2>2. \A c, i : /\ Within(S, c) <=> InPart(x, c)
                  /\ Bears(S, i, c) <=> Piece(x, i, c)
    BY <1>3 DEF Within, Bears
  <2>3. \A c : InPart(x, c) => ~ Holds(list, c)
    BY <2>2
  <2>4. /\ PartsOk(Append(list, x))
        /\ \A c : Holds(Append(list, x), c) <=> Holds(list, c) \/ InPart(x, c)
        /\ \A i, c : Has(Append(list, x), i, c) <=> Has(list, i, c) \/ Piece(x, i, c)
    BY <2>3, AddPart
  <2> QED
    BY <2>1, <2>2, <2>4
<1> QED
  BY <1>2, <1>3 DEF Maybe

(* charset.intersect: what is only in one of the two keeps its ids, what   *)
(* they share has the ids of both.                                         *)
Met(met, l, p) ==
    /\ Maybe(met.l) /\ Maybe(met.r) /\ Maybe(met.overlap)
    /\ \A c : /\ Within(met.l, c) <=> InPart(l, c) /\ ~ InPart(p, c)
              /\ Within(met.r, c) <=> InPart(p, c) /\ ~ InPart(l, c)
              /\ Within(met.overlap, c) <=> InPart(l, c) /\ InPart(p, c)
    /\ \A i, c : /\ Bears(met.l, i, c) <=> Piece(l, i, c) /\ ~ InPart(p, c)
                 /\ Bears(met.r, i, c) <=> Piece(p, i, c) /\ ~ InPart(l, c)
                 /\ Bears(met.overlap, i, c) <=>
                        \/ Piece(l, i, c) /\ InPart(p, c)
                        \/ Piece(p, i, c) /\ InPart(l, c)

(* What is left of a set, gone if it is empty. *)
PartOf(str, ids) == IF str = <<>> THEN {} ELSE {[token |-> str, index_set |-> ids]}

(* A set of characters with ids as a part, gone if it is empty. *)
LEMMA PartOfSet ==
    ASSUME NEW str \in CharSet, NEW ids \in SUBSET Int
    PROVE  /\ Maybe(PartOf(str, ids))
           /\ \A c : Within(PartOf(str, ids), c) <=> c \in Chars(str)
           /\ \A i, c : Bears(PartOf(str, ids), i, c) <=> i \in ids /\ c \in Chars(str)
<1>1. CASE str = <<>>
  <2>1. PartOf(str, ids) = {} /\ \A c : c \notin Chars(str)
    BY <1>1, EmptyCharSet DEF PartOf
  <2> QED
    BY <2>1 DEF Maybe, Within, Bears
<1>2. CASE str # <<>>
  <2> DEFINE x == [token |-> str, index_set |-> ids]
  <2>1. PartOf(str, ids) = {x} /\ x \in Parts
    BY <1>2 DEF PartOf, Parts, Classes
  <2>2. x.token = str /\ x.index_set = ids
    OBVIOUS
  <2> HIDE DEF x
  <2>3. Maybe(PartOf(str, ids))
    BY <2>1 DEF Maybe
  <2>4. \A c : Within(PartOf(str, ids), c) <=> c \in Chars(str)
    BY <2>1, <2>2 DEF Within, InPart
  <2>5. \A i, c : Bears(PartOf(str, ids), i, c) <=> i \in ids /\ c \in Chars(str)
    BY <2>1, <2>2 DEF Bears, Piece
  <2> QED
    BY <2>3, <2>4, <2>5
<1> QED
  BY <1>1, <1>2

(* MeetCharsets does so. *)
LEMMA MeetCharsetsExact ==
    ASSUME NEW l \in Parts, NEW p \in Parts
    PROVE  Met(MeetCharsets(l, p), l, p)
<1> DEFINE met == Intersect(l.token, p.token)
           a == PartOf(met.lhs, l.index_set)
           b == PartOf(met.rhs, p.index_set)
           o == PartOf(met.overlap, l.index_set \cup p.index_set)
<1>1. /\ l.token \in CharSet /\ p.token \in CharSet
      /\ l.index_set \in SUBSET Int /\ p.index_set \in SUBSET Int
      /\ l.index_set \cup p.index_set \in SUBSET Int
  BY DEF Parts, Classes
<1>2. /\ met.lhs \in CharSet /\ met.rhs \in CharSet /\ met.overlap \in CharSet
      /\ \A c : /\ c \in Chars(met.lhs) <=> c \in Chars(l.token) /\ c \notin Chars(p.token)
                /\ c \in Chars(met.rhs) <=> c \in Chars(p.token) /\ c \notin Chars(l.token)
                /\ c \in Chars(met.overlap) <=> c \in Chars(l.token) /\ c \in Chars(p.token)
  BY <1>1, IntersectExact
<1>3. MeetCharsets(l, p) = [l |-> a, r |-> b, overlap |-> o]
  BY DEF MeetCharsets, PartOf
<1>4. MeetCharsets(l, p).l = a /\ MeetCharsets(l, p).r = b /\ MeetCharsets(l, p).overlap = o
  BY <1>3
<1> HIDE DEF met
<1>5. /\ Maybe(a) /\ \A c : Within(a, c) <=> c \in Chars(met.lhs)
      /\ \A i, c : Bears(a, i, c) <=> i \in l.index_set /\ c \in Chars(met.lhs)
  BY <1>1, <1>2, PartOfSet
<1>6. /\ Maybe(b) /\ \A c : Within(b, c) <=> c \in Chars(met.rhs)
      /\ \A i, c : Bears(b, i, c) <=> i \in p.index_set /\ c \in Chars(met.rhs)
  BY <1>1, <1>2, PartOfSet
<1>7. /\ Maybe(o) /\ \A c : Within(o, c) <=> c \in Chars(met.overlap)
      /\ \A i, c : Bears(o, i, c)
                      <=> i \in l.index_set \cup p.index_set /\ c \in Chars(met.overlap)
  BY <1>1, <1>2, PartOfSet
<1> HIDE DEF a, b, o
<1>8. Maybe(a) /\ Maybe(b) /\ Maybe(o)
  BY <1>5, <1>6, <1>7
<1>9. \A c : /\ Within(a, c) <=> InPart(l, c) /\ ~ InPart(p, c)
             /\ Within(b, c) <=> InPart(p, c) /\ ~ InPart(l, c)
             /\ Within(o, c) <=> InPart(l, c) /\ InPart(p, c)
  BY <1>2, <1>5, <1>6, <1>7 DEF InPart
<1>10. \A i, c : /\ Bears(a, i, c) <=> Piece(l, i, c) /\ ~ InPart(p, c)
                 /\ Bears(b, i, c) <=> Piece(p, i, c) /\ ~ InPart(l, c)
                 /\ Bears(o, i, c) <=> \/ Piece(l, i, c) /\ InPart(p, c)
                                       \/ Piece(p, i, c) /\ InPart(l, c)
  BY <1>2, <1>5, <1>6, <1>7 DEF InPart, Piece
<1> QED
  BY <1>4, <1>8, <1>9, <1>10 DEF Met

(* What split goes through: the parts so far, what is left of the new one, *)
(* and whether that is the part to append.                                 *)
Splits == [list : Seq(Parts), r : {S \in SUBSET Parts : Maybe(S)}, last : BOOLEAN]

(* The fields of a state of split, *)
LEMMA SplitParts ==
    ASSUME NEW list \in Seq(Parts), NEW r \in SUBSET Parts, Maybe(r), NEW last \in BOOLEAN
    PROVE  /\ [list |-> list, r |-> r, last |-> last] \in Splits
           /\ [list |-> list, r |-> r, last |-> last].list = list
           /\ [list |-> list, r |-> r, last |-> last].r = r
           /\ [list |-> list, r |-> r, last |-> last].last = last
BY DEF Splits

(* typed. *)
LEMMA SplitsTyped ==
    ASSUME NEW st \in Splits
    PROVE  /\ st.list \in Seq(Parts) /\ st.r \in SUBSET Parts /\ Maybe(st.r)
           /\ st.last \in BOOLEAN
BY DEF Splits

(* A part that may be missing, as a sequence. *)
LEMMA MaybeSubset ==
    ASSUME NEW S, Maybe(S)
    PROVE  S \in SUBSET Parts /\ SetToSeq(S) \in Seq(Parts)
<1>1. CASE S = {}
  <2>1. SetToSeq(S) = <<>> /\ <<>> \in Seq(Parts)
    BY <1>1, NoSeq, EmptySeq
  <2> QED
    BY <1>1, <2>1
<1>2. ASSUME NEW x \in Parts, S = {x}
      PROVE  S \in SUBSET Parts /\ SetToSeq(S) \in Seq(Parts)
  <2>1. SetToSeq(S) = <<x>>
    BY <1>2, OneSeq
  <2>2. <<x>> \in Seq(Parts)
    OBVIOUS
  <2> QED
    BY <1>2, <2>1, <2>2
<1> QED
  BY <1>1, <1>2 DEF Maybe

(* The steps of split. *)
Keeps(st, l, new) ==
    /\ st.last \/ st.r = {}
    /\ new.list = Append(st.list, l) /\ new.r = st.r /\ new.last = st.last

Misses(st, l, p, met, new) ==
    /\ met.overlap = {}
    /\ new.list = Append(st.list, l) /\ new.r = {p} /\ new.last = FALSE

Covers(st, met, new) ==
    /\ met.l = {}
    /\ new.list = st.list \o SetToSeq(met.overlap)
    /\ new.r = met.r /\ new.last = FALSE

Covered(st, met, new) ==
    /\ met.r = {}
    /\ new.list = st.list \o SetToSeq(met.l)
    /\ new.r = met.overlap /\ new.last = TRUE

Crosses(st, met, new) ==
    /\ new.list = st.list \o SetToSeq(met.l) \o SetToSeq(met.overlap)
    /\ new.r = met.r /\ new.last = FALSE

MeetStep(st, l, p, met, new) ==
    /\ st.r = {p} /\ ~ st.last
    /\ Met(met, l, p)
    /\ \/ Misses(st, l, p, met, new)
       \/ Covers(st, met, new)
       \/ Covered(st, met, new)
       \/ Crosses(st, met, new)

(* What intersect answers. *)
LEMMA MetParts ==
    ASSUME NEW met, NEW l, NEW p, Met(met, l, p)
    PROVE  Maybe(met.l) /\ Maybe(met.r) /\ Maybe(met.overlap)
BY DEF Met

(* One turn of split takes one of these steps. *)
LEMMA MeetingCases ==
    ASSUME NEW st \in Splits, NEW l \in Parts
    PROVE  /\ Meeting(MeetCharsets, st, l) \in Splits
           /\ \/ Keeps(st, l, Meeting(MeetCharsets, st, l))
              \/ \E p \in Parts : \E met :
                    MeetStep(st, l, p, met, Meeting(MeetCharsets, st, l))
<1> DEFINE new == Meeting(MeetCharsets, st, l)
<1>1. /\ st.list \in Seq(Parts) /\ st.r \in SUBSET Parts /\ Maybe(st.r)
      /\ st.last \in BOOLEAN
  BY SplitsTyped
<1>2. Append(st.list, l) \in Seq(Parts)
  BY <1>1
<1>3. /\ Added(st, l) \in Splits
      /\ Added(st, l).list = Append(st.list, l)
      /\ Added(st, l).r = st.r /\ Added(st, l).last = st.last
  BY <1>1, <1>2, SplitParts DEF Added
<1>4. CASE st.last \/ st.r = {}
  <2>1. new = Added(st, l)
    BY <1>4 DEF Meeting
  <2> QED
    BY <1>3, <1>4, <2>1 DEF Keeps
<1>5. CASE ~ (st.last \/ st.r = {})
  <2>1. PICK p \in Parts : st.r = {p}
    BY <1>1, <1>5 DEF Maybe
  <2> DEFINE met == MeetCharsets(l, p)
  <2>2. new = Placed(st, l, met)
    <3>1. (CHOOSE r \in st.r : TRUE) = p
      BY <2>1
    <3> QED
      BY <1>5, <3>1 DEF Meeting
  <2>3. Met(met, l, p)
    BY MeetCharsetsExact
  <2>4. Maybe(met.l) /\ Maybe(met.r) /\ Maybe(met.overlap)
    BY <2>3, MetParts
  <2>5. /\ met.r \in SUBSET Parts /\ met.overlap \in SUBSET Parts
        /\ SetToSeq(met.l) \in Seq(Parts) /\ SetToSeq(met.overlap) \in Seq(Parts)
    BY <2>4, MaybeSubset
  <2> HIDE DEF met, new
  <2>6. /\ st.list \o SetToSeq(met.overlap) \in Seq(Parts)
        /\ st.list \o SetToSeq(met.l) \in Seq(Parts)
        /\ st.list \o SetToSeq(met.l) \o SetToSeq(met.overlap) \in Seq(Parts)
    BY <1>1, <2>5
  <2>7. st.last = FALSE
    BY <1>1, <1>5
  <2>8. new \in Splits /\ (\/ Misses(st, l, p, met, new)
                           \/ Covers(st, met, new)
                           \/ Covered(st, met, new)
                           \/ Crosses(st, met, new))
    <3>1. CASE met.overlap = {}
      <4>1. new = Added(st, l)
        BY <2>2, <3>1 DEF Placed
      <4> QED
        BY <1>3, <2>1, <2>7, <3>1, <4>1 DEF Misses
    <3>2. CASE met.overlap # {} /\ met.l = {}
      <4>1. new = [list |-> st.list \o SetToSeq(met.overlap), r |-> met.r, last |-> FALSE]
        BY <2>2, <3>2 DEF Placed
      <4> QED
        BY <2>4, <2>5, <2>6, <3>2, <4>1, SplitParts DEF Covers
    <3>3. CASE met.overlap # {} /\ met.l # {} /\ met.r = {}
      <4>1. new = [list |-> st.list \o SetToSeq(met.l), r |-> met.overlap, last |-> TRUE]
        BY <2>2, <3>3 DEF Placed
      <4> QED
        BY <2>4, <2>5, <2>6, <3>3, <4>1, SplitParts DEF Covered
    <3>4. CASE met.overlap # {} /\ met.l # {} /\ met.r # {}
      <4>1. new = [list |-> st.list \o SetToSeq(met.l) \o SetToSeq(met.overlap),
                   r |-> met.r, last |-> FALSE]
        BY <2>2, <3>4 DEF Placed
      <4> QED
        BY <2>4, <2>5, <2>6, <4>1, SplitParts DEF Crosses
    <3> QED
      BY <3>1, <3>2, <3>3, <3>4
  <2>9. MeetStep(st, l, p, met, new)
    BY <1>5, <2>1, <2>3, <2>8 DEF MeetStep
  <2>10. \E q \in Parts : \E m : MeetStep(st, l, q, m, new)
    BY <2>9
  <2> QED
    BY <2>8, <2>10 DEF new
<1> QED
  BY <1>4, <1>5

(* The fold that splits. *)
LEMMA SplitFold ==
    ASSUME NEW L \in Seq(Parts), NEW r0 \in Parts
    PROVE  \E g :
              /\ g \in [0 .. Len(L) -> Splits]
              /\ g[0] = [list |-> <<>>, r |-> {r0}, last |-> FALSE]
              /\ \A k \in 1 .. Len(L) : g[k] = Meeting(MeetCharsets, g[k - 1], L[k])
              /\ FoldLeft(LAMBDA st, l : Meeting(MeetCharsets, st, l),
                        [list |-> <<>>, r |-> {r0}, last |-> FALSE], L) = g[Len(L)]
<1> DEFINE n == Len(L)
           step == [p \in (1 .. n) \X Splits |-> Meeting(MeetCharsets, p[2], L[p[1]])]
           Eq(f) == f = [T \in SUBSET DOMAIN L |->
                           IF T = {} THEN [list |-> <<>>, r |-> {r0}, last |-> FALSE]
                           ELSE Meeting(MeetCharsets, f[T \ {Max(T)}], L[Max(T)])]
           f == CHOOSE f : Eq(f)
<1>1. n \in Nat /\ DOMAIN L = 1 .. n /\ \A k \in 1 .. n : L[k] \in Parts
  OBVIOUS
<1>2. [list |-> <<>>, r |-> {r0}, last |-> FALSE] \in Splits
  <2>1. {r0} \in SUBSET Parts /\ Maybe({r0}) /\ <<>> \in Seq(Parts) /\ FALSE \in BOOLEAN
    BY EmptySeq DEF Maybe
  <2> QED
    BY <2>1, SplitParts
<1>3. step \in StepFcn(n, Splits)
  BY <1>1, MeetingCases DEF StepFcn
<1> HIDE DEF n
<1>4. \A i \in 1 .. n : \A x \in Splits :
         step[<<i, x>>] = Meeting(MeetCharsets, x, L[i])
  OBVIOUS
<1> HIDE DEF step
<1>5. PICK h : FoldsSets(h, n, Splits, [list |-> <<>>, r |-> {r0}, last |-> FALSE], step)
  BY <1>1, <1>2, <1>3, SetRecursion
<1>6. Eq(h)
  <2>1. \A T \in SUBSET (1 .. n) : T # {} =>
           Max(T) \in 1 .. n /\ h[T \ {Max(T)}] \in Splits
    BY <1>1, <1>5, MaxOfNumbers DEF FoldsSets
  <2>2. \A T \in SUBSET (1 .. n) : T # {} =>
           h[T] = Meeting(MeetCharsets, h[T \ {Max(T)}], L[Max(T)])
    BY <1>4, <1>5, <2>1 DEF FoldsSets
  <2>3. h[{}] = [list |-> <<>>, r |-> {r0}, last |-> FALSE] /\ h = [T \in SUBSET (1 .. n) |-> h[T]]
    BY <1>5 DEF FoldsSets
  <2> QED
    BY <1>1, <2>2, <2>3
<1>7. Eq(f)
  BY <1>6
<1> HIDE DEF f
<1>8. f[1 .. 0] = [list |-> <<>>, r |-> {r0}, last |-> FALSE]
  BY <1>1, <1>7
<1>9. \A k \in 1 .. n : f[1 .. k] = Meeting(MeetCharsets, f[1 .. k - 1], L[k])
  <2> TAKE k \in 1 .. n
  <2>1. /\ 1 .. k \in SUBSET DOMAIN L /\ 1 .. k # {}
        /\ Max(1 .. k) = k /\ (1 .. k) \ {k} = 1 .. k - 1
    BY <1>1, MaxOfPrefix
  <2>2. f[1 .. k] = Meeting(MeetCharsets, f[(1 .. k) \ {Max(1 .. k)}], L[Max(1 .. k)])
    BY <1>7, <2>1
  <2> QED
    BY <2>1, <2>2
<1>10. \A k \in 1 .. n : f[1 .. k - 1] \in Splits =>
          f[1 .. k] = step[<<k, f[1 .. k - 1]>>]
  BY <1>4, <1>9
<1>11. PICK g : /\ Unrolls(g, n, Splits, [list |-> <<>>, r |-> {r0}, last |-> FALSE], step)
                /\ g[n] = f[1 .. n]
  BY <1>1, <1>2, <1>3, <1>8, <1>10, FoldRun
<1>12. FoldLeft(LAMBDA st, l : Meeting(MeetCharsets, st, l),
                        [list |-> <<>>, r |-> {r0}, last |-> FALSE], L) = f[1 .. n]
  BY <1>1 DEF FoldLeft, MapThenFoldSet, f
<1>13. \A k \in 1 .. n : g[k - 1] \in Splits
  BY <1>1, <1>11 DEF Unrolls
<1> QED
  BY <1>4, <1>11, <1>12, <1>13 DEF Unrolls, n

(* After k elements of L: what is left of r0 is apart from the parts so    *)
(* far, and from the elements seen unless it is the part to append.        *)
Held(L, k, c) == \E j \in 1 .. k : InPart(L[j], c)
Had(L, k, i, c) == \E j \in 1 .. k : Piece(L[j], i, c)

SplitApart(L, st, k) ==
    \A c : /\ Holds(st.list, c) => Held(L, k, c) /\ ~ Within(st.r, c)
           /\ Within(st.r, c) => (Held(L, k, c) <=> st.last)

SplitIds(L, r0, st, k) ==
    \A i, c : Has(st.list, i, c) \/ Bears(st.r, i, c)
                  <=> Had(L, k, i, c) \/ Piece(r0, i, c)

SplitInv(L, r0, st, k) ==
    PartsOk(st.list) /\ SplitApart(L, st, k) /\ SplitIds(L, r0, st, k)

(* One element more of L. *)
LEMMA HeldNext ==
    ASSUME NEW L, PartsOk(L), NEW k \in 0 .. Len(L) - 1
    PROVE  /\ k + 1 \in 1 .. Len(L) /\ L[k + 1] \in Parts
           /\ \A c : Held(L, k + 1, c) <=> Held(L, k, c) \/ InPart(L[k + 1], c)
           /\ \A i, c : Had(L, k + 1, i, c) <=> Had(L, k, i, c) \/ Piece(L[k + 1], i, c)
           /\ \A c : InPart(L[k + 1], c) => ~ Held(L, k, c)
<1>1. L \in Seq(Parts) /\ Len(L) \in Nat
  BY DEF PartsOk
<1>2. /\ k + 1 \in 1 .. Len(L)
      /\ \A j : j \in 1 .. k + 1 <=> j \in 1 .. k \/ j = k + 1
      /\ \A j \in 1 .. k : j \in 1 .. Len(L) /\ j # k + 1
  BY <1>1
<1>3. \A a, b \in 1 .. Len(L) : \A c : InPart(L[a], c) /\ InPart(L[b], c) => a = b
  BY DEF PartsOk, Apart
<1>4. L[k + 1] \in Parts
  BY <1>1, <1>2
<1> DEFINE m == k + 1
<1> HIDE DEF m
<1>5. \A c : Held(L, m, c) <=> Held(L, k, c) \/ InPart(L[m], c)
  BY <1>2 DEF Held, m
<1>6. \A i, c : Had(L, m, i, c) <=> Had(L, k, i, c) \/ Piece(L[m], i, c)
  BY <1>2 DEF Had, m
<1>7. \A c : InPart(L[m], c) => ~ Held(L, k, c)
  BY <1>2, <1>3 DEF Held, m
<1> QED
  BY <1>2, <1>4, <1>5, <1>6, <1>7 DEF m

(* One turn of split keeps its invariant. *)
LEMMA SplitStep ==
    ASSUME NEW L, PartsOk(L), NEW r0 \in Parts, NEW k \in 0 .. Len(L) - 1,
           NEW st \in Splits, SplitInv(L, r0, st, k)
    PROVE  SplitInv(L, r0, Meeting(MeetCharsets, st, L[k + 1]), k + 1)
<1> DEFINE m == k + 1
           l == L[m]
           new == Meeting(MeetCharsets, st, l)
<1>1. l \in Parts
  BY HeldNext
<1>2. /\ \A c : Held(L, m, c) <=> Held(L, k, c) \/ InPart(l, c)
      /\ \A i, c : Had(L, m, i, c) <=> Had(L, k, i, c) \/ Piece(l, i, c)
      /\ \A c : InPart(l, c) => ~ Held(L, k, c)
  BY HeldNext
<1>3. /\ new \in Splits
      /\ \/ Keeps(st, l, new)
         \/ \E p \in Parts : \E met : MeetStep(st, l, p, met, new)
  BY <1>1, MeetingCases
<1> HIDE DEF m, l, new
<1>4. /\ PartsOk(st.list)
      /\ \A c : /\ Holds(st.list, c) => Held(L, k, c) /\ ~ Within(st.r, c)
                /\ Within(st.r, c) => (Held(L, k, c) <=> st.last)
      /\ \A i, c : Has(st.list, i, c) \/ Bears(st.r, i, c)
                       <=> Had(L, k, i, c) \/ Piece(r0, i, c)
  BY DEF SplitInv, SplitApart, SplitIds
<1>5. \A c : InPart(l, c) => ~ Holds(st.list, c)
  BY <1>2, <1>4
<1>6. /\ PartsOk(Append(st.list, l))
      /\ \A c : Holds(Append(st.list, l), c) <=> Holds(st.list, c) \/ InPart(l, c)
      /\ \A i, c : Has(Append(st.list, l), i, c) <=> Has(st.list, i, c) \/ Piece(l, i, c)
  BY <1>1, <1>4, <1>5, AddPart
<1>7. ASSUME Keeps(st, l, new)
      PROVE  SplitInv(L, r0, new, m)
  <2>1. /\ st.last \/ st.r = {}
        /\ new.list = Append(st.list, l) /\ new.r = st.r /\ new.last = st.last
    BY <1>7 DEF Keeps
  <2>2. \A c : Within(st.r, c) => Held(L, k, c) /\ ~ InPart(l, c)
    <3>1. CASE st.r = {}
      BY <3>1 DEF Within
    <3>2. CASE st.last
      BY <1>2, <1>4, <3>2
    <3> QED
      BY <2>1, <3>1, <3>2
  <2>3. /\ PartsOk(new.list)
        /\ SplitApart(L, new, m)
    BY <1>2, <1>4, <1>6, <2>1, <2>2 DEF SplitApart
  <2>4. SplitIds(L, r0, new, m)
    BY <1>2, <1>4, <1>6, <2>1 DEF SplitIds
  <2> QED
    BY <2>3, <2>4 DEF SplitInv
<1>8. ASSUME NEW p \in Parts, NEW met, MeetStep(st, l, p, met, new)
      PROVE  SplitInv(L, r0, new, m)
  <2>1. st.r = {p} /\ ~ st.last /\ Met(met, l, p)
    BY <1>8 DEF MeetStep
  <2>2. /\ \A c : Within(st.r, c) <=> InPart(p, c)
        /\ \A i, c : Bears(st.r, i, c) <=> Piece(p, i, c)
    BY <2>1 DEF Within, Bears
  <2>3. /\ \A c : InPart(p, c) => ~ Holds(st.list, c) /\ ~ Held(L, k, c)
        /\ \A i, c : Has(st.list, i, c) \/ Piece(p, i, c)
                         <=> Had(L, k, i, c) \/ Piece(r0, i, c)
    BY <1>4, <2>1, <2>2
  <2>4. Maybe(met.l) /\ Maybe(met.r) /\ Maybe(met.overlap)
    BY <2>1 DEF Met
  <2>5. /\ \A c : Within(met.l, c) <=> InPart(l, c) /\ ~ InPart(p, c)
        /\ \A c : Within(met.r, c) <=> InPart(p, c) /\ ~ InPart(l, c)
        /\ \A c : Within(met.overlap, c) <=> InPart(l, c) /\ InPart(p, c)
    BY <2>1 DEF Met
  <2>6. /\ \A i, c : Bears(met.l, i, c) <=> Piece(l, i, c) /\ ~ InPart(p, c)
        /\ \A i, c : Bears(met.r, i, c) <=> Piece(p, i, c) /\ ~ InPart(l, c)
        /\ \A i, c : Bears(met.overlap, i, c) <=>
                         \/ Piece(l, i, c) /\ InPart(p, c)
                         \/ Piece(p, i, c) /\ InPart(l, c)
    BY <2>1 DEF Met
  <2>7. \A i, c : /\ Piece(l, i, c) => InPart(l, c)
                 /\ Piece(p, i, c) => InPart(p, c)
    BY PieceParts
  <2>8. \A S : S = {} => \A c : ~ Within(S, c)
    BY DEF Within
  <2>9. \A S : S = {} => \A i, c : ~ Bears(S, i, c)
    BY DEF Bears
  <2>10. CASE Misses(st, l, p, met, new)
    <3>1. /\ new.list = Append(st.list, l) /\ new.r = st.r /\ ~ new.last
          /\ \A c : ~ (InPart(l, c) /\ InPart(p, c))
      BY <2>1, <2>5, <2>8, <2>10 DEF Misses
    <3>2. /\ PartsOk(new.list)
          /\ SplitApart(L, new, m)
      BY <1>2, <1>4, <1>6, <2>2, <2>3, <3>1 DEF SplitApart
    <3>3. SplitIds(L, r0, new, m)
      BY <1>2, <1>4, <1>6, <3>1 DEF SplitIds
    <3> QED
      BY <3>2, <3>3 DEF SplitInv
  <2>11. CASE Covers(st, met, new)
    <3>1. /\ new.list = st.list \o SetToSeq(met.overlap)
          /\ new.r = met.r /\ ~ new.last
          /\ \A c : InPart(l, c) => InPart(p, c)
      BY <2>5, <2>8, <2>11 DEF Covers
    <3>2. \A c : Within(met.overlap, c) => ~ Holds(st.list, c)
      BY <1>5, <2>5
    <3>3. /\ PartsOk(new.list)
          /\ \A c : Holds(new.list, c) <=> Holds(st.list, c) \/ Within(met.overlap, c)
          /\ \A i, c : Has(new.list, i, c) <=> Has(st.list, i, c) \/ Bears(met.overlap, i, c)
      BY <1>4, <2>4, <3>1, <3>2, AddMaybe
    <3>4. SplitApart(L, new, m)
      BY <1>2, <1>4, <2>3, <2>5, <3>1, <3>3 DEF SplitApart
    <3>5. ASSUME NEW i, NEW c
          PROVE  Has(new.list, i, c) \/ Bears(new.r, i, c)
                     <=> Had(L, m, i, c) \/ Piece(r0, i, c)
      <4>1. Had(L, m, i, c) <=> Had(L, k, i, c) \/ Piece(l, i, c)
        BY <1>2
      <4>2. Has(st.list, i, c) \/ Piece(p, i, c) <=> Had(L, k, i, c) \/ Piece(r0, i, c)
        BY <2>3
      <4>3. /\ Has(new.list, i, c) <=> Has(st.list, i, c) \/ Bears(met.overlap, i, c)
            /\ Bears(new.r, i, c) <=> Bears(met.r, i, c)
        BY <3>1, <3>3
      <4>4. /\ Bears(met.overlap, i, c) \/ Bears(met.r, i, c)
                   <=> Piece(l, i, c) \/ Piece(p, i, c)
        <5>1. InPart(l, c) \/ InPart(p, c) => InPart(p, c)
          BY <3>1
        <5>2. /\ Piece(l, i, c) => InPart(l, c)
              /\ Piece(p, i, c) => InPart(p, c)
          BY DEF Piece, InPart
        <5>3. /\ Bears(met.l, i, c) <=> Piece(l, i, c) /\ ~ InPart(p, c)
              /\ Bears(met.r, i, c) <=> Piece(p, i, c) /\ ~ InPart(l, c)
              /\ Bears(met.overlap, i, c) <=> \/ Piece(l, i, c) /\ InPart(p, c)
                                              \/ Piece(p, i, c) /\ InPart(l, c)
          BY <2>6
        <5> QED
          BY <5>1, <5>2, <5>3
      <4> QED
        BY <4>1, <4>2, <4>3, <4>4
    <3>5a. SplitIds(L, r0, new, m)
      BY <3>5 DEF SplitIds
    <3> QED
      BY <3>3, <3>4, <3>5a DEF SplitInv
  <2>12. CASE Covered(st, met, new)
    <3>1. /\ new.list = st.list \o SetToSeq(met.l)
          /\ new.r = met.overlap /\ new.last
          /\ \A c : InPart(p, c) => InPart(l, c)
      BY <2>5, <2>8, <2>12 DEF Covered
    <3>2. \A c : Within(met.l, c) => ~ Holds(st.list, c)
      BY <1>5, <2>5
    <3>3. /\ PartsOk(new.list)
          /\ \A c : Holds(new.list, c) <=> Holds(st.list, c) \/ Within(met.l, c)
          /\ \A i, c : Has(new.list, i, c) <=> Has(st.list, i, c) \/ Bears(met.l, i, c)
      BY <1>4, <2>4, <3>1, <3>2, AddMaybe
    <3>4. SplitApart(L, new, m)
      BY <1>2, <1>4, <2>3, <2>5, <3>1, <3>3 DEF SplitApart
    <3>5. ASSUME NEW i, NEW c
          PROVE  Has(new.list, i, c) \/ Bears(new.r, i, c)
                     <=> Had(L, m, i, c) \/ Piece(r0, i, c)
      <4>1. Had(L, m, i, c) <=> Had(L, k, i, c) \/ Piece(l, i, c)
        BY <1>2
      <4>2. Has(st.list, i, c) \/ Piece(p, i, c) <=> Had(L, k, i, c) \/ Piece(r0, i, c)
        BY <2>3
      <4>3. /\ Has(new.list, i, c) <=> Has(st.list, i, c) \/ Bears(met.l, i, c)
            /\ Bears(new.r, i, c) <=> Bears(met.overlap, i, c)
        BY <3>1, <3>3
      <4>4. /\ Bears(met.l, i, c) \/ Bears(met.overlap, i, c)
                   <=> Piece(l, i, c) \/ Piece(p, i, c)
        <5>1. InPart(l, c) \/ InPart(p, c) => InPart(l, c)
          BY <3>1
        <5>2. /\ Piece(l, i, c) => InPart(l, c)
              /\ Piece(p, i, c) => InPart(p, c)
          BY DEF Piece, InPart
        <5>3. /\ Bears(met.l, i, c) <=> Piece(l, i, c) /\ ~ InPart(p, c)
              /\ Bears(met.r, i, c) <=> Piece(p, i, c) /\ ~ InPart(l, c)
              /\ Bears(met.overlap, i, c) <=> \/ Piece(l, i, c) /\ InPart(p, c)
                                              \/ Piece(p, i, c) /\ InPart(l, c)
          BY <2>6
        <5> QED
          BY <5>1, <5>2, <5>3
      <4> QED
        BY <4>1, <4>2, <4>3, <4>4
    <3>5a. SplitIds(L, r0, new, m)
      BY <3>5 DEF SplitIds
    <3> QED
      BY <3>3, <3>4, <3>5a DEF SplitInv
  <2>13. CASE Crosses(st, met, new)
    <3> DEFINE mid == st.list \o SetToSeq(met.l)
    <3>1. /\ new.list = mid \o SetToSeq(met.overlap)
          /\ new.r = met.r /\ ~ new.last
      BY <2>13 DEF Crosses
    <3>2. \A c : Within(met.l, c) => ~ Holds(st.list, c)
      BY <1>5, <2>5
    <3>3. /\ PartsOk(mid)
          /\ \A c : Holds(mid, c) <=> Holds(st.list, c) \/ Within(met.l, c)
          /\ \A i, c : Has(mid, i, c) <=> Has(st.list, i, c) \/ Bears(met.l, i, c)
      BY <1>4, <2>4, <3>2, AddMaybe
    <3> HIDE DEF mid
    <3>4. \A c : Within(met.overlap, c) => ~ Holds(mid, c)
      BY <1>5, <2>5, <3>3
    <3>5. /\ PartsOk(new.list)
          /\ \A c : Holds(new.list, c) <=> Holds(mid, c) \/ Within(met.overlap, c)
          /\ \A i, c : Has(new.list, i, c) <=> Has(mid, i, c) \/ Bears(met.overlap, i, c)
      BY <2>4, <3>1, <3>3, <3>4, AddMaybe
    <3>6. SplitApart(L, new, m)
      BY <1>2, <1>4, <2>3, <2>5, <3>1, <3>3, <3>5 DEF SplitApart
    <3>7. SplitIds(L, r0, new, m)
      BY <1>2, <2>3, <2>6, <2>7, <3>1, <3>3, <3>5 DEF SplitIds
    <3> QED
      BY <3>5, <3>6, <3>7 DEF SplitInv
  <2> QED
    BY <1>8, <2>10, <2>11, <2>12, <2>13 DEF MeetStep
<1> QED
  BY <1>3, <1>7, <1>8 DEF m, l, new

(* No two parts of what split makes share a character, and every character *)
(* is there with the ids of the element it was in and, if r0 has it, those *)
(* of r0.                                                                  *)
THEOREM SplitExact ==
    ASSUME NEW L, PartsOk(L), NEW r0 \in Parts
    PROVE  /\ PartsOk(Split(MeetCharsets, L, r0))
           /\ \A i, c : Has(Split(MeetCharsets, L, r0), i, c)
                            <=> Has(L, i, c) \/ Piece(r0, i, c)
<1> DEFINE base == [list |-> <<>>, r |-> {r0}, last |-> FALSE]
           end == FoldLeft(LAMBDA st, l : Meeting(MeetCharsets, st, l), base, L)
<1>1. L \in Seq(Parts) /\ Len(L) \in Nat
  BY DEF PartsOk
<1>2. PICK g : /\ g \in [0 .. Len(L) -> Splits]
               /\ g[0] = base
               /\ \A k \in 1 .. Len(L) : g[k] = Meeting(MeetCharsets, g[k - 1], L[k])
               /\ end = g[Len(L)]
  BY <1>1, SplitFold
<1>3. Split(MeetCharsets, L, r0) = end.list \o SetToSeq(end.r)
  BY DEF Split
<1>4. base.list = <<>> /\ base.r = {r0} /\ base.last = FALSE
  OBVIOUS
<1> HIDE DEF base, end
<1>5. SplitInv(L, r0, g[0], 0)
  <2>1. PartsOk(<<>>) /\ \A i, c : ~ Holds(<<>>, c) /\ ~ Has(<<>>, i, c)
    BY DEF PartsOk, Apart, Holds, Has
  <2>2. \A i, c : ~ Held(L, 0, c) /\ ~ Had(L, 0, i, c)
    BY DEF Held, Had
  <2>3. \A i, c : Bears({r0}, i, c) <=> Piece(r0, i, c)
    BY DEF Bears
  <2>4. PartsOk(g[0].list) /\ SplitApart(L, g[0], 0)
    BY <1>2, <1>4, <2>1, <2>2 DEF SplitApart
  <2>5. SplitIds(L, r0, g[0], 0)
    <3>1. g[0].list = <<>> /\ g[0].r = {r0}
      BY <1>2, <1>4
    <3>2. \A i, c : Has(<<>>, i, c) \/ Bears({r0}, i, c)
                       <=> Had(L, 0, i, c) \/ Piece(r0, i, c)
      <4> TAKE i, c
      <4>1. ~ Has(<<>>, i, c) /\ ~ Had(L, 0, i, c)
        BY <2>1, <2>2
      <4>2. Bears({r0}, i, c) <=> Piece(r0, i, c)
        BY <2>3
      <4> QED
        BY <4>1, <4>2
    <3> QED
      BY <3>1, <3>2 DEF SplitIds
  <2> QED
    BY <2>4, <2>5 DEF SplitInv
<1> DEFINE P == {k \in 0 .. Len(L) : SplitInv(L, r0, g[k], k)}
<1>6. ASSUME NEW k \in 0 .. Len(L), k \in P, k < Len(L)
      PROVE  k + 1 \in P
  <2>1. k \in 0 .. Len(L) - 1 /\ k + 1 \in 1 .. Len(L) /\ (k + 1) - 1 = k
        /\ k + 1 \in 0 .. Len(L)
    BY <1>1, <1>6
  <2>2. g[k + 1] = Meeting(MeetCharsets, g[k], L[k + 1]) /\ g[k] \in Splits
    BY <1>2, <2>1
  <2>3. SplitInv(L, r0, g[k], k)
    BY <1>6
  <2>4. SplitInv(L, r0, Meeting(MeetCharsets, g[k], L[k + 1]), k + 1)
    BY <2>1, <2>2, <2>3, SplitStep
  <2> QED
    BY <2>1, <2>2, <2>4
<1>7. 0 .. Len(L) \subseteq P
  <2>1. 0 \in P
    BY <1>1, <1>5
  <2>2. \A k \in 0 .. Len(L) : k \in P /\ k < Len(L) => k + 1 \in P
    BY <1>6
  <2> HIDE DEF P
  <2> QED
    BY <1>1, <2>1, <2>2, RangeInduction
<1>8. SplitInv(L, r0, end, Len(L)) /\ end \in Splits
  <2>1. Len(L) \in 0 .. Len(L)
    BY <1>1
  <2> QED
    BY <1>2, <1>7, <2>1
<1>9. /\ PartsOk(end.list)
      /\ \A c : Within(end.r, c) => ~ Holds(end.list, c)
      /\ \A i, c : Has(end.list, i, c) \/ Bears(end.r, i, c)
                       <=> Had(L, Len(L), i, c) \/ Piece(r0, i, c)
  BY <1>8 DEF SplitInv, SplitApart, SplitIds
<1>10. Maybe(end.r)
  BY <1>8, SplitsTyped
<1>11. /\ PartsOk(end.list \o SetToSeq(end.r))
       /\ \A i, c : Has(end.list \o SetToSeq(end.r), i, c)
                        <=> Has(end.list, i, c) \/ Bears(end.r, i, c)
  BY <1>9, <1>10, AddMaybe
<1>12. \A i, c : Had(L, Len(L), i, c) <=> Has(L, i, c)
  BY DEF Had, Has
<1> QED
  BY <1>3, <1>9, <1>11, <1>12

-----------------------------------------------------------------------------
(* From the map of sets to the classes. *)

LEMMA IdsAreIndices ==
    ASSUME MapOk, NEW j \in 1 .. Len(charsets)
    PROVE  LookupId(charsets[j]) = j - 1
<1>1. charsets \in Seq(Classes) /\ DOMAIN charsets = 1 .. Len(charsets)
  BY DEF MapOk
<1>2. Contains(charsets, charsets[j])
  BY <1>1 DEF Contains
<1>3. Looked(charsets[j]) = charsets
  BY <1>2 DEF Looked
<1>4. \A k \in 1 .. Len(charsets) : charsets[k] = charsets[j] => k = j
  BY DEF MapOk
<1>5. (CHOOSE k \in DOMAIN charsets : charsets[k] = charsets[j]) = j
  BY <1>1, <1>4
<1> QED
  BY <1>3, <1>5 DEF LookupId

(* Whatever has been split so far, the classes and what is still to be     *)
(* split are together the sets of the tokens.                              *)
SplitSoFar ==
    /\ PartsOk(classes)
    /\ rhs_list \in Seq(Parts)
    /\ \A k \in 1 .. Len(charsets) : \A c :
          Has(classes, k - 1, c) \/ Has(rhs_list, k - 1, c) <=> c \in Chars(charsets[k])

(* The places where the classes are made and used. *)
Splitting == {"partition", "closure"}

(* The invariant of the compiler. *)
DfaInv ==
    /\ CompileInv
    /\ pc \in Reads \cup Parses \cup {"trees"} => classes = <<>>
    /\ pc \in Splitting => SplitSoFar
    /\ pc = "closure" => rhs_list = <<>>

(* In whatever order the map lists the sets, every set is there with its   *)
(* id.                                                                     *)
LEMMA SetsAsParts ==
    ASSUME MapOk, NEW order \in Bijection(DOMAIN charsets, DOMAIN charsets),
           rhs_list' = [k \in DOMAIN charsets |-> CharsetOf(charsets[order[k]])]
    PROVE  /\ rhs_list' \in Seq(Parts)
           /\ \A k \in 1 .. Len(charsets) : \A c :
                 Has(rhs_list', k - 1, c) <=> c \in Chars(charsets[k])
<1> DEFINE n == Len(charsets)
<1>1. /\ charsets \in Seq(Classes) /\ n \in Nat /\ DOMAIN charsets = 1 .. n
      /\ \A k \in 1 .. n : charsets[k] \in Classes
  BY DEF MapOk
<1>2. /\ order \in [1 .. n -> 1 .. n]
      /\ \A k \in 1 .. n : \E j \in 1 .. n : order[j] = k
  BY <1>1 DEF Bijection, Injection, Surjection
<1> HIDE DEF n
<1>3. \A k \in 1 .. n : order[k] \in 1 .. n
  BY <1>2
<1>4. ASSUME NEW k \in 1 .. n
      PROVE  CharsetOf(charsets[k]) = [token |-> charsets[k], index_set |-> {k - 1}]
  BY <1>4, IdsAreIndices DEF CharsetOf, n
<1>5. \A k \in 1 .. n : /\ rhs_list'[k] = CharsetOf(charsets[order[k]])
                        /\ rhs_list'[k] = [token |-> charsets[order[k]],
                                           index_set |-> {order[k] - 1}]
  BY <1>1, <1>3, <1>4
<1>6. \A k \in 1 .. n : rhs_list'[k] \in Parts
  <2> TAKE k \in 1 .. n
  <2>1. charsets[order[k]] \in Classes /\ order[k] - 1 \in Int
    BY <1>1, <1>3
  <2>2. \A str \in Classes, j \in Int : [token |-> str, index_set |-> {j}] \in Parts
    BY DEF Parts
  <2>3. [token |-> charsets[order[k]], index_set |-> {order[k] - 1}] \in Parts
    BY <2>1, <2>2
  <2> QED
    BY <1>5, <2>3
<1>7. rhs_list' = [k \in 1 .. n |-> rhs_list'[k]]
  BY <1>1
<1>8. rhs_list' \in Seq(Parts) /\ Len(rhs_list') = n
  BY <1>1, <1>6, <1>7
<1>9. ASSUME NEW k \in 1 .. n, NEW c
      PROVE  Has(rhs_list', k - 1, c) <=> c \in Chars(charsets[k])
  <2>1. \A j \in 1 .. n : Piece(rhs_list'[j], k - 1, c)
                            <=> order[j] = k /\ c \in Chars(charsets[k])
    <3> TAKE j \in 1 .. n
    <3>1. rhs_list'[j].token = charsets[order[j]] /\ rhs_list'[j].index_set = {order[j] - 1}
      <4>1. rhs_list'[j] = [token |-> charsets[order[j]], index_set |-> {order[j] - 1}]
        BY <1>5
      <4>2. rhs_list'[j].token = charsets[order[j]]
        BY <4>1
      <4>3. rhs_list'[j].index_set = {order[j] - 1}
        BY <4>1
      <4> QED
        BY <4>2, <4>3
    <3>2. k - 1 \in {order[j] - 1} <=> order[j] = k
      BY <1>1, <1>3
    <3> QED
      BY <3>1, <3>2 DEF Piece
  <2>2. PICK j \in 1 .. n : order[j] = k
    BY <1>2
  <2> QED
    BY <1>8, <2>1, <2>2 DEF Has
<1> QED
  BY <1>8, <1>9 DEF n

(* Before the first split *)
LEMMA JoinSplits == DfaInv /\ JoinTrees => SplitSoFar'
<1> SUFFICES ASSUME DfaInv, JoinTrees
             PROVE  SplitSoFar'
  OBVIOUS
<1>1. /\ MapOk /\ classes = <<>> /\ classes' = <<>> /\ charsets' = charsets
  BY DEF DfaInv, CompileInv, ParserInv, JoinTrees
<1>2. PICK order \in Bijection(DOMAIN charsets, DOMAIN charsets) :
         rhs_list' = [k \in DOMAIN charsets |-> CharsetOf(charsets[order[k]])]
  BY DEF JoinTrees
<1>3. /\ rhs_list' \in Seq(Parts)
      /\ \A k \in 1 .. Len(charsets) : \A c :
            Has(rhs_list', k - 1, c) <=> c \in Chars(charsets[k])
  BY <1>1, <1>2, SetsAsParts
<1>4. PartsOk(<<>>) /\ \A i, c : ~ Has(<<>>, i, c)
  BY DEF PartsOk, Apart, Has
<1> QED
  BY <1>1, <1>3, <1>4 DEF SplitSoFar

(* and behind one more set, the parts are the sets of the tokens. *)
LEMMA PartitionSplits ==
    ASSUME SplitSoFar, PartitionCharset
    PROVE  SplitSoFar'
<1> DEFINE r == Head(rhs_list)
           rest == Tail(rhs_list)
<1>1. /\ rhs_list \in Seq(Parts) /\ rhs_list # <<>> /\ PartsOk(classes)
      /\ classes' = Split(MeetCharsets, classes, r) /\ rhs_list' = rest
      /\ charsets' = charsets
  BY DEF SplitSoFar, PartitionCharset, parserVars, treeVars
<1>2. r \in Parts /\ rest \in Seq(Parts)
  BY <1>1
<1>3. \A i, c : Has(rhs_list, i, c) <=> Piece(r, i, c) \/ Has(rest, i, c)
  <2> DEFINE n == Len(rhs_list)
  <2>1. /\ n \in Nat /\ n >= 1 /\ Len(rest) = n - 1 /\ r = rhs_list[1]
        /\ \A k \in 1 .. n - 1 : rest[k] = rhs_list[k + 1]
    BY <1>1
  <2> HIDE DEF n, r, rest
  <2>2. \A k : k \in 1 .. n => k = 1 \/ (k - 1 \in 1 .. n - 1 /\ (k - 1) + 1 = k)
    BY <2>1
  <2>3. \A k : k \in 1 .. n - 1 => k + 1 \in 1 .. n
    BY <2>1
  <2>4. 1 \in 1 .. n
    BY <2>1
  <2> TAKE i, c
  <2>5. ASSUME Has(rhs_list, i, c)
        PROVE  Piece(r, i, c) \/ Has(rest, i, c)
    <3>1. PICK k \in 1 .. n : Piece(rhs_list[k], i, c)
      BY <2>5 DEF Has, n
    <3>2. CASE k = 1
      BY <2>1, <3>1, <3>2
    <3>3. CASE k - 1 \in 1 .. n - 1 /\ (k - 1) + 1 = k
      <4>1. rest[k - 1] = rhs_list[k]
        BY <2>1, <3>3
      <4> QED
        BY <2>1, <3>1, <3>3, <4>1 DEF Has
    <3> QED
      BY <2>2, <3>2, <3>3
  <2>6. ASSUME Has(rest, i, c)
        PROVE  Has(rhs_list, i, c)
    <3>1. PICK k \in 1 .. n - 1 : Piece(rest[k], i, c)
      BY <2>1, <2>6 DEF Has
    <3> QED
      BY <2>1, <2>3, <3>1 DEF Has, n
  <2>7. Piece(r, i, c) => Has(rhs_list, i, c)
    BY <2>1, <2>4 DEF Has, n
  <2> QED
    BY <2>5, <2>6, <2>7
<1>4. /\ PartsOk(classes')
      /\ \A i, c : Has(classes', i, c) <=> Has(classes, i, c) \/ Piece(r, i, c)
  BY <1>1, <1>2, SplitExact
<1> HIDE DEF r, rest
<1>5. \A k \in 1 .. Len(charsets) : \A c :
         Has(classes', k - 1, c) \/ Has(rhs_list', k - 1, c) <=> c \in Chars(charsets'[k])
  BY <1>1, <1>3, <1>4 DEF SplitSoFar
<1> QED
  BY <1>1, <1>2, <1>4, <1>5 DEF SplitSoFar

(* They stay so while the states are built. *)
LEMMA SameSplit ==
    SplitSoFar /\ UNCHANGED <<classes, rhs_list, charsets>> => SplitSoFar'
BY DEF SplitSoFar

(* The places behind the parser, where steps lead. *)
DfaPlaces == {"partition", "closure", "reassemble", "done", "error"}

(* The steps that follow the parser add no set. *)
LEMMA DfaKeepsCompile ==
    ASSUME CompileInv, DfaNext
    PROVE  CompileInv' /\ UNCHANGED charsets /\ pc' \in DfaPlaces
<1> DEFINE Same == /\ pc' \in DfaPlaces
                   /\ UNCHANGED <<ruleVars, rule, token_stack, charsets>>
<1>1. JoinTrees => Same
  BY DEF JoinTrees, DfaPlaces
<1>2. PartitionCharset => Same
  BY DEF PartitionCharset, DfaPlaces, parserVars, treeVars
<1>3. BeginStates => Same
  BY DEF BeginStates, DfaPlaces, parserVars, treeVars
<1>4. BuildState => Same
  BY DEF BuildState, DfaPlaces, parserVars, treeVars
<1>5. FixClashes => Same
  BY DEF FixClashes, DfaPlaces, parserVars, treeVars
<1>6. Reassemble => Same
  BY DEF Reassemble, DfaPlaces, parserVars, treeVars
<1>7. ReassembleFails => Same
  BY DEF ReassembleFails, DfaPlaces, parserVars, treeVars
<1>8. Same
  BY <1>1, <1>2, <1>3, <1>4, <1>5, <1>6, <1>7 DEF DfaNext
<1>9. pc' \notin {"token", "charset", "end"} /\ pc' # "shift"
  BY <1>8 DEF DfaPlaces
<1>10. UNCHANGED <<rules, tokens>>
  BY <1>8 DEF ruleVars
<1>11. RulesInv'
  BY <1>9, <1>10, Kept DEF CompileInv
<1>12. ParserInv'
  BY <1>8, <1>9, Idle
<1> QED
  BY <1>8, <1>11, <1>12 DEF CompileInv

(* Every step that follows the parser keeps the invariant of the compiler, *)
LEMMA DfaStep == DfaInv /\ DfaNext => DfaInv'
<1> SUFFICES ASSUME DfaInv, DfaNext
             PROVE  DfaInv'
  OBVIOUS
<1>1. CompileInv' /\ UNCHANGED charsets /\ pc' \in DfaPlaces
  BY DfaKeepsCompile DEF DfaInv
<1>2. pc' \notin Reads \cup Parses \cup {"trees"}
  BY <1>1 DEF DfaPlaces, Reads, Parses
<1>3. CASE JoinTrees
  BY <1>1, <1>2, <1>3, JoinSplits DEF DfaInv, JoinTrees
<1>4. CASE PartitionCharset
  <2>1. pc = "partition" /\ pc' = "partition"
    BY <1>4 DEF PartitionCharset
  <2>2. SplitSoFar
    BY <2>1 DEF DfaInv, Splitting
  <2> QED
    BY <1>1, <1>2, <1>4, <2>1, <2>2, PartitionSplits DEF DfaInv
<1>5. CASE BeginStates
  <2>1. pc = "partition" /\ rhs_list = <<>> /\ UNCHANGED <<classes, rhs_list>>
    BY <1>5 DEF BeginStates
  <2>2. SplitSoFar
    BY <2>1 DEF DfaInv, Splitting
  <2> QED
    BY <1>1, <1>2, <2>1, <2>2, SameSplit DEF DfaInv
<1>6. CASE BuildState
  <2>1. pc = "closure" /\ pc' = pc /\ UNCHANGED <<classes, rhs_list>>
    BY <1>6 DEF BuildState
  <2>2. SplitSoFar /\ rhs_list = <<>>
    BY <2>1 DEF DfaInv, Splitting
  <2> QED
    BY <1>1, <1>2, <2>1, <2>2, SameSplit DEF DfaInv
<1>7. CASE FixClashes \/ Reassemble \/ ReassembleFails
  <2>1. pc' \notin Splitting
    <3>1. FixClashes => pc' = "reassemble"
      BY DEF FixClashes
    <3>2. Reassemble => pc' = "done"
      BY DEF Reassemble
    <3>3. ReassembleFails => pc' = "error"
      BY DEF ReassembleFails
    <3> QED
      BY <1>7, <3>1, <3>2, <3>3 DEF Splitting
  <2> QED
    BY <1>1, <1>2, <2>1 DEF DfaInv, Splitting
<1> QED
  BY <1>3, <1>4, <1>5, <1>6, <1>7 DEF DfaNext

(* which holds at the start *)
LEMMA DfaInitially == RegexInit => DfaInv
<1> SUFFICES ASSUME RegexInit
             PROVE  DfaInv
  OBVIOUS
<1>1. CompileInv
  BY CompileInitially DEF RegexInit
<1>2. pc = "rule" /\ classes = <<>>
  BY DEF RegexInit, ParseInit, RulesInit, DfaInit
<1> QED
  BY <1>1, <1>2 DEF DfaInv, Splitting

(* and in every step. *)
LEMMA RegexStep == DfaInv /\ [RegexNext]_allVars => DfaInv'
<1> SUFFICES ASSUME DfaInv, [RegexNext]_allVars
             PROVE  DfaInv'
  OBVIOUS
<1>1. CASE ParseStep /\ UNCHANGED dfaVars
  <2>1. UNCHANGED classes
    BY <1>1 DEF dfaVars
  <2>2. /\ CompileInv' /\ pc \in Reads \cup Parses
        /\ pc' \in Reads \cup Parses \cup {"trees", "error", "abort"}
    <3>1. CASE RulesNext /\ UNCHANGED parserVars
      BY <3>1, ReaderStep, ReaderPlaces DEF DfaInv, Parses
    <3>2. CASE ParserNext /\ UNCHANGED ruleVars
      BY <3>2, ParserStep, ParserPlaces DEF DfaInv
    <3> QED
      BY <1>1, <3>1, <3>2 DEF ParseStep
  <2>3. pc' \notin Splitting
    BY <2>2 DEF Reads, Parses, Splitting
  <2>4. classes = <<>>
    BY <2>2 DEF DfaInv
  <2> QED
    BY <2>1, <2>2, <2>3, <2>4 DEF DfaInv, Splitting
<1>2. CASE DfaNext
  BY <1>2, DfaStep
<1>3. CASE UNCHANGED allVars
  <2>1. /\ UNCHANGED <<pc, ruleVars, parserVars>>
        /\ UNCHANGED <<pc, classes, rhs_list, charsets>>
    BY <1>3 DEF allVars, dfaVars, parserVars, treeVars
  <2>2. CompileInv'
    BY <2>1, SameCompile DEF DfaInv
  <2> QED
    BY <2>1, <2>2, SameSplit DEF DfaInv
<1> QED
  BY <1>1, <1>2, <1>3 DEF RegexNext, Ended

(* When nothing is left to split, the classes are exact. *)
LEMMA ExactAfterSplit == DfaInv => PartitionExact
<1> SUFFICES ASSUME DfaInv, pc = "closure"
             PROVE  PartitionExact
  BY DEF PartitionExact
<1>1. /\ PartsOk(classes) /\ rhs_list = <<>> /\ MapOk
      /\ \A k \in 1 .. Len(charsets) : \A c :
            Has(classes, k - 1, c) \/ Has(rhs_list, k - 1, c) <=> c \in Chars(charsets[k])
  BY DEF DfaInv, Splitting, SplitSoFar, CompileInv, ParserInv
<1>2. /\ classes \in Seq(Parts) /\ DOMAIN classes = 1 .. Len(classes)
      /\ Len(classes) \in Nat /\ DOMAIN charsets = 1 .. Len(charsets)
      /\ \A k \in 1 .. Len(classes) : classes[k] \in Parts
  BY <1>1 DEF PartsOk, MapOk
<1>3. \A k \in 1 .. Len(classes) :
         classes[k].token # <<>> /\ IsNormal(classes[k].token)
  BY <1>2 DEF Parts, Classes, CharSet
<1>4. ASSUME NEW k \in 1 .. Len(classes), NEW l \in 1 .. Len(classes), k # l
      PROVE  Chars(classes[k].token) \cap Chars(classes[l].token) = {}
  <2>1. \A c : ~ (c \in Chars(classes[k].token) /\ c \in Chars(classes[l].token))
    BY <1>1, <1>4 DEF PartsOk, Apart, InPart
  <2> QED
    BY <2>1
<1>5. ASSUME NEW k \in 1 .. Len(charsets)
      PROVE  Chars(charsets[k])
               = UNION {Chars(classes[n + 1].token) : n \in set_mapping(k - 1)}
  <2>1. \A c : Has(classes, k - 1, c) <=> c \in Chars(charsets[k])
    <3>1. \A i, c : ~ Has(<<>>, i, c)
      BY DEF Has
    <3> QED
      BY <1>1, <3>1
  <2>2. ASSUME NEW c
        PROVE  Has(classes, k - 1, c)
                 <=> \E n \in set_mapping(k - 1) : c \in Chars(classes[n + 1].token)
    <3>1. \A n : n \in set_mapping(k - 1)
                   <=> \E m \in 1 .. Len(classes) :
                          n = m - 1 /\ k - 1 \in classes[m].index_set
      BY <1>2 DEF set_mapping
    <3>2. \A m \in 1 .. Len(classes) : (m - 1) + 1 = m
      BY <1>2
    <3>3. Has(classes, k - 1, c)
            <=> \E m \in 1 .. Len(classes) : /\ k - 1 \in classes[m].index_set
                                              /\ c \in Chars(classes[m].token)
      BY DEF Has, Piece
    <3>4. ASSUME NEW m \in 1 .. Len(classes), k - 1 \in classes[m].index_set,
                 c \in Chars(classes[m].token)
          PROVE  \E n \in set_mapping(k - 1) : c \in Chars(classes[n + 1].token)
      <4>1. m - 1 \in set_mapping(k - 1) /\ c \in Chars(classes[(m - 1) + 1].token)
        BY <3>1, <3>2, <3>4
      <4> QED
        BY <4>1
    <3>5. ASSUME NEW n \in set_mapping(k - 1), c \in Chars(classes[n + 1].token)
          PROVE  \E m \in 1 .. Len(classes) : /\ k - 1 \in classes[m].index_set
                                              /\ c \in Chars(classes[m].token)
      <4>1. PICK m \in 1 .. Len(classes) : n = m - 1 /\ k - 1 \in classes[m].index_set
        BY <3>1
      <4>2. n + 1 = m
        BY <3>2, <4>1
      <4> QED
        BY <3>5, <4>1, <4>2
    <3> QED
      BY <3>3, <3>4, <3>5
  <2>3. \A c : c \in Chars(charsets[k])
                 <=> c \in UNION {Chars(classes[n + 1].token) : n \in set_mapping(k - 1)}
    BY <2>1, <2>2
  <2> QED
    BY <2>3
<1> QED
  BY <1>2, <1>3, <1>4, <1>5 DEF PartitionExact

(* The compiler's steps that follow the parser's add no set of characters. *)
THEOREM CharsetsDistinctThroughout == RegexSpec => []CharsetsDistinct
<1>1. RegexInit => DfaInv
  BY DfaInitially
<1>2. DfaInv /\ [RegexNext]_allVars => DfaInv'
  BY RegexStep
<1>3. DfaInv => CharsetsDistinct
  BY MapDistinct DEF DfaInv, CompileInv, ParserInv
<1> QED
  BY <1>1, <1>2, <1>3, PTL DEF RegexSpec

(* However the sets of the tokens overlap, when the states are built no    *)
(* two classes share a character and every set is made up of its classes.  *)
THEOREM PartitionStaysExact == RegexSpec => []PartitionExact
<1>1. RegexInit => DfaInv
  BY DfaInitially
<1>2. DfaInv /\ [RegexNext]_allVars => DfaInv'
  BY RegexStep
<1>3. DfaInv => PartitionExact
  BY ExactAfterSplit
<1> QED
  BY <1>1, <1>2, <1>3, PTL DEF RegexSpec

-----------------------------------------------------------------------------
(* What the reader lets pass.                                              *)

(* The types of the tokens of a rule: those of macros and differences are  *)
(* gone.                                                                   *)
Terminals == {"BEGIN", "END", "CHARSET", "BOL", "EOL", "OPENPAREN", "CLOSEPAREN",
              "OR"} \cup Duplicators

(* What a token adds to how deep in parentheses the next one is.           *)
Change(type) == CASE type = "OPENPAREN" -> 1
                  [] type = "CLOSEPAREN" -> -1
                  [] OTHER -> 0

(* d is how deep the tokens are: never less than not at all.               *)
Depths(d, ts) == /\ d \in [0 .. Len(ts) -> Nat]
                 /\ \A k \in 1 .. Len(ts) : d[k] = d[k - 1] + Change(ts[k].type)

(* Tokens lead from the depth l to the depth n. *)
Nested(ts, l, n) == \E d : Depths(d, ts) /\ d[0] = l /\ d[Len(ts)] = n

(* Tokens every two of which may meet. *)
Spelled(ts) ==
    /\ \A k \in 1 .. Len(ts) : ts[k].type \in Terminals
    /\ \A k \in 1 .. Len(ts) - 1 : Precedence(ts[k].type, ts[k + 1].type) # " "

(* A change is a number. *)
LEMMA Changes ==
    /\ \A type : Change(type) \in {-1, 0, 1}
    /\ Change("OPENPAREN") = 1 /\ Change("CLOSEPAREN") = -1
    /\ \A type : type # "OPENPAREN" /\ type # "CLOSEPAREN" => Change(type) = 0
BY DEF Change

(* Sequences end to end, item by item. *)
LEMMA JoinedItems ==
    ASSUME NEW s, SeqOk(s), NEW t, SeqOk(t)
    PROVE  /\ Len(s) \in Nat /\ Len(t) \in Nat /\ Len(s \o t) = Len(s) + Len(t)
           /\ \A k \in 1 .. Len(s) : (s \o t)[k] = s[k]
           /\ \A k \in 1 .. Len(t) : (s \o t)[Len(s) + k] = t[k]
<1>1. PICK S : s \in Seq(S) /\ \A x \in S : TokenOk(x)
  BY DEF SeqOk
<1>2. PICK T : t \in Seq(T) /\ \A x \in T : TokenOk(x)
  BY DEF SeqOk
<1>3. s \in Seq(S \cup T)
  BY <1>1, SeqWider
<1>4. t \in Seq(S \cup T)
  BY <1>2, SeqWider
<1> QED
  BY <1>3, <1>4

(* A sequence with a token more is that token behind it. *)
LEMMA AppendJoins ==
    ASSUME NEW s, SeqOk(s), NEW x, TokenOk(x)
    PROVE  /\ Append(s, x) = s \o <<x>> /\ SeqOk(<<x>>)
           /\ Len(<<x>>) = 1 /\ <<x>>[1] = x
<1>1. PICK S : s \in Seq(S) /\ \A y \in S : TokenOk(y)
  BY DEF SeqOk
<1>2. s \in Seq(S \cup {x})
  BY <1>1, SeqWider
<1>3. Append(s, x) = s \o <<x>>
  BY <1>2
<1> QED
  BY <1>3, SeqOne

(* Depths follow one another. *)
LEMMA NestedJoin ==
    ASSUME NEW s, SeqOk(s), NEW t, SeqOk(t), NEW l, NEW m, NEW n,
           Nested(s, l, m), Nested(t, m, n)
    PROVE  Nested(s \o t, l, n)
<1> DEFINE a == Len(s)
           b == Len(t)
           u == s \o t
<1>1. PICK d : Depths(d, s) /\ d[0] = l /\ d[a] = m
  BY DEF Nested
<1>2. PICK e : Depths(e, t) /\ e[0] = m /\ e[b] = n
  BY DEF Nested
<1>3. /\ a \in Nat /\ b \in Nat /\ Len(u) = a + b
      /\ \A k \in 1 .. a : u[k] = s[k]
      /\ \A k \in 1 .. b : u[a + k] = t[k]
  BY JoinedItems
<1>4. /\ d \in [0 .. a -> Nat]
      /\ \A k \in 1 .. a : d[k] = d[k - 1] + Change(s[k].type)
  BY <1>1 DEF Depths
<1>5. /\ e \in [0 .. b -> Nat]
      /\ \A k \in 1 .. b : e[k] = e[k - 1] + Change(t[k].type)
  BY <1>2 DEF Depths
<1> HIDE DEF a, b, u
<1> DEFINE f == [k \in 0 .. a + b |-> IF k <= a THEN d[k] ELSE e[k - a]]
<1>6. f \in [0 .. a + b -> Nat]
  <2>1. \A k \in 0 .. a + b : k <= a => k \in 0 .. a
    BY <1>3
  <2>2. \A k \in 0 .. a + b : ~ (k <= a) => k - a \in 0 .. b
    BY <1>3
  <2> QED
    BY <1>4, <1>5, <2>1, <2>2
<1>7. \A k \in 0 .. a : f[k] = d[k]
  BY <1>3
<1>8. \A k \in 0 .. b : f[a + k] = e[k]
  <2> TAKE k \in 0 .. b
  <2>1. CASE k = 0
    <3>1. f[a + 0] = d[a] /\ a + 0 = a
      BY <1>3
    <3> QED
      BY <1>1, <1>2, <2>1, <3>1
  <2>2. CASE k # 0
    <3>1. a + k \in 0 .. a + b /\ ~ (a + k <= a) /\ (a + k) - a = k
      BY <1>3, <2>2
    <3> QED
      BY <3>1
  <2> QED
    BY <2>1, <2>2
<1> HIDE DEF f
<1>9. ASSUME NEW k \in 1 .. a + b
      PROVE  f[k] = f[k - 1] + Change(u[k].type)
  <2>1. CASE k <= a
    <3>1. k \in 1 .. a /\ k \in 0 .. a /\ k - 1 \in 0 .. a
      BY <1>3, <2>1
    <3> QED
      BY <1>3, <1>4, <1>7, <3>1
  <2>2. CASE ~ (k <= a)
    <3> DEFINE j == k - a
    <3>1. /\ j \in 1 .. b /\ j \in 0 .. b /\ j - 1 \in 0 .. b
          /\ k = a + j /\ k - 1 = a + (j - 1)
      BY <1>3, <2>2
    <3> HIDE DEF j
    <3>2. f[k] = e[j] /\ f[k - 1] = e[j - 1] /\ u[k] = t[j]
      BY <1>3, <1>8, <3>1
    <3> QED
      BY <1>5, <3>1, <3>2
  <2> QED
    BY <2>1, <2>2
<1>10. Depths(f, u)
  BY <1>3, <1>6, <1>9 DEF Depths, u
<1>11. f[0] = l
  <2>1. 0 \in 0 .. a
    BY <1>3
  <2> QED
    BY <1>1, <1>7, <2>1
<1>12. f[Len(u)] = n
  <2>1. b \in 0 .. b
    BY <1>3
  <2> QED
    BY <1>2, <1>3, <1>8, <2>1
<1> QED
  BY <1>10, <1>11, <1>12 DEF Nested, u

(* One token. *)
LEMMA NestedOne ==
    ASSUME NEW x, NEW l \in Nat, l + Change(x.type) \in Nat
    PROVE  Nested(<<x>>, l, l + Change(x.type))
<1> DEFINE c == Change(x.type)
           s == <<x>>
           d == [k \in 0 .. 1 |-> IF k = 0 THEN l ELSE l + c]
<1>1. Len(s) = 1 /\ s[1] = x
  OBVIOUS
<1>2. l + c \in Nat
  OBVIOUS
<1> HIDE DEF s, c
<1>3. d \in [0 .. 1 -> Nat] /\ d[0] = l /\ d[1] = l + c
  BY <1>2
<1> HIDE DEF d
<1>4. \A k \in 1 .. 1 : d[k] = d[k - 1] + c
  <2>1. \A k \in 1 .. 1 : k = 1 /\ k - 1 = 0
    OBVIOUS
  <2> QED
    BY <1>3, <2>1
<1>5. Depths(d, s)
  <2>1. \A k \in 1 .. 1 : s[k] = x
    BY <1>1
  <2> QED
    BY <1>1, <1>3, <1>4, <2>1 DEF Depths, c
<1> QED
  BY <1>1, <1>3, <1>5 DEF Nested, s, c

(* The same deeper down. *)
LEMMA NestedDeeper ==
    ASSUME NEW s, NEW l, NEW n, Nested(s, l, n), Len(s) \in Nat, NEW c \in Nat
    PROVE  Nested(s, l + c, n + c)
<1> DEFINE a == Len(s)
<1>1. PICK d : Depths(d, s) /\ d[0] = l /\ d[a] = n
  BY DEF Nested
<1>2. /\ d \in [0 .. a -> Nat] /\ a \in Nat
      /\ \A k \in 1 .. a : d[k] = d[k - 1] + Change(s[k].type)
  BY <1>1 DEF Depths
<1> HIDE DEF a
<1> DEFINE e == [k \in 0 .. a |-> d[k] + c]
<1>3. e \in [0 .. a -> Nat] /\ e[0] = l + c /\ e[a] = n + c
  BY <1>1, <1>2
<1>4. ASSUME NEW k \in 1 .. a
      PROVE  e[k] = e[k - 1] + Change(s[k].type)
  <2>1. k \in 0 .. a /\ k - 1 \in 0 .. a
    BY <1>2
  <2>2. e[k] = d[k] + c /\ e[k - 1] = d[k - 1] + c
    BY <2>1
  <2>3. d[k] \in Nat /\ d[k - 1] \in Nat /\ Change(s[k].type) \in Int
    BY <1>2, <2>1, Changes
  <2>4. d[k] = d[k - 1] + Change(s[k].type)
    BY <1>2
  <2> HIDE DEF e
  <2> QED
    BY <2>2, <2>3, <2>4
<1> HIDE DEF e
<1>5. Depths(e, s)
  BY <1>3, <1>4 DEF Depths, a
<1> QED
  BY <1>3, <1>5 DEF Nested, a

(* Depths have one end. *)
LEMMA NestedNat ==
    ASSUME NEW s, NEW l, NEW n, Nested(s, l, n), Len(s) \in Nat
    PROVE  l \in Nat /\ n \in Nat
<1>1. PICK d : Depths(d, s) /\ d[0] = l /\ d[Len(s)] = n
  BY DEF Nested
<1> DEFINE a == Len(s)
<1>2. d \in [0 .. a -> Nat] /\ a \in Nat
  BY <1>1 DEF Depths
<1> HIDE DEF a
<1>3. 0 \in 0 .. a /\ a \in 0 .. a
  BY <1>2
<1> QED
  BY <1>1, <1>2, <1>3 DEF a

(* Only types count. *)
LEMMA NestedTypes ==
    ASSUME NEW s, NEW t, Len(s) \in Nat, Len(t) = Len(s),
           \A k \in 1 .. Len(s) : t[k].type = s[k].type,
           NEW l, NEW n, Nested(s, l, n)
    PROVE  Nested(t, l, n)
<1>1. PICK d : Depths(d, s) /\ d[0] = l /\ d[Len(s)] = n
  BY DEF Nested
<1>2. Depths(d, t)
  BY <1>1 DEF Depths
<1> QED
  BY <1>1, <1>2 DEF Nested

(* Inside the first and the last token of a macro. *)
LEMMA MiddleItems ==
    ASSUME NEW m, SeqOk(m), Len(m) >= 3
    PROVE  LET b == SubSeq(m, 2, Len(m) - 1)
           IN  /\ SeqOk(b) /\ Len(m) \in Nat /\ Len(b) = Len(m) - 2
               /\ \A k \in 1 .. Len(m) - 2 : b[k] = m[k + 1]
<1> DEFINE n == Len(m)
           b == SubSeq(m, 2, n - 1)
<1>1. PICK S : m \in Seq(S) /\ \A x \in S : TokenOk(x)
  BY DEF SeqOk
<1>2. n \in Nat /\ n >= 3
  BY SeqTokens
<1>3. SeqOk(b)
  <2>1. n - 1 \in Int /\ n - 1 <= n /\ 2 \in Nat \ {0}
    BY <1>2
  <2> QED
    BY <2>1, SeqPart
<1>4. Len(b) = (n - 1) - 2 + 1 /\ \A k \in 1 .. (n - 1) - 2 + 1 : b[k] = m[2 + k - 1]
  <2>1. /\ 2 \in 1 .. n + 1 /\ n - 1 \in 1 .. n
        /\ \A k \in 2 .. n - 1 : k \in 1 .. n
    BY <1>2
  <2>2. m \in [1 .. n -> S]
    BY <1>1
  <2> QED
    BY <1>1, <1>2, <2>1, <2>2
<1>5. (n - 1) - 2 + 1 = n - 2 /\ \A k \in 1 .. n - 2 : 2 + k - 1 = k + 1
  BY <1>2
<1> QED
  BY <1>2, <1>3, <1>4, <1>5

(* Without tokens at the ends that are no parentheses. *)
LEMMA NestedMiddle ==
    ASSUME NEW m, SeqOk(m), Len(m) >= 3, Nested(m, 0, 0),
           Change(m[1].type) = 0, Change(m[Len(m)].type) = 0
    PROVE  Nested(SubSeq(m, 2, Len(m) - 1), 0, 0)
<1> DEFINE n == Len(m)
           b == SubSeq(m, 2, n - 1)
<1>1. PICK d : Depths(d, m) /\ d[0] = 0 /\ d[n] = 0
  BY DEF Nested
<1>2. /\ SeqOk(b) /\ n \in Nat /\ n >= 3 /\ Len(b) = n - 2
      /\ \A k \in 1 .. n - 2 : b[k] = m[k + 1]
  BY MiddleItems
<1>3. /\ d \in [0 .. n -> Nat]
      /\ \A k \in 1 .. n : d[k] = d[k - 1] + Change(m[k].type)
  BY <1>1 DEF Depths
<1>4. Change(m[1].type) = 0 /\ Change(m[n].type) = 0
  OBVIOUS
<1> HIDE DEF n, b
<1> DEFINE e == [k \in 0 .. n - 2 |-> d[k + 1]]
<1>5. e \in [0 .. n - 2 -> Nat]
  <2>1. \A k \in 0 .. n - 2 : k + 1 \in 0 .. n
    BY <1>2
  <2> QED
    BY <1>3, <2>1
<1>6. e[0] = 0
  <2>1. 0 \in 0 .. n - 2 /\ e[0] = d[0 + 1] /\ 0 + 1 = 1 /\ 1 \in 1 .. n /\ 1 - 1 = 0
    BY <1>2
  <2>2. d[1] = d[0] + Change(m[1].type)
    BY <1>3, <2>1
  <2> HIDE DEF e
  <2> QED
    BY <1>1, <1>4, <2>1, <2>2
<1>7. e[n - 2] = 0
  <2>1. n - 2 \in 0 .. n - 2 /\ (n - 2) + 1 = n - 1 /\ n \in 1 .. n /\ n - 1 \in 0 .. n
    BY <1>2
  <2>2. e[n - 2] = d[n - 1]
    BY <2>1
  <2>3. d[n] = d[n - 1] + Change(m[n].type) /\ d[n - 1] \in Nat
    BY <1>3, <2>1
  <2> HIDE DEF e
  <2> QED
    BY <1>1, <1>4, <2>2, <2>3
<1>8. \A k \in 1 .. n - 2 : e[k] = e[k - 1] + Change(b[k].type)
  <2> TAKE k \in 1 .. n - 2
  <2>1. /\ k \in 0 .. n - 2 /\ k - 1 \in 0 .. n - 2 /\ k + 1 \in 1 .. n
        /\ (k + 1) - 1 = k /\ (k - 1) + 1 = k
    BY <1>2
  <2>2. e[k] = d[k + 1] /\ e[k - 1] = d[k]
    BY <2>1
  <2>3. d[k + 1] = d[k] + Change(m[k + 1].type)
    BY <1>3, <2>1
  <2> HIDE DEF e
  <2> QED
    BY <1>2, <2>2, <2>3
<1> HIDE DEF e
<1>9. Depths(e, b)
  BY <1>2, <1>5, <1>8 DEF Depths
<1> QED
  BY <1>2, <1>6, <1>7, <1>9 DEF Nested, n, b

-----------------------------------------------------------------------------
(* The table of precedences. *)

(* Tokens of which the first may stand before the second. *)
Meet(l, r) == Precedence(l, r) # " "

(* What it takes to stand side by side. *)
LEMMA Meetings ==
    \A l, r : Meet(l, r) <=> r \in Yields(l) \cup Joins(l) \cup Takes(l)
BY DEF Meet, Precedence

(* What may stand next to a token of a rule: row by row. *)
LEMMA Neighbours ==
    /\ \A r \in Terminals : Meet("BEGIN", r) <=> r \in Starts \cup {"END"}
    /\ \A r \in Terminals : \A l \in {"OPENPAREN", "OR"} : Meet(l, r) <=> r \in Starts
    /\ \A r \in Terminals : \A l \in Greedy : Meet(l, r) <=> r \in Followers \cup {"OPT"}
    /\ \A r \in Terminals : \A l \in Duplicators \ Greedy : Meet(l, r) <=> r \in Followers
    /\ \A r \in Terminals : \A l \in {"CHARSET", "BOL", "EOL", "CLOSEPAREN"} :
          Meet(l, r) <=> r \in Followers \cup Duplicators
    /\ \A r : ~ Meet("END", r)
    /\ \A l : ~ Meet(l, "BEGIN")
<1>1. \A r : ~ Meet("END", r)
  BY Meetings DEF Yields, Joins, Takes, Greedy, Duplicators, Operands
<1>2. \A l : ~ Meet(l, "BEGIN")
  BY Meetings DEF Yields, Joins, Takes, Greedy, Duplicators, Operands, Starts, Followers
<1>3. \A r \in Terminals : Meet("BEGIN", r) <=> r \in Starts \cup {"END"}
  BY Meetings DEF Yields, Joins, Takes, Greedy, Duplicators, Operands, Starts, Followers, Terminals
<1>4. \A r \in Terminals : \A l \in {"OPENPAREN", "OR"} : Meet(l, r) <=> r \in Starts
  BY Meetings DEF Yields, Joins, Takes, Greedy, Duplicators, Operands, Starts, Followers, Terminals
<1>5. \A r \in Terminals : \A l \in Greedy : Meet(l, r) <=> r \in Followers \cup {"OPT"}
  BY Meetings DEF Yields, Joins, Takes, Greedy, Duplicators, Operands, Starts, Followers, Terminals
<1>6. \A r \in Terminals : \A l \in Duplicators \ Greedy : Meet(l, r) <=> r \in Followers
  BY Meetings DEF Yields, Joins, Takes, Greedy, Duplicators, Operands, Starts, Followers, Terminals
<1>7. \A r \in Terminals : \A l \in {"CHARSET", "BOL", "EOL", "CLOSEPAREN"} :
          Meet(l, r) <=> r \in Followers \cup Duplicators
  BY Meetings DEF Yields, Joins, Takes, Greedy, Duplicators, Operands, Starts, Followers, Terminals
<1> QED
  BY <1>1, <1>2, <1>3, <1>4, <1>5, <1>6, <1>7

(* A macro may stand where an operand or an open parenthesis may, and what *)
(* it is made of may stand inside one.                                     *)
LEMMA Exchanges ==
    /\ \A l \in Terminals : Meet(l, "MACRO") =>
          /\ Meet(l, "OPENPAREN")
          /\ \A r \in {"CHARSET", "BOL", "EOL"} : Meet(l, r)
    /\ \A r \in Terminals : Meet("BEGIN", r) /\ r # "END" => Meet("OPENPAREN", r)
    /\ \A l \in Terminals : Meet(l, "END") /\ l # "BEGIN" => Meet(l, "CLOSEPAREN")
    /\ \A x \in Terminals : Meet("BEGIN", x) /\ Meet(x, "END") /\ x # "END" =>
          x \in {"CHARSET", "BOL", "EOL"}
<1>1. \A l \in Terminals : Meet(l, "MACRO") =>
          /\ Meet(l, "OPENPAREN")
          /\ \A r \in {"CHARSET", "BOL", "EOL"} : Meet(l, r)
  BY Meetings DEF Yields, Joins, Takes, Greedy, Duplicators, Operands, Starts, Followers, Terminals
<1>2. \A r \in Terminals : Meet("BEGIN", r) /\ r # "END" => Meet("OPENPAREN", r)
  BY Neighbours DEF Terminals
<1>3. \A l \in Terminals : Meet(l, "END") /\ l # "BEGIN" => Meet(l, "CLOSEPAREN")
  BY Meetings DEF Yields, Joins, Takes, Greedy, Duplicators, Operands, Starts, Followers, Terminals
<1>4. \A x \in Terminals : Meet("BEGIN", x) /\ Meet(x, "END") /\ x # "END" =>
          x \in {"CHARSET", "BOL", "EOL"}
  BY Meetings DEF Yields, Joins, Takes, Greedy, Duplicators, Operands, Starts, Followers, Terminals
<1> QED
  BY <1>1, <1>2, <1>3, <1>4

-----------------------------------------------------------------------------
(* tokenise: every two tokens it stores may stand side by side, and they   *)
(* are as deep as the parentheses it counts.                               *)

(* The same with the word for it. *)
LEMMA SpelledMeets ==
    \A ts : Spelled(ts) <=>
              /\ \A k \in 1 .. Len(ts) : ts[k].type \in Terminals
              /\ \A k \in 1 .. Len(ts) - 1 : Meet(ts[k].type, ts[k + 1].type)
BY DEF Spelled, Meet

(* Spelled tokens end to end. *)
LEMMA SpelledJoin ==
    ASSUME NEW s, SeqOk(s), NEW t, SeqOk(t), Len(s) >= 1, Len(t) >= 1,
           Spelled(s), Spelled(t), Meet(s[Len(s)].type, t[1].type)
    PROVE  /\ SeqOk(s \o t) /\ Spelled(s \o t)
           /\ Len(s \o t) = Len(s) + Len(t)
           /\ (s \o t)[1] = s[1] /\ (s \o t)[Len(s \o t)] = t[Len(t)]
<1> DEFINE a == Len(s)
           b == Len(t)
           u == s \o t
<1>1. /\ SeqOk(u) /\ a \in Nat /\ b \in Nat /\ Len(u) = a + b /\ a >= 1 /\ b >= 1
      /\ \A k \in 1 .. a : u[k] = s[k]
      /\ \A k \in 1 .. b : u[a + k] = t[k]
  BY JoinedItems, SeqJoin
<1>2. /\ \A k \in 1 .. a : s[k].type \in Terminals
      /\ \A k \in 1 .. a - 1 : Meet(s[k].type, s[k + 1].type)
      /\ \A k \in 1 .. b : t[k].type \in Terminals
      /\ \A k \in 1 .. b - 1 : Meet(t[k].type, t[k + 1].type)
      /\ Meet(s[a].type, t[1].type)
  BY SpelledMeets
<1> HIDE DEF a, b, u
<1>3. \A k \in 1 .. a + b : u[k].type \in Terminals
  <2>1. \A k \in 1 .. a + b : k \in 1 .. a \/ (k - a \in 1 .. b /\ a + (k - a) = k)
    BY <1>1
  <2>2. \A j \in 1 .. b : u[a + j].type \in Terminals
    BY <1>1, <1>2
  <2> QED
    BY <1>1, <1>2, <2>1, <2>2
<1>4. ASSUME NEW k \in 1 .. (a + b) - 1
      PROVE  Meet(u[k].type, u[k + 1].type)
  <2>1. CASE k < a
    <3>1. k \in 1 .. a - 1 /\ k \in 1 .. a /\ k + 1 \in 1 .. a
      BY <1>1, <2>1
    <3> QED
      BY <1>1, <1>2, <3>1
  <2>2. CASE k = a
    <3>1. k \in 1 .. a /\ 1 \in 1 .. b
      BY <1>1, <2>2
    <3>2. u[k] = s[a] /\ u[k + 1] = t[1]
      BY <1>1, <2>2, <3>1
    <3> QED
      BY <1>2, <3>2
  <2>3. CASE k > a
    <3> DEFINE j == k - a
    <3>1. /\ j \in 1 .. b - 1 /\ j \in 1 .. b /\ j + 1 \in 1 .. b
          /\ k = a + j /\ k + 1 = a + (j + 1)
      BY <1>1, <2>3
    <3> HIDE DEF j
    <3>2. u[k] = t[j] /\ u[k + 1] = t[j + 1]
      BY <1>1, <3>1
    <3> QED
      BY <1>2, <3>1, <3>2
  <2> QED
    BY <1>1, <2>1, <2>2, <2>3
<1>5. Spelled(u)
  BY <1>1, <1>3, <1>4, SpelledMeets
<1>6. u[1] = s[1] /\ u[a + b] = t[b]
  <2>1. 1 \in 1 .. a /\ b \in 1 .. b
    BY <1>1
  <2> QED
    BY <1>1, <2>1
<1> QED
  BY <1>1, <1>5, <1>6 DEF a, b, u

(* One token. *)
LEMMA SpelledOne ==
    ASSUME NEW x, TokenOk(x), x.type \in Terminals
    PROVE  /\ Spelled(<<x>>) /\ SeqOk(<<x>>) /\ Len(<<x>>) = 1 /\ <<x>>[1] = x
<1> DEFINE s == <<x>>
<1>1. Len(s) = 1 /\ s[1] = x /\ SeqOk(s)
  BY SeqOne
<1> HIDE DEF s
<1>2. /\ \A k \in 1 .. 1 : k = 1
      /\ \A k \in 1 .. 1 - 1 : FALSE
  OBVIOUS
<1>3. Spelled(s)
  BY <1>1, <1>2 DEF Spelled
<1> QED
  BY <1>1, <1>3 DEF s

(* Only types count. *)
LEMMA SpelledTypes ==
    ASSUME NEW s, NEW t, Len(s) \in Nat, Len(t) = Len(s),
           \A k \in 1 .. Len(s) : t[k].type = s[k].type, Spelled(s)
    PROVE  Spelled(t)
<1> DEFINE n == Len(s)
<1>1. n \in Nat
  OBVIOUS
<1>2. \A k \in 1 .. n - 1 : k \in 1 .. n /\ k + 1 \in 1 .. n
  <2> HIDE DEF n
  <2> QED
    BY <1>1
<1> QED
  BY <1>2 DEF Spelled

(* Spelled tokens, as deep as n, that begin with BEGIN. *)
Reading(ts, n) == /\ SeqOk(ts) /\ Len(ts) >= 1 /\ ts[1].type = "BEGIN"
                  /\ Spelled(ts) /\ Nested(ts, 0, n)

(* The tokens of a macro or a rule, from BEGIN to END. *)
Whole(ts) == Reading(ts, 0) /\ Len(ts) >= 3 /\ ts[Len(ts)].type = "END"

(* Those at the ends of a macro and those inside. *)
LEMMA MacroParts ==
    ASSUME NEW m, Whole(m)
    PROVE  LET b == SubSeq(m, 2, Len(m) - 1)
           IN  /\ SeqOk(b) /\ Len(b) >= 1 /\ Len(b) = Len(m) - 2 /\ Len(m) \in Nat
               /\ Spelled(b) /\ Nested(b, 0, 0)
               /\ Meet("BEGIN", b[1].type) /\ b[1].type # "END"
               /\ Meet(b[Len(b)].type, "END") /\ b[Len(b)].type # "BEGIN"
               /\ b[1].type \in Terminals /\ b[Len(b)].type \in Terminals
<1> DEFINE n == Len(m)
           b == SubSeq(m, 2, n - 1)
<1>1. /\ SeqOk(b) /\ n \in Nat /\ Len(b) = n - 2 /\ n >= 3
      /\ \A k \in 1 .. n - 2 : b[k] = m[k + 1]
  BY MiddleItems DEF Whole, Reading
<1>2. /\ \A k \in 1 .. n : m[k].type \in Terminals
      /\ \A k \in 1 .. n - 1 : Meet(m[k].type, m[k + 1].type)
      /\ m[1].type = "BEGIN" /\ m[n].type = "END"
  BY SpelledMeets DEF Whole, Reading
<1>3. Nested(b, 0, 0)
  <2>1. Change("BEGIN") = 0 /\ Change("END") = 0
    BY Changes
  <2>2. SeqOk(m) /\ Nested(m, 0, 0) /\ Change(m[1].type) = 0 /\ Change(m[n].type) = 0
    BY <1>2, <2>1 DEF Whole, Reading
  <2> HIDE DEF n
  <2>3. Len(m) >= 3
    BY <1>1 DEF n
  <2> QED
    BY <2>2, <2>3, NestedMiddle DEF n
<1> HIDE DEF n, b
<1>4. Spelled(b)
  <2>1. \A k \in 1 .. n - 2 : b[k].type \in Terminals
    <3>1. \A k \in 1 .. n - 2 : k + 1 \in 1 .. n
      BY <1>1
    <3> QED
      BY <1>1, <1>2, <3>1
  <2>2. \A k \in 1 .. (n - 2) - 1 : Meet(b[k].type, b[k + 1].type)
    <3>1. \A k \in 1 .. (n - 2) - 1 : /\ k \in 1 .. n - 2 /\ k + 1 \in 1 .. n - 2
                                      /\ k + 1 \in 1 .. n - 1
      BY <1>1
    <3> QED
      BY <1>1, <1>2, <3>1
  <2> QED
    BY <1>1, <2>1, <2>2, SpelledMeets
<1>5. b[1] = m[2] /\ b[n - 2] = m[n - 1]
  <2>1. 1 \in 1 .. n - 2 /\ n - 2 \in 1 .. n - 2 /\ 1 + 1 = 2 /\ (n - 2) + 1 = n - 1
    BY <1>1
  <2> QED
    BY <1>1, <2>1
<1>6. /\ 1 \in 1 .. n - 1 /\ 1 + 1 = 2 /\ 2 \in 1 .. n - 1 /\ n - 1 \in 1 .. n - 1
      /\ (n - 1) + 1 = n /\ n - 2 \in 1 .. n - 1 /\ (n - 2) + 1 = n - 1
      /\ 2 \in 1 .. n /\ n - 1 \in 1 .. n
  BY <1>1
<1>7. Meet("BEGIN", m[2].type) /\ Meet(m[n - 1].type, "END")
  BY <1>2, <1>6
<1>8. m[2].type # "END"
  <2>1. Meet(m[2].type, m[2 + 1].type)
    BY <1>2, <1>6
  <2> QED
    BY <2>1, Neighbours
<1>9. m[n - 1].type # "BEGIN"
  <2>1. Meet(m[n - 2].type, m[n - 1].type)
    BY <1>2, <1>6
  <2> QED
    BY <2>1, Neighbours
<1>10. b[1].type \in Terminals /\ b[n - 2].type \in Terminals
  BY <1>2, <1>5, <1>6
<1>11. Len(b) >= 1
  BY <1>1
<1> QED
  BY <1>1, <1>3, <1>4, <1>5, <1>7, <1>8, <1>9, <1>10, <1>11 DEF n, b

(* What a macro stands for may stand where its name may, and leaves the    *)
(* depth as it is.                                                         *)
LEMMA BodySpelled ==
    ASSUME NEW name \in DOMAIN macro_map, Whole(macro_map[name])
    PROVE  LET body == Body(name)
           IN  /\ SeqOk(body) /\ Len(body) >= 1 /\ Spelled(body) /\ Nested(body, 0, 0)
               /\ \A l \in Terminals : Meet(l, "MACRO") => Meet(l, body[1].type)
<1> DEFINE m == macro_map[name]
           b == SubSeq(m, 2, Len(m) - 1)
           o == Token("OPENPAREN")
           c == Token("CLOSEPAREN")
<1>1. Body(name) = IF Multiple(name) THEN <<o>> \o b \o <<c>> ELSE b
  BY DEF Body
<1>2. /\ SeqOk(b) /\ Len(b) >= 1 /\ Len(b) = Len(m) - 2 /\ Len(m) \in Nat
      /\ Spelled(b) /\ Nested(b, 0, 0)
      /\ Meet("BEGIN", b[1].type) /\ b[1].type # "END"
      /\ Meet(b[Len(b)].type, "END") /\ b[Len(b)].type # "BEGIN"
      /\ b[1].type \in Terminals /\ b[Len(b)].type \in Terminals
  BY MacroParts
<1>3. Multiple(name) <=> Len(m) > 3
  BY DEF Multiple
<1>4. /\ o.type = "OPENPAREN" /\ c.type = "CLOSEPAREN" /\ TokenOk(o) /\ TokenOk(c)
      /\ "OPENPAREN" \in Terminals /\ "CLOSEPAREN" \in Terminals
  BY PlainTypes, PlainToken DEF Terminals
<1> HIDE DEF m, b, o, c
<1>5. CASE Multiple(name)
  <2> DEFINE u == <<o>> \o b
             v == u \o <<c>>
  <2>1. Spelled(<<o>>) /\ SeqOk(<<o>>) /\ Len(<<o>>) = 1 /\ <<o>>[1] = o
    BY <1>4, SpelledOne
  <2>2. Spelled(<<c>>) /\ SeqOk(<<c>>) /\ Len(<<c>>) = 1 /\ <<c>>[1] = c
    BY <1>4, SpelledOne
  <2>3. Nested(<<o>>, 0, 1) /\ Nested(<<c>>, 1, 0)
    <3>1. /\ 0 + Change(o.type) = 1 /\ 1 + Change(c.type) = 0
          /\ 0 \in Nat /\ 1 \in Nat
      BY <1>4, Changes
    <3> QED
      BY <3>1, NestedOne
  <2>4. Nested(b, 1, 1)
    <3>1. Len(b) \in Nat
      BY <1>2
    <3>2. Nested(b, 0 + 1, 0 + 1)
      BY <1>2, <3>1, NestedDeeper
    <3> QED
      BY <3>2
  <2>5. Meet(o.type, b[1].type)
    BY <1>2, <1>4, Exchanges
  <2> HIDE DEF u, v
  <2>6. /\ SeqOk(u) /\ Spelled(u) /\ Len(u) = 1 + Len(b) /\ u[1] = o
        /\ u[Len(u)] = b[Len(b)]
    <3>1. Meet(<<o>>[Len(<<o>>)].type, b[1].type) /\ Len(<<o>>) >= 1
      BY <2>1, <2>5
    <3> QED
      BY <1>2, <2>1, <3>1, SpelledJoin DEF u
  <2>7. Nested(u, 0, 1)
    BY <1>2, <2>1, <2>3, <2>4, NestedJoin DEF u
  <2>8. Meet(u[Len(u)].type, c.type)
    BY <1>2, <1>4, <2>6, Exchanges
  <2>9. Len(u) >= 1 /\ Len(u) \in Nat
    BY <1>2, <2>6
  <2>10. SeqOk(v) /\ Spelled(v) /\ Len(v) = Len(u) + 1 /\ v[1] = u[1]
    <3>1. Meet(u[Len(u)].type, <<c>>[1].type) /\ Len(<<c>>) >= 1
      BY <2>2, <2>8
    <3> QED
      BY <2>2, <2>6, <2>9, <3>1, SpelledJoin DEF v
  <2>11. Nested(v, 0, 0)
    BY <2>2, <2>3, <2>6, <2>7, NestedJoin DEF v
  <2>12. Len(v) >= 1
    BY <2>9, <2>10
  <2>13. Body(name) = v /\ v[1].type = "OPENPAREN"
    BY <1>1, <1>4, <1>5, <2>6, <2>10 DEF u, v
  <2> QED
    BY <2>10, <2>11, <2>12, <2>13, Exchanges
<1>6. CASE ~ Multiple(name)
  <2>1. Body(name) = b
    BY <1>1, <1>6
  <2>2. Len(b) = 1
    BY <1>2, <1>3, <1>6
  <2>3. b[1].type \in {"CHARSET", "BOL", "EOL"}
    BY <1>2, <2>2, Exchanges
  <2> QED
    BY <1>2, <2>1, <2>3, Exchanges
<1> QED
  BY <1>5, <1>6

(* The last token replaced by another of its type. *)
LEMMA ReplacedItems ==
    ASSUME NEW ts, SeqOk(ts), Len(ts) >= 1, NEW x, TokenOk(x),
           x.type = ts[Len(ts)].type
    PROVE  LET new == Append(Front(ts), x)
           IN  /\ SeqOk(new) /\ Len(ts) \in Nat /\ Len(new) = Len(ts)
               /\ \A k \in 1 .. Len(ts) : new[k].type = ts[k].type
<1> DEFINE n == Len(ts)
           f == Front(ts)
<1>1. n \in Nat /\ n >= 1
  BY SeqTokens
<1>2. PICK S : ts \in Seq(S)
  BY DEF SeqOk
<1>3. ts # <<>>
  <2>1. ~ (Len(<<>>) >= 1)
    OBVIOUS
  <2> QED
    BY <2>1
<1>4. SeqOk(f)
  BY <1>3, SeqFront
<1>5. Len(f) = n - 1 /\ \A k \in 1 .. n - 1 : f[k] = ts[k]
  <2>1. \A k \in 1 .. n - 1 : k \in 1 .. n
    BY <1>1
  <2> DEFINE g == SubSeq(ts, 1, n - 1)
  <2>2. f = g
    BY DEF Front
  <2>3. 1 \in Nat /\ n - 1 \in Nat /\ n \in 1 .. Len(ts)
    BY <1>1
  <2>4. \A k \in 1 .. n - 1 : g[k] = ts[k]
    BY <1>2, <2>1, <2>3
  <2>5. Len(g) = n - 1
    <3>1. n \in 1 .. Len(ts) /\ n \in Nat
      BY <1>1
    <3> HIDE DEF n
    <3> QED
      BY <1>2, <3>1
  <2> QED
    BY <2>2, <2>4, <2>5
<1> HIDE DEF f
<1>6. /\ Append(f, x) = f \o <<x>> /\ SeqOk(<<x>>) /\ Len(<<x>>) = 1 /\ <<x>>[1] = x
  BY <1>4, AppendJoins
<1>7. /\ Len(f \o <<x>>) = Len(f) + Len(<<x>>)
      /\ \A k \in 1 .. Len(f) : (f \o <<x>>)[k] = f[k]
      /\ \A k \in 1 .. Len(<<x>>) : (f \o <<x>>)[Len(f) + k] = <<x>>[k]
  BY <1>4, <1>6, JoinedItems
<1> DEFINE new == Append(f, x)
<1> HIDE DEF new, n
<1>8. /\ Len(new) = (n - 1) + 1
      /\ \A k \in 1 .. n - 1 : new[k] = f[k]
      /\ new[(n - 1) + 1] = x
  <2>1. 1 \in 1 .. 1
    OBVIOUS
  <2> QED
    BY <1>5, <1>6, <1>7, <2>1 DEF new
<1>9. SeqOk(new)
  BY <1>4, SeqAppend DEF new
<1>10. \A k \in 1 .. n : new[k].type = ts[k].type
  <2>1. (n - 1) + 1 = n /\ \A k \in 1 .. n : k \in 1 .. n - 1 \/ k = n
    BY <1>1
  <2>2. x.type = ts[n].type
    BY DEF n
  <2> QED
    BY <1>5, <1>8, <2>1, <2>2
<1>11. Len(new) = n
  BY <1>1, <1>8
<1> QED
  BY <1>1, <1>9, <1>10, <1>11 DEF new, f, n

(* Every macro is whole. *)
MacrosWhole == \A name \in DOMAIN macro_map : Whole(macro_map[name])

(* A difference changes the set of the last token, not its type. *)
LEMMA DiffReads ==
    ASSUME NEW n, Reading(tokens, n), MacrosOk, NEW rhs, TokenOk(rhs), ApplyDiff(rhs),
           rhs.type # "DIFF"
    PROVE  \/ pc' = "error"
           \/ pc' = "token" /\ Reading(tokens', n) /\ Change(rhs.type) = 0
<1> DEFINE operand == Operand(rhs)
           str == IF diff = "-" THEN RemoveChars(lhs.str, operand.str)
                  ELSE InsertAll(lhs.str, operand.str)
           tok == [lhs EXCEPT !.str = str]
<1>1. /\ SeqOk(tokens) /\ Len(tokens) >= 1 /\ tokens[1].type = "BEGIN"
      /\ Spelled(tokens) /\ Nested(tokens, 0, n)
  BY DEF Reading
<1>0. tokens # <<>>
  <2>1. ~ (Len(<<>>) >= 1)
    OBVIOUS
  <2> QED
    BY <1>1, <2>1
<1>2. TokenOk(operand)
  BY BodyOk DEF Operand
<1>3. TokenOk(lhs) /\ lhs = tokens[Len(tokens)]
  BY <1>0, <1>1, SeqFront DEF lhs, Last
<1>4. \/ pc' = "error"
      \/ /\ str # <<>> /\ pc' = "token" /\ operand.type = "CHARSET"
         /\ tokens' = Append(Front(tokens), tok)
  BY DEF ApplyDiff, Fails
<1>5. operand.type = "CHARSET" => rhs.type \in {"MACRO", "CHARSET"}
  BY DEF Operand
<1> HIDE DEF operand
<1>6. str \in CharSet
  <2>1. lhs.str \in CharSet /\ operand.str \in CharSet
    BY <1>2, <1>3 DEF TokenOk
  <2> QED
    BY <2>1, RemoveExact, InsertAllExact
<1> HIDE DEF str
<1>7. str # <<>> => TokenOk(tok) /\ tok.type = tokens[Len(tokens)].type
  <2> DEFINE l == lhs
  <2>1. l = [type |-> l.type, str |-> l.str, extra |-> l.extra]
    BY <1>3 DEF TokenOk
  <2> HIDE DEF l
  <2>2. /\ [l EXCEPT !.str = str] = [type |-> l.type, str |-> str, extra |-> l.extra]
        /\ [l EXCEPT !.str = str].type = l.type
    BY <2>1
  <2> QED
    BY <1>3, <1>6, <2>2 DEF TokenOk, l
<1> HIDE DEF tok
<1>8. ASSUME str # <<>>, pc' = "token", operand.type = "CHARSET",
             tokens' = Append(Front(tokens), tok)
      PROVE  pc' = "token" /\ Reading(tokens', n) /\ Change(rhs.type) = 0
  <2> DEFINE new == Append(Front(tokens), tok)
  <2>1. /\ SeqOk(new) /\ Len(tokens) \in Nat /\ Len(new) = Len(tokens)
        /\ \A k \in 1 .. Len(tokens) : new[k].type = tokens[k].type
    BY <1>1, <1>7, <1>8, ReplacedItems
  <2> HIDE DEF new
  <2>2. Spelled(new)
    BY <1>1, <2>1, SpelledTypes
  <2>3. Nested(new, 0, n)
    BY <1>1, <2>1, NestedTypes
  <2>4. new[1].type = "BEGIN" /\ Len(new) >= 1
    <3>1. 1 \in 1 .. Len(tokens)
      BY <1>1, <2>1
    <3> QED
      BY <1>1, <2>1, <3>1
  <2>5. Change(rhs.type) = 0
    <3>1. rhs.type # "OPENPAREN" /\ rhs.type # "CLOSEPAREN"
      BY <1>5, <1>8
    <3> QED
      BY <3>1, Changes
  <2> QED
    BY <1>8, <2>1, <2>2, <2>3, <2>4, <2>5 DEF Reading, new
<1> QED
  BY <1>4, <1>8

(* What becomes of the tokens when one more is taken. *)
LEMMA TakeReads ==
    ASSUME NEW n \in Nat, Reading(tokens, n), MacrosOk, MacrosWhole,
           NEW rhs, TokenOk(rhs), Take(rhs), n + Change(rhs.type) \in Nat
    PROVE  \/ pc' = "error"
           \/ pc' = "token" /\ Reading(tokens', n + Change(rhs.type))
           \/ /\ pc' = "end" /\ rhs.type = "END"
              /\ Reading(tokens', n + Change(rhs.type))
              /\ tokens'[Len(tokens')].type = "END"
<1>1. /\ SeqOk(tokens) /\ Len(tokens) >= 1 /\ tokens[1].type = "BEGIN"
      /\ Spelled(tokens) /\ Nested(tokens, 0, n) /\ Len(tokens) \in Nat
  BY SeqTokens DEF Reading
<1>2. \/ Fails
      \/ rhs.type = "DIFF" /\ TakeDiff(rhs)
      \/ rhs.type # "DIFF" /\ ApplyDiff(rhs)
      \/ Legal(rhs) /\ rhs.type = "MACRO" /\ TakeMacro(rhs)
      \/ Legal(rhs) /\ rhs.type \notin {"DIFF", "MACRO"} /\ Store(rhs)
  BY DEF Take
<1>3. lhs = tokens[Len(tokens)]
  BY DEF lhs, Last
<1>4. tokens[Len(tokens)].type \in Terminals
  <2>1. Len(tokens) \in 1 .. Len(tokens)
    BY <1>1
  <2> QED
    BY <1>1, <2>1 DEF Spelled
<1>5. Legal(rhs) /\ rhs.type # "DIFF" => Meet(tokens[Len(tokens)].type, rhs.type)
  BY <1>3 DEF Legal, Meet
<1>6. n + 0 = n
  OBVIOUS
<1>7. CASE Fails
  BY <1>7 DEF Fails
<1>8. CASE rhs.type = "DIFF" /\ TakeDiff(rhs)
  <2>1. Change(rhs.type) = 0
    BY <1>8, Changes
  <2>2. pc' = "error" \/ (pc' = "token" /\ tokens' = tokens)
    BY <1>8 DEF TakeDiff, Fails
  <2> QED
    BY <1>6, <2>1, <2>2
<1>9. CASE rhs.type # "DIFF" /\ ApplyDiff(rhs)
  <2>1. pc' = "error" \/ (pc' = "token" /\ Reading(tokens', n) /\ Change(rhs.type) = 0)
    BY <1>9, DiffReads
  <2> QED
    BY <1>6, <2>1
<1>10. CASE Legal(rhs) /\ rhs.type = "MACRO" /\ TakeMacro(rhs)
  <2>1. CASE rhs.extra \notin DOMAIN macro_map
    BY <1>10, <2>1 DEF TakeMacro, Fails
  <2>2. ASSUME rhs.extra \in DOMAIN macro_map
        PROVE  pc' = "token" /\ Reading(tokens', n + Change(rhs.type))
    <3> DEFINE body == Body(rhs.extra)
               new == tokens \o body
    <3>1. Whole(macro_map[rhs.extra])
      BY <2>2 DEF MacrosWhole
    <3>2. /\ SeqOk(body) /\ Len(body) >= 1 /\ Spelled(body) /\ Nested(body, 0, 0)
          /\ \A l \in Terminals : Meet(l, "MACRO") => Meet(l, body[1].type)
      BY <2>2, <3>1, BodySpelled
    <3>3. pc' = "token" /\ tokens' = new
      BY <1>10, <2>2 DEF TakeMacro
    <3> HIDE DEF body
    <3>4. Meet(tokens[Len(tokens)].type, body[1].type)
      BY <1>4, <1>5, <1>10, <3>2
    <3>5. Len(body) \in Nat
      BY <3>2, SeqTokens
    <3>6. SeqOk(new) /\ Spelled(new) /\ Len(new) = Len(tokens) + Len(body) /\ new[1] = tokens[1]
      BY <1>1, <3>2, <3>4, SpelledJoin
    <3>7. Nested(body, n, n)
      <4>1. Nested(body, 0 + n, 0 + n)
        BY <3>2, <3>5, NestedDeeper
      <4> QED
        BY <4>1
    <3>8. Nested(new, 0, n)
      BY <1>1, <3>2, <3>7, NestedJoin
    <3> HIDE DEF new
    <3>9. Len(new) >= 1
      BY <1>1, <3>5, <3>6
    <3>10. Change(rhs.type) = 0
      BY <1>10, Changes
    <3> QED
      BY <1>1, <1>6, <3>3, <3>6, <3>8, <3>9, <3>10 DEF Reading
  <2> QED
    BY <2>1, <2>2
<1>11. CASE Legal(rhs) /\ rhs.type \notin {"DIFF", "MACRO"} /\ Store(rhs)
  <2> DEFINE one == <<rhs>>
             new == tokens \o one
  <2>1. rhs.type \in Terminals
    BY <1>11 DEF TokenOk, Lexed, Terminals
  <2>2. Spelled(one) /\ SeqOk(one) /\ Len(one) = 1 /\ one[1] = rhs
    BY <2>1, SpelledOne
  <2>3. tokens' = new /\ pc' = IF rhs.type = "END" THEN "end" ELSE "token"
    BY <1>1, <1>11, AppendJoins DEF Store
  <2>4. Nested(one, n, n + Change(rhs.type))
    BY NestedOne
  <2> HIDE DEF one
  <2>5. /\ SeqOk(new) /\ Spelled(new) /\ Len(new) = Len(tokens) + Len(one)
        /\ new[1] = tokens[1] /\ new[Len(new)] = one[Len(one)]
    <3>1. Meet(tokens[Len(tokens)].type, one[1].type) /\ Len(one) >= 1
      BY <1>5, <1>11, <2>2
    <3> QED
      BY <1>1, <2>2, <3>1, SpelledJoin
  <2>6. Nested(new, 0, n + Change(rhs.type))
    BY <1>1, <2>2, <2>4, NestedJoin
  <2> HIDE DEF new
  <2>7. Len(new) >= 1
    BY <1>1, <2>2, <2>5
  <2>8. Reading(tokens', n + Change(rhs.type))
    BY <1>1, <2>3, <2>5, <2>6, <2>7 DEF Reading
  <2>9. rhs.type = "END" => tokens'[Len(tokens')].type = "END"
    BY <2>2, <2>3, <2>5
  <2> QED
    BY <2>3, <2>8, <2>9
<1> QED
  BY <1>2, <1>7, <1>8, <1>9, <1>10, <1>11

-----------------------------------------------------------------------------
(* The reader counts the parentheses of what it takes.                     *)

(* Every rule is whole. *)
RulesWhole == \A k \in 1 .. Len(regexes) : Whole(regexes[k].tokens)

(* What holds of the tokens while texts are read, and of what was read.    *)
ReadInv ==
    /\ pc \in {"token", "charset", "end"} =>
          Reading(tokens, paren_count) /\ paren_count \in Nat
    /\ pc = "end" => tokens[Len(tokens)].type = "END" /\ paren_count = 0
    /\ MacrosWhole
    /\ RulesWhole

(* A token is taken and, if it is a parenthesis, counted: none is open at  *)
(* the end.                                                                *)
Counted(rhs) == /\ TokenOk(rhs) /\ Take(rhs) /\ UNCHANGED rules
                /\ paren_count' = paren_count + Change(rhs.type)
                /\ paren_count' \in Nat
                /\ rhs.type = "END" => paren_count = 0

(* Taking a token keeps it. *)
LEMMA CountedReads ==
    ASSUME RulesInv, ReadInv, pc \in {"token", "charset"}, NEW rhs, Counted(rhs)
    PROVE  ReadInv'
<1>1. /\ Reading(tokens, paren_count) /\ paren_count \in Nat /\ MacrosWhole /\ RulesWhole
      /\ MacrosOk
  BY DEF ReadInv, RulesInv
<1>2. /\ TokenOk(rhs) /\ Take(rhs) /\ UNCHANGED rules
      /\ paren_count' = paren_count + Change(rhs.type)
      /\ paren_count + Change(rhs.type) \in Nat
      /\ rhs.type = "END" => paren_count = 0
  BY DEF Counted
<1>3. \/ pc' = "error"
      \/ pc' = "token" /\ Reading(tokens', paren_count + Change(rhs.type))
      \/ /\ pc' = "end" /\ rhs.type = "END"
         /\ Reading(tokens', paren_count + Change(rhs.type))
         /\ tokens'[Len(tokens')].type = "END"
  BY <1>1, <1>2, TakeReads
<1>4. MacrosWhole' /\ RulesWhole'
  <2>1. macro_map' = macro_map /\ regexes' = regexes
    BY <1>2 DEF rules
  <2> QED
    BY <1>1, <2>1 DEF MacrosWhole, RulesWhole
<1>5. pc' \in {"token", "charset", "end"} =>
         Reading(tokens', paren_count') /\ paren_count' \in Nat
  BY <1>2, <1>3
<1>6. rhs.type = "END" => paren_count' = 0
  <2>1. rhs.type = "END" => Change(rhs.type) = 0
    BY Changes
  <2> QED
    BY <1>2, <2>1
<1>7. pc' = "end" => tokens'[Len(tokens')].type = "END" /\ paren_count' = 0
  BY <1>3, <1>6
<1> QED
  BY <1>4, <1>5, <1>7 DEF ReadInv, Reading

(* Nothing was stored and nothing is read any more, or the tokeniser goes  *)
(* on.                                                                     *)
LEMMA KeptReading ==
    ASSUME ReadInv, UNCHANGED rules,
           \/ /\ pc \in {"token", "charset"} /\ pc' \in {"token", "charset"}
              /\ UNCHANGED <<tokens, paren_count>>
           \/ pc' \notin {"token", "charset", "end"}
    PROVE  ReadInv'
<1>1. MacrosWhole' /\ RulesWhole'
  BY DEF ReadInv, MacrosWhole, RulesWhole, rules
<1>2. pc' # "end"
  OBVIOUS
<1>3. pc' \in {"token", "charset"} => Reading(tokens', paren_count') /\ paren_count' \in Nat
  BY DEF ReadInv
<1> QED
  BY <1>1, <1>2, <1>3 DEF ReadInv

(* Refusing a rule keeps it. *)
LEMMA ThrowReads ==
    ASSUME ReadInv, NEW p, Throw(p)
    PROVE  ReadInv'
<1>1. UNCHANGED rules /\ pc' = "error"
  BY DEF Throw, ruleVars
<1> QED
  BY <1>1, KeptReading

(* A token that is no parenthesis and no end. *)
LEMMA OtherCounted ==
    ASSUME ReadInv, pc \in {"token", "charset"}, NEW rhs, TokenOk(rhs), Take(rhs),
           rhs.type \notin {"OPENPAREN", "CLOSEPAREN", "END"},
           UNCHANGED <<rules, paren_count>>
    PROVE  Counted(rhs)
<1>1. Change(rhs.type) = 0
  BY Changes
<1>2. paren_count \in Nat
  BY DEF ReadInv
<1>3. paren_count' = paren_count + 0
  BY <1>2
<1> QED
  BY <1>1, <1>2, <1>3 DEF Counted

(* It is taken at a place of the text. *)
LEMMA OtherReads ==
    ASSUME RulesInv, ReadInv, pc = "token", NEW p, NEW rhs, TokenOk(rhs), TokenAt(p, rhs),
           rhs.type \notin {"OPENPAREN", "CLOSEPAREN", "END"}, SameLexer
    PROVE  ReadInv'
<1>1. Take(rhs) /\ UNCHANGED <<rules, paren_count>>
  BY DEF TokenAt, SameLexer
<1> QED
  BY <1>1, OtherCounted, CountedReads

(* A set. *)
LEMMA CharsetReads ==
    ASSUME RulesInv, ReadInv, pc = "token", NEW p, NEW str \in Classes,
           TokenAt(p, Charset(str)), SameLexer
    PROVE  ReadInv'
<1>1. TokenOk(Charset(str)) /\ Charset(str).type = "CHARSET"
  BY PlainToken
<1> QED
  BY <1>1, OtherReads

(* The tokens that are sets: an escape, *)
LEMMA EscapeReads ==
    ASSUME RulesInv, ReadInv, ReadEscape
    PROVE  ReadInv'
<1> DEFINE esc == EscapeSequence(text, curr + 1)
<1>1. pc = "token" /\ Ch(curr) = "\\" /\ TakeEscape(esc)
  BY DEF ReadEscape, AtToken
<1>2. text \in Text
  BY <1>1, TextTyped
<1>3. curr \in 1 .. Len(text) /\ Len(text) \in Nat
  BY <1>1, <1>2, Codes DEF Ch, At
<1>4. curr + 1 \in Place
  BY <1>3 DEF Place
<1>5. \/ esc = Failed
      \/ esc \in CharReadings
      \/ esc \in SetReadings /\ esc.str # <<>>
  BY <1>2, <1>4, EscapeTyped
<1> HIDE DEF esc
<1>6. CASE ~ esc.ok
  BY <1>1, <1>6, ThrowReads DEF TakeEscape
<1>7. CASE esc.ok
  <2> DEFINE str == IF IsClass(esc) THEN esc.str ELSE Single(esc.char)
  <2>1. TokenAt(esc.next, Charset(str)) /\ SameLexer
    BY <1>1, <1>7 DEF TakeEscape
  <2>2. str \in Classes
    <3>1. esc \in CharReadings \/ (esc \in SetReadings /\ esc.str # <<>>)
      BY <1>5, <1>7, Kinds
    <3> QED
      BY <3>1, Kinds, SingleRange DEF Classes
  <2> HIDE DEF str
  <2> QED
    BY <1>1, <2>1, <2>2, CharsetReads
<1> QED
  BY <1>6, <1>7

(* a character, a dot, and one in a string. *)
LEMMA CharacterReads ==
    ASSUME RulesInv, ReadInv, ReadLiteral \/ ReadDot \/ ReadInString
    PROVE  ReadInv'
<1>1. CASE ReadLiteral
  <2> DEFINE c == Code(Ch(curr))
  <2>1. pc = "token" /\ TokenAt(curr + 1, Literal(Ch(curr))) /\ SameLexer
    BY <1>1 DEF ReadLiteral, Meta, Plain, AtToken
  <2>2. c \in Char
    BY <2>1, CodeClass
  <2>3. Literal(Ch(curr)) = Charset(WithCases(<<>>, <<c, c>>, flags))
    BY DEF Literal
  <2> HIDE DEF c
  <2>4. WithCases(<<>>, <<c, c>>, flags) \in Classes
    BY <2>2, SingleRange, EmptyCharSet, WithCasesTyped DEF Classes
  <2> QED
    BY <2>1, <2>3, <2>4, CharsetReads
<1>2. CASE ReadDot
  <2> DEFINE s == IF "dot_not_newline" \in flags THEN Single(10) ELSE <<>>
  <2>1. pc = "token" /\ TokenAt(curr + 1, Charset(Negate(s))) /\ SameLexer
    BY <1>2 DEF ReadDot, Meta, Plain, AtToken
  <2>2. s \in CharSet /\ \A k \in 1 .. Len(s) : s[k][1] >= 1
    <3>1. 10 \in Char
      BY CharNumbers
    <3>2. Single(10) \in CharSet
      BY <3>1, SingleRange
    <3>3. \A k \in 1 .. Len(Single(10)) : Single(10)[k][1] >= 1
      BY DEF Single
    <3>4. <<>> \in CharSet /\ \A k \in 1 .. Len(<<>>) : <<>>[k][1] >= 1
      BY EmptyCharSet
    <3> QED
      BY <3>2, <3>3, <3>4
  <2> HIDE DEF s
  <2>3. Negate(s) \in Classes
    BY <2>2, NegatedClass
  <2> QED
    BY <2>1, <2>3, CharsetReads
<1>3. CASE ReadInString
  <2>1. pc = "token" /\ TokenAt(curr + 1, Charset(Single(Code(Ch(curr))))) /\ SameLexer
    BY <1>3 DEF ReadInString, Plain, AtToken
  <2>2. Code(Ch(curr)) \in Char
    BY <2>1, CodeClass
  <2>3. Single(Code(Ch(curr))) \in Classes
    BY <2>2, SingleClass
  <2> QED
    BY <2>1, <2>3, CharsetReads
<1> QED
  BY <1>1, <1>2, <1>3

(* An anchor, or the character. *)
LEMMA AnchorReads ==
    ASSUME RulesInv, ReadInv, ReadAnchor
    PROVE  ReadInv'
<1> DEFINE anchor == /\ Head(jobs).name = <<>>
                     /\ curr = IF Ch(curr) = "^" THEN 1 ELSE Len(text)
           tok == CASE ~ anchor -> Charset(Single(Code(Ch(curr))))
                    [] anchor /\ Ch(curr) = "^" -> Token("BOL")
                    [] anchor /\ Ch(curr) = "$" -> Token("EOL")
<1>1. pc = "token" /\ TokenAt(curr + 1, tok) /\ SameLexer /\ Ch(curr) \in {"^", "$"}
  BY DEF ReadAnchor, Meta, Plain, AtToken
<1>2. /\ TokenOk(Charset(Single(Code(Ch(curr)))))
      /\ TokenOk(Token("BOL")) /\ TokenOk(Token("EOL"))
      /\ Charset(Single(Code(Ch(curr)))).type = "CHARSET"
      /\ Token("BOL").type = "BOL" /\ Token("EOL").type = "EOL"
  BY <1>1, CodeClass, PlainTypes, PlainToken
<1> HIDE DEF anchor
<1>3. TokenOk(tok) /\ tok.type \in {"CHARSET", "BOL", "EOL"}
  BY <1>1, <1>2
<1> HIDE DEF tok
<1> QED
  BY <1>1, <1>3, OtherReads

(* What a duplicator is, lazy or not. *)
LEMMA DuplicatorType ==
    ASSUME NEW t, NEW p, NEW tok, tok.type \in Greedy,
           tok = [type |-> tok.type, str |-> tok.str, extra |-> tok.extra]
    PROVE  Duplicator(t, p, tok).token.type \in Duplicators
<1> DEFINE type == tok.type
<1>1. type \in Greedy /\ tok = [type |-> type, str |-> tok.str, extra |-> tok.extra]
  OBVIOUS
<1> HIDE DEF type
<1>2. [tok EXCEPT !.type = Abstemious[@]].type = Abstemious[type]
  BY <1>1
<1>3. Abstemious[type] \in Duplicators /\ type \in Duplicators
  BY <1>1 DEF Abstemious, Greedy, Duplicators
<1>4. tok.type = type
  BY DEF type
<1> QED
  BY <1>2, <1>3, <1>4 DEF Duplicator, ReadToken

(* A duplicator. *)
LEMMA DuplicatorReads ==
    ASSUME RulesInv, ReadInv, ReadDuplicator
    PROVE  ReadInv'
<1> DEFINE type == DuplicatorChars[Ch(curr)]
           read == Duplicator(text, curr + 1, Token(type))
<1>1. pc = "token" /\ TokenAt(read.next, read.token) /\ SameLexer
  BY DEF ReadDuplicator, Meta, Plain, AtToken
<1>2. type \in Greedy
  BY DEF ReadDuplicator, DuplicatorChars, Greedy
<1>3. type # "REPEATN"
  BY DEF ReadDuplicator, DuplicatorChars
<1> HIDE DEF type
<1>4. TokenOk(read.token)
  BY <1>2, <1>3, DuplicatorTyped DEF Token
<1>5. read.token.type \in Duplicators
  <2>1. Token(type).type = type /\ Token(type) = [type |-> type, str |-> <<>>, extra |-> <<>>]
    BY DEF Token
  <2> QED
    BY <1>2, <2>1, DuplicatorType
<1> HIDE DEF read
<1>6. read.token.type \notin {"OPENPAREN", "CLOSEPAREN", "END"}
  BY <1>5 DEF Duplicators
<1> QED
  BY <1>1, <1>4, <1>6, OtherReads

(* What an open brace begins is no parenthesis. *)
LEMMA CurlyType ==
    ASSUME NEW t, NEW p, NEW l, OpenCurly(t, p, l).ok
    PROVE  OpenCurly(t, p, l).token.type \in Duplicators \cup {"DIFF", "MACRO"}
<1>1. DiffSign(t, p, l).ok => DiffSign(t, p, l).token.type = "DIFF"
  <2> DEFINE x == [Token("DIFF") EXCEPT !.extra = <<t[p]>>]
  <2>1. x.type = "DIFF"
    BY DEF Token
  <2>2. DiffSign(t, p, l).ok => DiffSign(t, p, l) = ReadToken(x, p + 2)
    BY Kinds DEF DiffSign
  <2> HIDE DEF x
  <2>3. ReadToken(x, p + 2).token = x
    BY DEF ReadToken
  <2> QED
    BY <2>1, <2>2, <2>3
<1>2. MacroName(t, p).ok => MacroName(t, p).token.type = "MACRO"
  <2> DEFINE q == RunEnd(t, p, InName)
             x == SubSeq(t, p, q - 1)
             read == MacroName(t, p)
  <2> DEFINE y == [Token("MACRO") EXCEPT !.extra = x]
  <2>1. y.type = "MACRO"
    <3> HIDE DEF x
    <3> QED
      BY DEF Token
  <2>2. read = Failed \/ read = ReadToken(y, q + 1)
    BY DEF MacroName
  <2> HIDE DEF x, q, read, y
  <2>3. ReadToken(y, q + 1).token = y
    BY DEF ReadToken
  <2>4. read.ok => read.token.type = "MACRO"
    BY <2>1, <2>2, <2>3, Kinds
  <2> QED
    BY <2>4 DEF read
<1>3. RepeatN(t, p).ok => RepeatN(t, p).token.type \in Duplicators
  <2> DEFINE q == RunEnd(t, p, IsDigit)
             comma == At(t, q) = ","
             r == IF comma THEN RunEnd(t, q + 1, IsDigit) ELSE q
             given == comma /\ r > q + 1
             min == Number(t, p, q, 10)
             max == IF given THEN Number(t, q + 1, r, 10) ELSE 0
             tok == RepeatToken(min, comma, max, given)
  <2>1. RepeatN(t, p) =
           CASE At(t, r) # "}" -> Failed
             [] tok.type = "REPEATN" /\ min = 0 /\ max = 0 -> Failed
             [] given /\ max < min -> Failed
             [] OTHER -> Duplicator(t, r + 1, tok)
    BY DEF RepeatN
  <2> HIDE DEF q, comma, r, given, min, max
  <2> DEFINE Simple(x) == /\ x.type \in Greedy
                         /\ x = [type |-> x.type, str |-> x.str, extra |-> x.extra]
  <2>2. Simple(tok)
    <3>1. \/ tok = Token("ZEROORMORE") \/ tok = Token("ONEORMORE")
          \/ tok = Token("OPT")
          \/ tok = Repeat(min, FALSE, 0) \/ tok = Repeat(min, comma, max)
      BY DEF RepeatToken
    <3>2. \A type \in Greedy : Simple(Token(type))
      BY DEF Token
    <3>3. \A m, c, x : Simple(Repeat(m, c, x))
      BY DEF Repeat, Greedy
    <3>4. /\ "ZEROORMORE" \in Greedy /\ "ONEORMORE" \in Greedy /\ "OPT" \in Greedy
      BY DEF Greedy
    <3> HIDE DEF tok, Simple
    <3>5. \A type \in {"ZEROORMORE", "ONEORMORE", "OPT"} : Simple(Token(type))
      BY <3>2, <3>4
    <3> QED
      BY <3>1, <3>3, <3>5
  <2> HIDE DEF tok
  <2>3. RepeatN(t, p) = Failed \/ RepeatN(t, p) = Duplicator(t, r + 1, tok)
    BY <2>1
  <2>4. Duplicator(t, r + 1, tok).token.type \in Duplicators
    BY <2>2, DuplicatorType
  <2> QED
    BY <2>3, <2>4, Kinds
<1>4. \/ OpenCurly(t, p, l) = DiffSign(t, p, l)
      \/ OpenCurly(t, p, l) = RepeatN(t, p)
      \/ OpenCurly(t, p, l) = MacroName(t, p)
  <2>1. ~ Eos(t, p)
    BY Kinds DEF OpenCurly
  <2> QED
    BY <2>1 DEF OpenCurly
<1> QED
  BY <1>1, <1>2, <1>3, <1>4

(* A repeat in braces, a macro or a difference. *)
LEMMA CurlyReads ==
    ASSUME RulesInv, ReadInv, ReadCurly
    PROVE  ReadInv'
<1> DEFINE read == OpenCurly(text, curr + 1, lhs)
<1>1. /\ pc = "token"
      /\ IF read.ok THEN TokenAt(read.next, read.token) /\ SameLexer
         ELSE Throw("token")
  BY DEF ReadCurly, Meta, Plain, AtToken
<1>2. read.ok => TokenOk(read.token)
  <2>1. text \in Text
    BY <1>1, TextTyped
  <2>2. curr \in 1 .. Len(text) /\ Len(text) \in Nat
    BY <2>1, Codes DEF ReadCurly, Ch, At
  <2>3. curr + 1 \in Place
    BY <2>2 DEF Place
  <2> HIDE DEF read
  <2> QED
    BY <2>1, <2>3, OpenCurlyTyped DEF read
<1>3. read.ok => read.token.type \in Duplicators \cup {"DIFF", "MACRO"}
  BY CurlyType
<1> HIDE DEF read
<1>4. read.ok => read.token.type \notin {"OPENPAREN", "CLOSEPAREN", "END"}
  BY <1>3 DEF Duplicators
<1> QED
  BY <1>1, <1>2, <1>4, OtherReads, ThrowReads

(* Parentheses, alternatives and the end. *)
LEMMA ParenReads ==
    ASSUME RulesInv, ReadInv, ReadOpen \/ ReadClose \/ ReadOr \/ ReadEnd
    PROVE  ReadInv'
<1>0. /\ pc = "token" /\ paren_count \in Nat
      /\ TokenOk(Token("OPENPAREN")) /\ TokenOk(Token("CLOSEPAREN"))
      /\ TokenOk(Token("OR")) /\ TokenOk(Token("END"))
      /\ \A type : Token(type).type = type
  <2>1. pc = "token"
    BY DEF ReadOpen, ReadClose, ReadOr, ReadEnd, Meta, Plain, AtToken
  <2> QED
    BY <2>1, PlainTypes, PlainToken DEF ReadInv
<1>1. CASE ReadOpen
  <2> DEFINE options == Ch(curr + 1) = "?"
             read == ReadOptions(curr + 2)
             p == IF options THEN read.next ELSE curr + 1
             rhs == Token("OPENPAREN")
  <2>1. \/ Throw("token")
        \/ TokenAt(p, rhs) /\ paren_count' = paren_count + 1
    BY <1>1 DEF ReadOpen
  <2> HIDE DEF p, options, read
  <2>2. CASE Throw("token")
    BY <2>2, ThrowReads
  <2>3. ASSUME TokenAt(p, rhs), paren_count' = paren_count + 1
        PROVE  ReadInv'
    <3>1. Take(rhs) /\ UNCHANGED rules
      BY <2>3 DEF TokenAt
    <3>2. /\ rhs.type = "OPENPAREN" /\ TokenOk(rhs)
      BY <1>0
    <3> HIDE DEF rhs
    <3>3. Change(rhs.type) = 1
      BY <3>2, Changes
    <3>4. Counted(rhs)
      BY <1>0, <2>3, <3>1, <3>2, <3>3 DEF Counted
    <3> QED
      BY <1>0, <3>4, CountedReads
  <2> QED
    BY <2>1, <2>2, <2>3
<1>2. CASE ReadClose
  <2> DEFINE rhs == Token("CLOSEPAREN")
  <2>1. \/ Throw("token")
        \/ /\ TokenAt(curr + 1, rhs) /\ paren_count' = paren_count - 1
           /\ paren_count # 0
    BY <1>2 DEF ReadClose
  <2>2. CASE Throw("token")
    BY <2>2, ThrowReads
  <2>3. ASSUME TokenAt(curr + 1, rhs), paren_count' = paren_count - 1, paren_count # 0
        PROVE  ReadInv'
    <3>1. Take(rhs) /\ UNCHANGED rules
      BY <2>3 DEF TokenAt
    <3>2. rhs.type = "CLOSEPAREN" /\ TokenOk(rhs)
      BY <1>0
    <3> HIDE DEF rhs
    <3>3. Change(rhs.type) = -1
      BY <3>2, Changes
    <3>4. Counted(rhs)
      BY <1>0, <2>3, <3>1, <3>2, <3>3 DEF Counted
    <3> QED
      BY <1>0, <3>4, CountedReads
  <2> QED
    BY <2>1, <2>2, <2>3
<1>3. CASE ReadOr
  <2>1. TokenAt(curr + 1, Token("OR")) /\ SameLexer
    BY <1>3 DEF ReadOr
  <2> QED
    BY <1>0, <2>1, OtherReads
<1>4. CASE ReadEnd
  <2> DEFINE rhs == Token("END")
  <2>1. TokenAt(curr, rhs) /\ paren_count' = paren_count /\ paren_count = 0
    BY <1>4 DEF ReadEnd, SameLexer
  <2>2. Take(rhs) /\ UNCHANGED rules
    BY <2>1 DEF TokenAt
  <2>3. rhs.type = "END" /\ TokenOk(rhs)
    BY <1>0
  <2> HIDE DEF rhs
  <2>4. Change(rhs.type) = 0
    BY <2>3, Changes
  <2>5. Counted(rhs)
    BY <1>0, <2>1, <2>2, <2>3, <2>4 DEF Counted
  <2> QED
    BY <1>0, <2>5, CountedReads
<1> QED
  BY <1>1, <1>2, <1>3, <1>4

(* Bracket expressions. *)
LEMMA BracketReads ==
    ASSUME RulesInv, ReadInv, BeginCharset \/ CharsetItem \/ EndCharset
    PROVE  ReadInv'
<1>1. CASE BeginCharset
  <2>1. \/ Throw("token")
        \/ /\ pc' = "charset" /\ SameLexer /\ UNCHANGED <<tokens, rules>>
    BY <1>1 DEF BeginCharset
  <2>2. pc = "token"
    BY <1>1 DEF BeginCharset, Meta, Plain, AtToken
  <2> QED
    BY <2>1, <2>2, ThrowReads, KeptReading DEF SameLexer
<1>2. CASE CharsetItem
  <2>1. \/ Throw("charset")
        \/ /\ UNCHANGED <<pc, tokens, rules>> /\ SameLexer
    BY <1>2 DEF CharsetItem, AddToCharset
  <2>2. pc = "charset"
    BY <1>2 DEF CharsetItem
  <2> QED
    BY <2>1, <2>2, ThrowReads, KeptReading DEF SameLexer
<1>3. CASE EndCharset
  <2> DEFINE str == IF cs.negated THEN Negate(cs.str) ELSE cs.str
             rhs == Charset(str)
  <2>1. /\ pc = "charset"
        /\ \/ Throw("charset")
           \/ str # <<>> /\ Take(rhs) /\ UNCHANGED rules /\ SameLexer
    BY <1>3 DEF EndCharset
  <2>2. str \in CharSet
    <3>1. cs.str \in CharSet
      BY <2>1 DEF RulesInv, CsOk
    <3> QED
      BY <3>1, NegateExact
  <2> HIDE DEF str
  <2>3. str # <<>> => TokenOk(rhs) /\ rhs.type = "CHARSET"
    BY <2>2, PlainToken DEF Classes
  <2> HIDE DEF rhs
  <2>4. CASE Throw("charset")
    BY <2>4, ThrowReads
  <2>5. ASSUME str # <<>>, Take(rhs), UNCHANGED rules, SameLexer
        PROVE  ReadInv'
    <3>1. UNCHANGED <<rules, paren_count>>
      BY <2>5 DEF SameLexer
    <3>2. Counted(rhs)
      BY <2>1, <2>3, <2>5, <3>1, OtherCounted
    <3> QED
      BY <2>1, <3>2, CountedReads
  <2> QED
    BY <2>1, <2>4, <2>5
<1> QED
  BY <1>1, <1>2, <1>3

(* The start of a text and its end: what was read is whole. *)
LEMMA TextReads ==
    ASSUME RulesInv, ReadInv, BeginText \/ EndText
    PROVE  ReadInv'
<1>1. CASE BeginText
  <2> DEFINE x == Token("BEGIN")
  <2>1. pc' = "token" /\ tokens' = <<x>> /\ paren_count' = 0 /\ UNCHANGED rules
    BY <1>1 DEF BeginText
  <2>2. TokenOk(x) /\ x.type = "BEGIN" /\ x.type \in Terminals /\ Change(x.type) = 0
    BY PlainTypes, PlainToken, Changes DEF Terminals
  <2> HIDE DEF x
  <2>3. Spelled(<<x>>) /\ SeqOk(<<x>>) /\ Len(<<x>>) = 1 /\ <<x>>[1] = x
    BY <2>2, SpelledOne
  <2>4. Nested(<<x>>, 0, 0)
    <3>1. 0 + Change(x.type) = 0 /\ 0 \in Nat
      BY <2>2
    <3> QED
      BY <3>1, NestedOne
  <2>5. Reading(<<x>>, 0)
    <3>1. Len(<<x>>) >= 1
      BY <2>3
    <3> QED
      BY <2>2, <2>3, <2>4, <3>1 DEF Reading
  <2>6. MacrosWhole' /\ RulesWhole'
    BY <2>1 DEF ReadInv, MacrosWhole, RulesWhole, rules
  <2> QED
    BY <2>1, <2>5, <2>6 DEF ReadInv, Reading
<1>2. CASE EndText
  <2> DEFINE name == Head(jobs).name
             rec == [tokens |-> tokens, id |-> Head(jobs).id,
                     re |-> Head(jobs).re, bol |-> text[1] = "^"]
  <2>1. pc = "end"
    BY <1>2 DEF EndText
  <2>2. CASE Len(tokens) = 2
    BY <1>2, <2>2, ThrowReads DEF EndText
  <2>3. CASE Len(tokens) # 2
    <3>1. /\ \/ regexes' = Append(regexes, rec) /\ macro_map' = macro_map
             \/ /\ macro_map' = [n \in DOMAIN macro_map \cup {name} |->
                                   IF n = name THEN tokens ELSE macro_map[n]]
                /\ regexes' = regexes
          /\ pc' = "rule"
      BY <1>2, <2>3 DEF EndText
    <3>2. Whole(tokens)
      <4>1. SeqOk(tokens) /\ Len(tokens) >= 2 /\ Len(tokens) \in Nat
        BY <2>1, SeqTokens DEF RulesInv
      <4>2. Len(tokens) >= 3
        <5>1. \A n \in Nat : n >= 2 /\ n # 2 => n >= 3
          OBVIOUS
        <5> QED
          BY <2>3, <4>1, <5>1
      <4> QED
        BY <2>1, <4>2 DEF ReadInv, Whole
    <3>3. rec.tokens = tokens
      OBVIOUS
    <3> HIDE DEF rec, name
    <3>4. RulesWhole'
      <4>1. PICK R : regexes \in Seq(R)
        BY DEF RulesInv, RegexesOk
      <4>2. regexes \in Seq(R \cup {rec})
        BY <4>1, SeqWider
      <4>3. \A k \in 1 .. Len(regexes) : Whole(regexes[k].tokens)
        BY DEF ReadInv, RulesWhole
      <4> DEFINE new == Append(regexes, rec)
                 n == Len(regexes)
      <4>4. /\ Len(new) = n + 1 /\ n \in Nat /\ new[n + 1] = rec
            /\ \A k \in 1 .. n : new[k] = regexes[k]
        BY <4>2
      <4> HIDE DEF new, n
      <4>5. \A k \in 1 .. n + 1 : k \in 1 .. n \/ k = n + 1
        BY <4>4
      <4>6. \A k \in 1 .. n + 1 : Whole(new[k].tokens)
        BY <3>2, <3>3, <4>3, <4>4, <4>5 DEF n
      <4>7. regexes' = regexes \/ regexes' = new
        BY <3>1 DEF new
      <4>8. \A k \in 1 .. Len(regexes') : Whole(regexes'[k].tokens)
        BY <4>3, <4>4, <4>6, <4>7
      <4> QED
        BY <4>8 DEF RulesWhole, Whole, Reading
    <3>5. MacrosWhole'
      <4>1. \A n \in DOMAIN macro_map' : Whole(macro_map'[n])
        BY <3>1, <3>2 DEF ReadInv, MacrosWhole
      <4> QED
        BY <4>1 DEF MacrosWhole, Whole, Reading
    <3> QED
      BY <3>1, <3>4, <3>5 DEF ReadInv
  <2> QED
    BY <2>2, <2>3
<1> QED
  BY <1>1, <1>2

(* Every step of the reader keeps it. *)
LEMMA ReadsOn ==
    ASSUME RulesInv, ReadInv, RulesNext
    PROVE  ReadInv'
<1>1. CASE RefuseText
  BY <1>1, ThrowReads DEF RefuseText
<1>2. CASE EndRules
  <2>1. UNCHANGED rules /\ pc' \notin {"token", "charset", "end"}
    BY <1>2 DEF EndRules, ruleVars
  <2> QED
    BY <2>1, KeptReading
<1>3. CASE ToggleString \/ Skip
  <2>1. UNCHANGED <<rules, tokens, paren_count>> /\ pc' = "token" /\ pc = "token"
    BY <1>3 DEF ToggleString, Skip, SkipTo
  <2> QED
    BY <2>1, KeptReading
<1>4. CASE SkipUnended \/ ReadEndFails \/ ReadLookahead
  BY <1>4, ThrowReads DEF SkipUnended, ReadEndFails, ReadLookahead
<1> QED
  BY <1>1, <1>2, <1>3, <1>4, TextReads, EscapeReads, CharacterReads, AnchorReads,
     DuplicatorReads, CurlyReads, ParenReads, BracketReads DEF RulesNext

(* It holds at the start. *)
LEMMA ReadsFirst == RulesInit => ReadInv
<1> SUFFICES ASSUME RulesInit
             PROVE  ReadInv
  OBVIOUS
<1>1. pc = "rule" /\ regexes = <<>> /\ macro_map = [n \in {} |-> <<>>]
  BY DEF RulesInit
<1>2. RulesWhole /\ MacrosWhole
  BY <1>1 DEF RulesWhole, MacrosWhole
<1> QED
  BY <1>1, <1>2 DEF ReadInv

-----------------------------------------------------------------------------
(* The table of precedences as the parser sees it.                         *)

(* Two types of which the second may stand on the first on the stack. *)
Leans(l, r) == Precedence(l, r) \in {"<", "="}

(* On what a token may stand, and whether it is one with that. *)
LEMMA Below ==
    /\ \A l : Precedence(l, "REGEX") = "<" <=> l = "BEGIN"
    /\ \A l : Precedence(l, "REGEX") = "=" <=> l = "OPENPAREN"
    /\ \A l : Precedence(l, "OREXP") = "<" <=> l \in {"BEGIN", "OPENPAREN"}
    /\ \A l : Precedence(l, "OREXP") # "="
    /\ \A l : Precedence(l, "SEQUENCE") = "<" <=> l \in {"BEGIN", "OPENPAREN"}
    /\ \A l : Precedence(l, "SEQUENCE") = "=" <=> l = "OR"
    /\ \A l : Precedence(l, "SUB") = "<" <=> l \in {"BEGIN", "OPENPAREN", "OR"}
    /\ \A l : Precedence(l, "SUB") # "="
    /\ \A l : Precedence(l, "EXPRESSION") = "<" <=> l \in {"BEGIN", "OPENPAREN", "OR"}
    /\ \A l : Precedence(l, "EXPRESSION") = "=" <=> l = "SUB"
    /\ \A l : Precedence(l, "REPEAT") = "<" <=> l \in {"BEGIN", "OPENPAREN", "OR", "SUB"}
    /\ \A l : Precedence(l, "REPEAT") # "="
    /\ \A l : Precedence(l, "DUP") # "<"
    /\ \A l : Precedence(l, "DUP") = "=" <=> l = "REPEAT"
BY DEF Precedence, Yields, Joins, Takes, Greedy, Duplicators, Operands, Starts, Followers

(* The same for the tokens that are read. *)
LEMMA BelowRead ==
    /\ \A l : ~ Leans(l, "BEGIN") /\ ~ Leans(l, "END")
    /\ \A l : Precedence(l, "CLOSEPAREN") # "<"
    /\ \A l : Precedence(l, "CLOSEPAREN") = "=" <=> l = "REGEX"
    /\ \A l : Precedence(l, "OR") # "<"
    /\ \A l : Precedence(l, "OR") = "=" <=> l = "OREXP"
    /\ \A l : \A r \in {"CHARSET", "BOL", "EOL", "OPENPAREN"} :
          /\ Precedence(l, r) # "="
          /\ Precedence(l, r) = "<" <=> l \in {"BEGIN", "OPENPAREN", "OR", "SUB"}
    /\ \A l : \A r \in Duplicators :
          /\ Precedence(l, r) # "="
          /\ Precedence(l, r) = "<" <=> l = "REPEAT" \/ (l \in Greedy /\ r = "OPT")
<1>1. \A l : ~ Leans(l, "BEGIN") /\ ~ Leans(l, "END")
  BY DEF Leans, Precedence, Yields, Joins, Takes, Greedy, Duplicators, Operands, Starts,
     Followers
<1>2. /\ \A l : Precedence(l, "CLOSEPAREN") # "<"
      /\ \A l : Precedence(l, "CLOSEPAREN") = "=" <=> l = "REGEX"
      /\ \A l : Precedence(l, "OR") # "<"
      /\ \A l : Precedence(l, "OR") = "=" <=> l = "OREXP"
  BY DEF Precedence, Yields, Joins, Takes, Greedy, Duplicators, Operands, Starts, Followers
<1>3. \A l : \A r \in {"CHARSET", "BOL", "EOL", "OPENPAREN"} :
          /\ Precedence(l, r) # "="
          /\ Precedence(l, r) = "<" <=> l \in {"BEGIN", "OPENPAREN", "OR", "SUB"}
  BY DEF Precedence, Yields, Joins, Takes, Greedy, Duplicators, Operands, Starts, Followers
<1>4. \A l : \A r \in Duplicators :
          /\ Precedence(l, r) # "="
          /\ Precedence(l, r) = "<" <=> l = "REPEAT" \/ (l \in Greedy /\ r = "OPT")
  BY DEF Precedence, Yields, Joins, Takes, Greedy, Duplicators, Operands, Starts, Followers
<1> QED
  BY <1>1, <1>2, <1>3, <1>4

(* What may come next in a rule when a token is the top of the stack. *)
Allowed(l) ==
    CASE l \in {"OREXP", "SEQUENCE"} -> {"OR", "CLOSEPAREN", "END"}
      [] l = "REGEX" -> {"CLOSEPAREN", "END"}
      [] l \in {"SUB", "EXPRESSION", "DUP"} -> Followers
      [] l \in {"REPEAT", "CLOSEPAREN", "CHARSET", "BOL", "EOL"} ->
            Followers \cup Duplicators
      [] l \in Greedy -> Followers \cup {"OPT"}
      [] l \in Duplicators \ Greedy -> Followers
      [] l = "BEGIN" -> Starts \cup {"END"}
      [] l \in {"OPENPAREN", "OR"} -> Starts
      [] OTHER -> {}

(* It may meet the top; what a rule has behind a token is allowed on it;   *)
(* and only where the table says ">" is anything reduced.                  *)
LEMMA AllowedMeets ==
    /\ \A l : \A r \in Allowed(l) : Precedence(l, r) # " "
    /\ \A l, r \in Terminals : Meet(l, r) => r \in Allowed(l)
    /\ \A r : ~ Leans("DUP", r)
    /\ \A l \in Greedy : \A r : Leans(l, r) => r = "OPT"
<1>1. \A l : \A r \in Allowed(l) : Precedence(l, r) # " "
  BY DEF Allowed, Precedence, Yields, Joins, Takes, Greedy, Duplicators, Operands, Starts,
     Followers
<1>2. \A l, r \in Terminals : Meet(l, r) => r \in Allowed(l)
  BY DEF Allowed, Meet, Precedence, Yields, Joins, Takes, Greedy, Duplicators, Operands,
     Starts, Followers, Terminals
<1>3. \A r : ~ Leans("DUP", r)
  BY DEF Leans, Precedence, Yields, Joins, Takes, Greedy, Duplicators, Operands, Starts,
     Followers
<1>4. \A l \in Greedy : \A r : Leans(l, r) => r = "OPT"
  BY DEF Leans, Precedence, Yields, Joins, Takes, Greedy, Duplicators, Operands, Starts,
     Followers
<1> QED
  BY <1>1, <1>2, <1>3, <1>4

(* Where l is reduced because r comes next. *)
Ripe(l, r) == r \in Allowed(l) /\ Precedence(l, r) = ">"

(* What is allowed on what it is reduced to. *)
LEMMA RipeAllowed ==
    /\ \A r : Ripe("REGEX", r) => r = "END"
    /\ \A r : Ripe("OREXP", r) => r \in Allowed("REGEX")
    /\ \A r : Ripe("SEQUENCE", r) => r \in Allowed("OREXP")
    /\ \A r : Ripe("SUB", r) => r \in Allowed("SEQUENCE")
    /\ \A r : Ripe("EXPRESSION", r) => r \in Allowed("SUB")
    /\ \A r : Ripe("REPEAT", r) => r \in Allowed("EXPRESSION")
    /\ \A r : Ripe("DUP", r) => r \in Allowed("REPEAT")
    /\ \A l \in {"CLOSEPAREN", "CHARSET", "BOL", "EOL"} :
          \A r : Ripe(l, r) => r \in Allowed("REPEAT")
    /\ \A l \in Duplicators : \A r : Ripe(l, r) => r \in Allowed("DUP")
    /\ \A l : \A r : Ripe(l, r) =>
          l \in {"BEGIN", "CHARSET", "BOL", "EOL", "CLOSEPAREN"} \cup Duplicators \cup Reduced
<1>1. /\ \A r : Ripe("REGEX", r) => r = "END"
      /\ \A r : Ripe("OREXP", r) => r \in Allowed("REGEX")
      /\ \A r : Ripe("SEQUENCE", r) => r \in Allowed("OREXP")
  BY DEF Ripe, Allowed, Precedence, Yields, Joins, Takes, Greedy, Duplicators, Operands,
     Starts, Followers
<1>2. /\ \A r : Ripe("SUB", r) => r \in Allowed("SEQUENCE")
      /\ \A r : Ripe("EXPRESSION", r) => r \in Allowed("SUB")
      /\ \A r : Ripe("REPEAT", r) => r \in Allowed("EXPRESSION")
      /\ \A r : Ripe("DUP", r) => r \in Allowed("REPEAT")
  BY DEF Ripe, Allowed, Precedence, Yields, Joins, Takes, Greedy, Duplicators, Operands,
     Starts, Followers
<1>3. \A l \in {"CLOSEPAREN", "CHARSET", "BOL", "EOL"} :
          \A r : Ripe(l, r) => r \in Allowed("REPEAT")
  BY DEF Ripe, Allowed, Precedence, Yields, Joins, Takes, Greedy, Duplicators, Operands,
     Starts, Followers
<1>4. \A l \in Duplicators : \A r : Ripe(l, r) => r \in Allowed("DUP")
  BY DEF Ripe, Allowed, Precedence, Yields, Joins, Takes, Greedy, Duplicators, Operands,
     Starts, Followers
<1>5. \A l : \A r : Ripe(l, r) =>
          l \in {"BEGIN", "CHARSET", "BOL", "EOL", "CLOSEPAREN"} \cup Duplicators \cup Reduced
  BY DEF Ripe, Allowed, Precedence, Yields, Joins, Takes, Greedy, Duplicators, Operands,
     Starts, Followers, Reduced
<1> QED
  BY <1>1, <1>2, <1>3, <1>4, <1>5

-----------------------------------------------------------------------------
(* The stack while a rule is parsed.                                       *)

(* d is how deep the tokens ts are, e how deep those of the stack s are;   *)
(* the stack is as deep as the tokens before the i-th.                     *)
Level(s, ts, i) ==
    \E d, e : /\ Depths(d, ts) /\ d[0] = 0 /\ d[Len(ts)] = 0
              /\ Depths(e, s) /\ e[0] = 0
              /\ e[Len(s)] = d[i - 1]

(* The tokens of the stack s when the i-th of ts comes next: each leans on *)
(* the one below; a duplicator on a greedy one is all that may be wrong,   *)
(* and only in a rule with a lazy repeat torn apart.                       *)
Piled(s, ts, i) ==
    /\ StackOk(s) /\ Len(s) >= 1 /\ i \in 2 .. Len(ts)
    /\ s[1].type = "BEGIN"
    /\ \A k \in 1 .. Len(s) - 1 :
          \/ Leans(s[k].type, s[k + 1].type)
          \/ k = Len(s) - 1 /\ s[k].type \in Greedy /\ s[k + 1].type = "DUP"
    /\ \A k \in 1 .. Len(s) - 1 : s[k].type \in Greedy => SplitLazy(ts)
    /\ s[Len(s)].type \in Greedy => ts[i - 1].type \in Greedy
    /\ s[Len(s)].type = "CLOSEPAREN" => Len(s) >= 3 /\ s[Len(s) - 2].type = "OPENPAREN"
    /\ ts[i].type \in Allowed(s[Len(s)].type)
    /\ Level(s, ts, i)

(* The tokens of a rule, one after another. *)
LEMMA WholeTokens ==
    ASSUME NEW ts, Whole(ts)
    PROVE  /\ Len(ts) \in Nat /\ Len(ts) >= 3 /\ SeqOk(ts)
           /\ \A k \in 1 .. Len(ts) : ts[k].type \in Terminals /\ TokenOk(ts[k])
           /\ \A k \in 1 .. Len(ts) - 1 : Meet(ts[k].type, ts[k + 1].type)
           /\ ts[1].type = "BEGIN" /\ ts[Len(ts)].type = "END"
           /\ \A k \in 1 .. Len(ts) - 1 : ts[k].type # "END"
<1>1. SeqOk(ts) /\ Spelled(ts) /\ Len(ts) >= 3 /\ ts[1].type = "BEGIN" /\ ts[Len(ts)].type = "END"
  BY DEF Whole, Reading
<1>2. Len(ts) \in Nat /\ \A k \in 1 .. Len(ts) : TokenOk(ts[k])
  BY <1>1, SeqTokens
<1>3. /\ \A k \in 1 .. Len(ts) : ts[k].type \in Terminals
      /\ \A k \in 1 .. Len(ts) - 1 : Meet(ts[k].type, ts[k + 1].type)
  BY <1>1, SpelledMeets
<1>4. \A k \in 1 .. Len(ts) - 1 : ts[k].type # "END"
  BY <1>3, Neighbours
<1> QED
  BY <1>1, <1>2, <1>3, <1>4

(* A stack with one token more is as deep as the tokens with it. *)
LEMMA LevelUp ==
    ASSUME NEW s, StackOk(s), NEW ts, Len(ts) \in Nat, NEW i \in 2 .. Len(ts),
           Level(s, ts, i), StackToken(ts[i])
    PROVE  Level(Append(s, ts[i]), ts, i + 1)
<1> DEFINE n == Len(s)
           x == ts[i]
           t == Append(s, x)
<1>1. PICK d, e : /\ Depths(d, ts) /\ d[0] = 0 /\ d[Len(ts)] = 0
                  /\ Depths(e, s) /\ e[0] = 0 /\ e[n] = d[i - 1]
  BY DEF Level
<1>2. /\ n \in Nat /\ Len(t) = n + 1 /\ t[n + 1] = x
      /\ \A k \in 1 .. n : t[k] = s[k]
  BY StackTokens, StackAppend
<1>3. /\ e \in [0 .. n -> Nat]
      /\ \A k \in 1 .. n : e[k] = e[k - 1] + Change(s[k].type)
  BY <1>1 DEF Depths
<1>4. d[i] \in Nat /\ d[i] = d[i - 1] + Change(x.type)
  <2>1. i \in 1 .. Len(ts) /\ i \in 0 .. Len(ts)
    OBVIOUS
  <2> QED
    BY <1>1, <2>1 DEF Depths
<1> HIDE DEF n, x, t
<1> DEFINE f == [k \in 0 .. n + 1 |-> IF k = n + 1 THEN d[i] ELSE e[k]]
<1>5. /\ f \in [0 .. n + 1 -> Nat] /\ f[n + 1] = d[i] /\ \A k \in 0 .. n : f[k] = e[k]
  <2>1. \A k \in 0 .. n + 1 : k # n + 1 => k \in 0 .. n
    BY <1>2
  <2>2. n + 1 \in 0 .. n + 1 /\ \A k \in 0 .. n : k \in 0 .. n + 1 /\ k # n + 1
    BY <1>2
  <2> QED
    BY <1>3, <1>4, <2>1, <2>2
<1> HIDE DEF f
<1>6. ASSUME NEW k \in 1 .. n + 1
      PROVE  f[k] = f[k - 1] + Change(t[k].type)
  <2>1. CASE k = n + 1
    <3>1. k - 1 = n /\ n \in 0 .. n
      BY <1>2, <2>1
    <3> QED
      BY <1>1, <1>2, <1>4, <1>5, <2>1, <3>1
  <2>2. CASE k # n + 1
    <3>1. k \in 1 .. n /\ k \in 0 .. n /\ k - 1 \in 0 .. n
      BY <1>2, <2>2
    <3> QED
      BY <1>2, <1>3, <1>5, <3>1
  <2> QED
    BY <2>1, <2>2
<1>7. Depths(f, t) /\ f[Len(t)] = d[i]
  BY <1>2, <1>5, <1>6 DEF Depths
<1>8. f[0] = 0
  <2>1. 0 \in 0 .. n
    BY <1>2
  <2> QED
    BY <1>1, <1>5, <2>1
<1>9. (i + 1) - 1 = i
  OBVIOUS
<1> QED
  BY <1>1, <1>7, <1>8, <1>9 DEF Level, t, x

(* What is below a place is as deep as all, if what is above it cancels    *)
(* out.                                                                    *)
LEMMA LevelBelow ==
    ASSUME NEW s, StackOk(s), NEW ts, NEW i, Level(s, ts, i), NEW h \in 1 .. Len(s),
           \A e : Depths(e, s) => e[Len(s)] = e[h - 1],
           NEW t, StackOk(t), Len(t) = h - 1 \/ Len(t) = h,
           \A k \in 1 .. h - 1 : t[k] = s[k],
           Len(t) = h => Change(t[h].type) = 0
    PROVE  Level(t, ts, i)
<1> DEFINE n == Len(s)
           m == Len(t)
<1>1. PICK d, e : /\ Depths(d, ts) /\ d[0] = 0 /\ d[Len(ts)] = 0
                  /\ Depths(e, s) /\ e[0] = 0 /\ e[n] = d[i - 1]
  BY DEF Level
<1>2. n \in Nat /\ m \in Nat /\ h \in 1 .. n /\ (m = h - 1 \/ m = h)
  BY StackTokens
<1>3. /\ e \in [0 .. n -> Nat] /\ e[n] = e[h - 1]
      /\ \A k \in 1 .. n : e[k] = e[k - 1] + Change(s[k].type)
  BY <1>1 DEF Depths
<1> HIDE DEF n, m
<1> DEFINE f == [k \in 0 .. m |-> IF k = h THEN e[h - 1] ELSE e[k]]
<1>4. /\ f \in [0 .. m -> Nat] /\ \A k \in 0 .. h - 1 : f[k] = e[k]
      /\ m = h => f[h] = e[h - 1]
  <2>1. \A k \in 0 .. m : k \in 0 .. n
    BY <1>2
  <2>2. h - 1 \in 0 .. n /\ \A k \in 0 .. h - 1 : k # h /\ k \in 0 .. m
    BY <1>2
  <2>3. m = h => h \in 0 .. m
    BY <1>2
  <2> QED
    BY <1>3, <2>1, <2>2, <2>3
<1> HIDE DEF f
<1>5. ASSUME NEW k \in 1 .. m
      PROVE  f[k] = f[k - 1] + Change(t[k].type)
  <2>1. CASE k = h
    <3>1. m = h /\ h - 1 \in 0 .. h - 1 /\ h - 1 \in 0 .. n
      BY <1>2, <2>1
    <3>2. Change(t[h].type) = 0
      BY <3>1 DEF m
    <3>3. f[h] = e[h - 1] /\ f[h - 1] = e[h - 1] /\ e[h - 1] \in Nat
      BY <1>3, <1>4, <3>1
    <3> QED
      BY <2>1, <3>2, <3>3
  <2>2. CASE k # h
    <3>1. k \in 1 .. h - 1 /\ k \in 0 .. h - 1 /\ k - 1 \in 0 .. h - 1 /\ k \in 1 .. n
      BY <1>2, <2>2
    <3>2. t[k] = s[k]
      BY <3>1
    <3> QED
      BY <1>3, <1>4, <3>1, <3>2
  <2> QED
    BY <2>1, <2>2
<1>6. Depths(f, t)
  BY <1>4, <1>5 DEF Depths, m
<1>7. f[0] = 0 /\ f[m] = e[n]
  <2>1. 0 \in 0 .. h - 1 /\ h - 1 \in 0 .. h - 1
    BY <1>2
  <2> QED
    BY <1>1, <1>2, <1>3, <1>4, <2>1
<1> QED
  BY <1>1, <1>6, <1>7 DEF Level, m, n

(* The parts of a stack one by one. *)
LEMMA PiledParts ==
    ASSUME NEW s, NEW ts, NEW i, Piled(s, ts, i)
    PROVE  /\ StackOk(s) /\ Len(s) \in Nat /\ Len(s) >= 1 /\ i \in 2 .. Len(ts)
           /\ s[1].type = "BEGIN" /\ Level(s, ts, i)
           /\ \A k \in 1 .. Len(s) - 2 : Leans(s[k].type, s[k + 1].type)
           /\ \A k \in 2 .. Len(s) : s[k].type # "BEGIN"
           /\ ts[i].type \in Allowed(s[Len(s)].type)
<1> DEFINE n == Len(s)
<1>1. /\ StackOk(s) /\ n >= 1 /\ i \in 2 .. Len(ts)
      /\ s[1].type = "BEGIN" /\ Level(s, ts, i)
      /\ \A k \in 1 .. n - 1 :
            \/ Leans(s[k].type, s[k + 1].type)
            \/ k = n - 1 /\ s[k].type \in Greedy /\ s[k + 1].type = "DUP"
      /\ ts[i].type \in Allowed(s[n].type)
  BY DEF Piled
<1>2. n \in Nat
  BY <1>1, StackTokens
<1> HIDE DEF n
<1>3. \A k \in 1 .. n - 2 : Leans(s[k].type, s[k + 1].type)
  <2>1. \A k \in 1 .. n - 2 : k \in 1 .. n - 1 /\ k # n - 1
    BY <1>2
  <2> QED
    BY <1>1, <2>1
<1>4. ASSUME NEW k \in 2 .. n, s[k].type = "BEGIN"
      PROVE  FALSE
  <2>1. k - 1 \in 1 .. n - 1 /\ (k - 1) + 1 = k
    BY <1>2
  <2>2. Leans(s[k - 1].type, s[k].type) \/ s[k].type = "DUP"
    BY <1>1, <2>1
  <2> QED
    BY <1>4, <2>2, BelowRead
<1> QED
  BY <1>1, <1>2, <1>3, <1>4 DEF n

(* Under a close parenthesis there is a REGEX, and under that an open one. *)
LEMMA ParenthesesMatch ==
    ASSUME NEW ts, Whole(ts), NEW s, NEW i, Piled(s, ts, i),
           ts[i].type = "CLOSEPAREN", Leans(s[Len(s)].type, "CLOSEPAREN")
    PROVE  Len(s) >= 2 /\ s[Len(s) - 1].type = "OPENPAREN"
<1> DEFINE n == Len(s)
<1>1. /\ n \in Nat /\ n >= 1 /\ s[1].type = "BEGIN" /\ Level(s, ts, i)
      /\ \A k \in 2 .. n : s[k].type # "BEGIN"
      /\ i \in 2 .. Len(ts)
  BY PiledParts
<1>2. s[n].type = "REGEX"
  BY BelowRead DEF Leans
<1>3. /\ \A k \in 1 .. n - 1 :
            \/ Leans(s[k].type, s[k + 1].type)
            \/ k = n - 1 /\ s[k].type \in Greedy /\ s[k + 1].type = "DUP"
  BY DEF Piled
<1> HIDE DEF n
<1>4. n >= 2
  <2>1. n # 1
    BY <1>1, <1>2
  <2> QED
    BY <1>1, <2>1
<1>5. s[n - 1].type \in {"BEGIN", "OPENPAREN"}
  <2>1. n - 1 \in 1 .. n - 1 /\ (n - 1) + 1 = n
    BY <1>1, <1>4
  <2>2. Leans(s[n - 1].type, "REGEX")
    BY <1>2, <1>3, <2>1
  <2> QED
    BY <2>2, Below DEF Leans
<1>6. ASSUME s[n - 1].type = "BEGIN"
      PROVE  FALSE
  <2>1. n = 2
    <3>1. n - 1 \notin 2 .. n
      BY <1>1, <1>6
    <3> QED
      BY <1>1, <1>4, <3>1
  <2>2. PICK d, e : /\ Depths(d, ts) /\ d[0] = 0 /\ d[Len(ts)] = 0
                    /\ Depths(e, s) /\ e[0] = 0 /\ e[n] = d[i - 1]
    BY <1>1 DEF Level, n
  <2>3. e[1] = e[0] + Change(s[1].type) /\ e[2] = e[1] + Change(s[2].type)
    <3>1. 1 \in 1 .. Len(s) /\ 2 \in 1 .. Len(s) /\ 1 - 1 = 0 /\ 2 - 1 = 1
      BY <2>1 DEF n
    <3> QED
      BY <2>2, <3>1 DEF Depths
  <2>4. Change(s[1].type) = 0 /\ Change(s[2].type) = 0
    <3>1. s[1].type = "BEGIN" /\ s[2].type = "REGEX"
      BY <1>1, <1>2, <2>1
    <3> QED
      BY <3>1, Changes
  <2>5. d[i - 1] = 0
    BY <2>1, <2>2, <2>3, <2>4
  <2>6. d[i] = d[i - 1] + Change(ts[i].type) /\ d[i] \in Nat
    <3>1. i \in 1 .. Len(ts) /\ i \in 0 .. Len(ts)
      BY <1>1
    <3> QED
      BY <2>2, <3>1 DEF Depths
  <2>7. Change(ts[i].type) = -1
    BY Changes
  <2> QED
    BY <2>5, <2>6, <2>7
<1> QED
  BY <1>4, <1>5, <1>6 DEF n

(* A shift. *)
LEMMA ShiftPiles ==
    ASSUME NEW ts, Whole(ts), NEW s, NEW i, Piled(s, ts, i),
           Leans(s[Len(s)].type, ts[i].type)
    PROVE  Piled(Append(s, ts[i]), ts, Lesser(i + 1, Len(ts)))
<1> DEFINE n == Len(s)
           m == Len(ts)
           x == ts[i]
           t == Append(s, x)
<1>1. /\ StackOk(s) /\ n \in Nat /\ n >= 1 /\ i \in 2 .. m
      /\ s[1].type = "BEGIN" /\ Level(s, ts, i)
      /\ \A k \in 1 .. n - 2 : Leans(s[k].type, s[k + 1].type)
  BY PiledParts
<1>2. /\ m \in Nat /\ m >= 3
      /\ \A k \in 1 .. m : ts[k].type \in Terminals /\ TokenOk(ts[k])
      /\ \A k \in 1 .. m - 1 : Meet(ts[k].type, ts[k + 1].type)
      /\ ts[m].type = "END"
  BY WholeTokens
<1>3. StackToken(x)
  <2>1. i \in 1 .. m
    BY <1>1, <1>2
  <2> QED
    BY <1>2, <2>1 DEF StackToken
<1>4. Leans(s[n].type, x.type)
  OBVIOUS
<1>5. i < m /\ Lesser(i + 1, m) = i + 1
  <2>1. i # m
    BY <1>2, <1>4, BelowRead
  <2> HIDE DEF m
  <2> QED
    BY <1>1, <1>2, <2>1 DEF Lesser
<1>6. /\ StackOk(t) /\ Len(t) = n + 1 /\ t[n + 1] = x
      /\ \A k \in 1 .. n : t[k] = s[k]
  BY <1>1, <1>3, StackAppend
<1>7. Level(t, ts, i + 1)
  BY <1>1, <1>2, <1>3, LevelUp
<1>8. /\ \A k \in 1 .. n - 1 :
            \/ Leans(s[k].type, s[k + 1].type)
            \/ k = n - 1 /\ s[k].type \in Greedy /\ s[k + 1].type = "DUP"
      /\ \A k \in 1 .. n - 1 : s[k].type \in Greedy => SplitLazy(ts)
      /\ s[n].type \in Greedy => ts[i - 1].type \in Greedy
  BY DEF Piled
<1>9. x.type = "CLOSEPAREN" => n >= 2 /\ s[n - 1].type = "OPENPAREN"
  BY <1>4, ParenthesesMatch
<1>10. x.type \in Terminals /\ ts[i + 1].type \in Terminals /\ Meet(x.type, ts[i + 1].type)
  <2>1. i \in 1 .. m /\ i + 1 \in 1 .. m /\ i \in 1 .. m - 1
    BY <1>1, <1>2, <1>5
  <2> QED
    BY <1>2, <2>1
<1>11. s[n].type \in Greedy => SplitLazy(ts)
  <2> SUFFICES ASSUME s[n].type \in Greedy
               PROVE  SplitLazy(ts)
    OBVIOUS
  <2>1. ts[i].type = "OPT"
    BY <1>4, AllowedMeets
  <2>2. i - 1 \in 1 .. m - 1 /\ (i - 1) + 1 = i
    BY <1>1, <1>2
  <2> QED
    BY <1>8, <2>1, <2>2 DEF SplitLazy
<1> HIDE DEF n, m, t, x
<1>12. \A k \in 1 .. n : Leans(t[k].type, t[k + 1].type)
  <2> TAKE k \in 1 .. n
  <2>1. CASE k = n
    BY <1>1, <1>4, <1>6, <2>1
  <2>2. CASE k # n
    <3>1. k \in 1 .. n - 1 /\ k + 1 \in 1 .. n
      BY <1>1, <2>2
    <3>2. Leans(s[k].type, s[k + 1].type) \/ (k = n - 1 /\ s[k + 1].type = "DUP")
      BY <1>8, <3>1
    <3>3. ~ (k = n - 1 /\ s[k + 1].type = "DUP")
      <4>1. s[n].type # "DUP"
        BY <1>4, AllowedMeets
      <4>2. k = n - 1 => k + 1 = n
        BY <1>1
      <4> QED
        BY <4>1, <4>2
    <3> QED
      BY <1>6, <3>1, <3>2, <3>3
  <2> QED
    BY <2>1, <2>2
<1>13. \A k \in 1 .. n : t[k].type \in Greedy => SplitLazy(ts)
  <2> TAKE k \in 1 .. n
  <2>1. k = n \/ k \in 1 .. n - 1
    BY <1>1
  <2> QED
    BY <1>6, <1>8, <1>11, <2>1
<1>14. t[1].type = "BEGIN" /\ Len(t) >= 1 /\ (n + 1) - 1 = n /\ i + 1 \in 2 .. m
       /\ (i + 1) - 1 = i
  <2>1. 1 \in 1 .. n
    BY <1>1
  <2>2. Len(t) >= 1 /\ (n + 1) - 1 = n /\ i + 1 \in 2 .. m /\ (i + 1) - 1 = i
    BY <1>1, <1>2, <1>5, <1>6
  <2> QED
    BY <1>1, <1>6, <2>1, <2>2
<1>15. t[n + 1].type = "CLOSEPAREN" => n + 1 >= 3 /\ t[(n + 1) - 2].type = "OPENPAREN"
  <2> SUFFICES ASSUME x.type = "CLOSEPAREN"
               PROVE  n + 1 >= 3 /\ t[(n + 1) - 2].type = "OPENPAREN"
    BY <1>6
  <2>1. n >= 2 /\ s[n - 1].type = "OPENPAREN"
    BY <1>9
  <2>2. n - 1 \in 1 .. n /\ (n + 1) - 2 = n - 1 /\ n + 1 >= 3
    BY <1>1, <2>1
  <2> QED
    BY <1>6, <2>1, <2>2
<1>16. t[n + 1].type \in Greedy => ts[(i + 1) - 1].type \in Greedy
  BY <1>6, <1>14 DEF x
<1>17. ts[i + 1].type \in Allowed(t[n + 1].type)
  BY <1>6, <1>10, AllowedMeets
<1>18. Piled(t, ts, i + 1)
  BY <1>6, <1>7, <1>12, <1>13, <1>14, <1>15, <1>16, <1>17 DEF Piled, m
<1> QED
  BY <1>5, <1>18 DEF t, x, m

(* A reduction: A takes the place of what was from h on. *)
LEMMA ReducePiles ==
    ASSUME NEW ts, NEW s, NEW i, Piled(s, ts, i), NEW h \in 2 .. Len(s),
           NEW type \in Reduced,
           NEW t, StackOk(t), Len(t) = h, \A k \in 1 .. h - 1 : t[k] = s[k],
           t[h] = Token(type),
           \A e : Depths(e, s) => e[Len(s)] = e[h - 1],
           \/ Leans(s[h - 1].type, type)
           \/ s[h - 1].type \in Greedy /\ type = "DUP",
           ts[i].type \in Allowed(type)
    PROVE  Piled(t, ts, i)
<1> DEFINE n == Len(s)
<1>1. /\ StackOk(s) /\ n \in Nat /\ n >= 1 /\ i \in 2 .. Len(ts)
      /\ s[1].type = "BEGIN" /\ Level(s, ts, i)
      /\ \A k \in 1 .. n - 2 : Leans(s[k].type, s[k + 1].type)
  BY PiledParts
<1>2. \A k \in 1 .. n - 1 : s[k].type \in Greedy => SplitLazy(ts)
  BY DEF Piled
<1>3. t[h].type = type
  BY PlainToken
<1>4. Level(t, ts, i)
  <2>1. Change(type) = 0
    BY Changes DEF Reduced
  <2>2. h \in 1 .. Len(s) /\ Len(t) = h
    BY <1>1
  <2> QED
    BY <1>1, <1>3, <2>1, <2>2, LevelBelow
<1> HIDE DEF n
<1>5. h \in 2 .. n
  BY DEF n
<1>6. \A k \in 1 .. h - 1 :
         \/ Leans(t[k].type, t[k + 1].type)
         \/ k = h - 1 /\ t[k].type \in Greedy /\ t[k + 1].type = "DUP"
  <2> TAKE k \in 1 .. h - 1
  <2>1. CASE k = h - 1
    <3>1. k + 1 = h /\ t[k] = s[h - 1]
      BY <1>5, <2>1
    <3> QED
      BY <1>3, <2>1, <3>1
  <2>2. CASE k # h - 1
    <3>1. k \in 1 .. n - 2 /\ k \in 1 .. h - 1 /\ k + 1 \in 1 .. h - 1
      BY <1>1, <1>5, <2>2
    <3>2. t[k] = s[k] /\ t[k + 1] = s[k + 1]
      BY <3>1
    <3> QED
      BY <1>1, <3>1, <3>2
  <2> QED
    BY <2>1, <2>2
<1>7. \A k \in 1 .. h - 1 : t[k].type \in Greedy => SplitLazy(ts)
  <2> TAKE k \in 1 .. h - 1
  <2>1. k \in 1 .. n - 1
    BY <1>1, <1>5
  <2> QED
    BY <1>2, <2>1
<1>8. t[h].type \notin Greedy /\ t[h].type # "CLOSEPAREN"
  BY <1>3 DEF Reduced, Greedy
<1>9. t[1].type = "BEGIN" /\ h >= 1
  <2>1. 1 \in 1 .. h - 1
    BY <1>5
  <2> QED
    BY <1>1, <1>5, <2>1
<1> QED
  BY <1>1, <1>3, <1>4, <1>6, <1>7, <1>8, <1>9 DEF Piled

(* The last reduction but one: BEGIN is left. *)
LEMMA BeginPiles ==
    ASSUME NEW ts, NEW s, NEW i, Piled(s, ts, i), NEW h \in 2 .. Len(s),
           s[h - 1].type = "BEGIN",
           NEW t, StackOk(t), Len(t) = h - 1, \A k \in 1 .. h - 1 : t[k] = s[k],
           \A e : Depths(e, s) => e[Len(s)] = e[h - 1],
           ts[i].type = "END"
    PROVE  Piled(t, ts, i)
<1> DEFINE n == Len(s)
<1>1. /\ StackOk(s) /\ n \in Nat /\ n >= 1 /\ i \in 2 .. Len(ts)
      /\ s[1].type = "BEGIN" /\ Level(s, ts, i)
      /\ \A k \in 2 .. n : s[k].type # "BEGIN"
  BY PiledParts
<1>2. h = 2
  <2>1. h - 1 \notin 2 .. n
    BY <1>1
  <2> HIDE DEF n
  <2>2. h \in 2 .. n
    BY DEF n
  <2> QED
    BY <1>1, <2>1, <2>2
<1>3. Level(t, ts, i)
  <2>1. h \in 1 .. Len(s) /\ Len(t) = h - 1 /\ ~ (Len(t) = h)
    BY <1>1, <1>2
  <2> QED
    BY <1>1, <2>1, LevelBelow
<1>4. Len(t) = 1 /\ t[1].type = "BEGIN"
  <2>1. 1 \in 1 .. h - 1 /\ Len(t) = 1
    BY <1>2
  <2> QED
    BY <1>1, <2>1
<1>5. "BEGIN" \notin Greedy /\ "END" \in Allowed("BEGIN")
  BY DEF Greedy, Allowed, Duplicators
<1> QED
  BY <1>1, <1>3, <1>4, <1>5 DEF Piled

(* The types of the tokens from h to n, *)
TypesOf(s, h, n) == [k \in 1 .. n - h + 1 |-> s[h + k - 1].type]

(* as they are spelled. *)
LEMMA TypesSpelled ==
    ASSUME NEW s, NEW n \in Nat, NEW h \in 1 .. n
    PROVE  /\ \A a : TypesOf(s, h, n) = <<a>> => h = n /\ s[n].type = a
           /\ \A a, b : TypesOf(s, h, n) = <<a, b>> =>
                 h = n - 1 /\ s[n - 1].type = a /\ s[n].type = b
           /\ \A a, b, c : TypesOf(s, h, n) = <<a, b, c>> =>
                 /\ h = n - 2 /\ s[n - 2].type = a
                 /\ s[n - 1].type = b /\ s[n].type = c
           /\ h = n => TypesOf(s, h, n) = <<s[n].type>>
           /\ h = n - 1 => TypesOf(s, h, n) = <<s[n - 1].type, s[n].type>>
           /\ h = n - 2 =>
                 TypesOf(s, h, n) = <<s[n - 2].type, s[n - 1].type, s[n].type>>
<1> DEFINE m == n - h + 1
           types == [k \in 1 .. m |-> s[h + k - 1].type]
<1>1. m \in Nat /\ m >= 1 /\ h = n - m + 1
  OBVIOUS
<1> HIDE DEF m
<1>2. Len(types) = m /\ \A k \in 1 .. m : types[k] = s[h + k - 1].type
  BY <1>1
<1>3. ASSUME NEW a, types = <<a>>
      PROVE  h = n /\ s[n].type = a
  <2>1. m = 1
    BY <1>2, <1>3
  <2>2. h = n /\ 1 \in 1 .. m /\ h + 1 - 1 = n
    BY <1>1, <2>1
  <2>3. types[1] = s[n].type /\ types[1] = a
    BY <1>2, <1>3, <2>2
  <2> QED
    BY <2>2, <2>3
<1>4. ASSUME NEW a, NEW b, types = <<a, b>>
      PROVE  h = n - 1 /\ s[n - 1].type = a /\ s[n].type = b
  <2>1. m = 2
    BY <1>2, <1>4
  <2>2. /\ h = n - 1 /\ 1 \in 1 .. m /\ 2 \in 1 .. m
        /\ h + 1 - 1 = n - 1 /\ h + 2 - 1 = n
    BY <1>1, <2>1
  <2>3. types[1] = s[n - 1].type /\ types[1] = a /\ types[2] = s[n].type /\ types[2] = b
    BY <1>2, <1>4, <2>2
  <2> QED
    BY <2>2, <2>3
<1>5. ASSUME NEW a, NEW b, NEW c, types = <<a, b, c>>
      PROVE  h = n - 2 /\ s[n - 2].type = a /\ s[n - 1].type = b /\ s[n].type = c
  <2>1. m = 3
    BY <1>2, <1>5
  <2>2. /\ h = n - 2 /\ 1 \in 1 .. m /\ 2 \in 1 .. m /\ 3 \in 1 .. m
        /\ h + 1 - 1 = n - 2 /\ h + 2 - 1 = n - 1 /\ h + 3 - 1 = n
    BY <1>1, <2>1
  <2>3. /\ types[1] = s[n - 2].type /\ types[1] = a /\ types[2] = s[n - 1].type
        /\ types[2] = b /\ types[3] = s[n].type /\ types[3] = c
    BY <1>2, <1>5, <2>2
  <2> QED
    BY <2>2, <2>3
<1>6. ASSUME h = n
      PROVE  types = <<s[n].type>>
  <2>1. m = 1 /\ h + 1 - 1 = n
    BY <1>1, <1>6
  <2>2. \A k \in 1 .. 1 : s[h + k - 1].type = s[n].type
    BY <2>1
  <2> QED
    BY <2>1, <2>2
<1>7. ASSUME h = n - 1
      PROVE  types = <<s[n - 1].type, s[n].type>>
  <2>1. m = 2 /\ h + 1 - 1 = n - 1 /\ h + 2 - 1 = n
    BY <1>1, <1>7
  <2>2. /\ types = [k \in 1 .. 2 |-> types[k]]
        /\ types[1] = s[n - 1].type /\ types[2] = s[n].type
    <3>1. 1 \in 1 .. m /\ 2 \in 1 .. m
      BY <2>1
    <3> QED
      BY <1>2, <2>1, <3>1
  <2> HIDE DEF types
  <2> QED
    BY <2>2
<1>8. ASSUME h = n - 2
      PROVE  types = <<s[n - 2].type, s[n - 1].type, s[n].type>>
  <2>1. m = 3 /\ h + 1 - 1 = n - 2 /\ h + 2 - 1 = n - 1 /\ h + 3 - 1 = n
    BY <1>1, <1>8
  <2>2. /\ types = [k \in 1 .. 3 |-> types[k]]
        /\ types[1] = s[n - 2].type /\ types[2] = s[n - 1].type /\ types[3] = s[n].type
    <3>1. 1 \in 1 .. m /\ 2 \in 1 .. m /\ 3 \in 1 .. m
      BY <2>1
    <3> QED
      BY <1>2, <2>1, <3>1
  <2> HIDE DEF types
  <2> QED
    BY <2>2
<1>9. types = TypesOf(s, h, n)
  BY DEF TypesOf, m
<1> HIDE DEF types
<1> QED
  BY <1>3, <1>4, <1>5, <1>6, <1>7, <1>8, <1>9

(* The handle, as it is spelled. *)
LEMMA HandleItems ==
    ASSUME StackOk(token_stack), token_stack # <<>>,
           NEW s, s = token_stack, NEW n, n = Len(token_stack),
           NEW h, h = HandleStart
    PROVE  /\ n \in Nat /\ n >= 1 /\ h \in 1 .. n
           /\ \A a : handle = <<a>> => h = n /\ s[n].type = a
           /\ \A a, b : handle = <<a, b>> =>
                 h = n - 1 /\ s[n - 1].type = a /\ s[n].type = b
           /\ \A a, b, c : handle = <<a, b, c>> =>
                 /\ h = n - 2 /\ s[n - 2].type = a
                 /\ s[n - 1].type = b /\ s[n].type = c
           /\ h = n => handle = <<s[n].type>>
           /\ h = n - 1 => handle = <<s[n - 1].type, s[n].type>>
           /\ h = n - 2 => handle = <<s[n - 2].type, s[n - 1].type, s[n].type>>
<1>1. n \in Nat /\ n >= 1 /\ h \in 1 .. n
  BY HandleExists, StackTokens
<1>2. handle = TypesOf(s, h, n)
  BY DEF handle, TypesOf
<1>3. /\ \A a : TypesOf(s, h, n) = <<a>> => h = n /\ s[n].type = a
      /\ \A a, b : TypesOf(s, h, n) = <<a, b>> =>
            h = n - 1 /\ s[n - 1].type = a /\ s[n].type = b
      /\ \A a, b, c : TypesOf(s, h, n) = <<a, b, c>> =>
            /\ h = n - 2 /\ s[n - 2].type = a
            /\ s[n - 1].type = b /\ s[n].type = c
      /\ h = n => TypesOf(s, h, n) = <<s[n].type>>
      /\ h = n - 1 => TypesOf(s, h, n) = <<s[n - 1].type, s[n].type>>
      /\ h = n - 2 =>
            TypesOf(s, h, n) = <<s[n - 2].type, s[n - 1].type, s[n].type>>
  BY <1>1, TypesSpelled
<1> QED
  BY <1>1, <1>2, <1>3

(* What is as deep as what follows it. *)
LEMMA SameLevel ==
    ASSUME NEW s, NEW e, Depths(e, s), NEW n \in Nat, n = Len(s)
    PROVE  /\ n >= 1 /\ Change(s[n].type) = 0 => e[n] = e[n - 1]
           /\ n >= 2 /\ Change(s[n].type) = 0 /\ Change(s[n - 1].type) = 0 =>
                 e[n] = e[(n - 1) - 1]
           /\ /\ n >= 3 /\ Change(s[n].type) = -1 /\ Change(s[n - 1].type) = 0
              /\ Change(s[n - 2].type) = 1
              => e[n] = e[(n - 2) - 1]
<1>1. /\ e \in [0 .. n -> Nat]
      /\ \A k \in 1 .. n : e[k] = e[k - 1] + Change(s[k].type)
  BY DEF Depths
<1>2. ASSUME n >= 1
      PROVE  e[n] = e[n - 1] + Change(s[n].type) /\ e[n - 1] \in Nat
  BY <1>1, <1>2
<1>3. ASSUME n >= 2
      PROVE  e[n - 1] = e[(n - 1) - 1] + Change(s[n - 1].type) /\ e[(n - 1) - 1] \in Nat
  <2>1. n - 1 \in 1 .. n /\ (n - 1) - 1 \in 0 .. n
    BY <1>3
  <2> QED
    BY <1>1, <2>1
<1>4. ASSUME n >= 3
      PROVE  /\ e[n - 2] = e[(n - 2) - 1] + Change(s[n - 2].type)
             /\ e[(n - 2) - 1] \in Nat /\ (n - 1) - 1 = n - 2
  <2>1. n - 2 \in 1 .. n /\ (n - 2) - 1 \in 0 .. n /\ (n - 1) - 1 = n - 2
    BY <1>4
  <2>2. e[n - 2] = e[(n - 2) - 1] + Change(s[n - 2].type) /\ e[(n - 2) - 1] \in Nat
    BY <1>1, <2>1
  <2> QED
    BY <2>1, <2>2
<1>5. n >= 1 /\ Change(s[n].type) = 0 => e[n] = e[n - 1]
  BY <1>2
<1>6. n >= 2 /\ Change(s[n].type) = 0 /\ Change(s[n - 1].type) = 0 => e[n] = e[(n - 1) - 1]
  BY <1>2, <1>3
<1>7. ASSUME n >= 3, Change(s[n].type) = -1, Change(s[n - 1].type) = 0,
             Change(s[n - 2].type) = 1
      PROVE  e[n] = e[(n - 2) - 1]
  <2>1. e[n] = e[n - 1] + (-1) /\ e[n - 1] = e[n - 2] + 0 /\ e[n - 2] = e[(n - 2) - 1] + 1
    BY <1>2, <1>3, <1>4, <1>7
  <2>2. e[(n - 2) - 1] \in Nat
    BY <1>4, <1>7
  <2> QED
    BY <2>1, <2>2
<1> QED
  BY <1>5, <1>6, <1>7

-----------------------------------------------------------------------------
(* Every step of the parser.                                               *)

(* What holds of the stack wherever the compiler is. *)
PileInv ==
    /\ pc = "shift" /\ token_stack # <<>> => Piled(token_stack, rule_tokens, next_token)
    /\ pc \notin {"shift", "abort"} => token_stack = <<>>
    /\ pc = "abort" => SplitLazy(rule_tokens)

(* The reader, what it has read, and the parser. *)
AcceptInv == CompileInv /\ ReadInv /\ PileInv

(* The parser in the middle of a rule. *)
LEMMA InRule ==
    ASSUME AcceptInv, pc = "shift", token_stack # <<>>
    PROVE  /\ Whole(rule_tokens) /\ StackOk(token_stack)
           /\ Piled(token_stack, rule_tokens, next_token)
<1>1. rule \in 1 .. Len(regexes) /\ StackOk(token_stack)
  BY DEF AcceptInv, CompileInv, ParserInv
<1>2. Whole(rule_tokens)
  BY <1>1 DEF AcceptInv, ReadInv, RulesWhole, rule_tokens
<1> QED
  BY <1>1, <1>2 DEF AcceptInv, PileInv

(* It may go on with what is on the stack after a step. *)
LEMMA GoesOn ==
    ASSUME pc' = "shift", UNCHANGED ruleVars, rule' = rule,
           token_stack' # <<>> => Piled(token_stack', rule_tokens, next_token')
    PROVE  PileInv'
<1>1. rule_tokens' = rule_tokens
  BY DEF ruleVars, rules, rule_tokens
<1> QED
  BY <1>1 DEF PileInv

(* The first token. *)
LEMMA BeginRulePiles ==
    ASSUME AcceptInv, BeginRule, UNCHANGED ruleVars
    PROVE  PileInv'
<1> DEFINE ts == rule_tokens
           s == <<ts[1]>>
<1>1. /\ rule \in Nat \ {0} /\ rule <= Len(regexes) /\ RegexesOk
      /\ token_stack' = s /\ next_token' = 2 /\ pc' = "shift" /\ rule' = rule
  BY DEF BeginRule, AcceptInv, CompileInv, RulesInv, ParserInv
<1>2. Whole(ts)
  <2>1. rule \in 1 .. Len(regexes)
    BY <1>1 DEF RegexesOk
  <2> QED
    BY <2>1 DEF AcceptInv, ReadInv, RulesWhole, rule_tokens
<1>3. /\ Len(ts) \in Nat /\ Len(ts) >= 3
      /\ \A k \in 1 .. Len(ts) : ts[k].type \in Terminals /\ TokenOk(ts[k])
      /\ \A k \in 1 .. Len(ts) - 1 : Meet(ts[k].type, ts[k + 1].type)
      /\ ts[1].type = "BEGIN"
  BY <1>2, WholeTokens
<1>4. PICK d : Depths(d, ts) /\ d[0] = 0 /\ d[Len(ts)] = 0
  BY <1>2 DEF Whole, Reading, Nested
<1> HIDE DEF ts
<1>5. /\ 1 \in 1 .. Len(ts) /\ 1 \in 1 .. Len(ts) - 1 /\ 2 \in 1 .. Len(ts)
      /\ 2 \in 2 .. Len(ts) /\ 1 \in 0 .. Len(ts) /\ 1 + 1 = 2 /\ 2 - 1 = 1 /\ 1 - 1 = 0
  BY <1>3
<1>6. StackOk(s) /\ Len(s) = 1 /\ s[1] = ts[1]
  BY <1>3, <1>5, StackOne DEF StackToken
<1>7. ts[2].type \in Allowed(s[1].type)
  BY <1>3, <1>5, <1>6, AllowedMeets
<1>8. d[1] = 0
  <2>1. d[1] = d[0] + Change(ts[1].type)
    BY <1>4, <1>5 DEF Depths
  <2>2. Change(ts[1].type) = 0
    BY <1>3, Changes
  <2> QED
    BY <1>4, <2>1, <2>2
<1> HIDE DEF s
<1>9. Level(s, ts, 2)
  <2> DEFINE e == [k \in 0 .. 1 |-> 0]
  <2>1. e \in [0 .. Len(s) -> Nat] /\ e[0] = 0 /\ e[1] = 0
    BY <1>6
  <2>2. \A k \in 1 .. Len(s) : e[k] = e[k - 1] + Change(s[k].type)
    <3>1. \A k \in 1 .. Len(s) : k = 1
      BY <1>6
    <3>2. Change(s[1].type) = 0
      BY <1>3, <1>6, Changes
    <3>3. e[1] = e[0] + Change(s[1].type)
      BY <2>1, <3>2
    <3> HIDE DEF e
    <3> QED
      BY <1>5, <3>1, <3>3
  <2> HIDE DEF e
  <2>3. Depths(e, s) /\ e[0] = 0 /\ e[Len(s)] = d[2 - 1]
    BY <1>5, <1>6, <1>8, <2>1, <2>2 DEF Depths
  <2> QED
    BY <1>4, <2>3 DEF Level
<1>10. Piled(s, ts, 2)
  <2>1. 1 .. Len(s) - 1 = {}
    BY <1>6
  <2>2. "BEGIN" \notin Greedy /\ s[1].type = "BEGIN"
    BY <1>3, <1>6 DEF Greedy
  <2> QED
    BY <1>5, <1>6, <1>7, <1>9, <2>1, <2>2 DEF Piled
<1> QED
  BY <1>1, <1>10, GoesOn DEF ts, s

(* A token more. *)
LEMMA ShiftStepPiles ==
    ASSUME AcceptInv, Shift, UNCHANGED ruleVars
    PROVE  PileInv'
<1>1. /\ pc = "shift" /\ token_stack # <<>> /\ action \in {"<", "="}
      /\ token_stack' = Append(token_stack, rhs_token)
      /\ next_token' = Lesser(next_token + 1, Len(rule_tokens))
      /\ pc' = "shift" /\ rule' = rule
  BY DEF Shift
<1>2. Leans(token_stack[Len(token_stack)].type, rule_tokens[next_token].type)
  BY <1>1 DEF Leans, action, Last, rhs_token
<1>3. Piled(token_stack', rule_tokens, next_token')
  BY <1>1, <1>2, InRule, ShiftPiles DEF rhs_token
<1> QED
  BY <1>1, <1>3, GoesOn

(* No two tokens meet that may not. *)
LEMMA NoSyntaxError ==
    ASSUME AcceptInv
    PROVE  ~ SyntaxError
<1> SUFFICES ASSUME SyntaxError
             PROVE  FALSE
  OBVIOUS
<1>1. pc = "shift" /\ token_stack # <<>> /\ action = " "
  BY DEF SyntaxError
<1>2. rule_tokens[next_token].type \in Allowed(token_stack[Len(token_stack)].type)
  BY <1>1, InRule, PiledParts
<1> QED
  BY <1>1, <1>2, AllowedMeets DEF action, Last, rhs_token

(* The parser about to reduce: where the handle starts, what is below it,  *)
(* and that what comes next asks for it.                                   *)
LEMMA ReducingParts ==
    ASSUME AcceptInv, Reducing, NEW s, s = token_stack, NEW n, n = Len(token_stack),
           NEW h, h = HandleStart, NEW r, r = rule_tokens[next_token].type
    PROVE  /\ Whole(rule_tokens) /\ StackOk(s) /\ Piled(s, rule_tokens, next_token)
           /\ n \in Nat /\ n >= 1 /\ h \in 1 .. n /\ s[1].type = "BEGIN"
           /\ \A k \in 2 .. n : s[k].type # "BEGIN"
           /\ Ripe(s[n].type, r)
           /\ HandleFound /\ h # 1 => h \in 2 .. n /\ Precedence(s[h - 1].type, s[h].type) = "<"
<1>1. pc = "shift" /\ token_stack # <<>> /\ action = ">"
  BY DEF Reducing
<1>2. Whole(rule_tokens) /\ StackOk(s) /\ Piled(s, rule_tokens, next_token)
  BY <1>1, InRule
<1>3. /\ s[1].type = "BEGIN" /\ r \in Allowed(s[n].type)
      /\ \A k \in 2 .. n : s[k].type # "BEGIN"
  BY <1>2, PiledParts
<1>4. n \in Nat /\ n >= 1 /\ h \in 1 .. n
  BY <1>1, <1>2, HandleItems
<1>5. Ripe(s[n].type, r)
  BY <1>1, <1>3 DEF Ripe, action, Last, rhs_token
<1>6. ASSUME HandleFound, h # 1
      PROVE  h \in 2 .. n /\ Precedence(s[h - 1].type, s[h].type) = "<"
  <2>1. h \in 2 .. n /\ h > 1
    BY <1>4, <1>6
  <2>2. Joint(h) = "<"
    BY <1>6, <2>1 DEF HandleFound
  <2> QED
    BY <2>1, <2>2 DEF Joint
<1> QED
  BY <1>2, <1>3, <1>4, <1>5, <1>6

(* A handle that is one token, two tokens, or something in parentheses is  *)
(* as deep as what is below it.                                            *)
LEMMA HandleLevel ==
    ASSUME AcceptInv, Reducing,
           \/ \E a : handle = <<a>> /\ Change(a) = 0
           \/ \E a, b : handle = <<a, b>> /\ Change(a) = 0 /\ Change(b) = 0
           \/ handle = <<"OPENPAREN", "REGEX", "CLOSEPAREN">>
    PROVE  \A e : Depths(e, token_stack) =>
               e[Len(token_stack)] = e[HandleStart - 1]
<1> SUFFICES ASSUME NEW e, Depths(e, token_stack)
             PROVE  e[Len(token_stack)] = e[HandleStart - 1]
  OBVIOUS
<1> DEFINE s == token_stack
           n == Len(token_stack)
           h == HandleStart
<1>1. StackOk(s) /\ s # <<>>
  BY DEF AcceptInv, CompileInv, ParserInv, Reducing
<1>2. /\ n \in Nat /\ n >= 1 /\ h \in 1 .. n
      /\ \A a : handle = <<a>> => h = n /\ s[n].type = a
      /\ \A a, b : handle = <<a, b>> =>
            h = n - 1 /\ s[n - 1].type = a /\ s[n].type = b
      /\ \A a, b, c : handle = <<a, b, c>> =>
            /\ h = n - 2 /\ s[n - 2].type = a
            /\ s[n - 1].type = b /\ s[n].type = c
  BY <1>1, HandleItems
<1>3. /\ n >= 1 /\ Change(s[n].type) = 0 => e[n] = e[n - 1]
      /\ n >= 2 /\ Change(s[n].type) = 0 /\ Change(s[n - 1].type) = 0 =>
            e[n] = e[(n - 1) - 1]
      /\ /\ n >= 3 /\ Change(s[n].type) = -1 /\ Change(s[n - 1].type) = 0
         /\ Change(s[n - 2].type) = 1
         => e[n] = e[(n - 2) - 1]
  BY <1>2, SameLevel
<1> HIDE DEF s, n, h
<1>4. CASE \E a : handle = <<a>> /\ Change(a) = 0
  <2>1. h = n /\ Change(s[n].type) = 0
    BY <1>2, <1>4
  <2> QED
    BY <1>2, <1>3, <2>1 DEF n, h
<1>5. CASE \E a, b : handle = <<a, b>> /\ Change(a) = 0 /\ Change(b) = 0
  <2>1. h = n - 1 /\ Change(s[n - 1].type) = 0 /\ Change(s[n].type) = 0
    BY <1>2, <1>5
  <2>2. n >= 2
    BY <1>2, <2>1
  <2> QED
    BY <1>3, <2>1, <2>2 DEF n, h
<1>6. CASE handle = <<"OPENPAREN", "REGEX", "CLOSEPAREN">>
  <2>1. /\ h = n - 2 /\ s[n - 2].type = "OPENPAREN" /\ s[n - 1].type = "REGEX"
        /\ s[n].type = "CLOSEPAREN"
    BY <1>2, <1>6
  <2>2. /\ Change(s[n].type) = -1 /\ Change(s[n - 1].type) = 0
        /\ Change(s[n - 2].type) = 1
    BY <2>1, Changes
  <2>3. n >= 3
    BY <1>2, <2>1
  <2> QED
    BY <1>3, <2>1, <2>2, <2>3 DEF n, h
<1> QED
  BY <1>4, <1>5, <1>6

(* A handle that is not BEGIN does not start with it, so it leans on       *)
(* something.                                                              *)
LEMMA HandleHigh ==
    ASSUME AcceptInv, Reducing, HandleFound, token_stack[HandleStart].type # "BEGIN"
    PROVE  /\ HandleStart \in 2 .. Len(token_stack)
           /\ Precedence(token_stack[HandleStart - 1].type,
                         token_stack[HandleStart].type) = "<"
<1>1. HandleStart # 1
  BY ReducingParts
<1> QED
  BY <1>1, ReducingParts

(* A token in the place of the handle. *)
LEMMA ReductionPiles ==
    ASSUME AcceptInv, Reducing, UNCHANGED ruleVars, NEW type \in Reduced,
           ReduceTo(<<type>>), token_stack[HandleStart].type # "BEGIN",
           \A e : Depths(e, token_stack) => e[Len(token_stack)] = e[HandleStart - 1],
           \A l : Precedence(l, token_stack[HandleStart].type) = "<" =>
                     Leans(l, type) \/ (l \in Greedy /\ type = "DUP"),
           rule_tokens[next_token].type \in Allowed(type)
    PROVE  PileInv'
<1> DEFINE s == token_stack
           t == token_stack'
           h == HandleStart
<1>1. /\ StackOk(s) /\ s # <<>> /\ Piled(s, rule_tokens, next_token)
  BY ReducingParts DEF Reducing
<1>2. /\ h \in 2 .. Len(s) /\ Len(s) \in Nat
      /\ Precedence(s[h - 1].type, s[h].type) = "<"
  BY <1>1, HandleHigh, StackTokens DEF ReduceTo
<1>3. PICK kept : /\ StackOk(kept) /\ Len(kept) = h - 1
                  /\ \A k \in 1 .. h - 1 : kept[k] = s[k]
                  /\ t = Append(kept, Token(type))
  <2>1. Result(<<type>>)
    BY DEF Result
  <2> QED
    BY <1>1, <2>1, ReduceKeeps
<1>4. StackToken(Token(type))
  BY DEF StackToken
<1> HIDE DEF h, t
<1>5. /\ StackOk(t) /\ Len(t) = (h - 1) + 1 /\ t[(h - 1) + 1] = Token(type)
      /\ \A k \in 1 .. h - 1 : t[k] = kept[k]
  BY <1>3, <1>4, StackAppend
<1>6. StackOk(t) /\ Len(t) = h /\ t[h] = Token(type) /\ \A k \in 1 .. h - 1 : t[k] = s[k]
  <2>1. (h - 1) + 1 = h
    BY <1>2
  <2> QED
    BY <1>3, <1>5, <2>1
<1>7. \/ Leans(s[h - 1].type, type)
      \/ s[h - 1].type \in Greedy /\ type = "DUP"
  BY <1>2 DEF h
<1>8. \A e : Depths(e, s) => e[Len(s)] = e[h - 1]
  BY DEF h
<1>9. Piled(t, rule_tokens, next_token)
  BY <1>1, <1>2, <1>6, <1>7, <1>8, ReducePiles
<1>10. pc' = "shift" /\ rule' = rule /\ next_token' = next_token
  BY DEF ReduceTo, Reducing
<1> QED
  BY <1>9, <1>10, GoesOn DEF t

(* One token in the place of one. *)
LEMMA SinglePiles ==
    ASSUME AcceptInv, UNCHANGED ruleVars, NEW a, NEW type \in Reduced,
           Handle(<<a>>), ReduceTo(<<type>>), a # "BEGIN", Change(a) = 0,
           \A l : Precedence(l, a) = "<" =>
                     Leans(l, type) \/ (l \in Greedy /\ type = "DUP"),
           \A r : Ripe(a, r) => r \in Allowed(type)
    PROVE  PileInv'
<1> DEFINE n == Len(token_stack)
<1>1. Reducing /\ handle = <<a>> /\ StackOk(token_stack) /\ token_stack # <<>>
  BY DEF Handle, Reducing, AcceptInv, CompileInv, ParserInv
<1>2. HandleStart = n /\ token_stack[n].type = a
  BY <1>1, HandleItems
<1>3. \A e : Depths(e, token_stack) => e[Len(token_stack)] = e[HandleStart - 1]
  BY <1>1, HandleLevel
<1>4. Ripe(a, rule_tokens[next_token].type)
  BY <1>1, <1>2, ReducingParts
<1>5. token_stack[HandleStart].type = a
  BY <1>2
<1> QED
  BY <1>1, <1>3, <1>4, <1>5, ReductionPiles

(* One token in the place of two. *)
LEMMA DoublePiles ==
    ASSUME AcceptInv, UNCHANGED ruleVars, NEW a, NEW b, NEW type \in Reduced,
           Handle(<<a, b>>), ReduceTo(<<type>>), a # "BEGIN",
           Change(a) = 0, Change(b) = 0,
           \A l : Precedence(l, a) = "<" => Leans(l, type),
           \A r : Ripe(b, r) => r \in Allowed(type)
    PROVE  PileInv'
<1> DEFINE n == Len(token_stack)
<1>1. Reducing /\ handle = <<a, b>> /\ StackOk(token_stack) /\ token_stack # <<>>
  BY DEF Handle, Reducing, AcceptInv, CompileInv, ParserInv
<1>2. HandleStart = n - 1 /\ token_stack[n - 1].type = a /\ token_stack[n].type = b
  BY <1>1, HandleItems
<1>3. \A e : Depths(e, token_stack) => e[Len(token_stack)] = e[HandleStart - 1]
  BY <1>1, HandleLevel
<1>4. Ripe(b, rule_tokens[next_token].type)
  BY <1>1, <1>2, ReducingParts
<1>5. token_stack[HandleStart].type = a
  BY <1>2
<1> QED
  BY <1>1, <1>3, <1>4, <1>5, ReductionPiles

(* "OREXP OR SEQUENCE" is one more with three; its level is that of two    *)
(* and one.                                                                *)
LEMMA OrPiles ==
    ASSUME AcceptInv, ReduceOr, UNCHANGED ruleVars
    PROVE  PileInv'
<1> DEFINE n == Len(token_stack)
           s == token_stack
<1>1. /\ Reducing /\ handle = <<"OREXP", "OR", "SEQUENCE">> /\ ReduceTo(<<"OREXP">>)
      /\ StackOk(token_stack) /\ token_stack # <<>>
  BY DEF ReduceOr, Handle, Reducing, AcceptInv, CompileInv, ParserInv
<1>2. /\ HandleStart = n - 2 /\ token_stack[n - 2].type = "OREXP"
      /\ token_stack[n - 1].type = "OR" /\ token_stack[n].type = "SEQUENCE"
      /\ n \in Nat /\ HandleStart \in 1 .. n
  BY <1>1, HandleItems
<1>3. ASSUME NEW e, Depths(e, token_stack)
      PROVE  e[n] = e[HandleStart - 1]
  <2>1. /\ Change(s[n].type) = 0 /\ Change(s[n - 1].type) = 0 /\ Change(s[n - 2].type) = 0
    BY <1>2, Changes
  <2>2. \A k \in 1 .. n : e[k] = e[k - 1] + Change(s[k].type)
    BY <1>3 DEF Depths
  <2>3. e \in [0 .. n -> Nat]
    BY <1>3 DEF Depths
  <2> HIDE DEF n
  <2>4. /\ n \in 1 .. n /\ n - 1 \in 1 .. n /\ n - 2 \in 1 .. n
        /\ n - 1 \in 0 .. n /\ n - 2 \in 0 .. n /\ (n - 2) - 1 \in 0 .. n
        /\ (n - 1) - 1 = n - 2
    BY <1>2
  <2>5. /\ e[n] = e[n - 1] + 0 /\ e[n - 1] = e[n - 2] + 0
        /\ e[n - 2] = e[(n - 2) - 1] + 0
    BY <2>1, <2>2, <2>4
  <2>6. e[n - 1] \in Nat /\ e[n - 2] \in Nat /\ e[(n - 2) - 1] \in Nat
    BY <2>3, <2>4
  <2> QED
    BY <1>2, <2>5, <2>6
<1>4. Ripe("SEQUENCE", rule_tokens[next_token].type)
  BY <1>1, <1>2, ReducingParts
<1>5. rule_tokens[next_token].type \in Allowed("OREXP")
  BY <1>4, RipeAllowed
<1>6. \A l : Precedence(l, "OREXP") = "<" => Leans(l, "OREXP")
  BY DEF Leans
<1>7. "OREXP" \in Reduced
  BY DEF Reduced
<1> QED
  BY <1>1, <1>2, <1>3, <1>5, <1>6, <1>7, ReductionPiles

(* REGEX goes and leaves BEGIN: nothing is left to read. *)
LEMMA RegexPiles ==
    ASSUME AcceptInv, UNCHANGED ruleVars, Handle(<<"REGEX">>), ReduceTo(<<>>)
    PROVE  PileInv'
<1> DEFINE s == token_stack
           t == token_stack'
           h == HandleStart
           n == Len(token_stack)
<1>1. /\ Reducing /\ handle = <<"REGEX">> /\ StackOk(s) /\ s # <<>>
  BY DEF Handle, Reducing, AcceptInv, CompileInv, ParserInv
<1>2. h = n /\ s[h].type = "REGEX"
  BY <1>1, HandleItems
<1>3. Ripe("REGEX", rule_tokens[next_token].type) /\ Piled(s, rule_tokens, next_token)
  BY <1>1, <1>2, ReducingParts
<1>4. rule_tokens[next_token].type = "END"
  BY <1>3, RipeAllowed
<1>5. h \in 2 .. n /\ Precedence(s[h - 1].type, s[h].type) = "<"
  BY <1>1, <1>2, HandleHigh DEF ReduceTo
<1>6. s[h - 1].type = "BEGIN"
  BY <1>2, <1>5, Below
<1>7. /\ StackOk(t) /\ Len(t) = h - 1 /\ \A k \in 1 .. h - 1 : t[k] = s[k]
  <2>1. Result(<<>>)
    BY DEF Result
  <2> QED
    BY <1>1, <2>1, ReduceKeeps
<1>8. \A e : Depths(e, s) => e[n] = e[h - 1]
  <2>1. Change("REGEX") = 0
    BY Changes
  <2> QED
    BY <1>1, <2>1, HandleLevel
<1>9. Piled(t, rule_tokens, next_token)
  <2> HIDE DEF t, h, s
  <2>1. h \in 2 .. Len(s) /\ \A e : Depths(e, s) => e[Len(s)] = e[h - 1]
    BY <1>5, <1>8 DEF s
  <2> QED
    BY <1>3, <1>4, <1>6, <1>7, <2>1, BeginPiles
<1>10. pc' = "shift" /\ rule' = rule /\ next_token' = next_token
  BY <1>1 DEF ReduceTo, Reducing
<1> QED
  BY <1>9, <1>10, GoesOn

(* BEGIN goes and leaves nothing. *)
LEMMA NothingPiles ==
    ASSUME AcceptInv, UNCHANGED ruleVars, Handle(<<"BEGIN">>), ReduceTo(<<>>)
    PROVE  PileInv'
<1> DEFINE s == token_stack
           n == Len(token_stack)
<1>1. /\ Reducing /\ handle = <<"BEGIN">> /\ StackOk(s) /\ s # <<>>
  BY DEF Handle, Reducing, AcceptInv, CompileInv, ParserInv
<1>2. HandleStart = n /\ s[n].type = "BEGIN" /\ n \in Nat /\ n >= 1
  BY <1>1, HandleItems
<1>3. HandleStart = 1
  <2>1. \A k \in 2 .. n : s[k].type # "BEGIN"
    BY <1>1, ReducingParts
  <2> HIDE DEF n, s
  <2>2. n = 1
    BY <1>2, <2>1
  <2> QED
    BY <1>2, <2>2
<1>4. StackOk(token_stack') /\ Len(token_stack') = 0
  <2>1. Result(<<>>)
    BY DEF Result
  <2>2. StackOk(token_stack') /\ Len(token_stack') = HandleStart - 1
    BY <1>1, <2>1, ReduceKeeps
  <2> QED
    BY <1>3, <2>2
<1>5. token_stack' = <<>>
  <2> DEFINE t == token_stack'
  <2>1. StackOk(t) /\ Len(t) = 0
    BY <1>4
  <2> HIDE DEF t
  <2>2. t = <<>>
    BY <2>1, StackTokens
  <2> QED
    BY <2>2 DEF t
<1>6. pc' = "shift" /\ rule' = rule
  BY <1>1 DEF ReduceTo, Reducing
<1> QED
  BY <1>5, <1>6, GoesOn

(* What is in parentheses is one operand. *)
LEMMA ParenthesesPile ==
    ASSUME AcceptInv, UNCHANGED ruleVars,
           Handle(<<"OPENPAREN", "REGEX", "CLOSEPAREN">>), ReduceTo(<<"REPEAT">>)
    PROVE  PileInv'
<1> DEFINE n == Len(token_stack)
<1>1. /\ Reducing /\ handle = <<"OPENPAREN", "REGEX", "CLOSEPAREN">>
      /\ StackOk(token_stack) /\ token_stack # <<>>
  BY DEF Handle, Reducing, AcceptInv, CompileInv, ParserInv
<1>2. /\ HandleStart = n - 2 /\ token_stack[n - 2].type = "OPENPAREN"
      /\ token_stack[n].type = "CLOSEPAREN"
  BY <1>1, HandleItems
<1>3. \A e : Depths(e, token_stack) => e[Len(token_stack)] = e[HandleStart - 1]
  BY <1>1, HandleLevel
<1>4. Ripe("CLOSEPAREN", rule_tokens[next_token].type)
  BY <1>1, <1>2, ReducingParts
<1>5. rule_tokens[next_token].type \in Allowed("REPEAT")
  BY <1>4, RipeAllowed
<1>6. \A l : Precedence(l, "OPENPAREN") = "<" => Leans(l, "REPEAT")
  BY Below, BelowRead DEF Leans
<1>7. token_stack[HandleStart].type = "OPENPAREN" /\ "REPEAT" \in Reduced
  BY <1>2 DEF Reduced
<1> QED
  BY <1>1, <1>3, <1>5, <1>6, <1>7, ReductionPiles

(* The other productions that leave the tree alone. *)
LEMMA RenamePiles ==
    ASSUME AcceptInv, Rename, UNCHANGED ruleVars
    PROVE  PileInv'
<1>1. PICK p \in Renamed : Handle(p[1]) /\ ReduceTo(p[2])
  BY DEF Rename
<1>2. \A type \in Reduced : type # "BEGIN" /\ Change(type) = 0
  BY Changes DEF Reduced
<1>3. /\ "REGEX" \in Reduced /\ "OREXP" \in Reduced /\ "SEQUENCE" \in Reduced
      /\ "SUB" \in Reduced /\ "EXPRESSION" \in Reduced /\ "REPEAT" \in Reduced
      /\ "DUP" \in Reduced
  BY DEF Reduced
<1>4. CASE p = << <<"BEGIN">>, <<>> >>
  BY <1>1, <1>4, NothingPiles
<1>5. CASE p = << <<"REGEX">>, <<>> >>
  BY <1>1, <1>5, RegexPiles
<1>6. CASE p = << <<"OREXP">>, <<"REGEX">> >>
  <2>1. Handle(<<"OREXP">>) /\ ReduceTo(<<"REGEX">>)
    BY <1>1, <1>6
  <2>2. \A l : Precedence(l, "OREXP") = "<" => Leans(l, "REGEX")
    BY Below DEF Leans
  <2>3. \A r : Ripe("OREXP", r) => r \in Allowed("REGEX")
    BY RipeAllowed
  <2> QED
    BY <1>2, <1>3, <2>1, <2>2, <2>3, SinglePiles
<1>7. CASE p = << <<"SEQUENCE">>, <<"OREXP">> >>
  <2>1. Handle(<<"SEQUENCE">>) /\ ReduceTo(<<"OREXP">>)
    BY <1>1, <1>7
  <2>2. \A l : Precedence(l, "SEQUENCE") = "<" => Leans(l, "OREXP")
    BY Below DEF Leans
  <2>3. \A r : Ripe("SEQUENCE", r) => r \in Allowed("OREXP")
    BY RipeAllowed
  <2> QED
    BY <1>2, <1>3, <2>1, <2>2, <2>3, SinglePiles
<1>8. CASE p = << <<"SUB">>, <<"SEQUENCE">> >>
  <2>1. Handle(<<"SUB">>) /\ ReduceTo(<<"SEQUENCE">>)
    BY <1>1, <1>8
  <2>2. \A l : Precedence(l, "SUB") = "<" => Leans(l, "SEQUENCE")
    BY Below DEF Leans
  <2>3. \A r : Ripe("SUB", r) => r \in Allowed("SEQUENCE")
    BY RipeAllowed
  <2> QED
    BY <1>2, <1>3, <2>1, <2>2, <2>3, SinglePiles
<1>9. CASE p = << <<"EXPRESSION">>, <<"SUB">> >>
  <2>1. Handle(<<"EXPRESSION">>) /\ ReduceTo(<<"SUB">>)
    BY <1>1, <1>9
  <2>2. \A l : Precedence(l, "EXPRESSION") = "<" => Leans(l, "SUB")
    BY Below DEF Leans
  <2>3. \A r : Ripe("EXPRESSION", r) => r \in Allowed("SUB")
    BY RipeAllowed
  <2> QED
    BY <1>2, <1>3, <2>1, <2>2, <2>3, SinglePiles
<1>10. CASE p = << <<"REPEAT">>, <<"EXPRESSION">> >>
  <2>1. Handle(<<"REPEAT">>) /\ ReduceTo(<<"EXPRESSION">>)
    BY <1>1, <1>10
  <2>2. \A l : Precedence(l, "REPEAT") = "<" => Leans(l, "EXPRESSION")
    BY Below DEF Leans
  <2>3. \A r : Ripe("REPEAT", r) => r \in Allowed("EXPRESSION")
    BY RipeAllowed
  <2> QED
    BY <1>2, <1>3, <2>1, <2>2, <2>3, SinglePiles
<1>11. CASE p = << <<"REPEAT", "DUP">>, <<"REPEAT">> >>
  <2>1. Handle(<<"REPEAT", "DUP">>) /\ ReduceTo(<<"REPEAT">>)
    BY <1>1, <1>11
  <2>2. \A l : Precedence(l, "REPEAT") = "<" => Leans(l, "REPEAT")
    BY DEF Leans
  <2>3. \A r : Ripe("DUP", r) => r \in Allowed("REPEAT")
    BY RipeAllowed
  <2> QED
    BY <1>2, <1>3, <2>1, <2>2, <2>3, DoublePiles
<1>12. CASE p = << <<"OPENPAREN", "REGEX", "CLOSEPAREN">>, <<"REPEAT">> >>
  BY <1>1, <1>12, ParenthesesPile
<1>13. \/ p = << <<"BEGIN">>, <<>> >> \/ p = << <<"REGEX">>, <<>> >>
       \/ p = << <<"OREXP">>, <<"REGEX">> >> \/ p = << <<"SEQUENCE">>, <<"OREXP">> >>
       \/ p = << <<"SUB">>, <<"SEQUENCE">> >> \/ p = << <<"EXPRESSION">>, <<"SUB">> >>
       \/ p = << <<"REPEAT">>, <<"EXPRESSION">> >>
       \/ p = << <<"REPEAT", "DUP">>, <<"REPEAT">> >>
       \/ p = << <<"OPENPAREN", "REGEX", "CLOSEPAREN">>, <<"REPEAT">> >>
  BY Zenon DEF Renamed
<1> QED
  BY <1>4, <1>5, <1>6, <1>7, <1>8, <1>9, <1>10, <1>11, <1>12, <1>13

(* The reductions that make a node of the tree. *)
LEMMA OtherReductionsPile ==
    ASSUME AcceptInv, UNCHANGED ruleVars,
           \/ ReduceSequence \/ ReduceCharset \/ ReduceBol \/ ReduceEol \/ ReduceDuplicator
    PROVE  PileInv'
<1>1. "SUB" \in Reduced /\ "REPEAT" \in Reduced /\ "DUP" \in Reduced
  BY DEF Reduced
<1>2. CASE ReduceSequence
  <2>1. Handle(<<"SUB", "EXPRESSION">>) /\ ReduceTo(<<"SUB">>)
    BY <1>2 DEF ReduceSequence
  <2>2. \A l : Precedence(l, "SUB") = "<" => Leans(l, "SUB")
    BY DEF Leans
  <2>3. \A r : Ripe("EXPRESSION", r) => r \in Allowed("SUB")
    BY RipeAllowed
  <2>4. Change("SUB") = 0 /\ Change("EXPRESSION") = 0 /\ "SUB" # "BEGIN"
    BY Changes
  <2> QED
    BY <1>1, <2>1, <2>2, <2>3, <2>4, DoublePiles
<1>3. CASE ReduceCharset \/ ReduceBol \/ ReduceEol
  <2>1. PICK a \in {"CHARSET", "BOL", "EOL"} : Handle(<<a>>) /\ ReduceTo(<<"REPEAT">>)
    BY <1>3 DEF ReduceCharset, ReduceBol, ReduceEol
  <2>2. \A l : Precedence(l, a) = "<" => Leans(l, "REPEAT")
    BY Below, BelowRead DEF Leans
  <2>3. \A r : Ripe(a, r) => r \in Allowed("REPEAT")
    BY RipeAllowed
  <2>4. Change(a) = 0 /\ a # "BEGIN"
    BY Changes
  <2> QED
    BY <1>1, <2>1, <2>2, <2>3, <2>4, SinglePiles
<1>4. CASE ReduceDuplicator
  <2>1. PICK a \in Duplicators : Handle(<<a>>) /\ ReduceTo(<<"DUP">>)
    BY <1>4 DEF ReduceDuplicator
  <2>2. \A l : Precedence(l, a) = "<" => Leans(l, "DUP") \/ (l \in Greedy /\ "DUP" = "DUP")
    BY Below, BelowRead DEF Leans
  <2>3. \A r : Ripe(a, r) => r \in Allowed("DUP")
    BY RipeAllowed
  <2>4. Change(a) = 0 /\ a # "BEGIN"
    BY Changes DEF Duplicators, Greedy
  <2> QED
    BY <1>1, <2>1, <2>2, <2>3, <2>4, SinglePiles
<1> QED
  BY <1>2, <1>3, <1>4

(* There is one handle. *)
LEMMA HandleAt ==
    ASSUME StackOk(token_stack), token_stack # <<>>, NEW k \in 1 .. Len(token_stack),
           k = 1 \/ Joint(k) # "=",
           \A l \in k + 1 .. Len(token_stack) : Joint(l) = "="
    PROVE  HandleStart = k
<1> DEFINE n == Len(token_stack)
           h == HandleStart
<1>1. /\ n \in Nat /\ h \in 1 .. n
      /\ h = 1 \/ Joint(h) # "="
      /\ \A l \in h + 1 .. n : Joint(l) = "="
  BY HandleExists, StackTokens
<1>2. /\ k \in 1 .. n
      /\ k = 1 \/ Joint(k) # "="
      /\ \A l \in k + 1 .. n : Joint(l) = "="
  OBVIOUS
<1> HIDE DEF n, h
<1>3. ~ k < h
  <2> SUFFICES ASSUME k < h
               PROVE  FALSE
    OBVIOUS
  <2>1. h \in k + 1 .. n /\ h # 1
    BY <1>1, <1>2
  <2> QED
    BY <1>1, <1>2, <2>1
<1>4. ~ h < k
  <2> SUFFICES ASSUME h < k
               PROVE  FALSE
    OBVIOUS
  <2>1. k \in h + 1 .. n /\ k # 1
    BY <1>1, <1>2
  <2> QED
    BY <1>1, <1>2, <2>1
<1>5. h = k
  BY <1>1, <1>2, <1>3, <1>4
<1> QED
  BY <1>5 DEF h

(* Where the handle starts and what it is, if the top token is joined to   *)
(* nothing, to one token, or to two.                                       *)
LEMMA HandleShapes ==
    ASSUME StackOk(token_stack), token_stack # <<>>,
           NEW s, s = token_stack, NEW n, n = Len(token_stack)
    PROVE  /\ n = 1 \/ Precedence(s[n - 1].type, s[n].type) # "=" =>
                 handle = <<s[n].type>>
           /\ /\ n >= 3 /\ Precedence(s[n - 1].type, s[n].type) = "="
              /\ Precedence(s[n - 2].type, s[n - 1].type) # "="
              => handle = <<s[n - 1].type, s[n].type>>
           /\ /\ n >= 4 /\ Precedence(s[n - 1].type, s[n].type) = "="
              /\ Precedence(s[n - 2].type, s[n - 1].type) = "="
              /\ Precedence(s[n - 3].type, s[n - 2].type) # "="
              => handle = <<s[n - 2].type, s[n - 1].type, s[n].type>>
<1>1. /\ n \in Nat /\ n >= 1
      /\ HandleStart = n => handle = <<s[n].type>>
      /\ HandleStart = n - 1 => handle = <<s[n - 1].type, s[n].type>>
      /\ HandleStart = n - 2 => handle = <<s[n - 2].type, s[n - 1].type, s[n].type>>
  <2> DEFINE h == HandleStart
  <2>1. h = HandleStart
    OBVIOUS
  <2> HIDE DEF h
  <2>2. /\ n \in Nat /\ n >= 1
        /\ h = n => handle = <<s[n].type>>
        /\ h = n - 1 => handle = <<s[n - 1].type, s[n].type>>
        /\ h = n - 2 => handle = <<s[n - 2].type, s[n - 1].type, s[n].type>>
    BY <2>1, HandleItems
  <2> QED
    BY <2>2 DEF h
<1>2. \A k : Joint(k) = Precedence(s[k - 1].type, s[k].type)
  BY DEF Joint
<1>3. ASSUME NEW k \in 1 .. n, k = 1 \/ Joint(k) # "=", \A l \in k + 1 .. n : Joint(l) = "="
      PROVE  HandleStart = k
  BY <1>3, HandleAt
<1>4. ASSUME n = 1 \/ Precedence(s[n - 1].type, s[n].type) # "="
      PROVE  handle = <<s[n].type>>
  <2>1. n \in 1 .. n /\ \A l \in n + 1 .. n : FALSE
    BY <1>1
  <2>2. n = 1 \/ Joint(n) # "="
    BY <1>2, <1>4
  <2>3. HandleStart = n
    BY <1>3, <2>1, <2>2
  <2> QED
    BY <1>1, <2>3
<1>5. ASSUME n >= 3, Precedence(s[n - 1].type, s[n].type) = "=",
             Precedence(s[n - 2].type, s[n - 1].type) # "="
      PROVE  handle = <<s[n - 1].type, s[n].type>>
  <2>1. n - 1 \in 1 .. n /\ (n - 1) - 1 = n - 2 /\ \A l \in (n - 1) + 1 .. n : l = n
    BY <1>1, <1>5
  <2>2. Joint(n - 1) # "=" /\ Joint(n) = "="
    BY <1>2, <1>5, <2>1
  <2>3. HandleStart = n - 1
    BY <1>3, <2>1, <2>2
  <2> QED
    BY <1>1, <2>3
<1>6. ASSUME n >= 4, Precedence(s[n - 1].type, s[n].type) = "=",
             Precedence(s[n - 2].type, s[n - 1].type) = "=",
             Precedence(s[n - 3].type, s[n - 2].type) # "="
      PROVE  handle = <<s[n - 2].type, s[n - 1].type, s[n].type>>
  <2>1. /\ n - 2 \in 1 .. n /\ (n - 2) - 1 = n - 3 /\ (n - 1) - 1 = n - 2
        /\ \A l \in (n - 2) + 1 .. n : l = n - 1 \/ l = n
    BY <1>1, <1>6
  <2>2. Joint(n - 2) # "=" /\ Joint(n - 1) = "=" /\ Joint(n) = "="
    BY <1>2, <1>6, <2>1
  <2>3. HandleStart = n - 2
    BY <1>3, <2>1, <2>2
  <2> QED
    BY <1>1, <2>3
<1> QED
  BY <1>4, <1>5, <1>6

(* The productions one by one. *)
LEMMA ProductionsAre ==
    /\ \A x \in {"BEGIN", "CHARSET", "BOL", "EOL"} \cup Duplicators
                \cup (Reduced \ {"DUP"}) : <<x>> \in Productions
    /\ <<"OREXP", "OR", "SEQUENCE">> \in Productions
    /\ <<"SUB", "EXPRESSION">> \in Productions
    /\ <<"REPEAT", "DUP">> \in Productions
    /\ <<"OPENPAREN", "REGEX", "CLOSEPAREN">> \in Productions
<1>1. \A p \in Renamed : p[1] \in Productions
  BY DEF Productions
<1>2. /\ << <<"BEGIN">>, <<>> >> \in Renamed /\ << <<"REGEX">>, <<>> >> \in Renamed
      /\ << <<"OREXP">>, <<"REGEX">> >> \in Renamed
      /\ << <<"SEQUENCE">>, <<"OREXP">> >> \in Renamed
      /\ << <<"SUB">>, <<"SEQUENCE">> >> \in Renamed
      /\ << <<"EXPRESSION">>, <<"SUB">> >> \in Renamed
      /\ << <<"REPEAT">>, <<"EXPRESSION">> >> \in Renamed
      /\ << <<"REPEAT", "DUP">>, <<"REPEAT">> >> \in Renamed
      /\ << <<"OPENPAREN", "REGEX", "CLOSEPAREN">>, <<"REPEAT">> >> \in Renamed
  BY Zenon DEF Renamed
<1>3. \A x, y : <<x, y>>[1] = x
  OBVIOUS
<1>4. /\ <<"BEGIN">> \in Productions /\ <<"REGEX">> \in Productions
      /\ <<"OREXP">> \in Productions /\ <<"SEQUENCE">> \in Productions
      /\ <<"SUB">> \in Productions /\ <<"EXPRESSION">> \in Productions
      /\ <<"REPEAT">> \in Productions /\ <<"REPEAT", "DUP">> \in Productions
      /\ <<"OPENPAREN", "REGEX", "CLOSEPAREN">> \in Productions
  BY <1>1, <1>2, <1>3, Zenon
<1>5. /\ <<"OREXP", "OR", "SEQUENCE">> \in Productions
      /\ <<"SUB", "EXPRESSION">> \in Productions
      /\ \A x \in {"CHARSET", "BOL", "EOL"} : <<x>> \in Productions
      /\ \A x \in Duplicators : <<x>> \in Productions
  BY Zenon DEF Productions
<1>6. \A x \in {"BEGIN", "CHARSET", "BOL", "EOL"} \cup Duplicators
               \cup (Reduced \ {"DUP"}) :
         \/ x = "BEGIN" \/ x = "REGEX" \/ x = "OREXP" \/ x = "SEQUENCE" \/ x = "SUB"
         \/ x = "EXPRESSION" \/ x = "REPEAT" \/ x \in {"CHARSET", "BOL", "EOL"}
         \/ x \in Duplicators
  BY Zenon DEF Reduced
<1> QED
  BY <1>4, <1>5, <1>6, Zenon

(* At the end of a rule REGEX does not stand on an open parenthesis.       *)
LEMMA NoneOpen ==
    ASSUME NEW ts, Whole(ts), NEW s, NEW i, Piled(s, ts, i), NEW n, n = Len(s), n >= 2,
           s[n].type = "REGEX", Ripe("REGEX", ts[i].type)
    PROVE  s[n - 1].type # "OPENPAREN"
<1> SUFFICES ASSUME s[n - 1].type = "OPENPAREN"
             PROVE  FALSE
  OBVIOUS
<1>1. /\ n \in Nat /\ i \in 2 .. Len(ts) /\ Level(s, ts, i)
  BY PiledParts
<1>2. /\ Len(ts) \in Nat /\ \A k \in 1 .. Len(ts) - 1 : ts[k].type # "END"
  BY WholeTokens
<1>3. ts[i].type = "END"
  BY RipeAllowed
<1>4. i = Len(ts)
  <2>1. i \in 1 .. Len(ts) - 1 \/ i = Len(ts)
    BY <1>1, <1>2
  <2> QED
    BY <1>2, <1>3, <2>1
<1>5. PICK d, e : /\ Depths(d, ts) /\ d[Len(ts)] = 0
                  /\ Depths(e, s) /\ e[n] = d[i - 1]
  BY <1>1 DEF Level
<1>6. d[i] = d[i - 1] + Change(ts[i].type) /\ d[i - 1] \in Nat
  <2>1. i \in 1 .. Len(ts) /\ i - 1 \in 0 .. Len(ts)
    BY <1>1, <1>2
  <2> QED
    BY <1>5, <2>1 DEF Depths
<1>7. Change(ts[i].type) = 0 /\ Change(s[n].type) = 0 /\ Change(s[n - 1].type) = 1
  BY <1>3, Changes
<1>8. e[n] = 0
  BY <1>4, <1>5, <1>6, <1>7
<1>9. /\ e[n] = e[n - 1] + Change(s[n].type) /\ e[n - 1] = e[(n - 1) - 1] + Change(s[n - 1].type)
      /\ e[(n - 1) - 1] \in Nat
  <2>1. n \in 1 .. n /\ n - 1 \in 1 .. n /\ (n - 1) - 1 \in 0 .. n
    BY <1>1
  <2> QED
    BY <1>5, <2>1 DEF Depths
<1> QED
  BY <1>7, <1>8, <1>9

(* In a rule without a lazy repeat torn apart every token leans on the one *)
(* below.                                                                  *)
LEMMA AllLean ==
    ASSUME NEW s, NEW ts, NEW i, Piled(s, ts, i), ~ SplitLazy(ts)
    PROVE  \A k \in 1 .. Len(s) - 1 : Leans(s[k].type, s[k + 1].type)
BY DEF Piled

(* In such a rule whatever is ripe is the end of a production.             *)
LEMMA Produced ==
    ASSUME AcceptInv, Reducing, ~ SplitLazy(rule_tokens)
    PROVE  handle \in Productions
<1> DEFINE ts == rule_tokens
           r == ts[next_token].type
<1>1. PICK s : s = token_stack
  OBVIOUS
<1>2. PICK n : n = Len(token_stack)
  OBVIOUS
<1>3. /\ Whole(ts) /\ StackOk(s) /\ Piled(s, ts, next_token)
      /\ n \in Nat /\ n >= 1 /\ s[1].type = "BEGIN"
      /\ \A k \in 2 .. n : s[k].type # "BEGIN"
      /\ Ripe(s[n].type, r)
  BY <1>1, <1>2, ReducingParts
<1>4. \A k \in 1 .. n - 1 : Leans(s[k].type, s[k + 1].type)
  BY <1>1, <1>2, <1>3, AllLean
<1>5. /\ n = 1 \/ Precedence(s[n - 1].type, s[n].type) # "=" => handle = <<s[n].type>>
      /\ /\ n >= 3 /\ Precedence(s[n - 1].type, s[n].type) = "="
         /\ Precedence(s[n - 2].type, s[n - 1].type) # "="
         => handle = <<s[n - 1].type, s[n].type>>
      /\ /\ n >= 4 /\ Precedence(s[n - 1].type, s[n].type) = "="
         /\ Precedence(s[n - 2].type, s[n - 1].type) = "="
         /\ Precedence(s[n - 3].type, s[n - 2].type) # "="
         => handle = <<s[n - 2].type, s[n - 1].type, s[n].type>>
  BY <1>1, <1>2, <1>3, HandleShapes DEF Reducing
<1>6. s[n].type = "CLOSEPAREN" => n >= 3 /\ s[n - 2].type = "OPENPAREN"
  BY <1>1, <1>2, <1>3 DEF Piled
<1>7. ASSUME n >= 2, s[n].type = "REGEX"
      PROVE  s[n - 1].type # "OPENPAREN"
  BY <1>1, <1>2, <1>3, <1>7, NoneOpen
<1>8. \A k \in 2 .. n : Leans(s[k - 1].type, s[k].type)
  <2>1. \A k \in 2 .. n : k - 1 \in 1 .. n - 1 /\ (k - 1) + 1 = k
    BY <1>3
  <2> QED
    BY <1>4, <2>1
<1>9. \/ s[n].type \in {"BEGIN", "CHARSET", "BOL", "EOL"} \cup Duplicators \cup (Reduced \ {"DUP"})
      \/ s[n].type = "DUP" \/ s[n].type = "CLOSEPAREN"
  BY <1>3, RipeAllowed
<1> HIDE DEF ts, r
<1>10. ASSUME n = 1 \/ Precedence(s[n - 1].type, s[n].type) # "=",
              s[n].type # "DUP", s[n].type # "CLOSEPAREN"
       PROVE  handle \in Productions
  BY <1>5, <1>9, <1>10, ProductionsAre
<1>11. ASSUME n >= 2, Precedence(s[n - 1].type, s[n].type) = "=", s[n].type = "SEQUENCE"
       PROVE  handle \in Productions
  <2>1. s[n - 1].type = "OR"
    BY <1>11, Below
  <2>2. n >= 3
    <3>1. n # 2
      BY <1>3, <2>1
    <3> QED
      BY <1>3, <1>11, <3>1
  <2>3. n - 1 \in 2 .. n /\ (n - 1) - 1 = n - 2
    BY <1>3, <2>2
  <2>4. Precedence(s[n - 2].type, s[n - 1].type) = "=" /\ s[n - 2].type = "OREXP"
    <3>1. Leans(s[n - 2].type, "OR")
      BY <1>8, <2>1, <2>3
    <3> QED
      BY <2>1, <3>1, BelowRead DEF Leans
  <2>5. n >= 4
    <3>1. n # 3
      BY <1>3, <2>4
    <3> QED
      BY <1>3, <2>2, <3>1
  <2>6. Precedence(s[n - 3].type, s[n - 2].type) # "="
    BY <2>4, Below
  <2>7. handle = <<"OREXP", "OR", "SEQUENCE">>
    BY <1>5, <1>11, <2>1, <2>4, <2>5, <2>6
  <2> QED
    BY <2>7, ProductionsAre
<1>12. ASSUME n >= 2, Precedence(s[n - 1].type, s[n].type) = "=", s[n].type = "EXPRESSION"
       PROVE  handle \in Productions
  <2>1. s[n - 1].type = "SUB"
    BY <1>12, Below
  <2>2. n >= 3
    <3>1. n # 2
      BY <1>3, <2>1
    <3> QED
      BY <1>3, <1>12, <3>1
  <2>3. Precedence(s[n - 2].type, s[n - 1].type) # "="
    BY <2>1, Below
  <2>4. handle = <<"SUB", "EXPRESSION">>
    BY <1>5, <1>12, <2>1, <2>2, <2>3
  <2> QED
    BY <2>4, ProductionsAre
<1>13. ASSUME s[n].type = "DUP"
       PROVE  handle \in Productions
  <2>1. n >= 2
    <3>1. n # 1
      BY <1>3, <1>13
    <3> QED
      BY <1>3, <3>1
  <2>2. Precedence(s[n - 1].type, s[n].type) = "=" /\ s[n - 1].type = "REPEAT"
    <3>1. n \in 2 .. n
      BY <1>3, <2>1
    <3>2. Leans(s[n - 1].type, "DUP")
      BY <1>8, <1>13, <3>1
    <3> QED
      BY <1>13, <3>2, Below DEF Leans
  <2>3. n >= 3
    <3>1. n # 2
      BY <1>3, <2>2
    <3> QED
      BY <1>3, <2>1, <3>1
  <2>4. Precedence(s[n - 2].type, s[n - 1].type) # "="
    BY <2>2, Below
  <2>5. handle = <<"REPEAT", "DUP">>
    BY <1>5, <1>13, <2>2, <2>3, <2>4
  <2> QED
    BY <2>5, ProductionsAre
<1>14. ASSUME s[n].type = "CLOSEPAREN"
       PROVE  handle \in Productions
  <2>1. n >= 3 /\ s[n - 2].type = "OPENPAREN"
    BY <1>6, <1>14
  <2>2. Precedence(s[n - 1].type, s[n].type) = "=" /\ s[n - 1].type = "REGEX"
    <3>1. n \in 2 .. n
      BY <1>3, <2>1
    <3>2. Leans(s[n - 1].type, "CLOSEPAREN")
      BY <1>8, <1>14, <3>1
    <3> QED
      BY <1>14, <3>2, BelowRead DEF Leans
  <2>3. Precedence(s[n - 2].type, s[n - 1].type) = "="
    BY <2>1, <2>2, Below
  <2>4. n >= 4
    <3>1. n # 3
      BY <1>3, <2>1
    <3> QED
      BY <1>3, <2>1, <3>1
  <2>5. Precedence(s[n - 3].type, s[n - 2].type) # "="
    BY <2>1, BelowRead
  <2>6. handle = <<"OPENPAREN", "REGEX", "CLOSEPAREN">>
    BY <1>5, <1>14, <2>1, <2>2, <2>3, <2>4, <2>5
  <2> QED
    BY <2>6, ProductionsAre
<1>15. ASSUME n >= 2, Precedence(s[n - 1].type, s[n].type) = "=",
              s[n].type \notin {"SEQUENCE", "EXPRESSION", "DUP", "CLOSEPAREN"}
       PROVE  FALSE
  <2>1. /\ n \in 2 .. n
    BY <1>3, <1>15
  <2>2. s[n].type # "REGEX"
    <3> SUFFICES ASSUME s[n].type = "REGEX"
                 PROVE  FALSE
      OBVIOUS
    <3>1. s[n - 1].type = "OPENPAREN"
      BY <1>15, Below
    <3> QED
      BY <1>7, <1>15, <3>1
  <2>3. s[n].type # "BEGIN"
    BY <1>3, <2>1
  <2>4. s[n].type \notin Duplicators
    BY <1>15, BelowRead
  <2>5. s[n].type \notin {"CHARSET", "BOL", "EOL"}
    BY <1>15, BelowRead
  <2>6. s[n].type \notin {"OREXP", "SUB", "REPEAT"}
    BY <1>15, Below
  <2> QED
    BY <1>9, <1>15, <2>2, <2>3, <2>4, <2>5, <2>6 DEF Reduced
<1>16. n = 1 \/ n >= 2
  BY <1>3
<1> QED
  BY <1>10, <1>11, <1>12, <1>13, <1>14, <1>15, <1>16

(* Where a reduction fails a lazy repeat is torn apart. *)
LEMMA FailsTorn ==
    ASSUME AcceptInv, ReduceFails
    PROVE  SplitLazy(rule_tokens)
<1> SUFFICES ASSUME ~ SplitLazy(rule_tokens)
             PROVE  FALSE
  OBVIOUS
<1>1. Reducing /\ (~ HandleFound \/ handle \notin Productions)
  BY DEF ReduceFails
<1>2. ~ HandleFound
  BY <1>1, Produced
<1>3. HandleStart > 1 /\ Joint(HandleStart) # "<"
  BY <1>2 DEF HandleFound
<1> DEFINE s == token_stack
           n == Len(s)
           h == HandleStart
<1>4. Piled(s, rule_tokens, next_token) /\ StackOk(s) /\ s # <<>>
  BY <1>1, ReducingParts DEF Reducing
<1>5. \A k \in 1 .. n - 1 : Leans(s[k].type, s[k + 1].type)
  BY <1>4, AllLean
<1>6. n \in Nat /\ h \in 1 .. n /\ (h = 1 \/ Joint(h) # "=")
  BY <1>4, HandleExists, StackTokens
<1>7. Joint(h) = Precedence(s[h - 1].type, s[h].type)
  BY DEF Joint
<1>8. h > 1 /\ Joint(h) # "<"
  BY <1>3
<1> HIDE DEF n, h, s
<1>9. h - 1 \in 1 .. n - 1 /\ (h - 1) + 1 = h /\ h # 1
  BY <1>6, <1>8
<1>10. Leans(s[h - 1].type, s[h].type)
  BY <1>5, <1>9
<1> QED
  BY <1>6, <1>7, <1>8, <1>9, <1>10 DEF Leans

(* A step of the parser. *)
LEMMA ParserPiles ==
    ASSUME AcceptInv, ParserNext, UNCHANGED ruleVars
    PROVE  PileInv'
<1>1. CASE BeginRule
  BY <1>1, BeginRulePiles
<1>2. CASE Shift
  BY <1>2, ShiftStepPiles
<1>3. CASE SyntaxError
  BY <1>3, NoSyntaxError
<1>4. CASE Rename
  BY <1>4, RenamePiles
<1>5. CASE ReduceOr
  BY <1>5, OrPiles
<1>6. CASE ReduceSequence \/ ReduceCharset \/ ReduceBol \/ ReduceEol \/ ReduceDuplicator
  BY <1>6, OtherReductionsPile
<1>7. CASE ReduceFails
  <2>1. SplitLazy(rule_tokens)
    BY <1>7, FailsTorn
  <2>2. pc' = "abort" /\ rule_tokens' = rule_tokens
    BY <1>7 DEF ReduceFails, parserVars, ruleVars, rules, rule_tokens
  <2> QED
    BY <2>1, <2>2 DEF PileInv
<1>8. CASE EndRule
  <2>1. token_stack' = <<>> /\ pc' \in {"error", "parse"}
    BY <1>8 DEF EndRule
  <2> QED
    BY <2>1 DEF PileInv
<1>9. CASE EndParse
  <2>1. token_stack' = token_stack /\ pc = "parse" /\ pc' = "trees"
    BY <1>9 DEF EndParse, parserVars
  <2>2. token_stack = <<>>
    BY <2>1 DEF AcceptInv, PileInv
  <2> QED
    BY <2>1, <2>2 DEF PileInv
<1> QED
  BY <1>1, <1>2, <1>3, <1>4, <1>5, <1>6, <1>7, <1>8, <1>9 DEF ParserNext

(* Where no rule is parsed the stack stays empty. *)
LEMMA StaysEmpty ==
    ASSUME PileInv, pc \notin {"shift", "abort"}, pc' \notin {"shift", "abort"},
           token_stack' = token_stack
    PROVE  PileInv'
BY DEF PileInv

(* Every step of the reader and the parser keeps all of it, *)
LEMMA AcceptStep ==
    ASSUME AcceptInv, ParseStep
    PROVE  AcceptInv'
<1>1. CASE RulesNext /\ UNCHANGED parserVars
  <2>1. CompileInv'
    BY <1>1, ReaderStep DEF AcceptInv
  <2>2. ReadInv'
    BY <1>1, ReadsOn DEF AcceptInv, CompileInv
  <2>3. PileInv'
    <3>1. pc \notin {"shift", "abort"} /\ pc' \notin {"shift", "abort"}
      BY <1>1, ReaderPlaces DEF Reads
    <3>2. token_stack' = token_stack
      BY <1>1 DEF parserVars
    <3> QED
      BY <3>1, <3>2, StaysEmpty DEF AcceptInv
  <2> QED
    BY <2>1, <2>2, <2>3 DEF AcceptInv
<1>2. CASE ParserNext /\ UNCHANGED ruleVars
  <2>1. CompileInv'
    BY <1>2, ParserStep DEF AcceptInv
  <2>2. ReadInv'
    <3>1. pc' \notin {"token", "charset", "end"}
      BY <1>2, ParserPlaces DEF Parses
    <3> QED
      BY <1>2, <3>1, KeptReading DEF AcceptInv, ruleVars
  <2>3. PileInv'
    BY <1>2, ParserPiles
  <2> QED
    BY <2>1, <2>2, <2>3 DEF AcceptInv
<1> QED
  BY <1>1, <1>2 DEF ParseStep

(* they have it at the start, *)
LEMMA AcceptFirst == ParseInit => AcceptInv
<1> SUFFICES ASSUME ParseInit
             PROVE  AcceptInv
  OBVIOUS
<1>1. token_stack = <<>> /\ pc = "rule"
  BY DEF ParseInit, RulesInit, ParserInit
<1>2. PileInv
  BY <1>1 DEF PileInv
<1> QED
  BY <1>2, CompileInitially, ReadsFirst DEF ParseInit, AcceptInv

(* and where nothing changes. *)
LEMMA SameAccept ==
    ASSUME AcceptInv, UNCHANGED <<pc, ruleVars, parserVars>>
    PROVE  AcceptInv'
<1>1. /\ UNCHANGED <<pc, tokens, paren_count, macro_map, regexes>>
      /\ UNCHANGED <<rule, token_stack, next_token>>
  BY DEF ruleVars, rules, lexer, parserVars
<1>2. CompileInv'
  BY SameCompile DEF AcceptInv
<1>3. ReadInv'
  BY <1>1 DEF AcceptInv, ReadInv, MacrosWhole, RulesWhole
<1>4. PileInv'
  BY <1>1 DEF AcceptInv, PileInv, rule_tokens
<1> QED
  BY <1>2, <1>3, <1>4 DEF AcceptInv

(* What it says of the parser: an assertion fails only on a lazy repeat    *)
(* torn apart, and no two tokens meet that may not.                        *)
LEMMA AcceptAccepts == AcceptInv => ParserAccepts
BY DEF AcceptInv, PileInv, ParserAccepts

(* For every rule file: whatever the tokeniser lets pass is parsed without *)
(* a failed assertion or an unexpected pair of tokens, but for a rule with *)
(* a '?' that follows a greedy repeat without standing right behind it.    *)
THEOREM ParserAcceptsRules == ParseSpec => []ParserAccepts
<1>1. ParseInit => AcceptInv
  BY AcceptFirst
<1>2. AcceptInv /\ [ParseNext]_<<pc, ruleVars, parserVars>> => AcceptInv'
  <2> SUFFICES ASSUME AcceptInv, [ParseNext]_<<pc, ruleVars, parserVars>>
               PROVE  AcceptInv'
    OBVIOUS
  <2>1. CASE ParseStep
    BY <2>1, AcceptStep
  <2>2. CASE UNCHANGED <<pc, ruleVars, parserVars>>
    BY <2>2, SameAccept
  <2> QED
    BY <2>1, <2>2 DEF ParseNext, ParseEnded
<1>3. AcceptInv => ParserAccepts
  BY AcceptAccepts
<1> QED
  BY <1>1, <1>2, <1>3, PTL DEF ParseSpec

(* What comes after the parser leaves its stack empty. *)
LEMMA DfaKeepsAccept ==
    ASSUME AcceptInv, DfaNext
    PROVE  AcceptInv'
<1> DEFINE Same == /\ pc \notin {"shift", "abort"}
                   /\ UNCHANGED <<ruleVars, token_stack>>
<1>1. JoinTrees => Same
  BY DEF JoinTrees
<1>2. PartitionCharset => Same
  BY DEF PartitionCharset, parserVars
<1>3. BeginStates => Same
  BY DEF BeginStates, parserVars
<1>4. BuildState => Same
  BY DEF BuildState, parserVars
<1>5. FixClashes => Same
  BY DEF FixClashes, parserVars
<1>6. Reassemble => Same
  BY DEF Reassemble, parserVars
<1>7. ReassembleFails => Same
  BY DEF ReassembleFails, parserVars
<1>8. Same
  BY <1>1, <1>2, <1>3, <1>4, <1>5, <1>6, <1>7 DEF DfaNext
<1>9. CompileInv' /\ pc' \in DfaPlaces
  BY DfaKeepsCompile DEF AcceptInv
<1>10. pc' \notin {"token", "charset", "end"} /\ pc' \notin {"shift", "abort"}
  BY <1>9 DEF DfaPlaces
<1>11. ReadInv'
  BY <1>8, <1>10, KeptReading DEF AcceptInv, ruleVars
<1>12. PileInv'
  BY <1>8, <1>10, StaysEmpty DEF AcceptInv
<1> QED
  BY <1>9, <1>11, <1>12 DEF AcceptInv

(* The same for the whole of the compiler. *)
THEOREM ParserAcceptsThroughout == RegexSpec => []ParserAccepts
<1>1. RegexInit => AcceptInv
  BY AcceptFirst DEF RegexInit
<1>2. AcceptInv /\ [RegexNext]_allVars => AcceptInv'
  <2> SUFFICES ASSUME AcceptInv, [RegexNext]_allVars
               PROVE  AcceptInv'
    OBVIOUS
  <2>1. CASE ParseStep
    BY <2>1, AcceptStep
  <2>2. CASE DfaNext
    BY <2>2, DfaKeepsAccept
  <2>3. CASE UNCHANGED allVars
    BY <2>3, SameAccept DEF allVars
  <2> QED
    BY <2>1, <2>2, <2>3 DEF RegexNext, Ended
<1>3. AcceptInv => ParserAccepts
  BY AcceptAccepts
<1> QED
  BY <1>1, <1>2, <1>3, PTL DEF RegexSpec
=============================================================================
