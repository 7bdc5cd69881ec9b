--------------------------- MODULE HttpScanProofs ---------------------------
(***************************************************************************)
(* The scan of payloads, for every set of signatures, every array size and *)
(* any matches in any order: the two arrays of http_search.c that are      *)
(* written without a test of the index, and what is reported.              *)
(***************************************************************************)
EXTENDS HttpScan, DataLemmas, FiniteSetTheorems

(* A match, as MatchFound is told it.                                      *)
Found == [id : MatchIds \cup Pointers, lineStart : BOOLEAN]

(* The inductive invariant: between payloads nothing is counted, so that   *)
(* while one is scanned every collected element is one of its matches.     *)
FitInv ==
    /\ seen \in Seq(Found)
    /\ regexSeen \in Nat
    /\ Len(pattern) \in Nat
    /\ \E S : pattern \in Seq(S)
    /\ pc = "idle" => seen = <<>> /\ regexSeen = 0
    /\ pc # "idle" => Len(pattern) <= Len(seen) + regexSeen
    /\ PatternFits

(* One more element is one entry more, and it overflows the array only     *)
(* when the array is full.                                                 *)
LEMMA Collecting ==
    ASSUME NEW o, NEW next, FitInv, Collect(o, next), next # "overflow"
    PROVE  /\ Len(pattern') = Len(pattern) + 1
           /\ \E S : pattern' \in Seq(S)
           /\ pc' = "overflow" => Len(pattern) >= PATTERN_SIZE
           /\ pc' # "overflow" => pc' = next
<1>1. PICK S : pattern \in Seq(S)
  BY DEF FitInv
<1>2. pattern \in Seq(S \cup {o}) /\ o \in S \cup {o}
  BY <1>1
<1>3. /\ Append(pattern, o) \in Seq(S \cup {o})
      /\ Len(Append(pattern, o)) = Len(pattern) + 1
  BY <1>2, AppendProperties
<1>4. PATTERN_SIZE \in Nat /\ Len(pattern) \in Nat
  BY ScanAssumption DEF FitInv
<1> QED
  BY <1>3, <1>4 DEF Collect

LEMMA InitFitInv == Init => FitInv
<1> SUFFICES ASSUME Init PROVE FitInv
  OBVIOUS
<1>1. <<>> \in Seq({}) /\ Len(<<>>) = 0
  BY EmptySeq
<1>2. seen \in Seq(Found)
  BY EmptySeq DEF Init
<1>3. \E S : pattern \in Seq(S)
  BY <1>1 DEF Init
<1> QED
  BY <1>1, <1>2, <1>3 DEF Init, FitInv, PatternFits

(* A match of httpParse2 is counted before anything is collected for it.   *)
LEMMA MatchFoundFits ==
    ASSUME FitInv, NEW id \in MatchIds \cup Pointers, NEW b \in BOOLEAN,
           NEW next \in {"search", "check"}, MatchFound(id, b, next)
    PROVE  FitInv'
<1> DEFINE m == [id |-> id, lineStart |-> b]
<1>1. /\ seen' = Append(seen, m)
      /\ m \in Found
      /\ regexSeen' = regexSeen
      /\ pc = "search"
  BY DEF MatchFound, Found
<1>2. /\ seen' \in Seq(Found)
      /\ Len(seen') = Len(seen) + 1
      /\ Len(seen) \in Nat
  BY <1>1, AppendProperties, LenProperties DEF FitInv
<1>3. CASE pc' = next /\ pattern' = pattern
  <2>1. PatternFits'
    BY <1>1, <1>3 DEF PatternFits
  <2> QED
    BY <1>1, <1>2, <1>3, <2>1 DEF FitInv
<1>4. CASE Collect(id.low, next)
  <2>1. /\ Len(pattern') = Len(pattern) + 1
        /\ \E S : pattern' \in Seq(S)
        /\ pc' = "overflow" => Len(pattern) >= PATTERN_SIZE
        /\ pc' # "overflow" => pc' = next
    BY <1>1, <1>4, Collecting
  <2>2. Len(pattern) <= Len(seen) + regexSeen /\ Len(pattern) \in Nat
        /\ regexSeen \in Nat /\ PATTERN_SIZE \in Nat
    BY <1>1, ScanAssumption DEF FitInv
  <2>3. PatternFits'
    BY <1>1, <1>2, <2>1, <2>2 DEF PatternFits
  <2>4. pc' # "idle"
    BY <1>1, <2>1
  <2> QED
    BY <1>1, <1>2, <2>1, <2>2, <2>3, <2>4 DEF FitInv
<1> QED
  BY <1>3, <1>4 DEF MatchFound

(* So is a match of httpParse, on top of what the first search left.       *)
LEMMA RegexMatchFits ==
    ASSUME FitInv, NEW id \in RegexIds, NEW end \in 1 .. MaxOffset,
           NEW b \in BOOLEAN, RegexMatch(id, end, b)
    PROVE  FitInv'
<1>1. /\ seen' = seen
      /\ regexSeen' = regexSeen + 1
      /\ pc = "regex"
      /\ Len(seen) \in Nat
  BY LenProperties DEF RegexMatch, FitInv
<1>2. CASE pattern' = pattern /\ pc' \in {"abort", pc}
  <2>1. PatternFits'
    BY <1>1, <1>2 DEF PatternFits
  <2> QED
    BY <1>1, <1>2, <2>1 DEF FitInv
<1>3. CASE Collect(id.low, pc)
  <2>1. /\ Len(pattern') = Len(pattern) + 1
        /\ \E S : pattern' \in Seq(S)
        /\ pc' = "overflow" => Len(pattern) >= PATTERN_SIZE
        /\ pc' # "overflow" => pc' = pc
    BY <1>1, <1>3, Collecting
  <2>2. Len(pattern) <= Len(seen) + regexSeen /\ Len(pattern) \in Nat
        /\ regexSeen \in Nat /\ PATTERN_SIZE \in Nat
    BY <1>1, ScanAssumption DEF FitInv
  <2>3. PatternFits'
    BY <1>1, <2>1, <2>2 DEF PatternFits
  <2>4. pc' # "idle"
    BY <1>1, <2>1
  <2> QED
    BY <1>1, <2>1, <2>2, <2>3, <2>4 DEF FitInv
<1> QED
  BY <1>2, <1>3 DEF RegexMatch

LEMMA StepFitInv == FitInv /\ [Next]_vars => FitInv'
<1> SUFFICES ASSUME FitInv, [Next]_vars PROVE FitInv'
  OBVIOUS
<1>0. Len(seen) \in Nat /\ regexSeen \in Nat
  BY LenProperties DEF FitInv
<1>1. CASE BeginPayload
  <2>1. /\ pattern' = <<>> /\ pc' = "search"
        /\ seen' = seen /\ regexSeen' = regexSeen
    BY <1>1 DEF BeginPayload
  <2>2. <<>> \in Seq({}) /\ Len(<<>>) = 0
    BY EmptySeq
  <2>3. \E S : pattern' \in Seq(S)
    BY <2>1, <2>2
  <2> QED
    BY <1>0, <2>1, <2>2, <2>3 DEF FitInv, PatternFits
<1>2. ASSUME NEW id \in MatchIds, NEW b \in BOOLEAN, Match(id, b)
      PROVE  FitInv'
  BY <1>2, MatchFoundFits DEF Match
<1>3. CASE EndSearch
  BY <1>3 DEF EndSearch, FitInv, PatternFits
<1>9. ASSUME NEW id \in Pointers, LastMatch(id)
      PROVE  FitInv'
  <2>1. IS_HTTP_ELEMENT(id) \in BOOLEAN
    BY DEF IS_HTTP_ELEMENT
  <2> QED
    BY <1>9, <2>1, MatchFoundFits DEF LastMatch
<1>10. ASSUME NEW id \in Pointers, LastMatchCrashes(id)
       PROVE  FitInv'
  BY <1>10 DEF LastMatchCrashes, FitInv, PatternFits
<1>4. CASE Check
  <2>1. pc = "check" /\ UNCHANGED <<pc, pattern, seen, regexSeen>>
    BY <1>4 DEF Check
  <2> QED
    BY <2>1 DEF FitInv, PatternFits
<1>11. CASE CheckStray
  BY <1>11 DEF CheckStray, FitInv, PatternFits
<1>5. CASE EndCheck
  BY <1>5 DEF EndCheck, FitInv, PatternFits
<1>6. ASSUME NEW id \in RegexIds, NEW end \in 1 .. MaxOffset,
             NEW b \in BOOLEAN, RegexMatch(id, end, b)
      PROVE  FitInv'
  BY <1>6, RegexMatchFits
<1>7. CASE EndPayload
  <2>1. /\ pattern' = pattern /\ pc' = "idle"
        /\ seen' = <<>> /\ regexSeen' = 0
    BY <1>7 DEF EndPayload
  <2>2. seen' \in Seq(Found)
    BY <2>1, EmptySeq
  <2> QED
    BY <2>1, <2>2 DEF FitInv, PatternFits
<1>8. CASE UNCHANGED vars
  BY <1>8 DEF vars, FitInv, PatternFits
<1> QED
  BY <1>1, <1>2, <1>3, <1>4, <1>5, <1>6, <1>7, <1>8, <1>9, <1>10, <1>11 DEF Next

(* The array of collected elements overflows on no payload with fewer      *)
(* matches than it has places, whatever the payloads before it held.       *)
THEOREM PatternFitsAlways == Spec => []PatternFits
<1>1. FitInv => PatternFits
  BY DEF FitInv
<1> QED
  BY <1>1, InitFitInv, StepFitInv, PTL DEF Spec

-----------------------------------------------------------------------------

ExpInv ==
    /\ \E S : exp_array \in Seq(S)
    /\ ExpectationsFit

(* A function on 1 .. n is a sequence of length n. *)
LEMMA FunctionSeq ==
    ASSUME NEW T, NEW n \in Nat, NEW f \in [1 .. n -> T]
    PROVE  f \in Seq(T) /\ Len(f) = n
<1>1. f \in Seq(T)
  BY SeqDef
<1>2. DOMAIN f = 1 .. Len(f) /\ Len(f) \in Nat
  BY <1>1, LenProperties
<1>3. DOMAIN f = 1 .. n
  OBVIOUS
<1> QED
  BY <1>1, <1>2, <1>3

LEMMA RoomForOne ==
    ASSUME NEW n \in Nat, NEW size \in Nat, n <= size, n # size
    PROVE  n + 1 <= size
OBVIOUS

LEMMA CheckExpInv ==
    ASSUME ExpInv, Check PROVE ExpInv'
<1> DEFINE o == Ushort(pattern[i])
           x == eles[o].exp_ele_index
<1>1. PICK S : exp_array \in Seq(S)
  BY DEF ExpInv
<1>2. /\ Len(exp_array) \in Nat
      /\ Len(exp_array) <= EXP_ARRAY_SIZE
      /\ Len(exp_array) # EXP_ARRAY_SIZE
      /\ EXP_ARRAY_SIZE \in Nat
      /\ DOMAIN exp_array = 1 .. Len(exp_array)
  BY <1>1, LenProperties, ScanAssumption DEF ExpInv, ExpectationsFit, Check, Full
<1>3. CASE exp_array' = Append(exp_array, x)
  <2> HIDE DEF x
  <2>1. exp_array \in Seq(S \cup {x}) /\ x \in S \cup {x}
    BY <1>1
  <2>2. /\ exp_array' \in Seq(S \cup {x})
        /\ Len(exp_array') = Len(exp_array) + 1
    BY <1>3, <2>1, AppendProperties
  <2>3. Len(exp_array) + 1 <= EXP_ARRAY_SIZE
    BY <1>2, RoomForOne
  <2>4. ExpectationsFit'
    BY <2>2, <2>3 DEF ExpectationsFit
  <2> QED
    BY <2>2, <2>4 DEF ExpInv
<1>4. CASE exp_array' = Advance(o)
  <2> DEFINE T == {x} \cup S
  <2>1. exp_array' = [j \in 1 .. Len(exp_array) |->
                        IF exp_array[j] = o THEN x ELSE exp_array[j]]
    BY <1>2, <1>4 DEF Advance
  <2> HIDE DEF x, o
  <2>2. \A j \in 1 .. Len(exp_array) : exp_array[j] \in S
    BY <1>1, ElementOfSeq
  <2>3. exp_array' \in [1 .. Len(exp_array) -> T]
    BY <2>1, <2>2
  <2> HIDE DEF T
  <2>4. exp_array' \in Seq(T) /\ Len(exp_array') = Len(exp_array)
    BY <1>2, <2>3, FunctionSeq
  <2>5. ExpectationsFit'
    BY <1>2, <2>4 DEF ExpectationsFit
  <2> QED
    BY <2>4, <2>5 DEF ExpInv
<1> QED
  BY <1>3, <1>4 DEF Check

LEMMA StepExpInv == ExpInv /\ [Next]_vars => ExpInv'
<1> SUFFICES ASSUME ExpInv, [Next]_vars PROVE ExpInv'
  OBVIOUS
<1>1. CASE Check
  BY <1>1, CheckExpInv
<1>2. CASE EndCheck
  <2>1. exp_array' = <<>>
    BY <1>2 DEF EndCheck
  <2>2. <<>> \in Seq({}) /\ Len(<<>>) = 0
    BY EmptySeq
  <2>3. ExpectationsFit'
    BY <2>1, <2>2, ScanAssumption DEF ExpectationsFit
  <2> QED
    BY <2>1, <2>2, <2>3 DEF ExpInv
<1>3. CASE exp_array' = exp_array
  BY <1>3 DEF ExpInv, ExpectationsFit
<1> QED
  BY <1>1, <1>2, <1>3 DEF Next, vars, BeginPayload, Match, LastMatch,
     MatchFound, LastMatchCrashes, EndSearch, CheckStray, RegexMatch, EndPayload

(* The array of expected elements never has more entries than its size:    *)
(* pattern_check leaves its loop as soon as the last one is filled.        *)
THEOREM ExpectationsAlwaysFit == Spec => []ExpectationsFit
<1>1. Init => ExpInv
  <2>1. <<>> \in Seq({}) /\ Len(<<>>) = 0
    BY EmptySeq
  <2> QED
    BY <2>1, ScanAssumption DEF Init, ExpInv, ExpectationsFit
<1>2. ExpInv => ExpectationsFit
  BY DEF ExpInv
<1> QED
  BY <1>1, <1>2, StepExpInv, PTL DEF Spec

-----------------------------------------------------------------------------
(* The layout of the elements.                                             *)

(* Element o is at place p, counted from 0, of signature k.                *)
Place(o, k, p) == /\ k \in 0 .. Len(Sigs) - 1
                  /\ p \in 0 .. Len(Sigs[k + 1]) - 1
                  /\ o = FirstEle(Sigs, k) + p

LEMMA SigFacts ==
    /\ Sigs \in Seq(Seq(Class))
    /\ Len(Sigs) \in Nat /\ Lengths(Sigs) \in [1 .. Len(Sigs) -> Nat]
    /\ FirstEles(Sigs) = Firsts(Sigs)
    /\ EndToEnd(Firsts(Sigs), Len(Sigs), Lengths(Sigs))
    /\ \A k \in 0 .. Len(Sigs) - 1 :
          /\ k + 1 \in 1 .. Len(Sigs) /\ (k + 1) - 1 = k /\ k \in 0 .. Len(Sigs)
          /\ Sigs[k + 1] \in Seq(Class)
          /\ Len(Sigs[k + 1]) \in Nat
<1>1. /\ Sigs \in Seq(Seq(Class)) /\ Len(Sigs) \in Nat
      /\ Lengths(Sigs) \in [1 .. Len(Sigs) -> Nat]
      /\ EndToEnd(Firsts(Sigs), Len(Sigs), Lengths(Sigs))
  BY ScanAssumption, SeqsEndToEnd
<1>2. FirstEles(Sigs) = Firsts(Sigs)
  BY DEF FirstEles, Firsts
<1>3. \A k \in 0 .. Len(Sigs) - 1 :
         k + 1 \in 1 .. Len(Sigs) /\ (k + 1) - 1 = k /\ k \in 0 .. Len(Sigs)
  BY <1>1
<1>4. \A k \in 0 .. Len(Sigs) - 1 :
         Sigs[k + 1] \in Seq(Class) /\ Len(Sigs[k + 1]) \in Nat
  BY <1>1, <1>3, SeqBounds
<1> QED
  BY <1>1, <1>2, <1>3, <1>4

(* Where a signature begins and ends.                                      *)
LEMMA SigBounds ==
    ASSUME NEW k \in 0 .. Len(Sigs) - 1
    PROVE  /\ FirstEle(Sigs, k) \in Nat
           /\ FirstEle(Sigs, k + 1) = FirstEle(Sigs, k) + Len(Sigs[k + 1])
           /\ FirstEle(Sigs, k + 1) <= NumEles(Sigs)
           /\ NumEles(Sigs) \in Nat
<1>1. Sigs \in Seq(Seq(Class)) /\ k + 1 \in 1 .. Len(Sigs) /\ (k + 1) - 1 = k
  BY SigFacts
<1> QED
  BY <1>1, SigFacts, SeqBounds DEF FirstEle, NumEles

LEMMA SigOfPlace ==
    ASSUME NEW o, NEW k, NEW p, Place(o, k, p)
    PROVE  SigOf(Sigs, o) = k
<1> DEFINE f == FirstEles(Sigs)
           In(l) == o \in FirstEle(Sigs, l) .. FirstEle(Sigs, l + 1) - 1
<1>1. k \in 0 .. Len(Sigs) - 1 /\ In(k)
  BY SigBounds, SigFacts DEF Place
<1>2. \A l \in 0 .. Len(Sigs) - 1 : In(l) => l = k
  <2> SUFFICES ASSUME NEW l \in 0 .. Len(Sigs) - 1, In(l)
               PROVE  l = k
    OBVIOUS
  <2>1. o \in f[l] .. f[l + 1] - 1 /\ o \in f[k] .. f[k + 1] - 1
    BY <1>1 DEF FirstEle
  <2> HIDE DEF f, In
  <2>2. Len(Sigs) \in Nat /\ Lengths(Sigs) \in [1 .. Len(Sigs) -> Nat]
    BY SigFacts
  <2>3. EndToEnd(f, Len(Sigs), Lengths(Sigs))
    BY SigFacts DEF f
  <2> QED
    BY <1>1, <2>1, <2>2, <2>3, PartsApart
<1> HIDE DEF In
<1>3. (CHOOSE l \in 0 .. Len(Sigs) - 1 : In(l)) = k
  BY <1>1, <1>2
<1> QED
  BY <1>3 DEF SigOf, In

(* The entry of the element at a place.                                    *)
LEMMA EntryAt ==
    ASSUME NEW o, NEW k, NEW p, Place(o, k, p)
    PROVE  /\ o \in DOMAIN eles /\ o \in Nat /\ o < SENTINEL /\ Ushort(o) = o
           /\ eles[o].sigindex = k
           /\ START \in eles[o].flag <=> p = 0
           /\ END \in eles[o].flag <=> p = Len(Sigs[k + 1]) - 1
           /\ eles[o].flag = {START, END} <=> p = 0 /\ Len(Sigs[k + 1]) = 1
           /\ eles[o].exp_ele_index =
                 IF p = Len(Sigs[k + 1]) - 1 THEN SENTINEL ELSE o + 1
<1> DEFINE l == Len(Sigs[k + 1])
           f == FirstEle(Sigs, k)
<1>1. /\ l \in Nat /\ f \in Nat /\ p \in 0 .. l - 1 /\ o = f + p
      /\ FirstEle(Sigs, k + 1) = f + l
      /\ f + l <= NumEles(Sigs) /\ NumEles(Sigs) \in Nat
      /\ NumEles(Sigs) < SENTINEL /\ SENTINEL \in Nat
  BY SigBounds, SigFacts, ScanAssumption, SentinelAssumption DEF Place
<1>2. SigOf(Sigs, o) = k
  BY SigOfPlace
<1> HIDE DEF l, f
<1>3. o \in 0 .. NumEles(Sigs) - 1 /\ o \in Nat /\ o < SENTINEL /\ o - f = p
  BY <1>1
<1>4. Ushort(o) = o
  BY <1>1, <1>3 DEF Ushort
<1>5. eles[o] = [sigindex |-> k,
                 flag |-> FlagOf(p, l),
                 exp_ele_index |-> IF p = l - 1 THEN SENTINEL ELSE o + 1]
  <2>1. o = FirstEle(Sigs, k + 1) - 1 <=> p = l - 1
    BY <1>1
  <2>2. eles[o] = [sigindex |-> k,
                 flag |-> FlagOf(o - f, l),
                 exp_ele_index |-> IF o = FirstEle(Sigs, k + 1) - 1
                                   THEN SENTINEL ELSE o + 1]
    BY <1>2, <1>3 DEF eles, EleTable, f, l
  <2> QED
    BY <1>3, <2>1, <2>2
<1>6. DOMAIN eles = 0 .. NumEles(Sigs) - 1
  BY DEF eles, EleTable
<1>7. /\ START \in FlagOf(p, l) <=> p = 0
      /\ END \in FlagOf(p, l) <=> p = l - 1
      /\ FlagOf(p, l) = {START, END} <=> p = 0 /\ p = l - 1
  BY DEF FlagOf, START, END, MID
<1>8. p = 0 /\ p = l - 1 <=> p = 0 /\ l = 1
  BY <1>1
<1> QED
  BY <1>3, <1>4, <1>5, <1>6, <1>7, <1>8 DEF l

(* Every element has a place.                                              *)
LEMMA EveryPlace ==
    ASSUME NEW o \in DOMAIN eles
    PROVE  \E k, p : Place(o, k, p)
<1>1. o \in 0 .. Firsts(Sigs)[Len(Sigs)] - 1
  BY SigFacts DEF eles, EleTable, NumEles, FirstEle
<1>2. PICK k \in 0 .. Len(Sigs) - 1 :
              o \in Firsts(Sigs)[k] .. Firsts(Sigs)[k + 1] - 1
  BY <1>1, SigFacts, PartsCover
<1>3. /\ FirstEle(Sigs, k) \in Nat
      /\ o \in FirstEle(Sigs, k) .. FirstEle(Sigs, k) + Len(Sigs[k + 1]) - 1
      /\ Len(Sigs[k + 1]) \in Nat
  BY <1>2, SigBounds, SigFacts DEF FirstEle
<1>4. Place(o, k, o - FirstEle(Sigs, k))
  BY <1>3 DEF Place
<1> QED
  BY <1>4

(* An element has one place only.                                          *)
LEMMA OnePlace ==
    ASSUME NEW o, NEW k, NEW p, NEW l, NEW q, Place(o, k, p), Place(o, l, q)
    PROVE  k = l /\ p = q
<1>1. k = l
  BY SigOfPlace
<1> QED
  BY <1>1, SigBounds DEF Place

-----------------------------------------------------------------------------
(* Elements in order.                                                      *)

(* f finds the first m elements of signature k in w.                       *)
Finds(f, k, m, w) ==
    /\ f \in [1 .. m -> 1 .. Len(w)]
    /\ \A x, y \in 1 .. m : x < y => f[x] < f[y]
    /\ \A x \in 1 .. m : w[f[x]] = FirstEle(Sigs, k) + x - 1

Occurs(k, m, w) == \E f : Finds(f, k, m, w)

(* No elements are found anywhere.                                         *)
LEMMA NoneOccurs ==
    ASSUME NEW k, NEW w
    PROVE  Occurs(k, 0, w)
<1>1. 1 .. 0 = {}
  OBVIOUS
<1>2. Finds([x \in 1 .. 0 |-> 0], k, 0, w)
  BY <1>1 DEF Finds
<1> QED
  BY <1>2 DEF Occurs

(* Nothing is found in no elements.                                        *)
LEMMA NotInNothing ==
    ASSUME NEW k, NEW m \in Nat \ {0}
    PROVE  ~ Occurs(k, m, <<>>)
<1> SUFFICES ASSUME NEW f, Finds(f, k, m, <<>>)
             PROVE  FALSE
  BY DEF Occurs
<1>1. 1 \in 1 .. m /\ Len(<<>>) = 0
  BY EmptySeq
<1>2. f[1] \in 1 .. 0
  BY <1>1 DEF Finds
<1> QED
  BY <1>2

(* With one element more, the last of the m elements may be that one.      *)
LEMMA OccursStep ==
    ASSUME NEW k, NEW m \in Nat \ {0}, NEW w \in Seq(Nat), NEW o \in Nat
    PROVE  Occurs(k, m, Append(w, o)) <=>
              \/ Occurs(k, m, w)
              \/ o = FirstEle(Sigs, k) + m - 1 /\ Occurs(k, m - 1, w)
<1> DEFINE n == Len(w)
           v == Append(w, o)
<1>1. /\ n \in Nat /\ Len(v) = n + 1 /\ v[n + 1] = o
      /\ \A x \in 1 .. n : v[x] = w[x]
  BY LenProperties, AppendProperties
<1> HIDE DEF v
<1>2. ASSUME NEW f, Finds(f, k, m, w)
      PROVE  Finds(f, k, m, v)
  <2>1. /\ f \in [1 .. m -> 1 .. n]
        /\ \A x, y \in 1 .. m : x < y => f[x] < f[y]
        /\ \A x \in 1 .. m : w[f[x]] = FirstEle(Sigs, k) + x - 1
    BY <1>2 DEF Finds
  <2>2. 1 .. n \subseteq 1 .. Len(v)
    BY <1>1
  <2>3. f \in [1 .. m -> 1 .. Len(v)]
    BY <2>1, <2>2
  <2>4. \A x \in 1 .. m : v[f[x]] = w[f[x]]
    BY <1>1, <2>1
  <2> QED
    BY <2>1, <2>3, <2>4 DEF Finds
<1>3. ASSUME NEW f, Finds(f, k, m - 1, w), o = FirstEle(Sigs, k) + m - 1
      PROVE  Occurs(k, m, v)
  <2> DEFINE g == [x \in 1 .. m |-> IF x = m THEN n + 1 ELSE f[x]]
  <2>1. /\ f \in [1 .. m - 1 -> 1 .. n]
        /\ \A x, y \in 1 .. m - 1 : x < y => f[x] < f[y]
        /\ \A x \in 1 .. m - 1 : w[f[x]] = FirstEle(Sigs, k) + x - 1
    BY <1>3 DEF Finds
  <2>2. m \in 1 .. m /\ \A x \in 1 .. m : x # m => x \in 1 .. m - 1
    OBVIOUS
  <2>3. \A x \in 1 .. m - 1 : f[x] \in 1 .. n /\ f[x] # n + 1 /\ f[x] < n + 1
    BY <1>1, <2>1
  <2>4. g \in [1 .. m -> 1 .. Len(v)]
    <3>1. n + 1 \in 1 .. Len(v) /\ 1 .. n \subseteq 1 .. Len(v)
      BY <1>1
    <3> QED
      BY <2>1, <2>2, <2>3, <3>1
  <2>5. \A x \in 1 .. m : g[x] = IF x = m THEN n + 1 ELSE f[x]
    OBVIOUS
  <2> HIDE DEF g
  <2>6. ASSUME NEW x \in 1 .. m, NEW y \in 1 .. m, x < y
        PROVE  g[x] < g[y]
    <3>1. x \in 1 .. m - 1
      BY <2>6
    <3>2. CASE y = m
      BY <3>1, <3>2, <2>3, <2>5
    <3>3. CASE y # m
      BY <3>1, <3>3, <2>1, <2>2, <2>5, <2>6
    <3> QED
      BY <3>2, <3>3
  <2>7. \A x \in 1 .. m : v[g[x]] = FirstEle(Sigs, k) + x - 1
    <3> SUFFICES ASSUME NEW x \in 1 .. m
                 PROVE  v[g[x]] = FirstEle(Sigs, k) + x - 1
      OBVIOUS
    <3>1. CASE x = m
      BY <1>1, <1>3, <2>5, <3>1
    <3>2. CASE x # m
      BY <1>1, <2>1, <2>2, <2>3, <2>5, <3>2
    <3> QED
      BY <3>1, <3>2
  <2>8. Finds(g, k, m, v)
    BY <2>4, <2>6, <2>7 DEF Finds
  <2> QED
    BY <2>8 DEF Occurs
<1>4. ASSUME NEW f, Finds(f, k, m, v)
      PROVE  \/ Occurs(k, m, w)
             \/ o = FirstEle(Sigs, k) + m - 1 /\ Occurs(k, m - 1, w)
  <2>1. /\ f \in [1 .. m -> 1 .. n + 1]
        /\ \A x, y \in 1 .. m : x < y => f[x] < f[y]
        /\ \A x \in 1 .. m : v[f[x]] = FirstEle(Sigs, k) + x - 1
    BY <1>1, <1>4 DEF Finds
  <2>2. m \in 1 .. m /\ \A x \in 1 .. m : x = m \/ (x < m /\ x \in 1 .. m - 1)
    OBVIOUS
  <2>3. \A x \in 1 .. m - 1 : x \in 1 .. m /\ f[x] < f[m] /\ f[x] \in 1 .. n
    BY <1>1, <2>1, <2>2
  <2>4. CASE f[m] = n + 1
    <3>1. o = FirstEle(Sigs, k) + m - 1
      BY <1>1, <2>1, <2>2, <2>4
    <3> DEFINE g == [x \in 1 .. m - 1 |-> f[x]]
    <3>2. g \in [1 .. m - 1 -> 1 .. n] /\ \A x \in 1 .. m - 1 : g[x] = f[x]
      BY <2>3
    <3> HIDE DEF g
    <3>3. Finds(g, k, m - 1, w)
      BY <1>1, <2>1, <2>3, <3>2 DEF Finds
    <3> QED
      BY <3>1, <3>3 DEF Occurs
  <2>5. CASE f[m] # n + 1
    <3>1. f[m] \in 1 .. n
      BY <1>1, <2>1, <2>2, <2>5
    <3>2. \A x \in 1 .. m : f[x] \in 1 .. n
      BY <2>2, <2>3, <3>1
    <3>3. f \in [1 .. m -> 1 .. n] /\ \A x \in 1 .. m : v[f[x]] = w[f[x]]
      BY <1>1, <2>1, <3>2
    <3>4. Finds(f, k, m, w)
      BY <2>1, <3>3 DEF Finds
    <3> QED
      BY <3>4 DEF Occurs
  <2> QED
    BY <2>4, <2>5
<1>5. Occurs(k, m, w) => Occurs(k, m, v)
  BY <1>2 DEF Occurs
<1>6. o = FirstEle(Sigs, k) + m - 1 /\ Occurs(k, m - 1, w) => Occurs(k, m, v)
  BY <1>3 DEF Occurs
<1>7. Occurs(k, m, v) => \/ Occurs(k, m, w)
                         \/ o = FirstEle(Sigs, k) + m - 1 /\ Occurs(k, m - 1, w)
  BY <1>4 DEF Occurs
<1> QED
  BY <1>5, <1>6, <1>7 DEF v

-----------------------------------------------------------------------------
(* pattern_check: what the expected elements and the reports stand for.    *)

(* The elements of signature k from place m on.                            *)
From(k, m) == FirstEle(Sigs, k) + m .. FirstEle(Sigs, k) + Len(Sigs[k + 1]) - 1

(* Some entry of e expects one of them.                                    *)
Waits(e, k, m) == \E j \in 1 .. Len(e) : e[j] \in From(k, m)

(* After the elements w the first m elements of a signature have been seen *)
(* exactly if an entry expects a later one or the signature is reported.   *)
Known(w, e, pr) ==
    \A k \in 0 .. Len(Sigs) - 1 : \A m \in 1 .. Len(Sigs[k + 1]) :
        Occurs(k, m, w) <=> k \in pr \/ Waits(e, k, m)

(* An element, and the one it expects next, in the ranges of signatures.   *)
LEMMA InFrom ==
    ASSUME NEW o, NEW l, NEW p, Place(o, l, p),
           NEW k \in 0 .. Len(Sigs) - 1, NEW m \in 1 .. Len(Sigs[k + 1])
    PROVE  /\ o \in From(k, m) <=> k = l /\ m <= p
           /\ eles[o].exp_ele_index \in From(k, m) <=>
                 k = l /\ p + 1 < Len(Sigs[k + 1]) /\ m <= p + 1
           /\ o = FirstEle(Sigs, k) + m - 1 <=> k = l /\ m = p + 1
<1>1. /\ FirstEle(Sigs, k) \in Nat /\ Len(Sigs[k + 1]) \in Nat /\ m \in Nat \ {0}
      /\ FirstEle(Sigs, k) + Len(Sigs[k + 1]) <= NumEles(Sigs)
      /\ NumEles(Sigs) < SENTINEL /\ NumEles(Sigs) \in Nat /\ SENTINEL \in Nat
  BY SigBounds, SigFacts, ScanAssumption, SentinelAssumption
<1>2. /\ l \in 0 .. Len(Sigs) - 1 /\ p \in 0 .. Len(Sigs[l + 1]) - 1
      /\ o = FirstEle(Sigs, l) + p /\ FirstEle(Sigs, l) \in Nat
      /\ Len(Sigs[l + 1]) \in Nat
  BY SigBounds, SigFacts DEF Place
<1>3. ASSUME NEW q \in Nat, q < Len(Sigs[k + 1]), NEW x, x = FirstEle(Sigs, k) + q
      PROVE  Place(x, k, q)
  BY <1>1, <1>3 DEF Place
<1>4. ASSUME NEW x \in Nat, NEW q \in Nat, Place(x, l, q)
      PROVE  x \in From(k, m) <=> k = l /\ m <= q
  <2>1. x = FirstEle(Sigs, l) + q /\ q < Len(Sigs[l + 1])
    BY <1>2, <1>4 DEF Place
  <2>2. ASSUME x \in From(k, m)
        PROVE  k = l
    <3> DEFINE r == x - FirstEle(Sigs, k)
    <3>1. r \in Nat /\ r < Len(Sigs[k + 1]) /\ x = FirstEle(Sigs, k) + r
      BY <1>1, <2>2 DEF From
    <3> HIDE DEF r
    <3>2. Place(x, k, r)
      BY <3>1, <1>3
    <3> QED
      BY <3>2, <1>4, OnePlace
  <2>3. ASSUME k = l
        PROVE  x \in From(k, m) <=> m <= q
    BY <1>1, <2>1, <2>3 DEF From
  <2> QED
    BY <2>2, <2>3
<1>5. o \in From(k, m) <=> k = l /\ m <= p
  <2>1. o \in Nat /\ p \in Nat
    BY <1>2
  <2> QED
    BY <2>1, <1>4
<1>6. eles[o].exp_ele_index \in From(k, m) <=>
         k = l /\ p + 1 < Len(Sigs[k + 1]) /\ m <= p + 1
  <2>1. CASE p = Len(Sigs[l + 1]) - 1
    <3>1. eles[o].exp_ele_index = SENTINEL
      BY <2>1, EntryAt
    <3>2. SENTINEL \notin From(k, m)
      BY <1>1 DEF From
    <3>3. ~ (p + 1 < Len(Sigs[l + 1]))
      BY <1>2, <2>1
    <3> QED
      BY <3>1, <3>2, <3>3
  <2>2. CASE p # Len(Sigs[l + 1]) - 1
    <3>1. eles[o].exp_ele_index = o + 1
      BY <2>2, EntryAt
    <3>2. p + 1 \in Nat /\ p + 1 < Len(Sigs[l + 1]) /\ o + 1 \in Nat
      BY <1>2, <2>2
    <3>3. Place(o + 1, l, p + 1)
      <4>1. o + 1 = FirstEle(Sigs, l) + (p + 1)
        BY <1>2
      <4>2. p + 1 \in 0 .. Len(Sigs[l + 1]) - 1
        BY <1>2, <3>2
      <4> QED
        BY <1>2, <4>1, <4>2 DEF Place
    <3>4. o + 1 \in From(k, m) <=> k = l /\ m <= p + 1
      BY <3>2, <3>3, <1>4
    <3> QED
      BY <3>1, <3>2, <3>4
  <2> QED
    BY <2>1, <2>2
<1>7. o = FirstEle(Sigs, k) + m - 1 <=> k = l /\ m = p + 1
  <2>1. ASSUME o = FirstEle(Sigs, k) + m - 1
        PROVE  k = l
    <3>1. m - 1 \in Nat /\ m - 1 < Len(Sigs[k + 1])
          /\ o = FirstEle(Sigs, k) + (m - 1)
      BY <1>1, <2>1
    <3>2. Place(o, k, m - 1)
      BY <1>3, <3>1
    <3> QED
      BY <3>2, OnePlace
  <2>2. ASSUME k = l
        PROVE  o = FirstEle(Sigs, k) + m - 1 <=> m = p + 1
    BY <1>1, <1>2, <2>2
  <2> QED
    BY <2>1, <2>2
<1> QED
  BY <1>5, <1>6, <1>7

(* A first element: an entry more, and the report of a signature that has  *)
(* no other.                                                               *)
LEMMA KnownStart ==
    ASSUME NEW w \in Seq(Nat), NEW e \in Seq(Nat), NEW pr, Known(w, e, pr),
           NEW o, NEW l, Place(o, l, 0), NEW pr2,
           pr2 = IF Len(Sigs[l + 1]) = 1 THEN pr \cup {l} ELSE pr
    PROVE  Known(Append(w, o), Append(e, eles[o].exp_ele_index), pr2)
<1> DEFINE x == eles[o].exp_ele_index
           e2 == Append(e, x)
           v == Append(w, o)
<1>1. o \in Nat /\ x \in Nat
  BY EntryAt, SentinelAssumption
<1>2. /\ Len(e) \in Nat /\ Len(e2) = Len(e) + 1 /\ e2[Len(e) + 1] = x
      /\ \A j \in 1 .. Len(e) : e2[j] = e[j]
  <2> HIDE DEF x
  <2> QED
    BY <1>1, AppendProperties, LenProperties
<1>3. ASSUME NEW k \in 0 .. Len(Sigs) - 1, NEW m \in 1 .. Len(Sigs[k + 1])
      PROVE  Waits(e2, k, m) <=> Waits(e, k, m) \/ x \in From(k, m)
  <2> HIDE DEF e2, x
  <2>1. \A j \in 1 .. Len(e) + 1 : j \in 1 .. Len(e) \/ j = Len(e) + 1
    BY <1>2
  <2>2. 1 .. Len(e) \subseteq 1 .. Len(e) + 1 /\ Len(e) + 1 \in 1 .. Len(e) + 1
    BY <1>2
  <2> QED
    BY <1>2, <2>1, <2>2 DEF Waits
<1> HIDE DEF e2, x, v
<1>4. ASSUME NEW k \in 0 .. Len(Sigs) - 1, NEW m \in 1 .. Len(Sigs[k + 1])
      PROVE  Occurs(k, m, v) <=> k \in pr2 \/ Waits(e2, k, m)
  <2>1. m \in Nat \ {0} /\ Len(Sigs[k + 1]) \in Nat
    BY SigFacts
  <2>2. x \in From(k, m) <=> k = l /\ 0 + 1 < Len(Sigs[k + 1]) /\ m <= 0 + 1
    BY InFrom DEF x
  <2>3. o = FirstEle(Sigs, k) + m - 1 <=> k = l /\ m = 0 + 1
    BY InFrom
  <2>4. Occurs(k, m, v) <=> Occurs(k, m, w) \/ (k = l /\ m = 1)
    <3>1. Occurs(k, m, v) <=> \/ Occurs(k, m, w)
                              \/ k = l /\ m = 1 /\ Occurs(k, m - 1, w)
      BY <1>1, <2>1, <2>3, OccursStep DEF v
    <3>2. m = 1 => Occurs(k, m - 1, w)
      BY NoneOccurs
    <3> QED
      BY <3>1, <3>2
  <2>5. Occurs(k, m, w) <=> k \in pr \/ Waits(e, k, m)
    BY DEF Known
  <2>6. Waits(e2, k, m) <=> \/ Waits(e, k, m)
                            \/ k = l /\ m = 1 /\ Len(Sigs[k + 1]) # 1
    <3>1. m <= 0 + 1 <=> m = 1
      BY <2>1
    <3>2. 0 + 1 < Len(Sigs[k + 1]) <=> Len(Sigs[k + 1]) # 1
      <4> DEFINE n == Len(Sigs[k + 1])
      <4>1. n \in Nat /\ m \in Nat \ {0} /\ m <= n
        BY <2>1
      <4> HIDE DEF n
      <4>2. 0 + 1 < n <=> n # 1
        BY <4>1
      <4> QED
        BY <4>2 DEF n
    <3> QED
      BY <1>3, <2>2, <3>1, <3>2
  <2>7. k \in pr2 <=> k \in pr \/ (k = l /\ Len(Sigs[k + 1]) = 1)
    OBVIOUS
  <2>8. Len(Sigs[k + 1]) = 1 => m = 1
    BY <2>1
  <2> QED
    BY <2>4, <2>5, <2>6, <2>7, <2>8
<1> QED
  BY <1>4 DEF Known, e2, x, v

(* A later element: what expected it expects its successor.                *)
LEMMA KnownNext ==
    ASSUME NEW w \in Seq(Nat), NEW e \in Seq(Nat), NEW pr, Known(w, e, pr),
           NEW o, NEW l, NEW p, Place(o, l, p), p # 0,
           NEW e2, Len(e2) = Len(e),
           \A j \in 1 .. Len(e) :
              e2[j] = IF e[j] = o THEN eles[o].exp_ele_index ELSE e[j],
           NEW pr2,
           pr2 = IF /\ p = Len(Sigs[l + 1]) - 1
                    /\ \E j \in 1 .. Len(e) : e[j] = o
                 THEN pr \cup {l} ELSE pr
    PROVE  Known(Append(w, o), e2, pr2)
<1> DEFINE x == eles[o].exp_ele_index
           Met == \E j \in 1 .. Len(e) : e[j] = o
           Others(k, m) == \E j \in 1 .. Len(e) : e[j] # o /\ e[j] \in From(k, m)
           v == Append(w, o)
<1>1. o \in Nat /\ Len(Sigs[l + 1]) \in Nat /\ p \in 1 .. Len(Sigs[l + 1]) - 1
  <2>1. o \in Nat /\ Len(Sigs[l + 1]) \in Nat /\ p \in 0 .. Len(Sigs[l + 1]) - 1
    BY EntryAt, SigFacts DEF Place
  <2> QED
    BY <2>1
<1>2. ASSUME NEW k, NEW m
      PROVE  /\ Waits(e, k, m) <=> Others(k, m) \/ (Met /\ o \in From(k, m))
             /\ Waits(e2, k, m) <=> Others(k, m) \/ (Met /\ x \in From(k, m))
  <2> HIDE DEF x
  <2>1. Waits(e, k, m) <=> Others(k, m) \/ (Met /\ o \in From(k, m))
    BY DEF Waits
  <2>2. Waits(e2, k, m) <=> Others(k, m) \/ (Met /\ x \in From(k, m))
    BY DEF Waits, x
  <2> QED
    BY <2>1, <2>2
<1>3. Others(l, p) <=> Others(l, p + 1)
  <2>1. FirstEle(Sigs, l) \in Nat /\ o = FirstEle(Sigs, l) + p
    BY SigBounds DEF Place
  <2>2. \A j \in 1 .. Len(e) : e[j] \in Nat
    BY ElementOfSeq
  <2>3. \A y \in Nat : y # o => (y \in From(l, p) <=> y \in From(l, p + 1))
    BY <1>1, <2>1 DEF From
  <2> QED
    BY <2>2, <2>3
<1> HIDE DEF x, Met, Others, v
<1>4. ASSUME NEW k \in 0 .. Len(Sigs) - 1, NEW m \in 1 .. Len(Sigs[k + 1])
      PROVE  Occurs(k, m, v) <=> k \in pr2 \/ Waits(e2, k, m)
  <2>1. m \in Nat \ {0} /\ Len(Sigs[k + 1]) \in Nat
    BY SigFacts
  <2>2. /\ o \in From(k, m) <=> k = l /\ m <= p
        /\ x \in From(k, m) <=>
              k = l /\ p + 1 < Len(Sigs[k + 1]) /\ m <= p + 1
        /\ o = FirstEle(Sigs, k) + m - 1 <=> k = l /\ m = p + 1
    BY InFrom DEF x
  <2>3. Occurs(k, m, v) <=> \/ Occurs(k, m, w)
                            \/ k = l /\ m = p + 1 /\ Occurs(k, m - 1, w)
    BY <1>1, <2>1, <2>2, OccursStep DEF v
  <2>4. Occurs(k, m, w) <=> k \in pr \/ Waits(e, k, m)
    BY DEF Known
  <2>5. k \in pr2 <=> k \in pr \/ (k = l /\ p = Len(Sigs[l + 1]) - 1 /\ Met)
    BY DEF Met
  <2>6. CASE k # l
    BY <2>2, <2>3, <2>4, <2>5, <2>6, <1>2
  <2>7. CASE k = l /\ m <= p
    <3>1. m # p + 1 /\ m <= p + 1
      BY <1>1, <2>1, <2>7
    <3>2. p + 1 < Len(Sigs[k + 1]) <=> p # Len(Sigs[l + 1]) - 1
      BY <1>1, <2>7
    <3> QED
      BY <2>2, <2>3, <2>4, <2>5, <2>7, <3>1, <3>2, <1>2
  <2>8. CASE k = l /\ m = p + 1
    <3> DEFINE n == Len(Sigs[l + 1])
    <3>0. n \in Nat /\ p \in 1 .. n - 1 /\ m = p + 1
      BY <1>1, <2>8
    <3> HIDE DEF n
    <3>1. m - 1 = p /\ p \in 1 .. n /\ ~ (m <= p) /\ m <= p + 1
      BY <3>0
    <3> USE DEF n
    <3>2. Occurs(k, p, w) <=> k \in pr \/ Waits(e, k, p)
      BY <2>8, <3>1 DEF Known
    <3>3. o \in From(k, p)
      <4>1. p <= p
        BY <3>1
      <4> QED
        BY <2>8, <3>1, <4>1, InFrom
    <3>4. Waits(e, k, p) <=> Others(k, m) \/ Met
      BY <1>2, <1>3, <2>8, <3>3
    <3>5. p + 1 < Len(Sigs[k + 1]) <=> p # Len(Sigs[l + 1]) - 1
      BY <1>1, <2>8
    <3> QED
      BY <2>2, <2>3, <2>4, <2>5, <2>8, <3>1, <3>2, <3>4, <3>5, <1>2
  <2>9. CASE k = l /\ ~ (m <= p) /\ m # p + 1
    <3>1. ~ (m <= p + 1) /\ p # Len(Sigs[l + 1]) - 1
      BY <1>1, <2>1, <2>9
    <3> QED
      BY <2>2, <2>3, <2>4, <2>5, <2>9, <3>1, <1>2
  <2> QED
    BY <2>6, <2>7, <2>8, <2>9
<1> QED
  BY <1>4 DEF Known, v

(* The first elements of signatures among the first l of w.                *)
Begun(w, l) == {n \in 1 .. l : /\ w[n] \in DOMAIN eles
                               /\ START \in eles[w[n]].flag}

(* There is an entry for each, and the array was not full before.          *)
Counted(w, e) ==
    /\ Len(e) = Cardinality(Begun(w, Len(w)))
    /\ \A l \in 0 .. Len(w) - 1 : Cardinality(Begun(w, l)) # EXP_ARRAY_SIZE

LEMMA CountedStep ==
    ASSUME NEW w \in Seq(Nat), NEW e, Counted(w, e), Len(e) # EXP_ARRAY_SIZE,
           NEW o \in Nat, o \in DOMAIN eles, NEW e2,
           Len(e2) = IF START \in eles[o].flag THEN Len(e) + 1 ELSE Len(e)
    PROVE  Counted(Append(w, o), e2)
<1> DEFINE n == Len(w)
           v == Append(w, o)
<1>1. /\ n \in Nat /\ Len(v) = n + 1 /\ v[n + 1] = o
      /\ \A x \in 1 .. n : v[x] = w[x]
  BY LenProperties, AppendProperties
<1> HIDE DEF v, n
<1>2. \A l \in 0 .. n : Begun(v, l) = Begun(w, l)
  <2> SUFFICES ASSUME NEW l \in 0 .. n
               PROVE  Begun(v, l) = Begun(w, l)
    OBVIOUS
  <2>1. \A x \in 1 .. l : v[x] = w[x]
    BY <1>1
  <2> QED
    BY <2>1 DEF Begun
<1>3. Begun(v, n + 1) = IF START \in eles[o].flag THEN Begun(w, n) \cup {n + 1}
                        ELSE Begun(w, n)
  <2>1. n + 1 \in 1 .. n + 1 /\ \A x \in 1 .. n + 1 : x \in 1 .. n \/ x = n + 1
    BY <1>1
  <2>2. 1 .. n \subseteq 1 .. n + 1
    BY <1>1
  <2>3. \A x : x \in Begun(v, n + 1) <=>
                  \/ x \in Begun(w, n)
                  \/ x = n + 1 /\ START \in eles[o].flag
    BY <1>1, <2>1, <2>2 DEF Begun
  <2> QED
    BY <2>3
<1>4. IsFiniteSet(Begun(w, n)) /\ n + 1 \notin Begun(w, n)
  <2>1. IsFiniteSet(1 .. n)
    BY <1>1, FS_Interval
  <2>2. Begun(w, n) \subseteq 1 .. n
    BY DEF Begun
  <2>3. n + 1 \notin 1 .. n
    BY <1>1
  <2> QED
    BY <2>1, <2>2, <2>3, FS_Subset
<1>5. Len(e) = Cardinality(Begun(w, n))
  BY DEF Counted, n
<1>6. Len(e2) = Cardinality(Begun(v, n + 1))
  <2>1. Cardinality(Begun(w, n) \cup {n + 1}) = Cardinality(Begun(w, n)) + 1
    BY <1>4, FS_AddElement
  <2> QED
    BY <1>3, <1>5, <2>1
<1>7. ASSUME NEW l \in 0 .. n
      PROVE  Cardinality(Begun(v, l)) # EXP_ARRAY_SIZE
  <2>1. CASE l = n
    BY <1>2, <1>5, <1>7, <2>1
  <2>2. CASE l # n
    <3>1. l \in 0 .. n - 1
      BY <1>1, <2>2
    <3> QED
      BY <1>2, <1>7, <3>1 DEF Counted, n
  <2> QED
    BY <2>1, <2>2
<1>8. 0 .. Len(v) - 1 = 0 .. n
  BY <1>1
<1> QED
  BY <1>1, <1>6, <1>7, <1>8 DEF Counted, v

(* What pattern_check has done when it has taken the elements w.           *)
Checked(w, e, pr) ==
    /\ w \in Seq(DOMAIN eles)
    /\ e \in Seq(Nat)
    /\ pr \subseteq {k \in 0 .. Len(Sigs) - 1 : Sigs[k + 1] # <<>>}
    /\ Known(w, e, pr)
    /\ Counted(w, e)

LEMMA CheckedNothing == Checked(<<>>, <<>>, {})
<1> DEFINE w == <<>>
<1>1. w \in Seq(DOMAIN eles) /\ w \in Seq(Nat) /\ Len(w) = 0
  BY EmptySeq
<1>2. Known(w, w, {})
  <2> SUFFICES ASSUME NEW k \in 0 .. Len(Sigs) - 1,
                      NEW m \in 1 .. Len(Sigs[k + 1])
               PROVE  ~ Occurs(k, m, w) /\ ~ Waits(w, k, m)
    BY DEF Known
  <2>1. m \in Nat \ {0}
    BY SigFacts
  <2>2. ~ Occurs(k, m, w)
    BY <2>1, NotInNothing
  <2> HIDE DEF w
  <2>3. ~ Waits(w, k, m)
    BY <1>1 DEF Waits
  <2> QED
    BY <2>2, <2>3
<1> HIDE DEF w
<1>3. Begun(w, 0) = {} /\ Cardinality({}) = 0
  BY FS_EmptySet DEF Begun
<1>4. Counted(w, w)
  <2>1. 0 .. Len(w) - 1 = {}
    BY <1>1
  <2> QED
    BY <1>1, <1>3, <2>1 DEF Counted
<1>5. Checked(w, w, {})
  BY <1>1, <1>2, <1>4 DEF Checked
<1> QED
  BY <1>5 DEF w

(* One element, as the body of the loop takes it.                          *)
LEMMA CheckedStep ==
    ASSUME NEW w, NEW e, NEW pr, Checked(w, e, pr),
           Len(e) # EXP_ARRAY_SIZE,
           NEW o \in DOMAIN eles, NEW e2, NEW pr2,
           e2 = IF START \in eles[o].flag
                THEN Append(e, eles[o].exp_ele_index)
                ELSE [j \in DOMAIN e |->
                        IF e[j] = o THEN eles[o].exp_ele_index ELSE e[j]],
           pr2 = IF \/ eles[o].flag = {START, END}
                    \/ /\ START \notin eles[o].flag /\ END \in eles[o].flag
                       /\ \E j \in DOMAIN e : e[j] = o
                 THEN pr \cup {eles[o].sigindex} ELSE pr
    PROVE  Checked(Append(w, o), e2, pr2)
<1> DEFINE x == eles[o].exp_ele_index
<1>1. PICK l, p : Place(o, l, p)
  BY EveryPlace
<1>2. /\ o \in Nat /\ x \in Nat /\ eles[o].sigindex = l
      /\ START \in eles[o].flag <=> p = 0
      /\ END \in eles[o].flag <=> p = Len(Sigs[l + 1]) - 1
      /\ eles[o].flag = {START, END} <=> p = 0 /\ Len(Sigs[l + 1]) = 1
  BY <1>1, EntryAt, SentinelAssumption
<1>3. /\ w \in Seq(Nat) /\ e \in Seq(Nat) /\ Len(e) \in Nat
      /\ DOMAIN e = 1 .. Len(e) /\ Known(w, e, pr) /\ Counted(w, e)
      /\ \A j \in 1 .. Len(e) : e[j] \in Nat
  <2>1. DOMAIN eles \subseteq Nat
    BY DEF eles, EleTable
  <2>2. w \in Seq(DOMAIN eles) /\ e \in Seq(Nat) /\ Known(w, e, pr) /\ Counted(w, e)
    BY DEF Checked
  <2>3. w \in Seq(Nat)
    <3>1. Len(w) \in Nat /\ \A y \in 1 .. Len(w) : w[y] \in DOMAIN eles
      BY <2>2, LenProperties, ElementOfSeq
    <3>2. w \in [1 .. Len(w) -> Nat]
      BY <2>1, <2>2, <3>1, LenProperties
    <3> QED
      BY <3>1, <3>2, SeqDef
  <2> QED
    BY <2>2, <2>3, LenProperties, ElementOfSeq
<1> HIDE DEF x
<1>4. Append(w, o) \in Seq(DOMAIN eles)
  <2>1. w \in Seq(DOMAIN eles)
    BY DEF Checked
  <2> QED
    BY <2>1, AppendProperties
<1>5. pr2 \subseteq {k \in 0 .. Len(Sigs) - 1 : Sigs[k + 1] # <<>>}
  <2>1. l \in 0 .. Len(Sigs) - 1 /\ Len(Sigs[l + 1]) # 0
    <3>1. l \in 0 .. Len(Sigs) - 1 /\ Len(Sigs[l + 1]) \in Nat
          /\ p \in 0 .. Len(Sigs[l + 1]) - 1
      BY <1>1, SigFacts DEF Place
    <3> QED
      BY <3>1
  <2>2. Sigs[l + 1] # <<>>
    BY <2>1, EmptySeq
  <2>3. pr2 \subseteq pr \cup {l}
    BY <1>2
  <2> QED
    BY <2>1, <2>2, <2>3 DEF Checked
<1>6. CASE p = 0
  <2>1. e2 = Append(e, x)
    BY <1>2, <1>6 DEF x
  <2>2. e2 \in Seq(Nat) /\ Len(e2) = Len(e) + 1
    <3>1. e \in Seq(Nat) /\ x \in Nat
      BY <1>2, <1>3
    <3> QED
      BY <2>1, <3>1, AppendProperties
  <2>3. pr2 = IF Len(Sigs[l + 1]) = 1 THEN pr \cup {l} ELSE pr
    BY <1>2, <1>6
  <2>4. Known(Append(w, o), e2, pr2)
    <3>1. Place(o, l, 0) /\ e2 = Append(e, eles[o].exp_ele_index)
      BY <1>1, <1>6, <2>1 DEF x
    <3>2. w \in Seq(Nat) /\ e \in Seq(Nat) /\ Known(w, e, pr)
      BY <1>3
    <3>3. Known(Append(w, o), Append(e, eles[o].exp_ele_index), pr2)
      BY <2>3, <3>1, <3>2, KnownStart
    <3> QED
      BY <3>1, <3>3
  <2>5. Counted(Append(w, o), e2)
    BY <1>2, <1>3, <1>6, <2>2, CountedStep
  <2> QED
    BY <1>4, <1>5, <2>2, <2>4, <2>5 DEF Checked
<1>7. CASE p # 0
  <2>1. e2 = [j \in 1 .. Len(e) |-> IF e[j] = o THEN x ELSE e[j]]
    BY <1>2, <1>3, <1>7 DEF x
  <2>2. e2 \in [1 .. Len(e) -> Nat]
    BY <1>2, <1>3, <2>1
  <2>3. e2 \in Seq(Nat) /\ Len(e2) = Len(e)
    BY <1>3, <2>2, FunctionSeq
  <2>4. \A j \in 1 .. Len(e) : e2[j] = IF e[j] = o THEN x ELSE e[j]
    BY <2>1
  <2>5. pr2 = IF /\ p = Len(Sigs[l + 1]) - 1
                 /\ \E j \in 1 .. Len(e) : e[j] = o
              THEN pr \cup {l} ELSE pr
    BY <1>2, <1>3, <1>7
  <2>6. Known(Append(w, o), e2, pr2)
    BY <1>1, <1>3, <1>7, <2>3, <2>4, <2>5, KnownNext DEF x
  <2>7. Counted(Append(w, o), e2)
    BY <1>2, <1>3, <1>7, <2>3, CountedStep
  <2> QED
    BY <1>4, <1>5, <2>3, <2>6, <2>7 DEF Checked
<1> QED
  BY <1>6, <1>7

-----------------------------------------------------------------------------
(* The elements of a payload, match by match.                              *)

HeadsOf(x, n) == {k \in 1 .. n - 1 : IS_HTTP_ELEMENT(x[k].id) /\ x[k].lineStart}

(* HeaderAt and Elements for the matches x that follow the header b.       *)
HeaderOf(x, b, n) ==
    IF HeadsOf(x, n) = {} THEN b
    ELSE HTTP_ELEMENT_ID(x[CHOOSE k \in HeadsOf(x, n) :
                              \A l \in HeadsOf(x, n) : l <= k].id)

Under(x, b, n) == /\ ~ IS_HTTP_ELEMENT(x[n].id)
                  /\ x[n].id.class = HeaderOf(x, b, n)

ElementsOf(x, b) ==
    LET found[n \in 0 .. Len(x)] ==
            IF n = 0 THEN <<>>
            ELSE IF Under(x, b, n) THEN Append(found[n - 1], x[n].id.low)
                 ELSE found[n - 1]
    IN  found[Len(x)]

LEMMA ElementsAre == /\ Elements = ElementsOf(seen, before)
                     /\ \A n : HeaderAt(n) = HeaderOf(seen, before, n)
<1>1. \A n : HeaderAt(n) = HeaderOf(seen, before, n)
  BY DEF HeaderAt, HeaderOf, HeadsOf
<1>2. Elements = ElementsOf(seen, before)
  BY <1>1 DEF Elements, ElementsOf, Under
<1> QED
  BY <1>1, <1>2

(* A later match does not change the headers before it.                    *)
LEMMA HeaderKeeps ==
    ASSUME NEW x \in Seq(Found), NEW y \in Found, NEW b,
           NEW n \in 0 .. Len(x) + 1
    PROVE  HeaderOf(Append(x, y), b, n) = HeaderOf(x, b, n)
<1>1. \A k \in 1 .. n - 1 : Append(x, y)[k] = x[k]
  BY AppendProperties, LenProperties
<1>2. HeadsOf(Append(x, y), n) = HeadsOf(x, n)
  BY <1>1 DEF HeadsOf
<1>3. CASE HeadsOf(x, n) = {}
  BY <1>2, <1>3 DEF HeaderOf
<1>4. CASE HeadsOf(x, n) # {}
  <2> DEFINE h == CHOOSE k \in HeadsOf(x, n) : \A l \in HeadsOf(x, n) : l <= k
  <2>1. h \in 1 .. n - 1
    <3>1. HeadsOf(x, n) \subseteq 1 .. n - 1 /\ n \in Nat
      BY LenProperties DEF HeadsOf
    <3>2. \E k \in HeadsOf(x, n) : \A l \in HeadsOf(x, n) : l <= k
      <4> DEFINE T == {n - k : k \in HeadsOf(x, n)}
      <4>1. T \subseteq Nat /\ T # {}
        BY <1>4, <3>1
      <4>2. PICK m \in T : \A t \in T : m <= t
        <5> HIDE DEF T
        <5> QED
          BY <4>1, LeastElement
      <4>3. PICK k \in HeadsOf(x, n) : m = n - k
        BY <4>2
      <4>4. \A l \in HeadsOf(x, n) : l <= k
        <5> SUFFICES ASSUME NEW l \in HeadsOf(x, n)
                     PROVE  l <= k
          OBVIOUS
        <5>1. m <= n - l
          BY <4>2
        <5>2. l \in Int /\ k \in Int
          BY <3>1, <4>3
        <5> QED
          BY <3>1, <4>3, <5>1, <5>2
      <4> QED
        BY <4>4
    <3>3. h \in HeadsOf(x, n)
      BY <3>2
    <3> QED
      BY <3>1, <3>3
  <2>2. HeaderOf(x, b, n) = HTTP_ELEMENT_ID(x[h].id)
    BY <1>4 DEF HeaderOf
  <2>3. HeaderOf(Append(x, y), b, n) = HTTP_ELEMENT_ID(Append(x, y)[h].id)
    BY <1>2, <1>4 DEF HeaderOf
  <2> QED
    BY <1>1, <2>1, <2>2, <2>3
<1> QED
  BY <1>3, <1>4

(* What follows a header match at the start of a line is in that header.   *)
LEMMA HeaderNext ==
    ASSUME NEW x \in Seq(Found), NEW y \in Found, NEW b
    PROVE  HeaderOf(Append(x, y), b, Len(x) + 2) =
              IF IS_HTTP_ELEMENT(y.id) /\ y.lineStart THEN HTTP_ELEMENT_ID(y.id)
              ELSE HeaderOf(x, b, Len(x) + 1)
<1> DEFINE n == Len(x)
           z == Append(x, y)
           Heading == IS_HTTP_ELEMENT(y.id) /\ y.lineStart
<1>1. n \in Nat /\ z[n + 1] = y /\ \A k \in 1 .. n : z[k] = x[k]
  BY LenProperties, AppendProperties
<1> HIDE DEF z
<1>2. HeadsOf(z, n + 2) = IF Heading THEN HeadsOf(x, n + 1) \cup {n + 1}
                          ELSE HeadsOf(x, n + 1)
  <2>1. (n + 1) - 1 = n /\ (n + 2) - 1 = n + 1
    BY <1>1
  <2>2. /\ \A k \in 1 .. n + 1 : k \in 1 .. n \/ k = n + 1
        /\ 1 .. n \subseteq 1 .. n + 1 /\ n + 1 \in 1 .. n + 1
    BY <1>1
  <2>3. \A k : k \in HeadsOf(z, n + 2) <=>
                  k \in HeadsOf(x, n + 1) \/ (k = n + 1 /\ Heading)
    BY <1>1, <2>1, <2>2 DEF HeadsOf
  <2> QED
    BY <2>3
<1>3. CASE Heading
  <2> DEFINE S == HeadsOf(x, n + 1) \cup {n + 1}
             h == CHOOSE k \in S : \A l \in S : l <= k
  <2>1. \A l \in HeadsOf(x, n + 1) : l \in Int /\ l <= n
    BY <1>1 DEF HeadsOf
  <2>2. n + 1 \in S /\ \A l \in S : l <= n + 1
    BY <1>1, <2>1
  <2>3. \A l \in S : l # n + 1 => ~ (n + 1 <= l)
    BY <1>1, <2>1
  <2> HIDE DEF S
  <2>4. h \in S /\ \A l \in S : l <= h
    BY <2>2
  <2>5. h = n + 1
    BY <2>2, <2>3, <2>4
  <2>6. HeadsOf(z, n + 2) = S /\ S # {}
    BY <1>2, <1>3, <2>2 DEF S
  <2>7. HeaderOf(z, b, n + 2) = HTTP_ELEMENT_ID(z[h].id)
    BY <2>6 DEF HeaderOf
  <2> QED
    BY <1>1, <1>3, <2>5, <2>7 DEF z
<1>4. CASE ~ Heading
  <2>1. HeadsOf(z, n + 2) = HeadsOf(z, n + 1)
    <3>1. HeadsOf(z, n + 1) = HeadsOf(x, n + 1)
      <4>1. (n + 1) - 1 = n
        BY <1>1
      <4> QED
        BY <1>1, <4>1 DEF HeadsOf
    <3> QED
      BY <1>2, <1>4, <3>1
  <2>2. HeaderOf(z, b, n + 2) = HeaderOf(z, b, n + 1)
    <3> DEFINE Header(S) ==
                 IF S = {} THEN b
                 ELSE HTTP_ELEMENT_ID(z[CHOOSE k \in S : \A l \in S : l <= k].id)
    <3>1. \A m : HeaderOf(z, b, m) = Header(HeadsOf(z, m))
      BY DEF HeaderOf
    <3> HIDE DEF Header
    <3> QED
      BY <2>1, <3>1
  <2>3. HeaderOf(z, b, n + 1) = HeaderOf(x, b, n + 1)
    <3>1. n + 1 \in 0 .. Len(x) + 1
      BY <1>1
    <3> QED
      BY <3>1, HeaderKeeps DEF z
  <2> QED
    BY <1>4, <2>2, <2>3 DEF z
<1> QED
  BY <1>3, <1>4

(* The elements of the table are those below NumEles, which fits a ushort.  *)
LEMMA ElementNumber ==
    ASSUME NEW o \in DOMAIN eles
    PROVE  /\ o \in 0 .. SENTINEL
           /\ ClassOf(Sigs, o) \in Class
<1>1. PICK k, p : Place(o, k, p)
  BY EveryPlace
<1>2. o \in Nat /\ SigOf(Sigs, o) = k
  BY <1>1, EntryAt, SigOfPlace
<1>3. /\ k \in 0 .. Len(Sigs) - 1 /\ Sigs[k + 1] \in Seq(Class)
      /\ Len(Sigs[k + 1]) \in Nat /\ p \in 0 .. Len(Sigs[k + 1]) - 1
      /\ FirstEle(Sigs, k) \in Nat /\ o = FirstEle(Sigs, k) + p
      /\ NumEles(Sigs) \in Nat
  BY <1>1, SigFacts, SigBounds DEF Place
<1>4. o - FirstEle(Sigs, k) + 1 \in 1 .. Len(Sigs[k + 1])
  BY <1>3
<1>5. ClassOf(Sigs, o) \in Class
  BY <1>2, <1>3, <1>4, ElementOfSeq DEF ClassOf
<1>6. o \in 0 .. NumEles(Sigs) - 1
  BY DEF eles, EleTable
<1>7. NumEles(Sigs) < SENTINEL /\ SENTINEL \in Nat
  BY ScanAssumption, SentinelAssumption
<1> QED
  BY <1>3, <1>5, <1>6, <1>7

(* Every id a match can have.                                              *)
LEMMA IdFacts ==
    ASSUME NEW id \in MatchIds \cup Pointers
    PROVE  /\ id.low \in Nat /\ id.class \in 0 .. 255
           /\ IS_HTTP_ELEMENT(id) => HTTP_ELEMENT_ID(id) \in 0 .. 255
           /\ ~ IS_HTTP_ELEMENT(id) =>
                 /\ HTTP_ELEMENT_ID(id) = id.class
                 /\ id.low \in 0 .. SENTINEL
                 /\ id \in MatchIds => id.low \in DOMAIN eles
<1>1. CASE \E h \in HeaderIds : id = HeaderId(h)
  <2>1. PICK h \in HeaderIds : id = HeaderId(h)
    BY <1>1
  <2>2. h \in 1 .. 255 /\ h % 256 = h
    <3>1. h \in 1 .. 255
      BY ScanAssumption
    <3> QED
      BY <3>1
  <2>3. id.class = 0 /\ id.low = h
    BY <2>1 DEF HeaderId
  <2> QED
    BY <2>2, <2>3 DEF IS_HTTP_ELEMENT, HTTP_ELEMENT_ID
<1>2. CASE \E o \in DOMAIN eles : id = ElementId(o)
  <2>1. PICK o \in DOMAIN eles : id = ElementId(o)
    BY <1>2
  <2>2. o \in 0 .. SENTINEL /\ SENTINEL \in Nat /\ ClassOf(Sigs, o) \in Class
    BY ElementNumber, SentinelAssumption
  <2>3. id.class \in Class /\ id.low = o
    BY <2>1, <2>2 DEF ElementId
  <2>4. o % 256 \in 0 .. 255 /\ o \in Nat
    BY <2>2
  <2> QED
    BY <2>2, <2>3, <2>4 DEF IS_HTTP_ELEMENT, HTTP_ELEMENT_ID, Class
<1>3. CASE id \notin MatchIds
  <2>1. id \in Pointer /\ SENTINEL \in Nat
    BY <1>3, ScanAssumption, SentinelAssumption
  <2>2. id.class \in 0 .. 255 /\ id.low \in 0 .. SENTINEL /\ id.low \in Nat
    BY <2>1 DEF Pointer
  <2>3. id.low % 256 \in 0 .. 255
    BY <2>2
  <2> QED
    BY <1>3, <2>2, <2>3 DEF IS_HTTP_ELEMENT, HTTP_ELEMENT_ID
<1> QED
  BY <1>1, <1>2, <1>3 DEF MatchIds

(* The elements as a sequence that grows with the matches.                 *)
Grows(c, x, b) ==
    /\ c \in [0 .. Len(x) -> Seq(Nat)]
    /\ c[0] = <<>>
    /\ \A n \in 1 .. Len(x) :
          c[n] = IF Under(x, b, n) THEN Append(c[n - 1], x[n].id.low)
                 ELSE c[n - 1]

LEMMA ElementsGrow ==
    ASSUME NEW x \in Seq(Found), NEW b
    PROVE  \E c : Grows(c, x, b) /\ ElementsOf(x, b) = c[Len(x)]
<1> DEFINE l == Len(x)
           Step(n, w) == IF Under(x, b, n) THEN Append(w, x[n].id.low) ELSE w
           step == [y \in (1 .. l) \X Seq(Nat) |-> Step(y[1], y[2])]
           c == CHOOSE f : f = [n \in 0 .. l |-> IF n = 0 THEN <<>>
                                                 ELSE Step(n, f[n - 1])]
<1>1. l \in Nat /\ \A n \in 1 .. l : x[n].id.low \in Nat
  <2>1. \A n \in 1 .. l : x[n] \in Found
    BY ElementOfSeq
  <2>2. \A n \in 1 .. l : x[n].id \in MatchIds \cup Pointers
    BY <2>1 DEF Found
  <2> QED
    BY <2>2, IdFacts, LenProperties
<1>2. \A n \in 1 .. l, w \in Seq(Nat) : Step(n, w) \in Seq(Nat)
  BY <1>1, AppendProperties
<1>3. step \in StepFcn(l, Seq(Nat)) /\ <<>> \in Seq(Nat)
  <2> HIDE DEF Step
  <2> QED
    BY <1>2, EmptySeq DEF StepFcn
<1>4. PICK f : Unrolls(f, l, Seq(Nat), <<>>, step)
  <2> HIDE DEF step, l
  <2> QED
    BY <1>1, <1>3, PrimitiveRecursion
<1>5. \A n \in 1 .. l : f[n] = Step(n, f[n - 1])
  <2> SUFFICES ASSUME NEW n \in 1 .. l
               PROVE  f[n] = Step(n, f[n - 1])
    OBVIOUS
  <2>1. n - 1 \in 0 .. l /\ f[n - 1] \in Seq(Nat)
    <3> HIDE DEF Step, step, l
    <3>1. n - 1 \in 0 .. l
      BY <1>1
    <3> QED
      BY <1>4, <3>1 DEF Unrolls
  <2> HIDE DEF Step
  <2>2. step[<<n, f[n - 1]>>] = Step(n, f[n - 1])
    BY <2>1
  <2> QED
    BY <1>4, <2>2 DEF Unrolls
<1>6. f = [n \in 0 .. l |-> IF n = 0 THEN <<>> ELSE Step(n, f[n - 1])]
  <2> HIDE DEF Step, step
  <2> QED
    BY <1>1, <1>4, <1>5 DEF Unrolls
<1>7. ElementsOf(x, b) = c[Len(x)]
  BY DEF ElementsOf
<1>8. c = [n \in 0 .. l |-> IF n = 0 THEN <<>> ELSE Step(n, c[n - 1])]
  <2> HIDE DEF Step
  <2> QED
    BY <1>6
<1> HIDE DEF c
<1>9. \A n \in 0 .. l : c[n] = IF n = 0 THEN <<>> ELSE Step(n, c[n - 1])
  <2> HIDE DEF Step
  <2> QED
    BY <1>8
<1> DEFINE P == {n \in 0 .. l : c[n] \in Seq(Nat)}
<1>10. 0 \in P
  <2> HIDE DEF Step
  <2>1. 0 \in 0 .. l /\ c[0] = <<>>
    BY <1>1, <1>9
  <2> QED
    BY <1>3, <2>1
<1>11. \A n \in 0 .. l : n \in P /\ n < l => n + 1 \in P
  <2> SUFFICES ASSUME NEW n \in P, n < l
               PROVE  n + 1 \in P
    OBVIOUS
  <2>1. n + 1 \in 1 .. l /\ n + 1 \in 0 .. l /\ n + 1 # 0 /\ (n + 1) - 1 = n
        /\ c[n] \in Seq(Nat)
    BY <1>1
  <2> HIDE DEF Step
  <2>2. c[n + 1] = Step(n + 1, c[n])
    BY <1>9, <2>1
  <2> QED
    BY <1>2, <2>1, <2>2
<1>12. 0 .. l \subseteq P
  <2> HIDE DEF P, l
  <2> QED
    BY <1>1, <1>10, <1>11, RangeInduction
<1>13. c \in [0 .. l -> Seq(Nat)]
  BY <1>8, <1>12
<1>14. c[0] = <<>> /\ \A n \in 1 .. l : c[n] = Step(n, c[n - 1])
  <2> HIDE DEF Step
  <2> QED
    BY <1>1, <1>9
<1>15. Grows(c, x, b)
  BY <1>13, <1>14 DEF Grows
<1> QED
  BY <1>7, <1>15

LEMMA ElementsStep ==
    ASSUME NEW x \in Seq(Found), NEW y \in Found, NEW b
    PROVE  /\ ElementsOf(x, b) \in Seq(Nat)
           /\ ElementsOf(Append(x, y), b) =
                 IF ~ IS_HTTP_ELEMENT(y.id)
                    /\ y.id.class = HeaderOf(x, b, Len(x) + 1)
                 THEN Append(ElementsOf(x, b), y.id.low)
                 ELSE ElementsOf(x, b)
<1> DEFINE l == Len(x)
           z == Append(x, y)
<1>1. /\ l \in Nat /\ z \in Seq(Found) /\ Len(z) = l + 1 /\ z[l + 1] = y
      /\ \A n \in 1 .. l : z[n] = x[n]
  BY LenProperties, AppendProperties
<1>2. PICK c : Grows(c, x, b) /\ ElementsOf(x, b) = c[l]
  BY ElementsGrow
<1>3. PICK d : Grows(d, z, b) /\ ElementsOf(z, b) = d[l + 1]
  <2>1. \E d : Grows(d, z, b) /\ ElementsOf(z, b) = d[Len(z)]
    BY <1>1, ElementsGrow
  <2> QED
    BY <1>1, <2>1
<1>4. \A n \in 1 .. l + 1 : HeaderOf(z, b, n) = HeaderOf(x, b, n)
  BY <1>1, HeaderKeeps
<1> HIDE DEF z, l
<1>5. \A n \in 1 .. l : Under(z, b, n) <=> Under(x, b, n)
  <2> SUFFICES ASSUME NEW n \in 1 .. l
               PROVE  Under(z, b, n) <=> Under(x, b, n)
    OBVIOUS
  <2>1. n \in 1 .. l + 1
    BY <1>1
  <2> QED
    BY <1>1, <1>4, <2>1 DEF Under
<1> DEFINE P == {n \in 0 .. l : d[n] = c[n]}
<1>6. 0 \in P
  BY <1>1, <1>2, <1>3 DEF Grows
<1>7. \A n \in 0 .. l : n \in P /\ n < l => n + 1 \in P
  <2> SUFFICES ASSUME NEW n \in P, n < l
               PROVE  n + 1 \in P
    OBVIOUS
  <2>1. n + 1 \in 1 .. l /\ n + 1 \in 1 .. l + 1 /\ (n + 1) - 1 = n /\ n + 1 \in 0 .. l
    BY <1>1
  <2>2. c[n + 1] = IF Under(x, b, n + 1) THEN Append(c[n], x[n + 1].id.low)
                   ELSE c[n]
    BY <1>2, <2>1 DEF Grows, l
  <2>3. d[n + 1] = IF Under(z, b, n + 1) THEN Append(d[n], z[n + 1].id.low)
                   ELSE d[n]
    BY <1>1, <1>3, <2>1 DEF Grows
  <2>4. d[n + 1] = c[n + 1]
    BY <1>1, <1>5, <2>1, <2>2, <2>3
  <2> QED
    BY <2>1, <2>4
<1>8. 0 .. l \subseteq P
  <2> HIDE DEF P
  <2> QED
    BY <1>1, <1>6, <1>7, RangeInduction
<1>9. l \in 0 .. l /\ l + 1 \in 1 .. l + 1 /\ (l + 1) - 1 = l
  BY <1>1
<1>10. d[l] = c[l] /\ c[l] \in Seq(Nat)
  BY <1>2, <1>8, <1>9 DEF Grows, l
<1>11. d[l + 1] = IF Under(z, b, l + 1) THEN Append(d[l], z[l + 1].id.low)
                  ELSE d[l]
  BY <1>1, <1>3, <1>9 DEF Grows
<1>12. Under(z, b, l + 1) <=> /\ ~ IS_HTTP_ELEMENT(y.id)
                              /\ y.id.class = HeaderOf(x, b, l + 1)
  BY <1>1, <1>4, <1>9 DEF Under
<1> QED
  BY <1>1, <1>2, <1>3, <1>10, <1>11, <1>12 DEF z, l

LEMMA ElementsNumbers ==
    ASSUME NEW x \in Seq(Found), NEW b
    PROVE  ElementsOf(x, b) \in Seq(Nat)
<1>1. PICK c : Grows(c, x, b) /\ ElementsOf(x, b) = c[Len(x)]
  BY ElementsGrow
<1>2. Len(x) \in 0 .. Len(x)
  BY LenProperties
<1> QED
  BY <1>1, <1>2 DEF Grows

-----------------------------------------------------------------------------
(* What is reported when pattern_check is done.                            *)

FullAt(v) == {k \in DOMAIN v : Cardinality(Begun(v, k)) = EXP_ARRAY_SIZE}

WindowOf(v) ==
    IF FullAt(v) = {} THEN v
    ELSE SubSeq(v, 1, CHOOSE k \in FullAt(v) : \A l \in FullAt(v) : k <= l)

ReportsOf(v) == {k \in 0 .. Len(Sigs) - 1 :
                    Sigs[k + 1] # <<>> /\ OccursIn(Chain(k), WindowOf(v))}

LEMMA ReportsAre ==
    ReportsExact <=> (pc = "regex" => printed = ReportsOf(ElementsOf(seen, before)))
<1>1. Window = WindowOf(Elements)
  BY DEF Window, WindowOf, FullAt, Begun
<1>2. Elements = ElementsOf(seen, before)
  BY ElementsAre
<1> QED
  BY <1>1, <1>2 DEF ReportsExact, ReportsOf

(* All elements of a signature.                                            *)
LEMMA OccursInAll ==
    ASSUME NEW k \in 0 .. Len(Sigs) - 1, NEW w \in Seq(Nat)
    PROVE  OccursIn(Chain(k), w) <=> Occurs(k, Len(Sigs[k + 1]), w)
<1> DEFINE c == Chain(k)
           m == Len(Sigs[k + 1])
<1>1. /\ DOMAIN c = 1 .. m
      /\ \A n \in 1 .. m : c[n] = FirstEle(Sigs, k) + n - 1
      /\ DOMAIN w = 1 .. Len(w)
  BY LenProperties DEF Chain
<1> HIDE DEF c, m
<1>2. ASSUME NEW f
      PROVE  Finds(f, k, m, w) <=>
                /\ f \in [DOMAIN c -> DOMAIN w]
                /\ \A x, y \in DOMAIN c : x < y => f[x] < f[y]
                /\ \A n \in DOMAIN c : c[n] = w[f[n]]
  BY <1>1 DEF Finds
<1>3. OccursIn(c, w) <=> \E f : Finds(f, k, m, w)
  BY <1>2 DEF OccursIn
<1> QED
  BY <1>3 DEF Occurs, c, m

(* The loop ends at the end of the elements or with its array full.        *)
LEMMA CheckedReports ==
    ASSUME NEW v \in Seq(Nat), NEW n \in 0 .. Len(v), NEW e, NEW pr,
           Checked(SubSeq(v, 1, n), e, pr),
           n = Len(v) \/ Len(e) = EXP_ARRAY_SIZE
    PROVE  pr = ReportsOf(v)
<1> DEFINE w == SubSeq(v, 1, n)
           last == Len(v)
<1>1. last \in Nat /\ n \in 0 .. last
  BY LenProperties
<1> HIDE DEF last
<1>2. n \in Nat /\ n <= last /\ 1 .. n \subseteq 1 .. last
  BY <1>1
<1>3. /\ Len(v) \in Nat /\ DOMAIN v = 1 .. Len(v)
      /\ w \in Seq(DOMAIN eles) /\ Len(w) = n
      /\ \A x \in 1 .. n : w[x] = v[x]
      /\ n = Len(v) => w = v
  <2>1. Len(v) \in Nat /\ DOMAIN v = 1 .. Len(v)
    BY LenProperties
  <2>2. w \in Seq(DOMAIN eles) /\ Len(w) = n
    BY PrefixStep DEF Checked
  <2>3. \A x \in 1 .. n : w[x] = v[x]
    <3>1. n \in Int /\ 1 \in Int /\ n - 1 + 1 = n /\ \A x \in 1 .. n : 1 + x - 1 = x
      BY <1>2
    <3>2. \A x \in 1 .. n : v[x] \in Nat
      BY <1>2, ElementOfSeq DEF last
    <3>3. \A x \in 1 .. n - 1 + 1 : SubSeq(v, 1, n)[x] = v[1 + x - 1]
      BY <3>1, <3>2, SubSeqProperties
    <3> QED
      BY <3>1, <3>3
  <2>4. n = Len(v) => w = v
    BY PrefixStep
  <2> QED
    BY <2>1, <2>2, <2>3, <2>4
<1>4. Checked(w, e, pr)
  OBVIOUS
<1> HIDE DEF w
<1>5. \A l \in 0 .. n : Begun(w, l) = Begun(v, l)
  <2> SUFFICES ASSUME NEW l \in 0 .. n
               PROVE  Begun(w, l) = Begun(v, l)
    OBVIOUS
  <2>1. \A x \in 1 .. l : w[x] = v[x]
    <3>1. 1 .. l \subseteq 1 .. n
      BY <1>2
    <3> QED
      BY <1>3, <3>1
  <2> QED
    BY <2>1 DEF Begun
<1>6. /\ Len(e) = Cardinality(Begun(v, n))
      /\ \A l \in 0 .. n - 1 : Cardinality(Begun(v, l)) # EXP_ARRAY_SIZE
  <2>1. n \in 0 .. n /\ \A l \in 0 .. n - 1 : l \in 0 .. n
    BY <1>2
  <2> QED
    BY <1>3, <1>4, <1>5, <2>1 DEF Checked, Counted
<1>7. WindowOf(v) = w
  <2>1. CASE Len(e) = EXP_ARRAY_SIZE
    <3>1. n # 0
      <4>1. Begun(v, 0) = {} /\ Cardinality({}) = 0 /\ EXP_ARRAY_SIZE # 0
        BY FS_EmptySet, ScanAssumption DEF Begun
      <4> QED
        BY <1>6, <2>1, <4>1
    <3>2. n \in FullAt(v)
      <4>1. n \in 1 .. last
        BY <1>2, <3>1
      <4> QED
        BY <1>3, <1>6, <2>1, <4>1 DEF FullAt, last
    <3>3. \A l \in FullAt(v) : l \in Nat /\ ~ (l < n)
      <4> SUFFICES ASSUME NEW l \in FullAt(v)
                   PROVE  l \in Nat /\ ~ (l < n)
        OBVIOUS
      <4>1. l \in 1 .. Len(v) /\ Cardinality(Begun(v, l)) = EXP_ARRAY_SIZE
        BY <1>3 DEF FullAt
      <4>2. l \in Nat /\ (l < n => l \in 0 .. n - 1)
        <5>1. l \in Nat
          BY <4>1
        <5> QED
          BY <1>2, <5>1
      <4> QED
        BY <1>6, <4>1, <4>2
    <3> DEFINE first == CHOOSE k \in FullAt(v) : \A l \in FullAt(v) : k <= l
    <3>4. \A l \in FullAt(v) : n <= l
      BY <1>2, <3>3
    <3>5. first \in FullAt(v) /\ \A l \in FullAt(v) : first <= l
      BY <3>2, <3>4
    <3>6. first = n
      <4> HIDE DEF first
      <4>1. first <= n /\ n <= first /\ first \in Nat
        BY <3>2, <3>3, <3>4, <3>5
      <4> QED
        BY <4>1
    <3> QED
      BY <3>2, <3>6 DEF WindowOf, w
  <2>2. CASE Len(e) # EXP_ARRAY_SIZE
    <3>1. n = Len(v)
      BY <2>2
    <3>2. FullAt(v) = {}
      <4> SUFFICES ASSUME NEW l \in FullAt(v)
                   PROVE  FALSE
        OBVIOUS
      <4>1. l \in 1 .. Len(v) /\ Cardinality(Begun(v, l)) = EXP_ARRAY_SIZE
        BY <1>3 DEF FullAt
      <4>2. l = n \/ l \in 0 .. n - 1
        <5>1. l \in 1 .. n
          BY <3>1, <4>1
        <5> QED
          BY <1>2, <5>1
      <4> QED
        BY <1>6, <2>2, <4>1, <4>2
    <3> QED
      BY <1>3, <3>1, <3>2 DEF WindowOf
  <2> QED
    BY <2>1, <2>2
<1>8. ASSUME NEW k \in 0 .. Len(Sigs) - 1, Sigs[k + 1] # <<>>
      PROVE  k \in pr <=> OccursIn(Chain(k), w)
  <2> DEFINE m == Len(Sigs[k + 1])
  <2>1. m \in Nat \ {0} /\ FirstEle(Sigs, k) \in Nat
    BY <1>8, SigFacts, SigBounds, EmptySeq
  <2>2. m \in 1 .. m
    BY <2>1
  <2>3. Occurs(k, m, w) <=> k \in pr \/ Waits(e, k, m)
    BY <1>4, <2>2 DEF Checked, Known
  <2>4. From(k, m) = {}
    <3> HIDE DEF m
    <3>1. FirstEle(Sigs, k) + m .. FirstEle(Sigs, k) + m - 1 = {}
      BY <2>1
    <3> QED
      BY <3>1 DEF From, m
  <2>5. ~ Waits(e, k, m)
    BY <2>4 DEF Waits
  <2>6. w \in Seq(Nat)
    <3>1. w \in [1 .. n -> Nat]
      <4>1. DOMAIN eles \subseteq Nat
        BY DEF eles, EleTable
      <4>2. \A x \in 1 .. n : w[x] \in DOMAIN eles
        BY <1>3, ElementOfSeq
      <4>3. DOMAIN w = 1 .. n /\ w \in [1 .. n -> DOMAIN eles]
        BY <1>3, LenProperties
      <4> QED
        BY <4>1, <4>3
    <3> QED
      BY <1>2, <3>1, SeqDef
  <2>7. OccursIn(Chain(k), w) <=> Occurs(k, m, w)
    BY <2>6, OccursInAll
  <2> QED
    BY <2>3, <2>5, <2>7
<1>9. pr \subseteq {k \in 0 .. Len(Sigs) - 1 : Sigs[k + 1] # <<>>}
  BY <1>4 DEF Checked
<1>10. \A k : k \in pr <=> k \in ReportsOf(v)
  BY <1>7, <1>8, <1>9 DEF ReportsOf
<1> QED
  BY <1>10
-----------------------------------------------------------------------------
(* The scan.                                                               *)

(* What is collected are the elements under the header of their class.     *)
Gathered == pattern = ElementsOf(seen, before)

ScanTypes ==
    /\ pc \in {"idle", "search", "check", "regex",
               "overflow", "stray", "crash", "abort"}
    /\ elementlast \in 0 .. 255
    /\ element_last \in 0 .. 255
    /\ pattern \in Seq(0 .. SENTINEL)
    /\ printed \subseteq 0 .. Len(Sigs) - 1
    /\ seen \in Seq(Found)

(* The inductive invariant: how far the scan of this payload has got.      *)
ScanInv ==
    /\ ScanTypes
    /\ OnlyPointersStray
    /\ pc = "idle" => seen = <<>>
    /\ pc \in {"idle", "search", "regex"} => i = 1 /\ exp_array = <<>>
    /\ pc \in {"idle", "search"} => printed = {}
    /\ pc = "search" => /\ Gathered
                        /\ pattern \in Seq(DOMAIN eles)
                        /\ elementlast = HeaderOf(seen, before, Len(seen) + 1)
    /\ pc = "check" => /\ Gathered
                       /\ i \in 1 .. Len(pattern) + 1
                       /\ Checked(SubSeq(pattern, 1, i - 1), exp_array, printed)
    /\ pc = "regex" => printed = ReportsOf(ElementsOf(seen, before))

LEMMA InitScanInv == Init => ScanInv
<1> SUFFICES ASSUME Init PROVE ScanInv
  OBVIOUS
<1>1. <<>> \in Seq(Found) /\ <<>> \in Seq(0 .. SENTINEL)
  BY EmptySeq
<1>2. ScanTypes
  BY <1>1 DEF Init, ScanTypes
<1> QED
  BY <1>2 DEF Init, ScanInv, OnlyPointersStray

(* No match, no element, and the header left by earlier payloads.          *)
LEMMA NothingSeen ==
    ASSUME NEW b
    PROVE  ElementsOf(<<>>, b) = <<>> /\ HeaderOf(<<>>, b, 1) = b
<1>1. <<>> \in Seq(Found) /\ Len(<<>>) = 0
  BY EmptySeq
<1>2. ElementsOf(<<>>, b) = <<>>
  <2>1. PICK c : Grows(c, <<>>, b) /\ ElementsOf(<<>>, b) = c[Len(<<>>)]
    BY <1>1, ElementsGrow
  <2> QED
    BY <1>1, <2>1 DEF Grows
<1>3. HeadsOf(<<>>, 1) = {}
  BY DEF HeadsOf
<1> QED
  BY <1>2, <1>3 DEF HeaderOf

LEMMA BeginPayloadScans ==
    ASSUME ScanInv, BeginPayload PROVE ScanInv'
<1>1. /\ pc = "idle" /\ pc' = "search" /\ pattern' = <<>>
      /\ before' = elementlast /\ elementlast' = elementlast
      /\ i' = i /\ exp_array' = exp_array /\ printed' = printed
      /\ element_last' = element_last /\ seen' = seen /\ seen = <<>>
      /\ i = 1 /\ exp_array = <<>> /\ printed = {}
  BY DEF BeginPayload, ScanInv
<1>2. /\ <<>> \in Seq(0 .. SENTINEL) /\ <<>> \in Seq(DOMAIN eles)
      /\ Len(<<>>) = 0
  BY EmptySeq
<1>3. ScanTypes'
  BY <1>1, <1>2 DEF ScanInv, ScanTypes
<1>4. Gathered' /\ OnlyPointersStray'
  BY <1>1, <1>2, NothingSeen DEF Gathered, OnlyPointersStray
<1>5. elementlast' = HeaderOf(seen', before', Len(seen') + 1)
  <2>1. Len(seen') + 1 = 1
    BY <1>1, <1>2
  <2> QED
    BY <1>1, <2>1, NothingSeen
<1> QED
  BY <1>1, <1>2, <1>3, <1>4, <1>5 DEF ScanInv

(* The search goes on, or pattern_check begins.                            *)
LEMMA SearchScans ==
    ASSUME ScanTypes', OnlyPointersStray', Gathered',
           pc' \in {"search", "check", "overflow"},
           i' = 1, exp_array' = <<>>, printed' = {},
           pc' = "search" => /\ pattern' \in Seq(DOMAIN eles)
                             /\ elementlast' = HeaderOf(seen', before', Len(seen') + 1)
    PROVE  ScanInv'
<1>1. Len(pattern') \in Nat /\ SubSeq(pattern', 1, 0) = <<>>
  BY LenProperties, PrefixStep DEF ScanTypes
<1>2. i' - 1 = 0 /\ i' \in 1 .. Len(pattern') + 1
  BY <1>1
<1>3. Checked(SubSeq(pattern', 1, i' - 1), exp_array', printed')
  BY <1>1, <1>2, CheckedNothing
<1> QED
  BY <1>2, <1>3 DEF ScanInv

(* A match changes the header as HeaderOf does, and the elements collected *)
(* as ElementsOf does.                                                     *)
LEMMA MatchFoundScans ==
    ASSUME ScanInv, NEW id \in MatchIds \cup Pointers, NEW b \in BOOLEAN,
           b => IS_HTTP_ELEMENT(id), NEW next \in {"search", "check"},
           next = "search" => id \in MatchIds,
           MatchFound(id, b, next)
    PROVE  ScanInv'
<1> DEFINE y == [id |-> id, lineStart |-> b]
<1>1. /\ pc = "search" /\ seen' = Append(seen, y)
      /\ before' = before /\ i' = i /\ exp_array' = exp_array
      /\ printed' = printed /\ element_last' = element_last
      /\ y \in Found /\ y.id = id /\ y.lineStart = b
  BY DEF MatchFound, Found
<1>2. /\ seen \in Seq(Found) /\ Gathered /\ ScanTypes
      /\ pattern \in Seq(DOMAIN eles)
      /\ elementlast = HeaderOf(seen, before, Len(seen) + 1)
      /\ i = 1 /\ exp_array = <<>> /\ printed = {}
  BY <1>1 DEF ScanInv, ScanTypes
<1>3. /\ Len(seen) \in Nat /\ Len(seen') = Len(seen) + 1
      /\ seen' \in Seq(Found) /\ seen'[Len(seen')] = y
  BY <1>1, <1>2, LenProperties, AppendProperties
<1> HIDE DEF y
<1>4. HeaderOf(seen', before', Len(seen') + 1) =
         IF IS_HTTP_ELEMENT(id) /\ b THEN HTTP_ELEMENT_ID(id) ELSE elementlast
  <2>1. Len(seen') + 1 = Len(seen) + 2
    BY <1>3
  <2> QED
    BY <1>1, <1>2, <2>1, HeaderNext
<1>5. ElementsOf(seen', before') =
         IF ~ IS_HTTP_ELEMENT(id) /\ id.class = elementlast
         THEN Append(pattern, id.low) ELSE pattern
  BY <1>1, <1>2, ElementsStep DEF Gathered
<1>6. /\ DOMAIN pattern = 1 .. Len(pattern) /\ Len(pattern) \in Nat
      /\ \A n \in 1 .. Len(pattern) : pattern[n] \in DOMAIN eles
  BY <1>2, LenProperties, ElementOfSeq
<1>7. CASE IS_HTTP_ELEMENT(id)
  <2>1. /\ elementlast' = IF b THEN HTTP_ELEMENT_ID(id) ELSE elementlast
        /\ pc' = next /\ pattern' = pattern
    BY <1>7 DEF MatchFound
  <2>2. elementlast' \in 0 .. 255
    BY <1>2, <1>7, <2>1, IdFacts DEF ScanTypes
  <2>3. ScanTypes'
    BY <1>1, <1>2, <1>3, <2>1, <2>2 DEF ScanTypes
  <2>4. Gathered' /\ OnlyPointersStray'
    BY <1>2, <1>5, <1>6, <1>7, <2>1 DEF Gathered, OnlyPointersStray
  <2>5. elementlast' = HeaderOf(seen', before', Len(seen') + 1)
    BY <1>4, <1>7, <2>1
  <2> QED
    BY <1>1, <1>2, <2>1, <2>3, <2>4, <2>5, SearchScans
<1>8. CASE ~ IS_HTTP_ELEMENT(id) /\ id.class # elementlast
  <2>1. elementlast' = elementlast /\ pc' = next /\ pattern' = pattern
    BY <1>8, IdFacts DEF MatchFound, InHeader
  <2>2. ScanTypes'
    BY <1>1, <1>2, <1>3, <2>1 DEF ScanTypes
  <2>3. Gathered' /\ OnlyPointersStray'
    BY <1>2, <1>5, <1>6, <1>8, <2>1 DEF Gathered, OnlyPointersStray
  <2>4. elementlast' = HeaderOf(seen', before', Len(seen') + 1)
    BY <1>4, <1>8, <2>1
  <2> QED
    BY <1>1, <1>2, <2>1, <2>2, <2>3, <2>4, SearchScans
<1>9. CASE ~ IS_HTTP_ELEMENT(id) /\ id.class = elementlast
  <2>1. /\ elementlast' = elementlast
        /\ pattern' = Append(pattern, id.low)
        /\ pc' \in {next, "overflow"}
    BY <1>1, <1>9, IdFacts DEF MatchFound, InHeader, Collect
  <2>2. id.low \in 0 .. SENTINEL /\ pattern \in Seq(0 .. SENTINEL)
    BY <1>2, <1>9, IdFacts DEF ScanTypes
  <2>3. /\ pattern' \in Seq(0 .. SENTINEL)
        /\ DOMAIN pattern' = 1 .. Len(pattern) + 1
        /\ Len(pattern') = Len(pattern) + 1
        /\ \A n \in 1 .. Len(pattern) : pattern'[n] = pattern[n]
        /\ pattern'[Len(pattern) + 1] = id.low
    BY <2>1, <2>2, AppendProperties, LenProperties
  <2>4. ScanTypes'
    BY <1>1, <1>2, <1>3, <2>1, <2>3 DEF ScanTypes
  <2>5. Gathered'
    BY <1>5, <1>9, <2>1 DEF Gathered
  <2>6. id \in MatchIds => id.low \in DOMAIN eles
    BY <1>9, IdFacts
  <2>7. pc' = "search" => pattern' \in Seq(DOMAIN eles)
    <3>1. ASSUME pc' = "search"
          PROVE  id.low \in DOMAIN eles
      BY <2>1, <2>6, <3>1
    <3>2. ASSUME id.low \in DOMAIN eles
          PROVE  pattern' \in Seq(DOMAIN eles)
      BY <1>2, <2>1, <3>2, AppendProperties
    <3> QED
      BY <3>1, <3>2
  <2>8. OnlyPointersStray'
    <3> SUFFICES ASSUME NEW n \in 1 .. Len(pattern) + 1,
                        pattern'[n] \notin DOMAIN eles
                 PROVE  /\ pc' # "search" /\ n = Len(pattern')
                        /\ Last(seen').id \in Pointers
                        /\ Last(seen').id.low = pattern'[n]
      BY <2>3 DEF OnlyPointersStray
    <3>1. n \in 1 .. Len(pattern) \/ n = Len(pattern) + 1
      BY <1>6
    <3>2. n = Len(pattern) + 1
      BY <1>6, <2>3, <3>1
    <3>3. id \notin MatchIds /\ id \in Pointers /\ next = "check"
      BY <2>3, <2>6, <3>2
    <3>4. Last(seen') = y
      BY <1>3 DEF Last
    <3> QED
      BY <1>1, <2>1, <2>3, <3>2, <3>3, <3>4
  <2>9. elementlast' = HeaderOf(seen', before', Len(seen') + 1)
    BY <1>4, <1>9, <2>1
  <2> QED
    BY <1>1, <1>2, <2>1, <2>4, <2>5, <2>7, <2>8, <2>9, SearchScans
<1> QED
  BY <1>7, <1>8, <1>9

LEMMA EndSearchScans ==
    ASSUME ScanInv, EndSearch PROVE ScanInv'
<1>1. /\ pc = "search" /\ pc' = "check" /\ elementlast' = elementlast
      /\ pattern' = pattern /\ i' = i /\ exp_array' = exp_array
      /\ printed' = printed /\ element_last' = element_last
      /\ before' = before /\ seen' = seen
  BY DEF EndSearch
<1>2. /\ Gathered /\ ScanTypes /\ i = 1 /\ exp_array = <<>> /\ printed = {}
      /\ OnlyPointersStray
  BY <1>1 DEF ScanInv
<1>3. ScanTypes' /\ Gathered'
  BY <1>1, <1>2 DEF ScanTypes, Gathered
<1>4. OnlyPointersStray'
  BY <1>1, <1>2 DEF OnlyPointersStray
<1> QED
  BY <1>1, <1>2, <1>3, <1>4, SearchScans

(* One element of pattern_check.                                           *)
LEMMA CheckScans ==
    ASSUME ScanInv, Check PROVE ScanInv'
<1> DEFINE o == pattern[i]
           w == SubSeq(pattern, 1, i - 1)
<1>1. /\ pc = "check" /\ pc' = pc /\ elementlast' = elementlast
      /\ pattern' = pattern /\ element_last' = element_last
      /\ before' = before /\ seen' = seen /\ i' = i + 1
      /\ i <= Len(pattern) /\ Len(exp_array) # EXP_ARRAY_SIZE
      /\ Ushort(o) \in DOMAIN eles
  BY DEF Check, Full
<1>2. /\ Gathered /\ ScanTypes /\ i \in 1 .. Len(pattern) + 1
      /\ Checked(w, exp_array, printed) /\ OnlyPointersStray
      /\ pattern \in Seq(0 .. SENTINEL)
  BY <1>1 DEF ScanInv, ScanTypes
<1>3. /\ Len(pattern) \in Nat /\ i \in 1 .. Len(pattern)
      /\ o \in 0 .. SENTINEL
  <2>1. Len(pattern) \in Nat
    BY <1>2, LenProperties
  <2>2. i \in 1 .. Len(pattern)
    BY <1>1, <1>2, <2>1
  <2> DEFINE T == 0 .. SENTINEL
  <2>3. pattern \in Seq(T)
    BY <1>2
  <2> HIDE DEF T
  <2>4. o \in T
    BY <2>2, <2>3, ElementOfSeq
  <2> QED
    BY <2>1, <2>2, <2>4 DEF T
<1>4. Ushort(o) = o /\ o \in DOMAIN eles
  <2>1. o % (SENTINEL + 1) = o
    BY <1>3, SentinelAssumption
  <2> QED
    BY <1>1, <2>1 DEF Ushort
<1>5. /\ exp_array' = IF START \in eles[o].flag
                      THEN Append(exp_array, eles[o].exp_ele_index)
                      ELSE [j \in DOMAIN exp_array |->
                              IF exp_array[j] = o THEN eles[o].exp_ele_index
                              ELSE exp_array[j]]
      /\ printed' = IF \/ eles[o].flag = {START, END}
                       \/ /\ START \notin eles[o].flag /\ END \in eles[o].flag
                          /\ \E j \in DOMAIN exp_array : exp_array[j] = o
                    THEN printed \cup {eles[o].sigindex} ELSE printed
  BY <1>4 DEF Check, Advance
<1>6. Checked(Append(w, o), exp_array', printed')
  BY <1>1, <1>2, <1>4, <1>5, CheckedStep
<1>7. Append(w, o) = SubSeq(pattern', 1, i' - 1)
  <2>1. i' - 1 = i
    BY <1>1, <1>3
  <2> QED
    BY <1>1, <1>2, <1>3, <2>1, PrefixStep
<1>8. Gathered' /\ i' \in 1 .. Len(pattern') + 1 /\ OnlyPointersStray'
  BY <1>1, <1>2, <1>3 DEF Gathered, OnlyPointersStray
<1>9. ScanTypes'
  BY <1>1, <1>2, <1>6 DEF ScanTypes, Checked
<1> HIDE DEF o, w
<1> QED
  BY <1>1, <1>6, <1>7, <1>8, <1>9 DEF ScanInv

(* An element outside the table is met.                                    *)
LEMMA CheckStrayScans ==
    ASSUME ScanInv, CheckStray PROVE ScanInv'
<1>1. /\ pc = "check" /\ pc' = "stray" /\ elementlast' = elementlast
      /\ pattern' = pattern /\ element_last' = element_last
      /\ printed' = printed /\ seen' = seen
  BY DEF CheckStray
<1>2. ScanTypes' /\ OnlyPointersStray'
  BY <1>1 DEF ScanInv, ScanTypes, OnlyPointersStray
<1> QED
  BY <1>1, <1>2 DEF ScanInv

(* The search ends where a header is looked for before no payload.         *)
LEMMA LastMatchCrashesScans ==
    ASSUME ScanInv, NEW id, LastMatchCrashes(id) PROVE ScanInv'
<1>1. /\ pc' = "crash" /\ elementlast' = elementlast
      /\ pattern' = pattern /\ element_last' = element_last
      /\ printed' = printed /\ seen' = seen
  BY DEF LastMatchCrashes
<1>2. ScanTypes' /\ OnlyPointersStray'
  BY <1>1 DEF ScanInv, ScanTypes, OnlyPointersStray
<1> QED
  BY <1>1, <1>2 DEF ScanInv

LEMMA EndCheckScans ==
    ASSUME ScanInv, EndCheck PROVE ScanInv'
<1>1. /\ pc = "check" /\ pc' = "regex" /\ i' = 1 /\ exp_array' = <<>>
      /\ element_last' = 0 /\ elementlast' = elementlast
      /\ pattern' = pattern /\ printed' = printed
      /\ before' = before /\ seen' = seen
      /\ i > Len(pattern) \/ Len(exp_array) = EXP_ARRAY_SIZE
  BY DEF EndCheck, Full
<1>2. /\ Gathered /\ ScanTypes /\ i \in 1 .. Len(pattern) + 1
      /\ Checked(SubSeq(pattern, 1, i - 1), exp_array, printed)
      /\ seen \in Seq(Found)
  BY <1>1 DEF ScanInv, ScanTypes
<1>3. /\ i - 1 \in 0 .. Len(pattern)
      /\ i - 1 = Len(pattern) \/ Len(exp_array) = EXP_ARRAY_SIZE
  <2>1. Len(pattern) \in Nat
    BY <1>2, LenProperties DEF ScanTypes
  <2> QED
    BY <1>1, <1>2, <2>1
<1>4. printed = ReportsOf(pattern)
  <2>1. pattern \in Seq(Nat)
    BY <1>2, ElementsNumbers DEF Gathered
  <2> QED
    BY <1>2, <1>3, <2>1, CheckedReports
<1>5. ScanTypes' /\ OnlyPointersStray'
  BY <1>1, <1>2 DEF ScanTypes, OnlyPointersStray
<1> QED
  BY <1>1, <1>2, <1>4, <1>5 DEF ScanInv, Gathered

LEMMA RegexMatchScans ==
    ASSUME ScanInv, NEW id \in RegexIds, NEW end, NEW b, RegexMatch(id, end, b)
    PROVE  ScanInv'
<1>1. /\ pc = "regex" /\ elementlast' = elementlast /\ i' = i
      /\ exp_array' = exp_array /\ printed' = printed
      /\ before' = before /\ seen' = seen
      /\ pc' \in {"regex", "overflow", "abort"}
      /\ pattern' = pattern \/ pattern' = Append(pattern, id.low)
      /\ \/ element_last' = element_last
         \/ IS_HTTP_ELEMENT(id) /\ element_last' = HTTP_ELEMENT_ID(id)
  BY DEF RegexMatch, Collect
<1>2. ScanTypes /\ i = 1 /\ exp_array = <<>>
      /\ printed = ReportsOf(ElementsOf(seen, before))
  BY <1>1 DEF ScanInv
<1>3. id.low \in 0 .. SENTINEL /\ id.low \in Nat
  <2>1. id.low \in 0 .. SENTINEL /\ SENTINEL \in Nat
    BY ScanAssumption, SentinelAssumption DEF RegexId
  <2> QED
    BY <2>1
<1>4. element_last' \in 0 .. 255
  <2>1. id.low % 256 \in 0 .. 255
    BY <1>3
  <2> QED
    BY <1>1, <1>2, <2>1 DEF ScanTypes, IS_HTTP_ELEMENT, HTTP_ELEMENT_ID
<1>5. pattern' \in Seq(0 .. SENTINEL)
  <2> DEFINE T == 0 .. SENTINEL
  <2>1. pattern \in Seq(T) /\ id.low \in T
    BY <1>2, <1>3 DEF ScanTypes
  <2> HIDE DEF T
  <2>2. Append(pattern, id.low) \in Seq(T)
    BY <2>1, AppendProperties
  <2> QED
    BY <1>1, <2>1, <2>2 DEF T
<1>6. ScanTypes' /\ OnlyPointersStray'
  BY <1>1, <1>2, <1>4, <1>5 DEF ScanTypes, OnlyPointersStray
<1> QED
  BY <1>1, <1>2, <1>6 DEF ScanInv

LEMMA EndPayloadScans ==
    ASSUME ScanInv, EndPayload PROVE ScanInv'
<1>1. /\ pc = "regex" /\ pc' = "idle" /\ element_last' = 0
      /\ seen' = <<>> /\ printed' = {} /\ elementlast' = elementlast
      /\ pattern' = pattern /\ i' = i /\ exp_array' = exp_array
  BY DEF EndPayload
<1>2. ScanTypes /\ i = 1 /\ exp_array = <<>>
  BY <1>1 DEF ScanInv
<1>3. <<>> \in Seq(Found)
  BY EmptySeq
<1>4. ScanTypes' /\ OnlyPointersStray'
  BY <1>1, <1>2, <1>3 DEF ScanTypes, OnlyPointersStray
<1> QED
  BY <1>1, <1>2, <1>4 DEF ScanInv

LEMMA StepScanInv == ScanInv /\ [Next]_vars => ScanInv'
<1> SUFFICES ASSUME ScanInv, [Next]_vars PROVE ScanInv'
  OBVIOUS
<1>1. CASE BeginPayload
  BY <1>1, BeginPayloadScans
<1>2. ASSUME NEW id \in MatchIds, NEW b \in BOOLEAN,
             b => IS_HTTP_ELEMENT(id), Match(id, b)
      PROVE  ScanInv'
  BY <1>2, MatchFoundScans DEF Match
<1>3. ASSUME NEW id \in Pointers, LastMatch(id)
      PROVE  ScanInv'
  <2>1. IS_HTTP_ELEMENT(id) \in BOOLEAN
    BY DEF IS_HTTP_ELEMENT
  <2> QED
    BY <1>3, <2>1, MatchFoundScans DEF LastMatch
<1>4. ASSUME NEW id \in Pointers, LastMatchCrashes(id)
      PROVE  ScanInv'
  BY <1>4, LastMatchCrashesScans
<1>5. CASE EndSearch \/ Check \/ CheckStray \/ EndCheck
  BY <1>5, EndSearchScans, CheckScans, CheckStrayScans, EndCheckScans
<1>6. ASSUME NEW id \in RegexIds, NEW end \in 1 .. MaxOffset,
             NEW b \in BOOLEAN, RegexMatch(id, end, b)
      PROVE  ScanInv'
  BY <1>6, RegexMatchScans
<1>7. CASE EndPayload
  BY <1>7, EndPayloadScans
<1>8. CASE UNCHANGED vars
  BY <1>8 DEF vars, ScanInv, ScanTypes, Gathered, OnlyPointersStray
<1> QED
  BY <1>1, <1>2, <1>3, <1>4, <1>5, <1>6, <1>7, <1>8 DEF Next

(* Between any two steps of the scan, the elements collected are those     *)
(* under their header, and the entries of exp_array and the reports of     *)
(* pattern_check are what the elements it has come to call for.            *)
THEOREM ScanInvariant == Spec => []ScanInv
<1> QED
  BY InitScanInv, StepScanInv, PTL DEF Spec

(* The variables keep to their ranges: the static header is a byte, a      *)
(* report is of a loaded signature, and every element pattern_check is     *)
(* given lies in the table unless the pointer a match at the last byte is  *)
(* reported by, which may be any word, brought it as the last one.         *)
THEOREM TypeOKAlways == Spec => []TypeOK
<1>1. ScanInv /\ ExpectationsFit => TypeOK
  BY DEF ScanInv, ScanTypes, TypeOK
<1> QED
  BY <1>1, ScanInvariant, ExpectationsAlwaysFit, PTL

(* A payload is reported for a signature exactly when the elements of the  *)
(* signature occur in it in the order of the file, each under the header   *)
(* of its class, before the array of expected elements is full: for any    *)
(* signatures, any matches in any order and any size of the array.         *)
THEOREM ReportsExactAlways == Spec => []ReportsExact
<1>1. ScanInv => ReportsExact
  BY ReportsAre DEF ScanInv
<1> QED
  BY <1>1, ScanInvariant, PTL
=============================================================================
