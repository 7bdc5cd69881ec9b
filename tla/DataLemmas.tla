----------------------------- MODULE DataLemmas -----------------------------
(***************************************************************************)
(* Facts about naturals, recursive functions, parts laid end to end and    *)
(* suffixes that the proofs share.                                         *)
(*                                                                         *)
(* The induction theorems of the library take an operator as a parameter.  *)
(* Here induction is stated over a set of naturals instead, so that it can *)
(* be cited: it rests on the least element of the set of counterexamples.  *)
(***************************************************************************)
EXTENDS SequencesExt, SequenceTheorems, WellFoundedInduction, TLAPS

-----------------------------------------------------------------------------
(* Naturals.                                                               *)

(* A set of naturals has a least element.                                  *)
LEMMA LeastElement ==
    ASSUME NEW S, S \subseteq Nat, S # {}
    PROVE  \E i \in S : \A j \in S : i <= j
<1> DEFINE below == OpToRel(<, Nat)
<1>1. \A i, j \in Nat : j < i => <<j, i>> \in below
  BY DEF OpToRel
<1>2. IsWellFoundedOn(below, Nat)
  BY NatLessThanWellFounded
<1> HIDE DEF below
<1>3. PICK i \in S : \A j \in S : ~ (<<j, i>> \in below)
  BY <1>2, WFMin
<1>4. \A j \in S : ~ (j < i)
  BY <1>1, <1>3
<1> QED
  BY <1>4

(* Induction over a range: a set that holds 0, and with each number of the *)
(* range the next one, holds the range.                                    *)
LEMMA RangeInduction ==
    ASSUME NEW n \in Nat, NEW P, 0 \in P,
           \A i \in 0 .. n : i \in P /\ i < n => i + 1 \in P
    PROVE  0 .. n \subseteq P
<1> DEFINE S == (0 .. n) \ P
<1> SUFFICES ASSUME S # {}
             PROVE  FALSE
  OBVIOUS
<1>1. PICK i \in S : \A j \in S : i <= j
  <2>1. S \subseteq Nat
    OBVIOUS
  <2> QED
    BY <2>1, LeastElement
<1>2. i # 0 /\ i - 1 \in 0 .. n /\ i - 1 < n
  OBVIOUS
<1>3. i - 1 \in P
  BY <1>1, <1>2
<1>4. (i - 1) + 1 \in P
  BY <1>2, <1>3
<1> QED
  BY <1>1, <1>4

(* A definition by recursion: f starts at base and goes from each value to *)
(* the next by step.                                                       *)
StepFcn(n, S) == [(1 .. n) \X S -> S]

Unrolls(f, n, S, base, step) ==
    /\ f \in [0 .. n -> S]
    /\ f[0] = base
    /\ \A i \in 1 .. n : f[i] = step[<<i, f[i - 1]>>]

(* There is such a function.                                               *)
LEMMA PrimitiveRecursion ==
    ASSUME NEW n \in Nat, NEW S, NEW base \in S, NEW step \in StepFcn(n, S)
    PROVE  \E f : Unrolls(f, n, S, base, step)
<1> DEFINE P == {k \in 0 .. n : \E f : Unrolls(f, k, S, base, step)}
<1>1. 0 \in P
  <2>1. Unrolls([i \in 0 .. 0 |-> base], 0, S, base, step)
    BY DEF Unrolls
  <2>2. \E f : Unrolls(f, 0, S, base, step)
    BY <2>1
  <2> QED
    BY <2>2
<1>2. ASSUME NEW k \in 0 .. n, k \in P, k < n
      PROVE  k + 1 \in P
  <2>1. PICK f : Unrolls(f, k, S, base, step)
    BY <1>2
  <2> DEFINE g == [i \in 0 .. k + 1 |-> IF i <= k THEN f[i]
                                        ELSE step[<<k + 1, f[k]>>]]
  <2>2. <<k + 1, f[k]>> \in (1 .. n) \X S
    BY <1>2, <2>1 DEF Unrolls
  <2>3. g \in [0 .. k + 1 -> S]
    BY <2>1, <2>2 DEF Unrolls, StepFcn
  <2>4. \A i \in 0 .. k : g[i] = f[i]
    OBVIOUS
  <2>5. g[k + 1] = step[<<k + 1, f[k]>>]
    OBVIOUS
  <2> HIDE DEF g
  <2>6. g[0] = base
    BY <2>1, <2>4 DEF Unrolls
  <2>7. ASSUME NEW i \in 1 .. k + 1
        PROVE  g[i] = step[<<i, g[i - 1]>>]
    <3>1. CASE i = k + 1
      BY <3>1, <2>4, <2>5
    <3>2. CASE i \in 1 .. k
      <4>1. i \in 0 .. k /\ i - 1 \in 0 .. k
        BY <3>2
      <4> QED
        BY <3>2, <4>1, <2>1, <2>4 DEF Unrolls
    <3> QED
      BY <3>1, <3>2
  <2>8. Unrolls(g, k + 1, S, base, step)
    BY <2>3, <2>6, <2>7 DEF Unrolls
  <2> QED
    BY <2>8, <1>2
<1>3. n \in P
  <2>1. 0 .. n \subseteq P
    <3> HIDE DEF P
    <3> QED
      BY <1>1, <1>2, RangeInduction
  <2> QED
    BY <2>1
<1> QED
  BY <1>3

-----------------------------------------------------------------------------
(* Parts laid end to end: first[k] is where the part after the k-th one    *)
(* begins, and the end of the k-th.                                        *)

EndToEnd(first, n, len) ==
    /\ first \in [0 .. n -> Nat]
    /\ first[0] = 0
    /\ \A k \in 1 .. n : first[k] = first[k - 1] + len[k]

(* A running total, unfolded.                                              *)
LEMMA RunningTotal ==
    ASSUME NEW n \in Nat, NEW len \in [1 .. n -> Nat]
    PROVE  \E first :
              first = [k \in 0 .. n |-> IF k = 0 THEN 0 ELSE first[k - 1] + len[k]]
<1> DEFINE step == [x \in (1 .. n) \X Nat |-> x[2] + len[x[1]]]
<1>1. step \in StepFcn(n, Nat)
  BY DEF StepFcn
<1>2. PICK f : Unrolls(f, n, Nat, 0, step)
  <2> HIDE DEF step
  <2> QED
    BY <1>1, PrimitiveRecursion
<1>3. \A k \in 1 .. n : f[k] = f[k - 1] + len[k]
  <2> SUFFICES ASSUME NEW k \in 1 .. n
               PROVE  f[k] = f[k - 1] + len[k]
    OBVIOUS
  <2>1. k - 1 \in 0 .. n
    OBVIOUS
  <2>2. f[k - 1] \in Nat
    BY <1>2, <2>1 DEF Unrolls
  <2>3. step[<<k, f[k - 1]>>] = f[k - 1] + len[k]
    BY <2>2
  <2> QED
    BY <1>2, <2>3 DEF Unrolls
<1>4. f = [k \in 0 .. n |-> IF k = 0 THEN 0 ELSE f[k - 1] + len[k]]
  BY <1>2, <1>3 DEF Unrolls
<1> QED
  BY <1>4

LEMMA TotalEndToEnd ==
    ASSUME NEW n \in Nat, NEW len \in [1 .. n -> Nat], NEW first,
           first = [k \in 0 .. n |-> IF k = 0 THEN 0 ELSE first[k - 1] + len[k]]
    PROVE  EndToEnd(first, n, len)
<1> DEFINE P == {k \in 0 .. n : first[k] \in Nat}
<1>1. \A k \in 0 .. n : first[k] = IF k = 0 THEN 0 ELSE first[k - 1] + len[k]
  OBVIOUS
<1>2. 0 \in P
  BY <1>1
<1>3. \A k \in 0 .. n : k \in P /\ k < n => k + 1 \in P
  <2> SUFFICES ASSUME NEW k \in P, k < n
               PROVE  k + 1 \in P
    OBVIOUS
  <2>1. k + 1 \in 1 .. n /\ (k + 1) - 1 = k /\ first[k] \in Nat
    OBVIOUS
  <2>2. first[k + 1] = first[k] + len[k + 1]
    BY <1>1, <2>1
  <2> QED
    BY <2>1, <2>2
<1>4. 0 .. n \subseteq P
  <2> HIDE DEF P
  <2> QED
    BY <1>2, <1>3, RangeInduction
<1>5. first \in [0 .. n -> Nat]
  BY <1>4
<1> QED
  BY <1>1, <1>5 DEF EndToEnd

(* A later part begins no earlier.                                         *)
LEMMA PartsInOrder ==
    ASSUME NEW n \in Nat, NEW len \in [1 .. n -> Nat], NEW first,
           EndToEnd(first, n, len), NEW j \in 0 .. n, NEW i \in 0 .. j
    PROVE  first[i] <= first[j]
<1> DEFINE P == {k \in 0 .. n : \A l \in 0 .. k : first[l] <= first[k]}
<1>1. 0 \in P
  BY DEF EndToEnd
<1>2. ASSUME NEW k \in 0 .. n, k \in P, k < n
      PROVE  k + 1 \in P
  <2>1. k + 1 \in 1 .. n /\ k + 1 \in 0 .. n /\ (k + 1) - 1 = k
    BY <1>2
  <2>2. first[k] <= first[k + 1] /\ first[k] \in Nat /\ first[k + 1] \in Nat
    <3>1. first[k + 1] = first[k] + len[k + 1] /\ len[k + 1] \in Nat
      BY <2>1 DEF EndToEnd
    <3>2. first[k] \in Nat /\ first[k + 1] \in Nat
      BY <2>1 DEF EndToEnd
    <3> QED
      BY <3>1, <3>2
  <2>3. ASSUME NEW l \in 0 .. k + 1
        PROVE  first[l] <= first[k + 1]
    <3>1. CASE l = k + 1
      BY <2>2, <3>1
    <3>2. CASE l \in 0 .. k
      <4>1. first[l] <= first[k] /\ first[l] \in Nat
        BY <1>2, <3>2 DEF EndToEnd
      <4> QED
        BY <2>2, <4>1
    <3> QED
      BY <3>1, <3>2
  <2> QED
    BY <2>1, <2>3
<1>3. 0 .. n \subseteq P
  <2> HIDE DEF P
  <2> QED
    BY <1>1, <1>2, RangeInduction
<1> QED
  BY <1>3

(* Every place is in a part.                                               *)
LEMMA PartsCover ==
    ASSUME NEW n \in Nat, NEW len \in [1 .. n -> Nat], NEW first,
           EndToEnd(first, n, len), NEW o \in 0 .. first[n] - 1
    PROVE  \E k \in 0 .. n - 1 : o \in first[k] .. first[k + 1] - 1
<1> DEFINE S == {k \in 0 .. n : o < first[k]}
<1>1. n \in S
  <2>1. first[n] \in Nat
    BY DEF EndToEnd
  <2> QED
    BY <2>1
<1>2. PICK k \in S : \A j \in S : k <= j
  <2>1. S \subseteq Nat /\ S # {}
    BY <1>1
  <2> QED
    BY <2>1, LeastElement
<1>3. k # 0
  BY DEF EndToEnd
<1>4. k - 1 \in 0 .. n - 1 /\ (k - 1) + 1 = k /\ k - 1 \notin S
  BY <1>2, <1>3
<1>5. first[k - 1] \in Nat /\ first[k] \in Nat /\ o \in Nat
  <2>1. k - 1 \in 0 .. n /\ first[n] \in Nat
    BY <1>4 DEF EndToEnd
  <2> QED
    BY <2>1 DEF EndToEnd
<1>6. first[k - 1] <= o /\ o < first[k]
  <2>1. k - 1 \in 0 .. n
    BY <1>4
  <2>2. ~ (o < first[k - 1])
    BY <1>4, <2>1
  <2> QED
    BY <1>5, <2>2
<1>7. o \in first[k - 1] .. first[k] - 1
  BY <1>5, <1>6
<1> QED
  BY <1>4, <1>7

(* And in one only.                                                        *)
LEMMA PartsApart ==
    ASSUME NEW n \in Nat, NEW len \in [1 .. n -> Nat], NEW first,
           EndToEnd(first, n, len), NEW k \in 0 .. n - 1, NEW l \in 0 .. n - 1,
           NEW o, o \in first[k] .. first[k + 1] - 1,
           o \in first[l] .. first[l + 1] - 1
    PROVE  k = l
<1>1. /\ first[k] \in Nat /\ first[k + 1] \in Nat
      /\ first[l] \in Nat /\ first[l + 1] \in Nat /\ o \in Nat
  <2>1. k \in 0 .. n /\ k + 1 \in 0 .. n /\ l \in 0 .. n /\ l + 1 \in 0 .. n
    OBVIOUS
  <2>2. first[k] \in Nat /\ first[k + 1] \in Nat
        /\ first[l] \in Nat /\ first[l + 1] \in Nat
    BY <2>1 DEF EndToEnd
  <2> QED
    BY <2>2
<1>2. ASSUME k < l
      PROVE  FALSE
  <2>1. l \in 0 .. n /\ k + 1 \in 0 .. l
    BY <1>2
  <2>2. first[k + 1] <= first[l]
    BY <2>1, PartsInOrder
  <2> QED
    BY <1>1, <2>2
<1>3. ASSUME l < k
      PROVE  FALSE
  <2>1. k \in 0 .. n /\ l + 1 \in 0 .. k
    BY <1>3
  <2>2. first[l + 1] <= first[k]
    BY <2>1, PartsInOrder
  <2> QED
    BY <1>1, <2>2
<1> QED
  BY <1>2, <1>3

(* The parts are a partition of the whole.                                 *)
LEMMA PartsUnion ==
    ASSUME NEW n \in Nat, NEW len \in [1 .. n -> Nat], NEW first,
           EndToEnd(first, n, len)
    PROVE  /\ \A k, l \in 1 .. n : \A x :
                 /\ x \in first[k - 1] .. first[k] - 1
                 /\ x \in first[l - 1] .. first[l] - 1
                 => k = l
           /\ \A x : x \in 0 .. first[n] - 1 <=>
                        \E k \in 1 .. n : x \in first[k - 1] .. first[k] - 1
<1> DEFINE Part(k) == first[k - 1] .. first[k] - 1
           all == 0 .. first[n] - 1
<1>1. ASSUME NEW k \in 1 .. n, NEW l \in 1 .. n, NEW x,
             x \in Part(k), x \in Part(l)
      PROVE  k = l
  <2>1. /\ k - 1 \in 0 .. n - 1 /\ (k - 1) + 1 = k
        /\ l - 1 \in 0 .. n - 1 /\ (l - 1) + 1 = l
    OBVIOUS
  <2>2. /\ x \in first[k - 1] .. first[(k - 1) + 1] - 1
        /\ x \in first[l - 1] .. first[(l - 1) + 1] - 1
    BY <1>1, <2>1
  <2>3. k - 1 = l - 1
    BY <2>1, <2>2, PartsApart
  <2> QED
    BY <2>1, <2>3
<1>2. ASSUME NEW k \in 1 .. n
      PROVE  Part(k) \subseteq all
  <2>1. k \in 0 .. n /\ n \in 0 .. n /\ k \in 0 .. n /\ k - 1 \in 0 .. n
    OBVIOUS
  <2>2. /\ first[k] <= first[n] /\ first[k] \in Nat /\ first[n] \in Nat
        /\ first[k - 1] \in Nat
    BY <2>1, PartsInOrder DEF EndToEnd
  <2> QED
    BY <2>2
<1>3. ASSUME NEW x \in all
      PROVE  \E k \in 1 .. n : x \in Part(k)
  <2>1. PICK k \in 0 .. n - 1 : x \in first[k] .. first[k + 1] - 1
    BY <1>3, PartsCover
  <2>2. k + 1 \in 1 .. n /\ (k + 1) - 1 = k
    OBVIOUS
  <2> QED
    BY <2>1, <2>2
<1> HIDE DEF Part, all
<1>4. \A x : x \in all <=> \E k \in 1 .. n : x \in Part(k)
  BY <1>2, <1>3
<1> QED
  BY <1>1, <1>4 DEF Part, all

-----------------------------------------------------------------------------
(* Sequences laid end to end.                                              *)

(* Where each one begins: k of them are before the first element of the    *)
(* next.                                                                   *)
Firsts(s) ==
    LET first[k \in 0 .. Len(s)] ==
            IF k = 0 THEN 0 ELSE first[k - 1] + Len(s[k])
    IN  first

Lengths(s) == [k \in 1 .. Len(s) |-> Len(s[k])]

LEMMA SeqsEndToEnd ==
    ASSUME NEW S, NEW s \in Seq(Seq(S))
    PROVE  /\ Len(s) \in Nat
           /\ Lengths(s) \in [1 .. Len(s) -> Nat]
           /\ EndToEnd(Firsts(s), Len(s), Lengths(s))
<1> DEFINE n == Len(s)
           c == Firsts(s)
           lens == Lengths(s)
<1>1. n \in Nat /\ lens \in [1 .. n -> Nat]
  <2>1. \A k \in 1 .. n : s[k] \in Seq(S)
    BY ElementOfSeq
  <2> QED
    BY <2>1, LenProperties DEF Lengths
<1>2. \A k \in 0 .. n : k # 0 => lens[k] = Len(s[k])
  <2>1. \A k \in 0 .. n : k # 0 => k \in 1 .. n
    BY <1>1
  <2> QED
    BY <2>1 DEF Lengths
<1> HIDE DEF lens
<1>3. PICK f : f = [k \in 0 .. n |-> IF k = 0 THEN 0 ELSE f[k - 1] + lens[k]]
  BY <1>1, RunningTotal
<1>4. f = [k \in 0 .. n |-> IF k = 0 THEN 0 ELSE f[k - 1] + Len(s[k])]
  BY <1>2, <1>3
<1>5. c = [k \in 0 .. n |-> IF k = 0 THEN 0 ELSE c[k - 1] + Len(s[k])]
  BY <1>4 DEF Firsts
<1> HIDE DEF c
<1>6. c = [k \in 0 .. n |-> IF k = 0 THEN 0 ELSE c[k - 1] + lens[k]]
  BY <1>2, <1>5
<1>7. EndToEnd(c, n, lens)
  BY <1>1, <1>6, TotalEndToEnd
<1> QED
  BY <1>1, <1>7 DEF c, lens

(* Where one of them begins and ends.                                      *)
LEMMA SeqBounds ==
    ASSUME NEW S, NEW s \in Seq(Seq(S)), NEW k \in 1 .. Len(s)
    PROVE  /\ s[k] \in Seq(S) /\ Len(s[k]) \in Nat
           /\ Firsts(s)[k - 1] \in Nat
           /\ Firsts(s)[k] = Firsts(s)[k - 1] + Len(s[k])
           /\ Firsts(s)[k] <= Firsts(s)[Len(s)]
           /\ Firsts(s)[Len(s)] \in Nat
<1> DEFINE n == Len(s)
           c == Firsts(s)
           lens == Lengths(s)
<1>1. n \in Nat /\ lens \in [1 .. n -> Nat] /\ EndToEnd(c, n, lens)
  BY SeqsEndToEnd
<1>2. s[k] \in Seq(S) /\ Len(s[k]) \in Nat /\ lens[k] = Len(s[k])
  <2>1. s[k] \in Seq(S)
    BY ElementOfSeq
  <2> QED
    BY <2>1, LenProperties DEF Lengths
<1> HIDE DEF c, lens, n
<1>3. k \in 1 .. n
  BY DEF n
<1>4. k - 1 \in 0 .. n /\ k \in 0 .. n /\ n \in 0 .. n /\ k \in 0 .. n
  BY <1>1, <1>3
<1>5. c[k - 1] \in Nat /\ c[n] \in Nat /\ c[k] = c[k - 1] + lens[k]
  BY <1>1, <1>3, <1>4 DEF EndToEnd
<1>6. c[k] <= c[n]
  BY <1>1, <1>4, PartsInOrder
<1> QED
  BY <1>2, <1>5, <1>6 DEF c, n

(* Joined, they keep their elements.                                       *)
LEMMA Flattened ==
    ASSUME NEW S, NEW s \in Seq(Seq(S))
    PROVE  /\ FlattenSeq(s) \in Seq(S)
           /\ Len(FlattenSeq(s)) = Firsts(s)[Len(s)]
           /\ \A k \in 1 .. Len(s) : \A j \in 1 .. Len(s[k]) :
                 FlattenSeq(s)[Firsts(s)[k - 1] + j] = s[k][j]
<1> DEFINE n == Len(s)
           c == Firsts(s)
           step == [x \in (1 .. n) \X Seq(S) |-> x[2] \o s[x[1]]]
           g == CHOOSE f : f = [i \in 1 .. n |-> IF i = 1 THEN s[i]
                                                 ELSE f[i - 1] \o s[i]]
<1>1. /\ n \in Nat /\ c[0] = 0 /\ c \in [0 .. n -> Nat]
      /\ \A k \in 1 .. n : s[k] \in Seq(S)
  BY SeqsEndToEnd, SeqBounds DEF EndToEnd
<1>2. CASE n = 0
  <2>1. s = <<>> /\ FlattenSeq(s) = s
    BY <1>2, EmptySeq DEF FlattenSeq
  <2> QED
    BY <1>1, <1>2, <2>1, EmptySeq
<1>3. CASE n # 0
  <2>1. PICK h : Unrolls(h, n, Seq(S), <<>>, step)
    <3>1. step \in StepFcn(n, Seq(S)) /\ <<>> \in Seq(S)
      BY <1>1, ConcatProperties, EmptySeq DEF StepFcn
    <3> HIDE DEF step, n
    <3> QED
      BY <1>1, <3>1, PrimitiveRecursion
  <2>2. \A i \in 1 .. n : h[i - 1] \in Seq(S) /\ h[i] = h[i - 1] \o s[i]
    <3> SUFFICES ASSUME NEW i \in 1 .. n
                 PROVE  h[i - 1] \in Seq(S) /\ h[i] = h[i - 1] \o s[i]
      OBVIOUS
    <3>1. h[i - 1] \in Seq(S)
      <4>1. i - 1 \in 0 .. n
        BY <1>1
      <4> HIDE DEF step, n
      <4> QED
        BY <2>1, <4>1 DEF Unrolls
    <3>2. step[<<i, h[i - 1]>>] = h[i - 1] \o s[i]
      BY <3>1
    <3> QED
      BY <2>1, <3>1, <3>2 DEF Unrolls
  <2> DEFINE f == [i \in 1 .. n |-> h[i]]
  <2>3. f = [i \in 1 .. n |-> IF i = 1 THEN s[i] ELSE f[i - 1] \o s[i]]
    <3> SUFFICES ASSUME NEW i \in 1 .. n
                 PROVE  h[i] = IF i = 1 THEN s[i] ELSE f[i - 1] \o s[i]
      OBVIOUS
    <3>1. CASE i = 1
      <4>1. h[i - 1] = <<>>
        BY <2>1, <3>1 DEF Unrolls
      <4> QED
        BY <1>1, <2>2, <3>1, <4>1, ConcatEmptySeq
    <3>2. CASE i # 1
      <4>1. i - 1 \in 1 .. n
        BY <1>1, <3>2
      <4> QED
        BY <2>2, <3>2, <4>1
    <3> QED
      BY <3>1, <3>2
  <2> HIDE DEF f
  <2>4. g = [i \in 1 .. n |-> IF i = 1 THEN s[i] ELSE g[i - 1] \o s[i]]
    BY <2>3
  <2>5. FlattenSeq(s) = g[n]
    BY <1>3 DEF FlattenSeq
  <2> HIDE DEF g
  <2>6. \A i \in 1 .. n : g[i] = IF i = 1 THEN s[i] ELSE g[i - 1] \o s[i]
    BY <2>4
  <2> DEFINE Joins(t, i) ==
                /\ t \in Seq(S)
                /\ Len(t) = c[i]
                /\ \A k \in 1 .. i : \A j \in 1 .. Len(s[k]) :
                      t[c[k - 1] + j] = s[k][j]
             P == {i \in 0 .. n : i # 0 => Joins(g[i], i)}
  <2>7. ASSUME NEW i \in 1 .. n, NEW t, Joins(t, i - 1)
        PROVE  Joins(t \o s[i], i)
    <3>1. /\ s[i] \in Seq(S) /\ Len(s[i]) \in Nat /\ c[i - 1] \in Nat
          /\ c[i] = c[i - 1] + Len(s[i])
      BY SeqBounds
    <3>2. /\ t \o s[i] \in Seq(S)
          /\ Len(t \o s[i]) = c[i]
          /\ \A j \in 1 .. c[i - 1] : (t \o s[i])[j] = t[j]
          /\ \A j \in 1 .. Len(s[i]) : (t \o s[i])[c[i - 1] + j] = s[i][j]
      <4> DEFINE u == s[i]
                 v == t \o u
                 m == c[i - 1]
      <4>1. t \in Seq(S) /\ Len(t) = m /\ u \in Seq(S) /\ m \in Nat /\ Len(u) \in Nat
        BY <2>7, <3>1
      <4> HIDE DEF u, m
      <4>2. /\ v \in Seq(S) /\ Len(v) = m + Len(u)
            /\ \A j \in 1 .. m + Len(u) :
                  v[j] = IF j <= m THEN t[j] ELSE u[j - m]
        BY <4>1, ConcatProperties
      <4> HIDE DEF v
      <4>3. \A j \in 1 .. m : v[j] = t[j]
        <5>1. \A j \in 1 .. m : j \in 1 .. m + Len(u) /\ j <= m
          BY <4>1
        <5> QED
          BY <4>2, <5>1
      <4>4. \A j \in 1 .. Len(u) : v[m + j] = u[j]
        <5>1. \A j \in 1 .. Len(u) : /\ m + j \in 1 .. m + Len(u)
                                      /\ ~ (m + j <= m) /\ (m + j) - m = j
          BY <4>1
        <5> QED
          BY <4>2, <5>1
      <4> QED
        BY <3>1, <4>2, <4>3, <4>4 DEF u, v, m
    <3> HIDE DEF c
    <3>3. ASSUME NEW k \in 1 .. i - 1, NEW j \in 1 .. Len(s[k])
          PROVE  (t \o s[i])[c[k - 1] + j] = s[k][j]
      <4>1. k \in 1 .. n /\ k \in 0 .. i - 1 /\ i - 1 \in 0 .. n
        BY <1>1
      <4>2. /\ c[k - 1] \in Nat /\ Len(s[k]) \in Nat
            /\ c[k] = c[k - 1] + Len(s[k])
        BY <4>1, SeqBounds DEF c
      <4>3. c[k] <= c[i - 1]
        BY <4>1, SeqsEndToEnd, PartsInOrder DEF c
      <4>4. c[k - 1] + j \in 1 .. c[i - 1]
        <5>1. c[i - 1] \in Nat
          BY <4>1, SeqBounds DEF c
        <5>2. \A a, l, b \in Nat : \A x \in 1 .. l :
                 a + l <= b => a + x \in 1 .. b
          OBVIOUS
        <5> QED
          BY <4>2, <4>3, <5>1, <5>2
      <4> QED
        BY <2>7, <3>2, <4>4
    <3>4. \A k \in 1 .. i : k = i \/ k \in 1 .. i - 1
      BY <1>1
    <3> QED
      BY <3>2, <3>3, <3>4
  <2>8. 0 \in P
    BY <1>1
  <2>9. \A i \in 0 .. n : i \in P /\ i < n => i + 1 \in P
    <3> SUFFICES ASSUME NEW i \in 0 .. n, i \in P, i < n
                 PROVE  Joins(g[i + 1], i + 1) /\ i + 1 \in 0 .. n
      OBVIOUS
    <3>1. i + 1 \in 1 .. n /\ i + 1 \in 0 .. n /\ (i + 1) - 1 = i
      BY <1>1
    <3>2. CASE i = 0
      <4>1. <<>> \in Seq(S) /\ Len(<<>>) = 0 /\ \A k : k \notin 1 .. 0
        BY EmptySeq
      <4>2. Joins(<<>>, 0)
        BY <1>1, <4>1
      <4>3. s[i + 1] = <<>> \o s[i + 1]
        BY <1>1, <3>1, ConcatEmptySeq
      <4>4. g[i + 1] = <<>> \o s[i + 1]
        BY <2>6, <3>1, <3>2, <4>3
      <4> HIDE DEF Joins
      <4> QED
        BY <2>7, <3>1, <3>2, <4>2, <4>4
    <3>3. CASE i # 0
      <4>1. g[i + 1] = g[i] \o s[i + 1]
        <5>1. i + 1 # 1
          BY <3>3
        <5> QED
          BY <2>6, <3>1, <5>1
      <4>2. Joins(g[i], i)
        BY <3>3
      <4> HIDE DEF Joins, P
      <4> QED
        BY <2>7, <3>1, <4>1, <4>2
    <3> QED
      BY <3>2, <3>3
  <2>10. n \in P
    <3> HIDE DEF P
    <3>1. 0 .. n \subseteq P
      BY <1>1, <2>8, <2>9, RangeInduction
    <3> QED
      BY <1>1, <3>1
  <2> QED
    BY <1>3, <2>5, <2>10
<1> QED
  BY <1>2, <1>3

(* Counting within the parts: up to element j of part a, there is what is  *)
(* before the part and what is before j in it.                             *)
LEMMA FirstsFlattened ==
    ASSUME NEW S, NEW s \in Seq(Seq(Seq(S))), NEW a \in 1 .. Len(s),
           NEW j \in 0 .. Len(s[a])
    PROVE  /\ Firsts(s)[a - 1] + j \in 0 .. Len(FlattenSeq(s))
           /\ Firsts(FlattenSeq(s))[Firsts(s)[a - 1] + j] =
                 Firsts(FlattenSeq(s))[Firsts(s)[a - 1]] + Firsts(s[a])[j]
<1> DEFINE t == FlattenSeq(s)
           c == Firsts(s)
           n == Len(s[a])
           d == Firsts(t)
           e == Firsts(s[a])
           b == c[a - 1]
<1>1. /\ t \in Seq(Seq(S)) /\ Len(t) = c[Len(s)]
      /\ \A i \in 1 .. n : t[b + i] = s[a][i]
  BY Flattened
<1>2. /\ s[a] \in Seq(Seq(S)) /\ n \in Nat /\ b \in Nat
      /\ b + n <= Len(t) /\ Len(t) \in Nat
  BY <1>1, SeqBounds
<1>3. /\ \A i \in 1 .. Len(t) : d[i] = d[i - 1] + Len(t[i])
      /\ \A i \in 0 .. Len(t) : d[i] \in Nat
  BY <1>1, SeqsEndToEnd, SeqBounds DEF EndToEnd
<1>4. /\ e[0] = 0
      /\ \A i \in 1 .. n : e[i] = e[i - 1] + Len(s[a][i]) /\ Len(s[a][i]) \in Nat
      /\ \A i \in 0 .. n : e[i] \in Nat
  BY <1>2, SeqsEndToEnd, SeqBounds DEF EndToEnd
<1> HIDE DEF t, n, d, e, b
<1> DEFINE P == {i \in 0 .. n : d[b + i] = d[b] + e[i]}
<1>5. 0 \in P
  <2>1. b + 0 = b /\ b \in 0 .. Len(t)
    BY <1>2
  <2>2. d[b] \in Nat
    BY <1>3, <2>1
  <2>3. d[b] = d[b] + e[0]
    BY <1>4, <2>2
  <2> QED
    BY <1>2, <2>1, <2>3
<1>6. \A i \in 0 .. n : i \in P /\ i < n => i + 1 \in P
  <2> SUFFICES ASSUME NEW i \in 0 .. n, d[b + i] = d[b] + e[i], i < n
               PROVE  d[b + (i + 1)] = d[b] + e[i + 1] /\ i + 1 \in 0 .. n
    OBVIOUS
  <2>1. /\ i + 1 \in 1 .. n /\ (i + 1) - 1 = i /\ i + 1 \in 0 .. n
        /\ b + (i + 1) \in 1 .. Len(t) /\ (b + (i + 1)) - 1 = b + i
        /\ b \in 0 .. Len(t)
    BY <1>2
  <2>2. d[b + (i + 1)] = d[b + i] + Len(s[a][i + 1])
    BY <1>1, <1>3, <2>1
  <2>3. e[i + 1] = e[i] + Len(s[a][i + 1]) /\ Len(s[a][i + 1]) \in Nat
        /\ e[i] \in Nat /\ d[b] \in Nat
    BY <1>3, <1>4, <2>1
  <2>4. \A x, y, z \in Nat : (x + y) + z = x + (y + z)
    OBVIOUS
  <2>5. d[b + (i + 1)] = (d[b] + e[i]) + Len(s[a][i + 1])
    BY <2>2
  <2>6. (d[b] + e[i]) + Len(s[a][i + 1]) = d[b] + (e[i] + Len(s[a][i + 1]))
    BY <2>3, <2>4
  <2>7. (d[b] + e[i]) + Len(s[a][i + 1]) = d[b] + e[i + 1]
    BY <2>3, <2>6
  <2>8. d[b + (i + 1)] = d[b] + e[i + 1]
    BY <2>5, <2>7
  <2> QED
    BY <2>1, <2>8
<1>7. 0 .. n \subseteq P
  <2> HIDE DEF P
  <2> QED
    BY <1>2, <1>5, <1>6, RangeInduction
<1>8. j \in 0 .. n
  BY DEF n
<1>9. b + j \in 0 .. Len(t) /\ d[b + j] = d[b] + e[j]
  BY <1>2, <1>7, <1>8
<1> QED
  BY <1>9 DEF t, d, e, b

-----------------------------------------------------------------------------
(* Suffixes, byte by byte from the end.                                    *)

Ends(s, t) == /\ Len(s) <= Len(t)
              /\ \A k \in 1 .. Len(s) : s[k] = t[Len(t) - Len(s) + k]

(* A reversed sequence, element by element.                                *)
LEMMA ReverseSeq ==
    ASSUME NEW S, NEW s \in Seq(S)
    PROVE  /\ Reverse(s) \in Seq(S)
           /\ Len(Reverse(s)) = Len(s)
           /\ \A k \in 1 .. Len(s) : Reverse(s)[k] = s[Len(s) - k + 1]
<1>1. Len(s) \in Nat /\ \A k \in 1 .. Len(s) : s[k] \in S
  BY LenProperties, ElementOfSeq
<1>2. \A k \in 1 .. Len(s) : Len(s) - k + 1 \in 1 .. Len(s)
  BY <1>1
<1>3. Reverse(s) \in [1 .. Len(s) -> S]
  BY <1>1, <1>2 DEF Reverse
<1>4. Reverse(s) \in Seq(S)
  BY <1>1, <1>3, SeqDef
<1>5. Len(Reverse(s)) = Len(s)
  BY <1>1, <1>3, <1>4, LenProperties
<1>6. \A k \in 1 .. Len(s) : Reverse(s)[k] = s[Len(s) - k + 1]
  BY DEF Reverse
<1> QED
  BY <1>4, <1>5, <1>6

(* The library's IsSuffix compares prefixes of reversed strings.           *)
LEMMA SuffixEnds ==
    ASSUME NEW S, NEW s \in Seq(S), NEW t \in Seq(S)
    PROVE  IsSuffix(s, t) <=> Ends(s, t)
<1> DEFINE m == Len(s)
           n == Len(t)
           r == Reverse(s)
           u == Reverse(t)
<1>1. m \in Nat /\ n \in Nat
  BY LenProperties
<1>2. /\ r \in Seq(S) /\ Len(r) = m
      /\ u \in Seq(S) /\ Len(u) = n
      /\ \A k \in 1 .. m : r[k] = s[m - k + 1]
      /\ \A k \in 1 .. n : u[k] = t[n - k + 1]
  BY ReverseSeq
<1> HIDE DEF r, u
<1>3. IsSuffix(s, t) <=> m <= n /\ SubSeq(r, 1, m) = SubSeq(u, 1, m)
  BY <1>2 DEF IsSuffix, IsPrefix, r, u
<1>4. CASE m <= n
  <2>1. /\ \A k \in 1 .. m : r[k] \in S
        /\ \A k \in 1 .. m : u[k] \in S
    BY <1>1, <1>2, <1>4, ElementOfSeq
  <2> DEFINE a == SubSeq(r, 1, m)
             b == SubSeq(u, 1, m)
  <2>2. /\ a \in Seq(S) /\ Len(a) = m
        /\ \A k \in 1 .. m : a[k] = r[k]
    BY <1>1, <2>1, SubSeqProperties
  <2>3. /\ b \in Seq(S) /\ Len(b) = m
        /\ \A k \in 1 .. m : b[k] = u[k]
    BY <1>1, <2>1, SubSeqProperties
  <2> HIDE DEF a, b
  <2>4. a = b <=> \A k \in 1 .. m : r[k] = u[k]
    <3>1. a = b => \A k \in 1 .. m : r[k] = u[k]
      BY <2>2, <2>3
    <3>2. (\A k \in 1 .. m : r[k] = u[k]) => a = b
      BY <2>2, <2>3, SeqEqual
    <3> QED
      BY <3>1, <3>2
  <2>5. \A k \in 1 .. m : r[k] = s[m - k + 1] /\ u[k] = t[n - k + 1]
    BY <1>1, <1>2, <1>4
  <2>6. ASSUME \A k \in 1 .. m : r[k] = u[k], NEW k \in 1 .. m
        PROVE  s[k] = t[n - m + k]
    <3>1. /\ m - k + 1 \in 1 .. m
          /\ m - (m - k + 1) + 1 = k
          /\ n - (m - k + 1) + 1 = n - m + k
      BY <1>1
    <3>2. /\ r[m - k + 1] = s[m - (m - k + 1) + 1]
          /\ u[m - k + 1] = t[n - (m - k + 1) + 1]
      BY <2>5, <3>1
    <3>3. r[m - k + 1] = u[m - k + 1]
      BY <2>6, <3>1
    <3> QED
      BY <3>1, <3>2, <3>3
  <2>7. ASSUME \A k \in 1 .. m : s[k] = t[n - m + k], NEW k \in 1 .. m
        PROVE  r[k] = u[k]
    <3>1. m - k + 1 \in 1 .. m /\ n - m + (m - k + 1) = n - k + 1
      BY <1>1
    <3>2. s[m - k + 1] = t[n - m + (m - k + 1)]
      BY <2>7, <3>1
    <3> QED
      BY <2>5, <3>1, <3>2
  <2> QED
    BY <1>3, <1>4, <2>4, <2>6, <2>7 DEF Ends, a, b
<1>5. CASE ~ (m <= n)
  BY <1>3, <1>5 DEF Ends
<1> QED
  BY <1>4, <1>5

(* Suffixes are ordered: reflexive, transitive, and two suffixes of one    *)
(* string are suffixes of each other by length.                            *)
LEMMA EndsOrder ==
    ASSUME NEW S, NEW s \in Seq(S), NEW t \in Seq(S), NEW u \in Seq(S)
    PROVE  /\ Ends(s, s)
           /\ Ends(<<>>, s)
           /\ Ends(s, t) /\ Ends(t, u) => Ends(s, u)
           /\ Ends(s, u) /\ Ends(t, u) /\ Len(s) <= Len(t) => Ends(s, t)
           /\ Ends(s, t) /\ Len(s) = Len(t) => s = t
<1>1. Len(s) \in Nat /\ Len(t) \in Nat /\ Len(u) \in Nat /\ Len(<<>>) = 0
  BY LenProperties, EmptySeq
<1>2. Ends(s, s) /\ Ends(<<>>, s)
  BY <1>1 DEF Ends
<1>3. ASSUME Ends(s, t), Ends(t, u)
      PROVE  Ends(s, u)
  <2>1. ASSUME NEW k \in 1 .. Len(s)
        PROVE  s[k] = u[Len(u) - Len(s) + k]
    <3>1. s[k] = t[Len(t) - Len(s) + k]
      BY <1>3 DEF Ends
    <3>2. Len(t) - Len(s) + k \in 1 .. Len(t)
      BY <1>1, <1>3 DEF Ends
    <3>3. t[Len(t) - Len(s) + k] = u[Len(u) - Len(t) + (Len(t) - Len(s) + k)]
      BY <1>3, <3>2 DEF Ends
    <3>4. Len(u) - Len(t) + (Len(t) - Len(s) + k) = Len(u) - Len(s) + k
      BY <1>1
    <3> QED
      BY <3>1, <3>3, <3>4
  <2> QED
    BY <1>1, <1>3, <2>1 DEF Ends
<1>4. ASSUME Ends(s, u), Ends(t, u), Len(s) <= Len(t)
      PROVE  Ends(s, t)
  <2>1. ASSUME NEW k \in 1 .. Len(s)
        PROVE  s[k] = t[Len(t) - Len(s) + k]
    <3>1. s[k] = u[Len(u) - Len(s) + k]
      BY <1>4 DEF Ends
    <3>2. Len(t) - Len(s) + k \in 1 .. Len(t)
      BY <1>1, <1>4
    <3>3. t[Len(t) - Len(s) + k] = u[Len(u) - Len(t) + (Len(t) - Len(s) + k)]
      BY <1>4, <3>2 DEF Ends
    <3>4. Len(u) - Len(t) + (Len(t) - Len(s) + k) = Len(u) - Len(s) + k
      BY <1>1
    <3> QED
      BY <3>1, <3>3, <3>4
  <2> QED
    BY <1>4, <2>1 DEF Ends
<1>5. ASSUME Ends(s, t), Len(s) = Len(t)
      PROVE  s = t
  <2>1. \A k \in 1 .. Len(s) : Len(t) - Len(s) + k = k
    BY <1>1, <1>5
  <2>2. \A k \in 1 .. Len(s) : s[k] = t[k]
    BY <1>5, <2>1 DEF Ends
  <2> QED
    BY <1>5, <2>2, SeqEqual
<1> QED
  BY <1>2, <1>3, <1>4, <1>5

(* Suffixes of a string one element longer.                                *)
LEMMA EndsAppend ==
    ASSUME NEW S, NEW s \in Seq(S), NEW t \in Seq(S), NEW a \in S, NEW b \in S
    PROVE  Ends(Append(s, a), Append(t, b)) <=> (a = b /\ Ends(s, t))
<1> DEFINE m == Len(s)
           n == Len(t)
           r == Append(s, a)
           u == Append(t, b)
<1>1. m \in Nat /\ n \in Nat
  BY LenProperties
<1>2. /\ Len(r) = m + 1 /\ r[m + 1] = a
      /\ \A k \in 1 .. m : r[k] = s[k]
  BY AppendProperties
<1>3. /\ Len(u) = n + 1 /\ u[n + 1] = b
      /\ \A k \in 1 .. n : u[k] = t[k]
  BY AppendProperties
<1> HIDE DEF r, u
<1>4. ASSUME Ends(r, u)
      PROVE  a = b /\ Ends(s, t)
  <2>1. /\ m + 1 <= n + 1
        /\ \A k \in 1 .. m + 1 : r[k] = u[(n + 1) - (m + 1) + k]
    BY <1>2, <1>3, <1>4 DEF Ends
  <2>2. (n + 1) - (m + 1) + (m + 1) = n + 1 /\ m + 1 \in 1 .. m + 1
    BY <1>1
  <2>3. a = b
    BY <1>2, <1>3, <2>1, <2>2
  <2>4. ASSUME NEW k \in 1 .. m
        PROVE  s[k] = t[n - m + k]
    <3>1. /\ (n + 1) - (m + 1) + k = n - m + k
          /\ n - m + k \in 1 .. n
          /\ k \in 1 .. m + 1
      BY <1>1, <2>1
    <3> QED
      BY <1>2, <1>3, <2>1, <3>1
  <2> QED
    BY <1>1, <2>1, <2>3, <2>4 DEF Ends
<1>5. ASSUME a = b, Ends(s, t)
      PROVE  Ends(r, u)
  <2>1. m <= n /\ \A k \in 1 .. m : s[k] = t[n - m + k]
    BY <1>5 DEF Ends
  <2>2. ASSUME NEW k \in 1 .. m + 1
        PROVE  r[k] = u[(n + 1) - (m + 1) + k]
    <3>1. CASE k = m + 1
      <4>1. (n + 1) - (m + 1) + k = n + 1
        BY <1>1, <3>1
      <4> QED
        BY <1>2, <1>3, <1>5, <3>1, <4>1
    <3>2. CASE k \in 1 .. m
      <4>1. (n + 1) - (m + 1) + k = n - m + k /\ n - m + k \in 1 .. n
        BY <1>1, <2>1, <3>2
      <4> QED
        BY <1>2, <1>3, <2>1, <3>2, <4>1
    <3> QED
      BY <1>1, <3>1, <3>2
  <2> QED
    BY <1>1, <1>2, <1>3, <2>1, <2>2 DEF Ends
<1> QED
  BY <1>4, <1>5 DEF r, u

(* A suffix that is not the whole string is a suffix of its tail.          *)
LEMMA EndsTail ==
    ASSUME NEW S, NEW s \in Seq(S), NEW t \in Seq(S), t # <<>>
    PROVE  /\ Ends(s, Tail(t)) <=> (Ends(s, t) /\ Len(s) < Len(t))
           /\ Ends(s, t) <=> (s = t \/ Ends(s, Tail(t)))
<1> DEFINE m == Len(s)
           n == Len(t)
           u == Tail(t)
<1>1. m \in Nat /\ n \in Nat
  BY LenProperties
<1>2. /\ u \in Seq(S) /\ Len(u) = n - 1
      /\ \A k \in 1 .. n - 1 : u[k] = t[k + 1]
  BY HeadTailProperties
<1>3. n > 0
  BY EmptySeq
<1> HIDE DEF u
<1>4. Ends(s, u) <=> (Ends(s, t) /\ m < n)
  <2>1. ASSUME m < n, NEW k \in 1 .. m
        PROVE  u[(n - 1) - m + k] = t[n - m + k]
    <3>1. (n - 1) - m + k \in 1 .. n - 1 /\ ((n - 1) - m + k) + 1 = n - m + k
      BY <1>1, <2>1
    <3> QED
      BY <1>2, <3>1
  <2>2. ASSUME Ends(s, u)
        PROVE  Ends(s, t) /\ m < n
    <3>1. m <= n - 1 /\ \A k \in 1 .. m : s[k] = u[(n - 1) - m + k]
      BY <1>2, <2>2 DEF Ends
    <3>2. m < n
      BY <1>1, <3>1
    <3>3. \A k \in 1 .. m : s[k] = t[n - m + k]
      BY <2>1, <3>1, <3>2
    <3> QED
      BY <1>1, <3>2, <3>3 DEF Ends
  <2>3. ASSUME Ends(s, t), m < n
        PROVE  Ends(s, u)
    <3>1. \A k \in 1 .. m : s[k] = u[(n - 1) - m + k]
      BY <2>1, <2>3 DEF Ends
    <3>2. m <= n - 1
      BY <1>1, <2>3
    <3> QED
      BY <1>2, <3>1, <3>2 DEF Ends
  <2> QED
    BY <2>2, <2>3
<1>5. Ends(s, t) => m <= n
  BY DEF Ends
<1>6. Ends(s, t) /\ m = n => s = t
  BY EndsOrder
<1>7. Ends(t, t)
  BY EndsOrder
<1> QED
  BY <1>1, <1>4, <1>5, <1>6, <1>7 DEF u

-----------------------------------------------------------------------------
(* Prefixes, and the elements of a sequence.                               *)

(* A prefix is the prefix before it and one more element.                  *)
LEMMA PrefixStep ==
    ASSUME NEW S, NEW t \in Seq(S)
    PROVE  /\ SubSeq(t, 1, 0) = <<>>
           /\ SubSeq(t, 1, Len(t)) = t
           /\ \A i \in 0 .. Len(t) :
                 SubSeq(t, 1, i) \in Seq(S) /\ Len(SubSeq(t, 1, i)) = i
           /\ \A i \in 1 .. Len(t) :
                 SubSeq(t, 1, i) = Append(SubSeq(t, 1, i - 1), t[i])
<1>1. Len(t) \in Nat /\ \A i \in 1 .. Len(t) : t[i] \in S
  BY LenProperties, ElementOfSeq
<1>2. SubSeq(t, 1, 0) = <<>>
  BY SubSeqEmpty
<1>3. SubSeq(t, 1, Len(t)) = t
  BY SubSeqFull
<1>4. \A i \in 0 .. Len(t) :
         /\ SubSeq(t, 1, i) \in Seq(S)
         /\ Len(SubSeq(t, 1, i)) = i
         /\ \A k \in 1 .. i : SubSeq(t, 1, i)[k] = t[k]
  <2> SUFFICES ASSUME NEW i \in 0 .. Len(t)
               PROVE  /\ SubSeq(t, 1, i) \in Seq(S)
                      /\ Len(SubSeq(t, 1, i)) = i
                      /\ \A k \in 1 .. i : SubSeq(t, 1, i)[k] = t[k]
    OBVIOUS
  <2>1. i \in Int /\ 1 \in Int /\ \A k \in 1 .. i : t[k] \in S
    BY <1>1
  <2>2. /\ SubSeq(t, 1, i) \in Seq(S)
        /\ Len(SubSeq(t, 1, i)) = IF 1 <= i THEN i - 1 + 1 ELSE 0
        /\ \A k \in 1 .. i - 1 + 1 : SubSeq(t, 1, i)[k] = t[1 + k - 1]
    BY <2>1, SubSeqProperties
  <2> QED
    BY <2>1, <2>2
<1>5. ASSUME NEW i \in 1 .. Len(t)
      PROVE  SubSeq(t, 1, i) = Append(SubSeq(t, 1, i - 1), t[i])
  <2> DEFINE u == SubSeq(t, 1, i - 1)
             v == SubSeq(t, 1, i)
             w == Append(u, t[i])
  <2>1. i - 1 \in 0 .. Len(t) /\ i \in 0 .. Len(t) /\ t[i] \in S
    BY <1>1
  <2>2. /\ u \in Seq(S) /\ Len(u) = i - 1
        /\ \A k \in 1 .. i - 1 : u[k] = t[k]
        /\ v \in Seq(S) /\ Len(v) = i
        /\ \A k \in 1 .. i : v[k] = t[k]
    BY <1>4, <2>1
  <2> HIDE DEF u, v
  <2>3. /\ w \in Seq(S) /\ Len(w) = i
        /\ \A k \in 1 .. i - 1 : w[k] = u[k]
        /\ w[i] = t[i]
    <3>1. (i - 1) + 1 = i
      BY <2>1
    <3> QED
      BY <2>1, <2>2, <3>1, AppendProperties
  <2> HIDE DEF w
  <2>4. \A k \in 1 .. i : v[k] = w[k]
    BY <2>1, <2>2, <2>3
  <2>5. v = w
    BY <2>2, <2>3, <2>4, SeqEqual
  <2> QED
    BY <2>5 DEF u, v, w
<1> QED
  BY <1>2, <1>3, <1>4, <1>5

(* list holds the elements of C, each of them once.                        *)
Lists(list, S, C) == /\ list \in Seq(S)
                     /\ IsInjective(list)
                     /\ ToSet(list) = C

(* Lists in terms of the positions of a sequence.                          *)
LEMMA ListsElements ==
    ASSUME NEW S, NEW C, NEW list \in Seq(S)
    PROVE  Lists(list, S, C) <=>
              /\ \A i, j \in 1 .. Len(list) : list[i] = list[j] => i = j
              /\ \A i \in 1 .. Len(list) : list[i] \in C
              /\ \A c \in C : \E i \in 1 .. Len(list) : list[i] = c
<1>1. DOMAIN list = 1 .. Len(list)
  BY LenProperties
<1> QED
  BY <1>1 DEF Lists, IsInjective, ToSet

(* The empty list.                                                         *)
LEMMA ListsEmpty ==
    ASSUME NEW S
    PROVE  Lists(<<>>, S, {})
<1>1. <<>> \in Seq(S) /\ Len(<<>>) = 0
  BY EmptySeq
<1> DEFINE e == <<>>
<1>2. e \in Seq(S) /\ Len(e) = 0
  BY <1>1
<1> HIDE DEF e
<1>3. 1 .. Len(e) = {}
  BY <1>2
<1>4. Lists(e, S, {})
  BY <1>2, <1>3, ListsElements
<1> QED
  BY <1>4 DEF e

(* A list of one element.                                                  *)
LEMMA ListsOne ==
    ASSUME NEW S, NEW x \in S
    PROVE  Lists(<<x>>, S, {x})
<1> DEFINE e == <<x>>
<1>1. e \in Seq(S) /\ Len(e) = 1 /\ e[1] = x
  OBVIOUS
<1> HIDE DEF e
<1>2. \A i \in 1 .. Len(e) : i = 1
  BY <1>1
<1>3. /\ \A i, j \in 1 .. Len(e) : e[i] = e[j] => i = j
      /\ \A i \in 1 .. Len(e) : e[i] \in {x}
      /\ \A c \in {x} : \E i \in 1 .. Len(e) : e[i] = c
  BY <1>1, <1>2
<1>4. Lists(e, S, {x})
  BY <1>1, <1>3, ListsElements
<1> QED
  BY <1>4 DEF e

(* A reversed list lists the same elements.                                *)
LEMMA ListsReverse ==
    ASSUME NEW S, NEW C, NEW list, Lists(list, S, C)
    PROVE  Lists(Reverse(list), S, C)
<1> DEFINE n == Len(list)
           r == Reverse(list)
<1>1. list \in Seq(S) /\ n \in Nat
  BY LenProperties DEF Lists
<1>2. /\ \A i, j \in 1 .. n : list[i] = list[j] => i = j
      /\ \A i \in 1 .. n : list[i] \in C
      /\ \A c \in C : \E i \in 1 .. n : list[i] = c
  BY <1>1, ListsElements
<1>3. r \in Seq(S) /\ Len(r) = n /\ \A k \in 1 .. n : r[k] = list[n - k + 1]
  BY <1>1, ReverseSeq
<1> HIDE DEF r, n
<1>4. \A k \in 1 .. n : n - k + 1 \in 1 .. n /\ n - (n - k + 1) + 1 = k
  BY <1>1
<1>5. \A i, j \in 1 .. n : r[i] = r[j] => i = j
  <2> SUFFICES ASSUME NEW i \in 1 .. n, NEW j \in 1 .. n, r[i] = r[j]
               PROVE  i = j
    OBVIOUS
  <2>1. list[n - i + 1] = list[n - j + 1]
    BY <1>3
  <2>2. n - i + 1 = n - j + 1
    BY <1>2, <1>4, <2>1
  <2> QED
    BY <1>1, <2>2
<1>6. \A i \in 1 .. n : r[i] \in C
  BY <1>2, <1>3, <1>4
<1>7. \A c \in C : \E i \in 1 .. n : r[i] = c
  <2> SUFFICES ASSUME NEW c \in C
               PROVE  \E i \in 1 .. n : r[i] = c
    OBVIOUS
  <2>1. PICK i \in 1 .. n : list[i] = c
    BY <1>2
  <2>2. n - i + 1 \in 1 .. n /\ r[n - i + 1] = list[n - (n - i + 1) + 1]
    BY <1>3, <1>4
  <2> QED
    BY <1>4, <2>1, <2>2
<1>8. Lists(r, S, C)
  BY <1>3, <1>5, <1>6, <1>7, ListsElements
<1> QED
  BY <1>8 DEF r

(* Two lists with nothing in common, one behind the other.                 *)
LEMMA ListsConcat ==
    ASSUME NEW S, NEW C, NEW D, NEW u, NEW v,
           Lists(u, S, C), Lists(v, S, D), C \cap D = {}
    PROVE  Lists(u \o v, S, C \cup D)
<1> DEFINE m == Len(u)
           n == Len(v)
           w == u \o v
<1>1. u \in Seq(S) /\ v \in Seq(S) /\ m \in Nat /\ n \in Nat
  BY LenProperties DEF Lists
<1>2. /\ \A i, j \in 1 .. m : u[i] = u[j] => i = j
      /\ \A i \in 1 .. m : u[i] \in C
      /\ \A c \in C : \E i \in 1 .. m : u[i] = c
  BY <1>1, ListsElements
<1>3. /\ \A i, j \in 1 .. n : v[i] = v[j] => i = j
      /\ \A i \in 1 .. n : v[i] \in D
      /\ \A c \in D : \E i \in 1 .. n : v[i] = c
  BY <1>1, ListsElements
<1>4. /\ w \in Seq(S) /\ Len(w) = m + n
      /\ \A i \in 1 .. m + n : w[i] = IF i <= m THEN u[i] ELSE v[i - m]
  BY <1>1, ConcatProperties
<1> HIDE DEF w, m, n
<1>5. \A i \in 1 .. m + n : \/ i \in 1 .. m /\ w[i] = u[i] /\ w[i] \in C
                            \/ i > m /\ i - m \in 1 .. n /\ w[i] = v[i - m]
                                     /\ w[i] \in D
  <2> SUFFICES ASSUME NEW i \in 1 .. m + n
               PROVE  \/ i \in 1 .. m /\ w[i] = u[i] /\ w[i] \in C
                      \/ i > m /\ i - m \in 1 .. n /\ w[i] = v[i - m] /\ w[i] \in D
    OBVIOUS
  <2>1. CASE i <= m
    <3>1. i \in 1 .. m
      BY <1>1, <2>1
    <3> QED
      BY <1>2, <1>4, <2>1, <3>1
  <2>2. CASE ~ (i <= m)
    <3>1. i > m /\ i - m \in 1 .. n
      BY <1>1, <2>2
    <3> QED
      BY <1>3, <1>4, <2>2, <3>1
  <2> QED
    BY <2>1, <2>2
<1>6. \A i, j \in 1 .. m + n : w[i] = w[j] => i = j
  <2> SUFFICES ASSUME NEW i \in 1 .. m + n, NEW j \in 1 .. m + n, w[i] = w[j]
               PROVE  i = j
    OBVIOUS
  <2>1. \/ i \in 1 .. m /\ j \in 1 .. m /\ u[i] = u[j]
        \/ /\ i > m /\ i - m \in 1 .. n
           /\ j > m /\ j - m \in 1 .. n
           /\ v[i - m] = v[j - m]
    BY <1>5
  <2>2. i = j \/ i - m = j - m
    BY <1>2, <1>3, <2>1
  <2> QED
    BY <1>1, <2>2
<1>7. \A i \in 1 .. m + n : w[i] \in C \cup D
  BY <1>5
<1>8. ASSUME NEW c \in C \cup D
      PROVE  \E i \in 1 .. m + n : w[i] = c
  <2>1. CASE c \in C
    <3>1. PICK i \in 1 .. m : u[i] = c
      BY <1>2, <2>1
    <3>2. i \in 1 .. m + n /\ i <= m
      BY <1>1
    <3> QED
      BY <1>4, <3>1, <3>2
  <2>2. CASE c \in D
    <3>1. PICK i \in 1 .. n : v[i] = c
      BY <1>3, <2>2
    <3>2. i + m \in 1 .. m + n /\ ~ (i + m <= m) /\ (i + m) - m = i
      BY <1>1
    <3> QED
      BY <1>4, <3>1, <3>2
  <2> QED
    BY <2>1, <2>2
<1>9. Lists(w, S, C \cup D)
  BY <1>4, <1>6, <1>7, <1>8, ListsElements
<1> QED
  BY <1>9 DEF w

(* Lists of different things, one after another.                           *)
LEMMA ListsFlattened ==
    ASSUME NEW S, NEW s \in Seq(Seq(S)), NEW C, NEW all,
           \A k \in 1 .. Len(s) : Lists(s[k], S, C[k]),
           \A k, l \in 1 .. Len(s) : \A x : x \in C[k] /\ x \in C[l] => k = l,
           \A x : x \in all <=> \E k \in 1 .. Len(s) : x \in C[k]
    PROVE  Lists(FlattenSeq(s), S, all)
<1> DEFINE t == FlattenSeq(s)
           f == Firsts(s)
           n == Len(s)
<1>1. /\ n \in Nat /\ Lengths(s) \in [1 .. n -> Nat]
      /\ EndToEnd(f, n, Lengths(s))
  BY SeqsEndToEnd
<1>2. /\ t \in Seq(S) /\ Len(t) = f[n]
      /\ \A k \in 1 .. n : \A j \in 1 .. Len(s[k]) : t[f[k - 1] + j] = s[k][j]
  BY Flattened
<1>3. \A k \in 1 .. n : /\ s[k] \in Seq(S) /\ Len(s[k]) \in Nat
                        /\ f[k - 1] \in Nat /\ f[k] = f[k - 1] + Len(s[k])
                        /\ f[k] <= f[n] /\ f[n] \in Nat
  BY SeqBounds
<1>4. \A k \in 1 .. n :
         /\ \A i, j \in 1 .. Len(s[k]) : s[k][i] = s[k][j] => i = j
         /\ \A i \in 1 .. Len(s[k]) : s[k][i] \in C[k]
         /\ \A c \in C[k] : \E i \in 1 .. Len(s[k]) : s[k][i] = c
  BY <1>3, ListsElements
<1>5. /\ \A k, l \in 1 .. n : \A x : x \in C[k] /\ x \in C[l] => k = l
      /\ \A x : x \in all <=> \E k \in 1 .. n : x \in C[k]
  OBVIOUS
<1> HIDE DEF t, f, n
<1>6. ASSUME NEW i \in 1 .. Len(t)
      PROVE  \E k \in 1 .. n : \E j \in 1 .. Len(s[k]) : i = f[k - 1] + j
  <2>1. f[n] \in Nat
    BY <1>1 DEF EndToEnd
  <2>2. i - 1 \in 0 .. f[n] - 1
    BY <1>2, <2>1
  <2>3. PICK p \in 0 .. n - 1 : i - 1 \in f[p] .. f[p + 1] - 1
    BY <1>1, <2>2, PartsCover
  <2>4. p + 1 \in 1 .. n /\ (p + 1) - 1 = p
    BY <1>1
  <2>5. /\ f[p] \in Nat /\ Len(s[p + 1]) \in Nat
        /\ f[p + 1] = f[p] + Len(s[p + 1])
    BY <1>3, <2>4
  <2>6. i - f[p] \in 1 .. Len(s[p + 1]) /\ i = f[p] + (i - f[p])
    BY <2>3, <2>5
  <2> QED
    BY <2>4, <2>6
<1>7. ASSUME NEW i \in 1 .. Len(t), NEW j \in 1 .. Len(t), t[i] = t[j]
      PROVE  i = j
  <2>1. PICK k \in 1 .. n : \E a \in 1 .. Len(s[k]) : i = f[k - 1] + a
    BY <1>6
  <2>2. PICK l \in 1 .. n : \E b \in 1 .. Len(s[l]) : j = f[l - 1] + b
    BY <1>6
  <2>3. PICK a \in 1 .. Len(s[k]) : i = f[k - 1] + a
    BY <2>1
  <2>4. PICK b \in 1 .. Len(s[l]) : j = f[l - 1] + b
    BY <2>2
  <2>5. s[k][a] = s[l][b] /\ s[k][a] \in C[k] /\ s[l][b] \in C[l]
    <3>1. t[i] = s[k][a] /\ t[j] = s[l][b]
      BY <1>2, <2>3, <2>4
    <3>2. s[k][a] \in C[k]
      BY <1>4
    <3>3. s[l][b] \in C[l]
      BY <1>4
    <3> QED
      BY <1>7, <3>1, <3>2, <3>3
  <2>6. k = l
    BY <1>5, <2>5
  <2> QED
    BY <1>4, <2>3, <2>4, <2>5, <2>6
<1>8. ASSUME NEW i \in 1 .. Len(t)
      PROVE  t[i] \in all
  <2>1. PICK k \in 1 .. n : \E j \in 1 .. Len(s[k]) : i = f[k - 1] + j
    BY <1>6
  <2>2. PICK j \in 1 .. Len(s[k]) : i = f[k - 1] + j
    BY <2>1
  <2>3. t[i] = s[k][j]
    BY <1>2, <2>2
  <2>4. t[i] \in C[k]
    BY <1>4, <2>3
  <2> QED
    BY <1>5, <2>4
<1>9. ASSUME NEW c \in all
      PROVE  \E i \in 1 .. Len(t) : t[i] = c
  <2>1. PICK k \in 1 .. n : c \in C[k]
    BY <1>5
  <2>2. PICK j \in 1 .. Len(s[k]) : s[k][j] = c
    BY <1>4, <2>1
  <2>3. f[k - 1] + j \in 1 .. Len(t)
    <3>1. /\ Len(s[k]) \in Nat /\ f[k - 1] \in Nat
          /\ f[k - 1] + Len(s[k]) <= f[n] /\ f[n] \in Nat
      BY <1>3
    <3>2. \A a, m, b \in Nat : \A x \in 1 .. m :
             a + m <= b => a + x \in 1 .. b
      OBVIOUS
    <3> QED
      BY <1>2, <3>1, <3>2
  <2> QED
    BY <1>2, <2>2, <2>3
<1>10. Lists(t, S, all)
  BY <1>2, <1>7, <1>8, <1>9, ListsElements
<1> QED
  BY <1>10 DEF t

-----------------------------------------------------------------------------
(* Folds of sequences.                                                     *)

LEMMA MaxOfNumbers ==
    ASSUME NEW n \in Nat, NEW T, T \subseteq 1 .. n, T # {}
    PROVE  Max(T) \in T /\ \A i \in T : i <= Max(T)
<1> DEFINE D == {d \in 0 .. n : n - d \in T}
<1>1. D \subseteq Nat
  OBVIOUS
<1>2. D # {}
  <2>1. PICK i \in T : TRUE
    OBVIOUS
  <2>2. n - i \in 0 .. n /\ n - (n - i) = i
    OBVIOUS
  <2> QED
    BY <2>1, <2>2
<1>3. PICK d \in D : \A e \in D : d <= e
  BY <1>1, <1>2, LeastElement
<1>4. \A i \in T : i <= n - d
  <2> TAKE i \in T
  <2>1. i \in 1 .. n /\ n - i \in 0 .. n /\ n - (n - i) = i
    OBVIOUS
  <2>2. n - i \in D
    BY <2>1
  <2>3. d <= n - i
    BY <1>3, <2>2
  <2> QED
    BY <2>1, <2>3
<1>5. n - d \in T
  OBVIOUS
<1>6. \E m \in T : \A i \in T : m >= i
  BY <1>4, <1>5
<1>7. Max(T) \in T /\ \A i \in T : Max(T) >= i
  BY <1>6 DEF Max
<1> QED
  BY <1>7

(* The greatest number of 1 .. k. *)
LEMMA MaxOfPrefix ==
    ASSUME NEW n \in Nat, NEW k \in 1 .. n
    PROVE  /\ 1 .. k \in SUBSET (1 .. n) /\ 1 .. k # {}
           /\ Max(1 .. k) = k /\ (1 .. k) \ {k} = 1 .. k - 1
<1>1. k \in 1 .. k /\ k \in Nat /\ 1 .. k \subseteq 1 .. k /\ 1 .. k # {}
  OBVIOUS
<1>2. Max(1 .. k) \in 1 .. k /\ \A i \in 1 .. k : i <= Max(1 .. k)
  BY <1>1, MaxOfNumbers
<1>3. Max(1 .. k) = k
  BY <1>1, <1>2
<1> QED
  BY <1>1, <1>3

(* What MapThenFoldSet unfolds: the greatest number is folded last.        *)
FoldsSets(h, n, S, base, step) ==
    /\ h \in [SUBSET (1 .. n) -> S]
    /\ h[{}] = base
    /\ \A T \in SUBSET (1 .. n) :
          T # {} => h[T] = step[<<Max(T), h[T \ {Max(T)}]>>]

(* There is a function that does so. *)
LEMMA SetRecursion ==
    ASSUME NEW n \in Nat, NEW S, NEW base \in S, NEW step \in StepFcn(n, S)
    PROVE  \E h : FoldsSets(h, n, S, base, step)
<1> DEFINE P == {k \in 0 .. n : \E h : FoldsSets(h, k, S, base, step)}
<1>1. 0 \in P
  <2>1. 1 .. 0 = {} /\ SUBSET {} = {{}}
    OBVIOUS
  <2>2. FoldsSets([T \in SUBSET (1 .. 0) |-> base], 0, S, base, step)
    BY <2>1 DEF FoldsSets
  <2> QED
    BY <2>2
<1>2. ASSUME NEW k \in 0 .. n, k \in P, k < n
      PROVE  k + 1 \in P
  <2>1. PICK h : FoldsSets(h, k, S, base, step)
    BY <1>2
  <2> DEFINE m == k + 1
             g == [T \in SUBSET (1 .. m) |->
                     IF m \in T THEN step[<<m, h[T \ {m}]>>] ELSE h[T]]
  <2>2. m \in 1 .. n /\ m \in 1 .. m
    BY <1>2
  <2> m \in Nat
    BY <1>2
  <2>3. \A T \in SUBSET (1 .. m) : T \ {m} \in SUBSET (1 .. k)
    BY <1>2
  <2>4. \A T \in SUBSET (1 .. m) : m \notin T => T \in SUBSET (1 .. k)
    BY <1>2
  <2>5. \A T \in SUBSET (1 .. k) : T \in SUBSET (1 .. m) /\ m \notin T
    BY <1>2
  <2>6. /\ \A T \in SUBSET (1 .. m) : m \in T => g[T] = step[<<m, h[T \ {m}]>>]
        /\ \A T \in SUBSET (1 .. k) : g[T] = h[T]
    BY <2>5
  <2>7. g \in [SUBSET (1 .. m) -> S]
    <3> SUFFICES ASSUME NEW T \in SUBSET (1 .. m)
                 PROVE  (IF m \in T THEN step[<<m, h[T \ {m}]>>] ELSE h[T]) \in S
      OBVIOUS
    <3>1. CASE m \in T
      <4>1. h[T \ {m}] \in S
        BY <2>1, <2>3 DEF FoldsSets
      <4> QED
        BY <2>2, <3>1, <4>1 DEF StepFcn
    <3>2. CASE m \notin T
      BY <2>1, <2>4, <3>2 DEF FoldsSets
    <3> QED
      BY <3>1, <3>2
  <2> HIDE DEF g
  <2>8. g[{}] = base
    BY <2>1, <2>6 DEF FoldsSets
  <2>9. ASSUME NEW T \in SUBSET (1 .. m), T # {}
        PROVE  g[T] = step[<<Max(T), g[T \ {Max(T)}]>>]
    <3>1. Max(T) \in T /\ \A i \in T : i <= Max(T)
      <4>1. T \subseteq 1 .. m
        OBVIOUS
      <4> HIDE DEF m
      <4> QED
        BY <2>9, <4>1, MaxOfNumbers
    <3>2. CASE m \in T
      <4>1. Max(T) = m
        <5>1. m <= Max(T) /\ Max(T) \in 1 .. m
          BY <3>1, <3>2
        <5> QED
          BY <5>1
      <4>2. g[T \ {m}] = h[T \ {m}]
        BY <2>3, <2>6
      <4> QED
        BY <2>6, <3>2, <4>1, <4>2
    <3>3. CASE m \notin T
      <4>1. T \in SUBSET (1 .. k) /\ T \ {Max(T)} \in SUBSET (1 .. k)
        BY <2>4, <3>3
      <4>2. h[T] = step[<<Max(T), h[T \ {Max(T)}]>>]
        BY <2>1, <2>9, <4>1 DEF FoldsSets
      <4> QED
        BY <2>6, <4>1, <4>2
    <3> QED
      BY <3>2, <3>3
  <2>10. FoldsSets(g, m, S, base, step)
    BY <2>7, <2>8, <2>9 DEF FoldsSets
  <2>11. \E f : FoldsSets(f, m, S, base, step)
    BY <2>10
  <2> QED
    BY <2>2, <2>11
<1>3. \A k \in 0 .. n : k \in P /\ k < n => k + 1 \in P
  BY <1>2
<1>4. 0 .. n \subseteq P
  <2> HIDE DEF P
  <2> QED
    BY <1>1, <1>3, RangeInduction
<1>5. n \in 0 .. n
  OBVIOUS
<1> QED
  BY <1>4, <1>5

(* A fold runs from the first element to the last.                         *)
LEMMA FoldRun ==
    ASSUME NEW n \in Nat, NEW S, NEW base \in S, NEW step \in StepFcn(n, S),
           NEW f, f[1 .. 0] = base,
           \A k \in 1 .. n : f[1 .. k - 1] \in S =>
                                f[1 .. k] = step[<<k, f[1 .. k - 1]>>]
    PROVE  \E g : Unrolls(g, n, S, base, step) /\ g[n] = f[1 .. n]
<1>1. PICK g : Unrolls(g, n, S, base, step)
  BY PrimitiveRecursion
<1> DEFINE P == {k \in 0 .. n : g[k] = f[1 .. k]}
<1>2. 0 \in P
  BY <1>1 DEF Unrolls
<1>3. ASSUME NEW k \in 0 .. n, k \in P, k < n
      PROVE  k + 1 \in P
  <2>1. k + 1 \in 1 .. n /\ (k + 1) - 1 = k /\ k + 1 \in 0 .. n
    BY <1>3
  <2>2. f[1 .. k] \in S /\ g[k] = f[1 .. k]
    BY <1>1, <1>3 DEF Unrolls
  <2>3. f[1 .. k + 1] = step[<<k + 1, f[1 .. k]>>]
    BY <2>1, <2>2
  <2>4. g[k + 1] = step[<<k + 1, g[k]>>]
    BY <1>1, <2>1 DEF Unrolls
  <2> QED
    BY <2>1, <2>2, <2>3, <2>4
<1>4. \A k \in 0 .. n : k \in P /\ k < n => k + 1 \in P
  BY <1>3
<1>5. 0 .. n \subseteq P
  <2> HIDE DEF P
  <2> QED
    BY <1>2, <1>4, RangeInduction
<1> QED
  BY <1>1, <1>5
=============================================================================
