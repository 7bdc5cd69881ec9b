---------------------------- MODULE AcRowsProofs ----------------------------
(***************************************************************************)
(* A packed row is read back exactly, in every format, for every alphabet, *)
(* every set of states and every row: by the deterministic lookup always,  *)
(* by the nondeterministic one unless the row is banded.                   *)
(*                                                                         *)
(* A full row and a band are read by position.  For the pairs of a sparse  *)
(* row and for the bands of a row in bands, the proof first says which     *)
(* words the conversion lays where (PairsLaid, BandsLaid) and then that    *)
(* the scan of the lookup stops at the right ones (PairsStop, NextInBands).*)
(***************************************************************************)
EXTENDS AcRows, DataLemmas

(* A set of inputs that is not empty has a first and a last element.       *)
LEMMA LastInput ==
    ASSUME NEW S, S \subseteq Input, S # {}
    PROVE  \E i \in S : \A j \in S : i >= j
<1> DEFINE Mirror == {AlphabetSize - i : i \in S}
<1>1. Mirror \subseteq Nat /\ Mirror # {}
  <2>1. \A i \in S : AlphabetSize - i \in Nat
    BY AlphabetAssumption DEF Input
  <2>2. Mirror # {}
    OBVIOUS
  <2> QED
    BY <2>1, <2>2
<1>2. PICK m \in Mirror : \A n \in Mirror : m <= n
  <2> HIDE DEF Mirror
  <2> QED
    BY <1>1, LeastElement
<1>3. PICK i \in S : m = AlphabetSize - i
  BY <1>2
<1>4. \A j \in S : AlphabetSize - i <= AlphabetSize - j
  BY <1>2, <1>3
<1>5. \A j \in S : i >= j
  BY <1>4, AlphabetAssumption DEF Input
<1> QED
  BY <1>5

(* The band spans the entries that are not zero.                           *)
LEMMA BandSpans ==
    ASSUME NEW vec \in FullRow, NonZero(vec) # {}
    PROVE  /\ FirstKey(vec) \in Input
           /\ LastKey(vec) \in Input
           /\ \A i \in NonZero(vec) :
                 FirstKey(vec) <= i /\ i <= LastKey(vec)
<1>1. NonZero(vec) \subseteq Input /\ Input \subseteq Nat
  BY AlphabetAssumption DEF NonZero, Input
<1>2. /\ FirstKey(vec) \in NonZero(vec)
      /\ \A j \in NonZero(vec) : FirstKey(vec) <= j
  <2>1. \E i \in NonZero(vec) : \A j \in NonZero(vec) : i <= j
    BY <1>1, LeastElement
  <2> QED
    BY <2>1 DEF FirstKey
<1>3. /\ LastKey(vec) \in NonZero(vec)
      /\ \A j \in NonZero(vec) : LastKey(vec) >= j
  <2>1. \E i \in NonZero(vec) : \A j \in NonZero(vec) : i >= j
    BY <1>1, LastInput
  <2> QED
    BY <2>1 DEF LastKey
<1> QED
  BY <1>1, <1>2, <1>3 DEF Input

-----------------------------------------------------------------------------
(* The inputs of a set in order.                                           *)

Ordered(a, S) ==
    /\ a \in Seq(Nat)
    /\ \A j \in 1 .. Len(a) : a[j] \in S
    /\ \A s \in S : \E j \in 1 .. Len(a) : a[j] = s
    /\ \A i, j \in 1 .. Len(a) : i < j => a[i] < a[j]

(* Adding a number above all others.                                       *)
LEMMA OrderedAppend ==
    ASSUME NEW a, NEW S, Ordered(a, S), NEW x \in Nat,
           \A s \in S : s \in Nat /\ s < x
    PROVE  Ordered(Append(a, x), S \cup {x})
<1> DEFINE n == Len(a)
           b == Append(a, x)
<1>1. a \in Seq(Nat) /\ n \in Nat
  BY LenProperties DEF Ordered
<1>2. /\ b \in Seq(Nat) /\ Len(b) = n + 1
      /\ \A j \in 1 .. n : b[j] = a[j]
      /\ b[n + 1] = x
  BY <1>1, AppendProperties
<1>3. /\ \A j \in 1 .. n : a[j] \in S
      /\ \A s \in S : \E j \in 1 .. n : a[j] = s
      /\ \A i, j \in 1 .. n : i < j => a[i] < a[j]
  BY DEF Ordered
<1> HIDE DEF n, b
<1>4. \A j \in 1 .. n + 1 : j = n + 1 \/ j \in 1 .. n
  BY <1>1
<1>5. \A j \in 1 .. n : j \in 1 .. n + 1
  BY <1>1
<1>6. \A j \in 1 .. n + 1 : b[j] \in S \cup {x}
  BY <1>2, <1>3, <1>4
<1>7. \A s \in S \cup {x} : \E j \in 1 .. n + 1 : b[j] = s
  <2>1. n + 1 \in 1 .. n + 1
    BY <1>1
  <2> QED
    BY <2>1, <1>2, <1>3, <1>5
<1>8. ASSUME NEW i \in 1 .. n + 1, NEW j \in 1 .. n + 1, i < j
      PROVE  b[i] < b[j]
  <2>1. i \in 1 .. n
    BY <1>1, <1>8
  <2>2. b[i] = a[i] /\ a[i] \in S
    BY <2>1, <1>2, <1>3
  <2>3. CASE j = n + 1
    BY <2>2, <2>3, <1>2
  <2>4. CASE j \in 1 .. n
    BY <2>1, <2>4, <1>2, <1>3, <1>8
  <2> QED
    BY <2>3, <2>4, <1>4
<1>9. Ordered(b, S \cup {x})
  BY <1>2, <1>6, <1>7, <1>8 DEF Ordered
<1> QED
  BY <1>9 DEF b

(* The loop over the alphabet collects the set in order.                   *)
LEMMA AscendingOrdered ==
    ASSUME NEW S, S \subseteq Input
    PROVE  Ordered(Ascending(S), S)
<1> DEFINE n == AlphabetSize
           step == [x \in (1 .. n) \X Seq(Nat) |->
                      IF x[1] - 1 \in S THEN Append(x[2], x[1] - 1) ELSE x[2]]
<1>1. n \in Nat /\ \A s \in S : s \in Nat /\ s < n
  BY AlphabetAssumption DEF Input
<1>2. step \in StepFcn(n, Seq(Nat))
  <2>1. ASSUME NEW x \in (1 .. n) \X Seq(Nat)
        PROVE  step[x] \in Seq(Nat)
    <3>1. x[1] - 1 \in Nat /\ x[2] \in Seq(Nat)
      BY <1>1
    <3>2. Append(x[2], x[1] - 1) \in Seq(Nat)
      BY <3>1, AppendProperties
    <3> QED
      BY <3>1, <3>2
  <2> QED
    BY <2>1 DEF StepFcn
<1>3. <<>> \in Seq(Nat)
  BY EmptySeq
<1>4. PICK f : Unrolls(f, n, Seq(Nat), <<>>, step)
  <2> HIDE DEF step
  <2> QED
    BY <1>1, <1>2, <1>3, PrimitiveRecursion
<1>5. \A i \in 1 .. n : f[i] = IF i - 1 \in S THEN Append(f[i - 1], i - 1)
                               ELSE f[i - 1]
  <2> SUFFICES ASSUME NEW i \in 1 .. n
               PROVE  f[i] = IF i - 1 \in S THEN Append(f[i - 1], i - 1)
                             ELSE f[i - 1]
    OBVIOUS
  <2>1. f[i - 1] \in Seq(Nat)
    BY <1>1, <1>4 DEF Unrolls
  <2>2. f[i] = step[<<i, f[i - 1]>>]
    BY <1>4 DEF Unrolls
  <2>3. <<i, f[i - 1]>> \in (1 .. n) \X Seq(Nat)
    BY <2>1
  <2> QED
    BY <2>2, <2>3
<1> HIDE DEF step
<1> DEFINE F == [i \in 0 .. n |->
                   IF i = 0 THEN <<>>
                   ELSE IF i - 1 \in S THEN Append(f[i - 1], i - 1)
                   ELSE f[i - 1]]
<1>6. f = F
  <2>1. \A i \in 0 .. n : i # 0 => i \in 1 .. n
    BY <1>1
  <2>2. f \in [0 .. n -> Seq(Nat)] /\ f[0] = <<>>
    BY <1>4 DEF Unrolls
  <2>3. \A i \in 0 .. n : f[i] = F[i]
    BY <2>1, <2>2, <1>5
  <2>4. f = [i \in 0 .. n |-> f[i]]
    BY <2>2
  <2> QED
    BY <2>3, <2>4
<1> DEFINE g == CHOOSE u : u = [i \in 0 .. n |->
                                 IF i = 0 THEN <<>>
                                 ELSE IF i - 1 \in S THEN Append(u[i - 1], i - 1)
                                 ELSE u[i - 1]]
<1>7. Ascending(S) = g[n]
  BY DEF Ascending
<1>8. g = [i \in 0 .. n |-> IF i = 0 THEN <<>>
                            ELSE IF i - 1 \in S THEN Append(g[i - 1], i - 1)
                            ELSE g[i - 1]]
  BY <1>6
<1> HIDE DEF g, F
<1> DEFINE below(i) == {s \in S : s < i}
           P == {i \in 0 .. n : Ordered(g[i], below(i))}
<1>9. 0 \in P
  <2>1. g[0] = <<>> /\ 0 \in 0 .. n
    BY <1>1, <1>8
  <2>2. below(0) = {}
    BY <1>1
  <2> HIDE DEF below
  <2>3. Ordered(<<>>, {})
    BY <1>3 DEF Ordered
  <2> QED
    BY <2>1, <2>2, <2>3
<1>10. ASSUME NEW i \in 0 .. n, i \in P, i < n
       PROVE  i + 1 \in P
  <2>1. i + 1 \in 0 .. n /\ i + 1 # 0 /\ (i + 1) - 1 = i /\ i \in Nat
    BY <1>1, <1>10
  <2>2. g[i + 1] = IF i \in S THEN Append(g[i], i) ELSE g[i]
    BY <1>8, <2>1
  <2>3. Ordered(g[i], below(i))
    BY <1>10
  <2>4. CASE i \in S
    <3>1. below(i + 1) = below(i) \cup {i}
      <4>1. \A s \in S : s < i + 1 <=> s < i \/ s = i
        BY <2>1, <1>1
      <4> QED
        BY <4>1, <2>1, <2>4
    <3>2. \A s \in below(i) : s \in Nat /\ s < i
      BY <1>1
    <3> HIDE DEF below
    <3>3. Ordered(Append(g[i], i), below(i) \cup {i})
      BY <2>1, <2>3, <3>2, OrderedAppend
    <3> QED
      BY <3>1, <3>3, <2>1, <2>2, <2>4
  <2>5. CASE i \notin S
    <3>1. below(i + 1) = below(i)
      BY <2>1, <2>5, <1>1
    <3> HIDE DEF below
    <3> QED
      BY <3>1, <2>1, <2>2, <2>3, <2>5
  <2> QED
    BY <2>4, <2>5
<1>11. Ordered(g[n], below(n))
  <2> HIDE DEF P
  <2>1. 0 .. n \subseteq P
    BY <1>1, <1>9, <1>10, RangeInduction
  <2>2. n \in P
    BY <1>1, <2>1
  <2> QED
    BY <2>2 DEF P
<1>12. below(n) = S
  BY <1>1
<1> QED
  BY <1>7, <1>11, <1>12

-----------------------------------------------------------------------------
(* The bands of a row.                                                     *)

(* Bands begin at entries that are not zero.                               *)
LEMMA BeginsAreInputs ==
    ASSUME NEW vec \in FullRow
    PROVE  /\ NonZero(vec) \subseteq Input
           /\ BandBegins(vec) \subseteq NonZero(vec)
           /\ BandBegins(vec) \subseteq Input
           /\ Input \subseteq Nat
           /\ \A i \in Input : vec[i] \in Nat
<1>1. Input \subseteq Nat
  BY AlphabetAssumption DEF Input
<1>2. \A i \in Input : vec[i] \in Nat
  BY StatesAssumption DEF FullRow
<1> QED
  BY <1>1, <1>2 DEF NonZero, BandBegins

(* A band ends at an entry that is not zero, before the next one begins.   *)
LEMMA BandEndFacts ==
    ASSUME NEW vec \in FullRow, NEW b \in BandBegins(vec)
    PROVE  /\ BandEnd(vec, b) \in Input
           /\ b <= BandEnd(vec, b)
           /\ \A i \in BandBegins(vec) : i > b => BandEnd(vec, b) < i
           /\ \A j \in NonZero(vec) :
                 (\A i \in BandBegins(vec) : i > b => j < i)
                    => j <= BandEnd(vec, b)
<1> DEFINE begins == BandBegins(vec)
           T == {j \in NonZero(vec) : \A i \in begins : i > b => j < i}
<1>1. /\ begins \subseteq Nat /\ T \subseteq Input /\ T \subseteq NonZero(vec)
      /\ NonZero(vec) \subseteq Nat /\ b \in NonZero(vec)
  BY BeginsAreInputs
<1>2. b \in T
  BY <1>1
<1>3. PICK e \in T : \A j \in T : e >= j
  <2> HIDE DEF T
  <2> QED
    BY <1>1, <1>2, LastInput
<1>4. /\ e \in NonZero(vec)
      /\ e >= b
      /\ \A i \in BandBegins(vec) : i > b => e < i
      /\ \A j \in NonZero(vec) :
            (\A i \in BandBegins(vec) : i > b => j < i) => j <= e
  BY <1>1, <1>2, <1>3
<1> DEFINE E(x) == /\ x >= b
                   /\ \A i \in BandBegins(vec) : i > b => x < i
                   /\ \A j \in NonZero(vec) :
                         (\A i \in BandBegins(vec) : i > b => j < i) => j <= x
<1>5. BandEnd(vec, b) = CHOOSE x \in NonZero(vec) : E(x)
  BY DEF BandEnd
<1>6. E(e)
  BY <1>4
<1> DEFINE c == CHOOSE x \in NonZero(vec) : E(x)
<1>7. c \in NonZero(vec) /\ E(c)
  <2> HIDE DEF E
  <2> QED
    BY <1>4, <1>6
<1>8. c \in Input /\ c \in Nat /\ b \in Nat
  <2> HIDE DEF c
  <2> QED
    BY <1>1, <1>7, BeginsAreInputs
<1> HIDE DEF c
<1> QED
  BY <1>5, <1>7, <1>8 DEF c

(* Every entry that is not zero lies in a band.                            *)
LEMMA EntryInBand ==
    ASSUME NEW vec \in FullRow, NEW input \in NonZero(vec)
    PROVE  \E b \in BandBegins(vec) : b <= input /\ input <= BandEnd(vec, b)
<1> DEFINE begins == BandBegins(vec)
           T == {i \in begins : i <= input}
<1>1. begins \subseteq Input /\ begins \subseteq Nat /\ input \in Nat
  BY BeginsAreInputs
<1>2. T # {}
  <2>1. NonZero(vec) \subseteq Nat /\ NonZero(vec) # {}
    BY BeginsAreInputs
  <2>2. PICK first \in NonZero(vec) : \A j \in NonZero(vec) : first <= j
    BY <2>1, LeastElement
  <2>3. \A j \in NonZero(vec) : ~ (j < first)
    BY <2>1, <2>2
  <2>4. first \in begins
    BY <2>3 DEF BandBegins
  <2> QED
    BY <2>2, <2>4
<1>3. PICK b \in T : \A j \in T : b >= j
  <2>1. T \subseteq Input
    BY <1>1
  <2> HIDE DEF T
  <2> QED
    BY <1>2, <2>1, LastInput
<1>4. \A i \in begins : i > b => input < i
  BY <1>1, <1>3
<1>5. input <= BandEnd(vec, b)
  BY <1>3, <1>4, BandEndFacts
<1> QED
  BY <1>3, <1>5

(* The words of one band.                                                  *)
LEMMA BandWordsFacts ==
    ASSUME NEW vec \in FullRow, NEW b \in BandBegins(vec)
    PROVE  LET w == BandWords(vec, b)
               e == BandEnd(vec, b)
           IN  /\ w \in Seq(Nat)
               /\ Len(w) = 2 + (e - b + 1)
               /\ w[1] = e - b + 1
               /\ w[2] = b
               /\ \A j \in 0 .. e - b : w[3 + j] = vec[b + j]
<1> DEFINE e == BandEnd(vec, b)
           m == e - b + 1
           head == <<m, b>>
           tail == [i \in 1 .. m |-> vec[b + i - 1]]
<1>1. /\ b \in Nat /\ e \in Nat /\ b <= e /\ e < AlphabetSize
      /\ AlphabetSize \in Nat
      /\ \A i \in 0 .. AlphabetSize - 1 : vec[i] \in Nat
  BY BeginsAreInputs, BandEndFacts, AlphabetAssumption DEF Input
<1> HIDE DEF e
<1>2. m \in Nat /\ m = e - b + 1
  BY <1>1
<1>3. head \in Seq(Nat) /\ Len(head) = 2 /\ head[1] = m /\ head[2] = b
  BY <1>1, <1>2
<1>4. \A i \in 1 .. m : b + i - 1 \in 0 .. AlphabetSize - 1
  BY <1>1
<1> HIDE DEF m
<1>5. tail \in [1 .. m -> Nat] /\ DOMAIN tail = 1 .. m
  BY <1>1, <1>4
<1>6. tail \in Seq(Nat) /\ Len(tail) = m
  <2> HIDE DEF tail
  <2>1. tail \in Seq(Nat)
    BY <1>2, <1>5
  <2>2. DOMAIN tail = 1 .. Len(tail) /\ Len(tail) \in Nat
    BY <2>1, LenProperties
  <2> QED
    BY <1>2, <1>5, <2>1, <2>2
<1>7. BandWords(vec, b) = head \o tail
  BY DEF BandWords, e, m
<1> HIDE DEF head
<1>8. /\ head \o tail \in Seq(Nat)
      /\ Len(head \o tail) = 2 + m
      /\ \A i \in 1 .. 2 + m :
            (head \o tail)[i] = IF i <= 2 THEN head[i] ELSE tail[i - 2]
  <2> HIDE DEF tail
  <2>1. /\ head \o tail \in Seq(Nat)
        /\ Len(head \o tail) = Len(head) + Len(tail)
        /\ \A i \in 1 .. Len(head) + Len(tail) :
              (head \o tail)[i] = IF i <= Len(head) THEN head[i]
                                  ELSE tail[i - Len(head)]
    BY <1>3, <1>6, ConcatProperties
  <2> QED
    BY <2>1, <1>3, <1>6
<1>9. ASSUME NEW j \in 0 .. e - b
      PROVE  (head \o tail)[3 + j] = vec[b + j]
  <2>1. /\ 3 + j \in 1 .. 2 + m /\ ~ (3 + j <= 2) /\ (3 + j) - 2 = j + 1
        /\ j + 1 \in 1 .. m /\ b + (j + 1) - 1 = b + j
    BY <1>1, <1>2
  <2>2. tail[j + 1] = vec[b + j]
    BY <2>1
  <2> HIDE DEF tail
  <2> QED
    BY <1>8, <2>1, <2>2
<1> HIDE DEF tail
<1>10. 1 \in 1 .. 2 + m /\ 2 \in 1 .. 2 + m
  BY <1>2
<1>11. /\ (head \o tail)[1] = m /\ (head \o tail)[2] = b
  BY <1>3, <1>8, <1>10
<1>12. LET w == BandWords(vec, b)
       IN  /\ w \in Seq(Nat)
           /\ Len(w) = 2 + (e - b + 1)
           /\ w[1] = e - b + 1
           /\ w[2] = b
           /\ \A j \in 0 .. e - b : w[3 + j] = vec[b + j]
  BY <1>2, <1>7, <1>8, <1>9, <1>11
<1> QED
  BY <1>12 DEF e

(* Filled adds the words of one band after the other.                      *)
LEMMA FilledUnfolds ==
    ASSUME NEW vec \in FullRow, NEW a, Ordered(a, BandBegins(vec))
    PROVE  LET w == Filled(vec, a)
           IN  /\ w \in [0 .. Len(a) -> Seq(Nat)]
               /\ w[0] = <<ACF_SPARSEBANDS, 0, Len(a)>>
               /\ \A i \in 1 .. Len(a) : w[i] = w[i - 1] \o BandWords(vec, a[i])
<1> DEFINE n == Len(a)
           base == <<ACF_SPARSEBANDS, 0, n>>
           step == [x \in (1 .. n) \X Seq(Nat) |-> x[2] \o BandWords(vec, a[x[1]])]
<1>1. n \in Nat /\ \A i \in 1 .. n : a[i] \in BandBegins(vec)
  BY LenProperties DEF Ordered
<1>2. base \in Seq(Nat)
  BY <1>1 DEF ACF_SPARSEBANDS
<1>3. step \in StepFcn(n, Seq(Nat))
  <2>1. ASSUME NEW x \in (1 .. n) \X Seq(Nat)
        PROVE  step[x] \in Seq(Nat)
    <3>1. x[1] \in 1 .. n /\ x[2] \in Seq(Nat)
      OBVIOUS
    <3>2. BandWords(vec, a[x[1]]) \in Seq(Nat)
      BY <1>1, <3>1, BandWordsFacts
    <3>3. x[2] \o BandWords(vec, a[x[1]]) \in Seq(Nat)
      BY <3>1, <3>2, ConcatProperties
    <3> QED
      BY <3>3
  <2> QED
    BY <2>1 DEF StepFcn
<1> HIDE DEF base
<1>4. PICK f : Unrolls(f, n, Seq(Nat), base, step)
  <2> HIDE DEF step
  <2> QED
    BY <1>1, <1>2, <1>3, PrimitiveRecursion
<1>5. \A i \in 1 .. n : f[i] = f[i - 1] \o BandWords(vec, a[i])
  <2> SUFFICES ASSUME NEW i \in 1 .. n
               PROVE  f[i] = f[i - 1] \o BandWords(vec, a[i])
    OBVIOUS
  <2>1. f[i - 1] \in Seq(Nat)
    BY <1>1, <1>4 DEF Unrolls
  <2>2. f[i] = step[<<i, f[i - 1]>>]
    BY <1>4 DEF Unrolls
  <2>3. <<i, f[i - 1]>> \in (1 .. n) \X Seq(Nat)
    BY <2>1
  <2> QED
    BY <2>2, <2>3
<1> HIDE DEF step
<1> DEFINE F == [i \in 0 .. n |-> IF i = 0 THEN base
                                 ELSE f[i - 1] \o BandWords(vec, a[i])]
<1>6. f = F
  <2>1. \A i \in 0 .. n : i # 0 => i \in 1 .. n
    BY <1>1
  <2>2. f \in [0 .. n -> Seq(Nat)] /\ f[0] = base
    BY <1>4 DEF Unrolls
  <2>3. \A i \in 0 .. n : f[i] = F[i]
    BY <2>1, <2>2, <1>5
  <2>4. f = [i \in 0 .. n |-> f[i]]
    BY <2>2
  <2> QED
    BY <2>3, <2>4
<1> DEFINE w == Filled(vec, a)
<1>7. w = [i \in 0 .. n |-> IF i = 0 THEN base
                           ELSE w[i - 1] \o BandWords(vec, a[i])]
  BY <1>6 DEF Filled, base
<1> HIDE DEF w, F
<1>8. \A i \in 0 .. n : w[i] = IF i = 0 THEN base
                              ELSE w[i - 1] \o BandWords(vec, a[i])
  BY <1>7
<1> DEFINE P == {i \in 0 .. n : w[i] \in Seq(Nat)}
<1>9. 0 \in P
  BY <1>1, <1>2, <1>8
<1>10. ASSUME NEW i \in 0 .. n, i \in P, i < n
       PROVE  i + 1 \in P
  <2>1. i + 1 \in 0 .. n /\ i + 1 # 0 /\ (i + 1) - 1 = i /\ i + 1 \in 1 .. n
    BY <1>1, <1>10
  <2>2. w[i + 1] = w[i] \o BandWords(vec, a[i + 1])
    BY <1>8, <2>1
  <2>3. BandWords(vec, a[i + 1]) \in Seq(Nat)
    BY <1>1, <2>1, BandWordsFacts
  <2>4. w[i] \o BandWords(vec, a[i + 1]) \in Seq(Nat)
    BY <1>10, <2>3, ConcatProperties
  <2> QED
    BY <2>1, <2>2, <2>4
<1>11. \A i \in 0 .. n : w[i] \in Seq(Nat)
  <2>1. 0 .. n \subseteq P
    <3> HIDE DEF P
    <3> QED
      BY <1>1, <1>9, <1>10, RangeInduction
  <2> QED
    BY <2>1
<1>12. w \in [0 .. n -> Seq(Nat)]
  BY <1>7, <1>11
<1>13. w[0] = base /\ \A i \in 1 .. n : w[i] = w[i - 1] \o BandWords(vec, a[i])
  <2>1. 0 \in 0 .. n /\ \A i \in 1 .. n : i \in 0 .. n /\ i # 0
    BY <1>1
  <2> QED
    BY <1>8, <2>1
<1> QED
  BY <1>12, <1>13 DEF w, base

(* The words of earlier bands stay where they are.                         *)
LEMMA FilledGrows ==
    ASSUME NEW vec \in FullRow, NEW a, Ordered(a, BandBegins(vec)),
           NEW j \in 0 .. Len(a), NEW i \in 0 .. j
    PROVE  LET w == Filled(vec, a)
           IN  /\ Len(w[i]) <= Len(w[j])
               /\ \A x \in 1 .. Len(w[i]) : w[j][x] = w[i][x]
<1> DEFINE n == Len(a)
           w == Filled(vec, a)
           Kept(p) == /\ Len(w[i]) <= Len(w[p])
                      /\ \A x \in 1 .. Len(w[i]) : w[p][x] = w[i][x]
           P == {d \in 0 .. n - i : Kept(i + d)}
<1>1. n \in Nat /\ i \in 0 .. n /\ j \in 0 .. n /\ i <= j
  BY LenProperties DEF Ordered
<1>2. /\ \A p \in 0 .. n : w[p] \in Seq(Nat) /\ Len(w[p]) \in Nat
      /\ \A p \in 1 .. n : w[p] = w[p - 1] \o BandWords(vec, a[p])
      /\ \A p \in 1 .. n : BandWords(vec, a[p]) \in Seq(Nat)
  <2>1. \A p \in 1 .. n : a[p] \in BandBegins(vec)
    BY DEF Ordered
  <2>2. \A p \in 1 .. n : BandWords(vec, a[p]) \in Seq(Nat)
    BY <2>1, BandWordsFacts
  <2>3. /\ w \in [0 .. n -> Seq(Nat)]
        /\ \A p \in 1 .. n : w[p] = w[p - 1] \o BandWords(vec, a[p])
    BY FilledUnfolds
  <2> HIDE DEF w
  <2>4. \A p \in 0 .. n : w[p] \in Seq(Nat)
    BY <2>3
  <2> QED
    BY <2>2, <2>3, <2>4, LenProperties
<1> HIDE DEF w
<1>3. 0 \in P
  BY <1>1, <1>2
<1>4. ASSUME NEW d \in 0 .. n - i, d \in P, d < n - i
      PROVE  d + 1 \in P
  <2> DEFINE p == i + d
             v == BandWords(vec, a[p + 1])
  <2>1. p \in 0 .. n /\ p + 1 \in 1 .. n /\ (p + 1) - 1 = p /\ d + 1 \in 0 .. n - i
        /\ i + (d + 1) = p + 1
    BY <1>1, <1>4
  <2>2. Kept(p)
    BY <1>4
  <2> HIDE DEF p
  <2>3. w[p + 1] = w[p] \o v /\ v \in Seq(Nat) /\ w[p] \in Seq(Nat)
    BY <1>2, <2>1
  <2> HIDE DEF v
  <2>4. /\ Len(w[p + 1]) = Len(w[p]) + Len(v)
        /\ Len(w[p]) \in Nat /\ Len(v) \in Nat /\ Len(w[i]) \in Nat
        /\ \A x \in 1 .. Len(w[p]) + Len(v) :
              w[p + 1][x] = IF x <= Len(w[p]) THEN w[p][x] ELSE v[x - Len(w[p])]
    BY <2>3, <1>1, <1>2, ConcatProperties, LenProperties
  <2>5. \A x \in 1 .. Len(w[i]) : x \in 1 .. Len(w[p]) + Len(v) /\ x <= Len(w[p])
    BY <2>2, <2>4
  <2>6. Kept(p + 1)
    BY <2>2, <2>4, <2>5
  <2> QED
    BY <2>1, <2>6
<1>5. 0 .. n - i \subseteq P
  <2>1. n - i \in Nat
    BY <1>1
  <2> HIDE DEF P
  <2> QED
    BY <2>1, <1>3, <1>4, RangeInduction
<1>6. j - i \in 0 .. n - i /\ i + (j - i) = j
  BY <1>1
<1>7. Kept(j)
  BY <1>5, <1>6
<1> QED
  BY <1>7 DEF w

-----------------------------------------------------------------------------

(* Setting the match flag of a row does not change what is read from it.   *)
Flagged(ps1, ps2) ==
    /\ DOMAIN ps1 = DOMAIN ps2
    /\ \A i \in DOMAIN ps2 : i # 1 => ps1[i] = ps2[i]

(* The words of a row in bands, o saying where each band begins.           *)
InBands(row, vec, a, o) ==
    /\ row[0] = ACF_SPARSEBANDS /\ row[2] = Len(a)
    /\ o \in [0 .. Len(a) -> Nat]
    /\ o[0] = 3
    /\ \A b \in 1 .. Len(a) :
          LET p == o[b - 1]
              e == BandEnd(vec, a[b])
          IN  /\ row[p] = e - a[b] + 1
              /\ row[p + 1] = a[b]
              /\ o[b] = p + 2 + row[p]
              /\ \A j \in 0 .. e - a[b] : row[p + 2 + j] = vec[a[b] + j]

(* The conversion to bands lays the words that way.                        *)
LEMMA BandsLaid ==
    ASSUME NEW vec \in FullRow, NEW row, Flagged(row, ToSparseBands(vec))
    PROVE  LET a == Ascending(BandBegins(vec))
           IN  InBands(row, vec, a, [b \in 0 .. Len(a) |-> Len(Filled(vec, a)[b])])
<1> DEFINE a == Ascending(BandBegins(vec))
           n == Len(a)
           w == Filled(vec, a)
           o == [b \in 0 .. n |-> Len(w[b])]
           all == w[n]
<1>1. Ordered(a, BandBegins(vec))
  BY BeginsAreInputs, AscendingOrdered
<1>2. ToSparseBands(vec) = Words(w[n])
  BY DEF ToSparseBands
<1> HIDE DEF a
<1>3. /\ n \in Nat
      /\ \A b \in 1 .. n : a[b] \in BandBegins(vec)
  BY <1>1, LenProperties DEF Ordered
<1>4. /\ w \in [0 .. n -> Seq(Nat)]
      /\ w[0] = <<ACF_SPARSEBANDS, 0, n>>
      /\ \A b \in 1 .. n : w[b] = w[b - 1] \o BandWords(vec, a[b])
  BY <1>1, FilledUnfolds
<1>5. \A b \in 0 .. n : /\ Len(w[b]) <= Len(all)
                        /\ \A x \in 1 .. Len(w[b]) : all[x] = w[b][x]
  <2>1. n \in 0 .. Len(a)
    BY <1>3
  <2> QED
    BY <1>1, <2>1, FilledGrows
<1> HIDE DEF w
<1>6. /\ all \in Seq(Nat) /\ Len(all) \in Nat
      /\ \A b \in 0 .. n : w[b] \in Seq(Nat) /\ Len(w[b]) \in Nat
  BY <1>3, <1>4, LenProperties
<1> HIDE DEF all
<1>7. /\ Len(w[0]) = 3 /\ w[0][1] = ACF_SPARSEBANDS /\ w[0][3] = n
  BY <1>4
<1>8. \A x \in 0 .. Len(all) - 1 : x # 1 => row[x] = all[x + 1]
  <2>1. Words(all) = [x \in 0 .. Len(all) - 1 |-> all[x + 1]]
    BY DEF Words
  <2>2. ToSparseBands(vec) = Words(all)
    BY <1>2 DEF all
  <2> QED
    BY <2>1, <2>2 DEF Flagged
<1>9. row[0] = ACF_SPARSEBANDS /\ row[2] = n
  <2>1. 0 \in 0 .. n /\ 1 \in 1 .. 3 /\ 3 \in 1 .. 3
    BY <1>3
  <2>2. 3 <= Len(all) /\ all[1] = ACF_SPARSEBANDS /\ all[3] = n
    BY <1>5, <1>7, <2>1
  <2>3. 0 \in 0 .. Len(all) - 1 /\ 2 \in 0 .. Len(all) - 1
    BY <1>6, <2>2
  <2> QED
    BY <1>8, <2>2, <2>3
<1>10. o \in [0 .. n -> Nat] /\ o[0] = 3
  BY <1>3, <1>6, <1>7
<1>11. ASSUME NEW b \in 1 .. n
       PROVE  LET p == o[b - 1]
                  e == BandEnd(vec, a[b])
              IN  /\ row[p] = e - a[b] + 1
                  /\ row[p + 1] = a[b]
                  /\ o[b] = p + 2 + row[p]
                  /\ \A j \in 0 .. e - a[b] : row[p + 2 + j] = vec[a[b] + j]
  <2> DEFINE p == Len(w[b - 1])
             e == BandEnd(vec, a[b])
             v == BandWords(vec, a[b])
             c == a[b]
  <2>1. b - 1 \in 0 .. n /\ b \in 0 .. n
    BY <1>3
  <2>2. o[b - 1] = p /\ o[b] = Len(w[b]) /\ p \in Nat
    BY <1>6, <2>1
  <2>3. 3 <= p
    <3>1. \A x \in 0 .. n : x \in 0 .. Len(a) /\ 0 \in 0 .. x
      BY <1>3
    <3> QED
      BY <1>1, <1>7, <2>1, <3>1, FilledGrows DEF w
  <2>4. c \in BandBegins(vec) /\ c \in Nat /\ e \in Nat /\ c <= e
    <3>1. c \in BandBegins(vec)
      BY <1>3
    <3>2. e \in Input /\ c <= e
      BY <3>1, BandEndFacts
    <3> QED
      BY <3>1, <3>2, BeginsAreInputs
  <2>5. /\ v \in Seq(Nat)
        /\ Len(v) = 2 + (e - c + 1)
        /\ v[1] = e - c + 1
        /\ v[2] = c
        /\ \A j \in 0 .. e - c : v[3 + j] = vec[c + j]
    BY <2>4, BandWordsFacts
  <2>6. w[b] = w[b - 1] \o v /\ w[b - 1] \in Seq(Nat)
    BY <1>4, <1>6, <2>1
  <2> HIDE DEF v, e, c, o
  <2>7. /\ Len(w[b]) = p + Len(v)
        /\ \A x \in 1 .. p + Len(v) :
              w[b][x] = IF x <= p THEN w[b - 1][x] ELSE v[x - p]
    <3>1. /\ Len(w[b - 1] \o v) = Len(w[b - 1]) + Len(v)
          /\ \A x \in 1 .. Len(w[b - 1]) + Len(v) :
                (w[b - 1] \o v)[x] = IF x <= Len(w[b - 1]) THEN w[b - 1][x]
                                     ELSE v[x - Len(w[b - 1])]
      <4>1. w[b - 1] \in Seq(Nat) /\ v \in Seq(Nat)
        BY <2>5, <2>6
      <4> QED
        BY <4>1, ConcatProperties
    <3> QED
      BY <3>1, <2>6
  <2> HIDE DEF p
  <2>8. ASSUME NEW x \in 1 .. Len(v)
        PROVE  row[p + x - 1] = v[x]
    <3>1. p + x \in 1 .. p + Len(v) /\ ~ (p + x <= p) /\ (p + x) - p = x
      BY <2>2, <2>4, <2>5
    <3>2. w[b][p + x] = v[x]
      BY <2>7, <3>1
    <3>3. all[p + x] = v[x] /\ p + x <= Len(all)
      BY <1>5, <2>1, <2>7, <3>1, <3>2, <1>6
    <3>4. /\ p + x - 1 \in 0 .. Len(all) - 1 /\ p + x - 1 # 1
          /\ (p + x - 1) + 1 = p + x
      BY <1>6, <2>2, <2>3, <3>3
    <3> QED
      BY <1>8, <3>3, <3>4
  <2>9. row[p] = e - c + 1
    <3>1. 1 \in 1 .. Len(v) /\ p + 1 - 1 = p
      BY <2>2, <2>4, <2>5
    <3> QED
      BY <2>5, <2>8, <3>1
  <2>10. row[p + 1] = c
    <3>1. 2 \in 1 .. Len(v) /\ p + 2 - 1 = p + 1
      BY <2>2, <2>4, <2>5
    <3> QED
      BY <2>5, <2>8, <3>1
  <2>11. ASSUME NEW j \in 0 .. e - c
         PROVE  row[p + 2 + j] = vec[c + j]
    <3>1. 3 + j \in 1 .. Len(v) /\ p + (3 + j) - 1 = p + 2 + j
      BY <2>2, <2>4, <2>5
    <3> QED
      BY <2>5, <2>8, <3>1
  <2>12. o[b] = p + 2 + row[p]
    BY <2>2, <2>4, <2>5, <2>7, <2>9
  <2> QED
    BY <2>2, <2>9, <2>10, <2>11, <2>12 DEF e, c
<1> HIDE DEF o
<1>12. InBands(row, vec, a, o)
  BY <1>9, <1>10, <1>11 DEF InBands
<1> QED
  BY <1>12 DEF o, w, a

(* The offsets a search adds up are those.                                 *)
LEMMA OffsetsAreBands ==
    ASSUME NEW vec, NEW row, NEW a, NEW o, Len(a) \in Nat, InBands(row, vec, a, o)
    PROVE  \A b \in 0 .. Len(a) : BandOffset(row)[b] = o[b]
<1> DEFINE n == Len(a)
           off == BandOffset(row)
           F == [b \in 0 .. n |-> IF b = 0 THEN 3
                                  ELSE o[b - 1] + 2 + row[o[b - 1]]]
<1>1. /\ o \in [0 .. n -> Nat] /\ o[0] = 3 /\ row[2] = n
      /\ \A b \in 1 .. n : o[b] = o[b - 1] + 2 + row[o[b - 1]]
  BY DEF InBands
<1>2. o = F
  <2>1. \A b \in 0 .. n : b # 0 => b \in 1 .. n
    OBVIOUS
  <2>2. \A b \in 0 .. n : o[b] = F[b]
    BY <1>1, <2>1
  <2>3. o = [b \in 0 .. n |-> o[b]]
    BY <1>1
  <2> QED
    BY <2>2, <2>3
<1>3. off = [b \in 0 .. n |-> IF b = 0 THEN 3
                             ELSE off[b - 1] + 2 + row[off[b - 1]]]
  BY <1>1, <1>2 DEF BandOffset
<1> HIDE DEF off, F
<1> DEFINE P == {b \in 0 .. n : off[b] = o[b]}
<1>4. 0 \in P
  BY <1>1, <1>3
<1>5. ASSUME NEW b \in 0 .. n, b \in P, b < n
      PROVE  b + 1 \in P
  <2>1. b + 1 \in 0 .. n /\ b + 1 \in 1 .. n /\ b + 1 # 0 /\ (b + 1) - 1 = b
    BY <1>5
  <2>2. off[b + 1] = off[b] + 2 + row[off[b]]
    BY <1>3, <2>1
  <2>3. o[b + 1] = o[b] + 2 + row[o[b]]
    BY <1>1, <2>1
  <2> QED
    BY <1>5, <2>1, <2>2, <2>3
<1>6. 0 .. n \subseteq P
  <2> HIDE DEF P
  <2> QED
    BY <1>4, <1>5, RangeInduction
<1> QED
  BY <1>6 DEF off

(* The first band that ends beyond the input is the one that has it.       *)
LEMMA NextInBands ==
    ASSUME NEW vec \in FullRow, NEW row, NEW a, NEW o,
           Ordered(a, BandBegins(vec)), InBands(row, vec, a, o),
           NEW input \in Input
    PROVE  NextSparseBands(row, input) = vec[input]
<1> DEFINE n == Len(a)
           off == BandOffset(row)
           End(b) == BandEnd(vec, a[b])
           stop == {b \in 0 .. row[2] - 1 : input < row[off[b] + 1] + row[off[b]]}
           m == CHOOSE b \in stop : \A i \in stop : b <= i
           p == off[m]
<1>1. n \in Nat /\ input \in Nat /\ \A b \in 1 .. n : a[b] \in BandBegins(vec)
  BY BeginsAreInputs, LenProperties DEF Ordered
<1>2. \A b \in 1 .. n : /\ a[b] \in Nat /\ End(b) \in Nat /\ a[b] <= End(b)
                        /\ BandEnd(vec, a[b]) \in Input
  BY <1>1, BeginsAreInputs, BandEndFacts
<1>3. /\ row[2] = n
      /\ \A b \in 1 .. n : /\ row[o[b - 1]] = End(b) - a[b] + 1
                           /\ row[o[b - 1] + 1] = a[b]
                           /\ \A j \in 0 .. End(b) - a[b] :
                                 row[o[b - 1] + 2 + j] = vec[a[b] + j]
                           /\ o[b - 1] \in Nat
  BY <1>1 DEF InBands
<1>4. \A b \in 0 .. n : off[b] = o[b]
  BY <1>1, OffsetsAreBands
<1>5. \A b \in 0 .. n - 1 : b + 1 \in 1 .. n /\ (b + 1) - 1 = b /\ b \in 0 .. n
  BY <1>1
<1>6. NextSparseBands(row, input) =
        IF stop = {} \/ input < row[p + 1] THEN 0
        ELSE row[p + 2 + input - row[p + 1]]
  BY DEF NextSparseBands
<1> HIDE DEF End, off
<1>7. stop = {b \in 0 .. n - 1 : input <= End(b + 1)}
  <2>1. ASSUME NEW b \in 0 .. n - 1
        PROVE  input < row[off[b] + 1] + row[off[b]] <=> input <= End(b + 1)
    <3>1. off[b] = o[b] /\ row[o[b]] = End(b + 1) - a[b + 1] + 1
          /\ row[o[b] + 1] = a[b + 1] /\ End(b + 1) \in Nat /\ a[b + 1] \in Nat
      BY <1>2, <1>3, <1>4, <1>5
    <3> HIDE DEF n
    <3> QED
      BY <3>1, <1>1
  <2> QED
    BY <2>1, <1>3
<1> HIDE DEF stop
<1>8. vec[input] = 0 \/ input \in NonZero(vec)
  BY DEF NonZero
<1>9. ASSUME input \in NonZero(vec)
      PROVE  \E h \in 1 .. n : h - 1 \in stop /\ a[h] <= input
  <2>1. PICK b \in BandBegins(vec) : b <= input /\ input <= BandEnd(vec, b)
    BY <1>9, EntryInBand
  <2>2. PICK h \in 1 .. n : a[h] = b
    BY DEF Ordered
  <2>3. h - 1 \in 0 .. n - 1 /\ (h - 1) + 1 = h
    BY <1>1, <2>2
  <2> QED
    BY <2>1, <2>2, <2>3, <1>7 DEF End
<1>10. CASE stop = {}
  BY <1>6, <1>8, <1>9, <1>10
<1>11. CASE stop # {}
  <2>1. m \in stop /\ \A i \in stop : m <= i
    <3>1. stop \subseteq Nat
      BY <1>7
    <3> QED
      BY <1>11, <3>1, LeastElement
  <2> DEFINE c == a[m + 1]
  <2> HIDE DEF m
  <2>2. /\ m \in 0 .. n - 1 /\ m + 1 \in 1 .. n /\ (m + 1) - 1 = m
        /\ input <= End(m + 1)
    BY <2>1, <1>5, <1>7
  <2>3. p = o[m] /\ o[m] \in Nat /\ row[p + 1] = c /\ c \in Nat /\ End(m + 1) \in Nat
        /\ \A j \in 0 .. End(m + 1) - c : row[p + 2 + j] = vec[c + j]
    BY <2>2, <1>2, <1>3, <1>4, <1>5
  <2>4. CASE input < c
    <3>1. input \notin NonZero(vec)
      <4> SUFFICES ASSUME input \in NonZero(vec)
                   PROVE  FALSE
        OBVIOUS
      <4>1. PICK h \in 1 .. n : h - 1 \in stop /\ a[h] <= input
        BY <1>9
      <4>2. m + 1 <= h
        BY <2>1, <2>2, <4>1, <1>1
      <4>3. c <= a[h]
        <5>1. \A x, y \in 1 .. n : x < y => a[x] < a[y]
          BY DEF Ordered
        <5>2. m + 1 = h \/ m + 1 < h
          BY <2>2, <4>2, <1>1
        <5>3. a[m + 1] < a[h] \/ a[m + 1] = a[h]
          BY <2>2, <4>1, <5>1, <5>2
        <5> QED
          BY <2>2, <4>1, <5>3, <1>2
      <4> QED
        BY <2>3, <2>4, <4>1, <4>3, <1>1, <1>2
    <3> QED
      BY <1>6, <1>8, <2>3, <2>4, <3>1
  <2>5. CASE ~ (input < c)
    <3>1. input - c \in 0 .. End(m + 1) - c /\ c + (input - c) = input
          /\ p + 2 + input - c = p + 2 + (input - c)
      BY <2>2, <2>3, <2>5, <1>1
    <3>2. row[p + 2 + input - c] = vec[input]
      BY <2>3, <3>1
    <3> QED
      BY <1>6, <1>11, <2>3, <2>5, <3>2
  <2> QED
    BY <2>4, <2>5
<1> QED
  BY <1>10, <1>11

(* Rows in bands are read back.                                            *)
LEMMA SparseBandsDecode ==
    ASSUME NEW vec \in FullRow, NEW row, Flagged(row, ToSparseBands(vec)),
           NEW input \in Input
    PROVE  /\ row[0] = ACF_SPARSEBANDS
           /\ NextSparseBands(row, input) = vec[input]
<1> DEFINE a == Ascending(BandBegins(vec))
           o == [b \in 0 .. Len(a) |-> Len(Filled(vec, a)[b])]
<1>1. Ordered(a, BandBegins(vec))
  BY BeginsAreInputs, AscendingOrdered
<1>2. InBands(row, vec, a, o)
  BY BandsLaid
<1> HIDE DEF a, o
<1> QED
  BY <1>1, <1>2, NextInBands DEF InBands

-----------------------------------------------------------------------------
(* Sparse rows.                                                            *)

(* The words of a sparse row: the inputs with a transition, in order, each *)
(* with its next state.                                                    *)
InPairs(row, vec, a) ==
    /\ row[0] = ACF_SPARSE /\ row[2] = Len(a)
    /\ \A j \in 1 .. Len(a) : /\ row[2 * j + 1] = a[j]
                              /\ row[2 * j + 2] = vec[a[j]]

(* The conversion to pairs lays the words that way, in a row that it does  *)
(* not leave full.                                                         *)
LEMMA PairsLaid ==
    ASSUME NEW vec \in FullRow, NEW num, NEW row, Flagged(row, ToSparse(num, vec)),
           num # 0, ~ (Len(Ascending(NonZero(vec))) > MaxRowNodes)
    PROVE  InPairs(row, vec, Ascending(NonZero(vec)))
<1> DEFINE a == Ascending(NonZero(vec))
           n == Len(a)
           Word(i) == IF i = 0 THEN ACF_SPARSE
                      ELSE IF i = 1 THEN 0
                      ELSE IF i = 2 THEN n
                      ELSE LET key == a[(i - 3) \div 2 + 1]
                           IN  IF i % 2 = 1 THEN key ELSE vec[key]
           r == [i \in 0 .. 2 + 2 * n |-> Word(i)]
<1>1. n \in Nat
  BY BeginsAreInputs, AscendingOrdered, LenProperties DEF Ordered
<1>2. Flagged(row, r) /\ ~ (num = 0 \/ n > MaxRowNodes)
  BY DEF ToSparse
<1> HIDE DEF a
<1>3. \A i \in 0 .. 2 + 2 * n : i # 1 => row[i] = Word(i)
  BY <1>2 DEF Flagged
<1>4. row[0] = ACF_SPARSE /\ row[2] = n
  <2>1. 0 \in 0 .. 2 + 2 * n /\ 2 \in 0 .. 2 + 2 * n
    BY <1>1
  <2> QED
    BY <1>3, <2>1
<1>5. ASSUME NEW j \in 1 .. n
      PROVE  row[2 * j + 1] = a[j] /\ row[2 * j + 2] = vec[a[j]]
  <2>1. /\ 2 * j + 1 \in 0 .. 2 + 2 * n /\ 2 * j + 2 \in 0 .. 2 + 2 * n
        /\ 2 * j + 1 > 2 /\ 2 * j + 2 > 2
    BY <1>1
  <2>2. /\ (2 * j + 1) % 2 = 1 /\ (2 * j + 2) % 2 # 1
        /\ ((2 * j + 1) - 3) \div 2 + 1 = j
        /\ ((2 * j + 2) - 3) \div 2 + 1 = j
    BY <1>1
  <2>3. Word(2 * j + 1) = a[j]
    BY <2>1, <2>2
  <2>4. Word(2 * j + 2) = vec[a[j]]
    BY <2>1, <2>2
  <2> HIDE DEF Word
  <2> QED
    BY <1>3, <2>1, <2>3, <2>4
<1> QED
  BY <1>4, <1>5 DEF InPairs, a

(* Where the scan of the pairs stops: at the first input not below the one *)
(* looked up, which is that one if it has a transition.                    *)
LEMMA PairsStop ==
    ASSUME NEW vec \in FullRow, NEW row, NEW a, Ordered(a, NonZero(vec)),
           InPairs(row, vec, a), NEW input \in Input
    PROVE  LET stop == {j \in 0 .. row[2] - 1 : row[3 + 2 * j] >= input}
               j == CHOOSE x \in stop : \A i \in stop : x <= i
           IN  /\ input \in NonZero(vec) => stop # {} /\ row[3 + 2 * j] = input
               /\ stop # {} /\ row[3 + 2 * j] = input
                     => row[4 + 2 * j] = vec[input]
               /\ stop # {} => row[3 + 2 * j] \in NonZero(vec)
<1> DEFINE n == Len(a)
           stop == {j \in 0 .. row[2] - 1 : row[3 + 2 * j] >= input}
           j == CHOOSE x \in stop : \A i \in stop : x <= i
<1>1. /\ n \in Nat /\ input \in Nat /\ row[2] = n
      /\ \A p \in 1 .. n : a[p] \in NonZero(vec) /\ a[p] \in Nat
  BY BeginsAreInputs, LenProperties DEF Ordered, InPairs
<1>2. \A p \in 0 .. n - 1 : row[3 + 2 * p] = a[p + 1] /\ row[4 + 2 * p] = vec[a[p + 1]]
  <2> SUFFICES ASSUME NEW p \in 0 .. n - 1
               PROVE  row[3 + 2 * p] = a[p + 1] /\ row[4 + 2 * p] = vec[a[p + 1]]
    OBVIOUS
  <2>1. /\ p + 1 \in 1 .. n /\ 3 + 2 * p = 2 * (p + 1) + 1
        /\ 4 + 2 * p = 2 * (p + 1) + 2
    BY <1>1
  <2> QED
    BY <2>1 DEF InPairs
<1>3. stop \subseteq 0 .. n - 1 /\ \A p \in stop : a[p + 1] >= input
  BY <1>1, <1>2
<1>4. \A p \in 0 .. n - 1 : a[p + 1] >= input => p \in stop
  BY <1>1, <1>2
<1> HIDE DEF stop
<1>5. stop # {} => j \in stop /\ \A i \in stop : j <= i
  <2>1. stop \subseteq Nat
    BY <1>3
  <2> QED
    BY <2>1, LeastElement
<1> HIDE DEF j
<1>6. ASSUME input \in NonZero(vec)
      PROVE  stop # {} /\ row[3 + 2 * j] = input
  <2>1. PICK p \in 1 .. n : a[p] = input
    BY <1>6 DEF Ordered
  <2>2. p - 1 \in 0 .. n - 1 /\ (p - 1) + 1 = p
    BY <1>1
  <2>3. p - 1 \in stop
    BY <2>1, <2>2, <1>1, <1>4
  <2>4. j \in 0 .. n - 1 /\ j <= p - 1 /\ a[j + 1] >= input
    BY <2>3, <1>3, <1>5
  <2>5. j + 1 \in 1 .. n /\ (j + 1 < p \/ j + 1 = p)
    BY <2>4, <1>1
  <2>6. ~ (j + 1 < p)
    <3>1. \A x, y \in 1 .. n : x < y => a[x] < a[y]
      BY DEF Ordered
    <3> QED
      BY <2>1, <2>4, <2>5, <3>1, <1>1
  <2> QED
    BY <2>1, <2>3, <2>4, <2>5, <2>6, <1>2
<1>7. stop # {} => row[3 + 2 * j] = a[j + 1] /\ row[4 + 2 * j] = vec[a[j + 1]]
                   /\ a[j + 1] \in NonZero(vec)
  <2>1. \A p \in 0 .. n - 1 : p + 1 \in 1 .. n
    BY <1>1
  <2> QED
    BY <2>1, <1>1, <1>2, <1>3, <1>5
<1>8. LET s == stop
          x == j
      IN  /\ input \in NonZero(vec) => s # {} /\ row[3 + 2 * x] = input
          /\ s # {} /\ row[3 + 2 * x] = input => row[4 + 2 * x] = vec[input]
          /\ s # {} => row[3 + 2 * x] \in NonZero(vec)
  BY <1>6, <1>7
<1> QED
  BY <1>8 DEF j, stop

(* Sparse rows are read back by both lookups.                              *)
LEMMA SparseDecodes ==
    ASSUME NEW vec \in FullRow, NEW num, NEW row, Flagged(row, ToSparse(num, vec)),
           num # 0, ~ (Len(Ascending(NonZero(vec))) > MaxRowNodes),
           NEW input \in Input
    PROVE  /\ row[0] = ACF_SPARSE
           /\ NextSparse(row, input) = vec[input]
           /\ NextSparseNFA(row, num, input) = OrFail(num, vec[input])
<1> DEFINE a == Ascending(NonZero(vec))
           stop == {x \in 0 .. row[2] - 1 : row[3 + 2 * x] >= input}
           j == CHOOSE x \in stop : \A i \in stop : x <= i
<1>1. InPairs(row, vec, a)
  BY PairsLaid
<1>2. Ordered(a, NonZero(vec))
  BY BeginsAreInputs, AscendingOrdered
<1> HIDE DEF a
<1>3. /\ input \in NonZero(vec) => stop # {} /\ row[3 + 2 * j] = input
      /\ stop # {} /\ row[3 + 2 * j] = input => row[4 + 2 * j] = vec[input]
      /\ stop # {} => row[3 + 2 * j] \in NonZero(vec)
  BY <1>1, <1>2, PairsStop
<1>4. /\ NextSparse(row, input) =
           IF stop # {} /\ row[3 + 2 * j] = input THEN row[4 + 2 * j] ELSE 0
      /\ NextSparseNFA(row, num, input) =
           IF stop = {} THEN OrFail(num, 0)
           ELSE IF row[3 + 2 * j] > input THEN FAIL
           ELSE row[4 + 2 * j]
  BY DEF NextSparse, NextSparseNFA
<1>5. stop # {} => row[3 + 2 * j] >= input
  <2>1. stop # {} => j \in stop
    <3>1. stop \subseteq Nat
      <4>1. row[2] \in Nat
        BY <1>1, <1>2, LenProperties DEF InPairs, Ordered
      <4> QED
        BY <4>1
    <3> HIDE DEF stop
    <3> QED
      BY <3>1, LeastElement
  <2> HIDE DEF j
  <2> QED
    BY <2>1
<1> HIDE DEF j, stop
<1>6. /\ input \in Nat /\ NonZero(vec) \subseteq Nat
      /\ input \in NonZero(vec) \/ vec[input] = 0
      /\ input \in NonZero(vec) => vec[input] # 0
  <2>1. input \in NonZero(vec) \/ vec[input] = 0
    BY DEF NonZero
  <2>2. input \in NonZero(vec) => vec[input] # 0
    BY DEF NonZero
  <2> QED
    BY <2>1, <2>2, BeginsAreInputs
<1>7. CASE input \in NonZero(vec)
  <2>1. ~ (row[3 + 2 * j] > input)
    BY <1>3, <1>6, <1>7
  <2> QED
    BY <1>1, <1>3, <1>4, <1>6, <1>7, <2>1 DEF OrFail, InPairs
<1>8. CASE input \notin NonZero(vec)
  <2>1. stop # {} => row[3 + 2 * j] # input /\ row[3 + 2 * j] > input
    BY <1>3, <1>5, <1>6, <1>8
  <2> QED
    BY <1>1, <1>4, <1>6, <1>8, <2>1 DEF OrFail, InPairs
<1> QED
  BY <1>7, <1>8

-----------------------------------------------------------------------------
(* Full and banded rows are read by position.                              *)

(* Full rows are read back.                                                *)
LEMMA FullDecodes ==
    ASSUME NEW vec \in FullRow, NEW row, Flagged(row, ToFull(vec)),
           NEW input \in Input
    PROVE  row[0] = ACF_FULL /\ NextFull(row, input) = vec[input]
<1>1. input \in Int /\ 0 <= input /\ input < AlphabetSize /\ AlphabetSize \in Nat
  BY AlphabetAssumption DEF Input
<1>2. 2 + input \in 0 .. AlphabetSize + 1 /\ 0 \in 0 .. AlphabetSize + 1
  BY <1>1
<1>3. DOMAIN ToFull(vec) = 0 .. AlphabetSize + 1
  BY DEF ToFull
<1>4. row[0] = ToFull(vec)[0] /\ row[2 + input] = ToFull(vec)[2 + input]
  BY <1>1, <1>2, <1>3 DEF Flagged
<1>5. ToFull(vec)[0] = ACF_FULL
  BY <1>2 DEF ToFull
<1>6. ToFull(vec)[2 + input] = vec[input]
  <2>1. 2 + input # 0 /\ 2 + input # 1 /\ (2 + input) - 2 = input
    BY <1>1
  <2> QED
    BY <1>2, <2>1 DEF ToFull
<1> QED
  BY <1>4, <1>5, <1>6 DEF NextFull

(* Banded rows are read back, those without a transition included.         *)
LEMMA BandedDecodes ==
    ASSUME NEW vec \in FullRow, NEW row, Flagged(row, ToBanded(vec)),
           NEW input \in Input
    PROVE  row[0] = ACF_BANDED /\ NextBanded(row, input) = vec[input]
<1> DEFINE empty == NonZero(vec) = {}
           first == IF empty THEN FAIL ELSE FirstKey(vec)
           cnt == IF empty THEN 0 ELSE LastKey(vec) - FirstKey(vec) + 1
           band == ToBanded(vec)
<1>1. /\ input \in Nat /\ input < AlphabetSize /\ AlphabetSize \in Nat
      /\ FAIL \in Nat /\ FAIL >= AlphabetSize
  BY AlphabetAssumption, FailAssumption DEF Input
<1>2. /\ first \in Nat /\ cnt \in Nat
      /\ \A i \in NonZero(vec) : first <= i /\ i < first + cnt
      /\ empty => cnt = 0 /\ input < first
      /\ ~ empty => first + cnt <= AlphabetSize
  <2>1. CASE empty
    BY <2>1, <1>1
  <2>2. CASE ~ empty
    <3>1. /\ FirstKey(vec) \in Input /\ LastKey(vec) \in Input
          /\ \A i \in NonZero(vec) : FirstKey(vec) <= i /\ i <= LastKey(vec)
      BY <2>2, BandSpans
    <3>2. NonZero(vec) \subseteq Input
      BY DEF NonZero
    <3>3. FirstKey(vec) <= LastKey(vec)
      BY <3>1, <3>2, <2>2, <1>1 DEF Input
    <3> QED
      BY <2>2, <3>1, <3>2, <3>3, <1>1 DEF Input
  <2> QED
    BY <2>1, <2>2
<1>3. band = [i \in 0 .. 3 + cnt |->
                IF i = 0 THEN ACF_BANDED
                ELSE IF i = 1 THEN 0
                ELSE IF i = 2 THEN cnt
                ELSE IF i = 3 THEN first
                ELSE vec[first + i - 4]]
  BY DEF ToBanded
<1> HIDE DEF band, first, cnt, empty
<1>4. /\ DOMAIN band = 0 .. 3 + cnt
      /\ band[0] = ACF_BANDED /\ band[2] = cnt /\ band[3] = first
  BY <1>2, <1>3
<1>5. row[0] = ACF_BANDED /\ row[2] = cnt /\ row[3] = first
  BY <1>2, <1>4 DEF Flagged, band
<1>6. vec[input] = 0 \/ input \in NonZero(vec)
  BY DEF NonZero
<1>7. CASE input < first \/ input >= first + cnt
  <2>1. input \notin NonZero(vec)
    BY <1>1, <1>2, <1>7
  <2>2. NextBanded(row, input) = 0
    BY <1>1, <1>2, <1>5, <1>7 DEF NextBanded
  <2> QED
    BY <1>5, <1>6, <2>1, <2>2
<1>8. CASE first <= input /\ input < first + cnt
  <2> DEFINE i == 4 + input - first
  <2>1. i \in 0 .. 3 + cnt /\ i > 3 /\ first + i - 4 = input
    BY <1>1, <1>2, <1>8
  <2>2. NextBanded(row, input) = row[i]
    BY <1>1, <1>2, <1>5, <1>8 DEF NextBanded
  <2> HIDE DEF i
  <2>3. row[i] = band[i]
    BY <2>1, <1>4, <1>2 DEF Flagged, band
  <2>4. band[i] = vec[input]
    BY <2>1, <1>3, <1>2
  <2> QED
    BY <1>5, <2>2, <2>3, <2>4
<1> QED
  BY <1>1, <1>2, <1>7, <1>8

(* A packed row has a word for the match flag.                             *)
LEMMA PackedHasFlag ==
    ASSUME NEW vec \in FullRow, NEW f \in Format, NEW num
    PROVE  1 \in DOMAIN Pack(f, num, vec)
<1>1. 1 \in DOMAIN ToFull(vec)
  BY AlphabetAssumption DEF ToFull
<1>2. 1 \in DOMAIN ToSparse(num, vec)
  <2>1. Len(Ascending(NonZero(vec))) \in Nat
    BY BeginsAreInputs, AscendingOrdered, LenProperties DEF Ordered
  <2> QED
    BY <1>1, <2>1 DEF ToSparse
<1>3. 1 \in DOMAIN ToBanded(vec)
  <2>1. CASE NonZero(vec) = {}
    BY <2>1 DEF ToBanded
  <2>2. CASE NonZero(vec) # {}
    <3>1. FirstKey(vec) \in Nat /\ LastKey(vec) \in Nat /\ FirstKey(vec) <= LastKey(vec)
      BY <2>2, BandSpans, BeginsAreInputs
    <3> QED
      BY <2>2, <3>1 DEF ToBanded
  <2> QED
    BY <2>1, <2>2
<1>4. 1 \in DOMAIN ToSparseBands(vec)
  <2> DEFINE a == Ascending(BandBegins(vec))
             w == Filled(vec, a)[Len(a)]
  <2>1. Len(w) \in Nat /\ Len(w) >= 3
    <3>1. Ordered(a, BandBegins(vec))
      BY BeginsAreInputs, AscendingOrdered
    <3>2. Len(a) \in Nat
      BY <3>1, LenProperties DEF Ordered
    <3> HIDE DEF a
    <3> DEFINE f0 == Filled(vec, a)
    <3>3. f0 \in [0 .. Len(a) -> Seq(Nat)] /\ f0[0] = <<ACF_SPARSEBANDS, 0, Len(a)>>
      BY <3>1, FilledUnfolds
    <3>4. Len(f0[0]) <= Len(f0[Len(a)])
      <4>1. Len(a) \in 0 .. Len(a) /\ 0 \in 0 .. Len(a)
        BY <3>2
      <4> QED
        BY <3>1, <4>1, FilledGrows
    <3>5. Len(f0[0]) = 3
      BY <3>3
    <3>6. f0[Len(a)] \in Seq(Nat)
      BY <3>2, <3>3
    <3> HIDE DEF f0
    <3>7. Len(f0[Len(a)]) \in Nat
      BY <3>6, LenProperties
    <3> QED
      BY <3>4, <3>5, <3>7 DEF f0
  <2> HIDE DEF w, a
  <2>2. 1 \in DOMAIN Words(w)
    BY <2>1 DEF Words
  <2> QED
    BY <2>2 DEF ToSparseBands, w, a
<1> QED
  BY <1>1, <1>2, <1>3, <1>4 DEF Pack

(* The deterministic lookup reads back every packed row.                   *)
LEMMA PackedDecodes ==
    ASSUME NEW vec \in FullRow, NEW f \in Format, NEW num, NEW row,
           Flagged(row, Pack(f, num, vec)), NEW input \in Input
    PROVE  GetNextStateDFA(row, input) = vec[input]
<1> USE DEF ACF_FULL, ACF_SPARSE, ACF_BANDED, ACF_SPARSEBANDS, ACF_FULLQ
<1>1. CASE f = ACF_BANDED
  <2>1. Flagged(row, ToBanded(vec))
    BY <1>1 DEF Pack
  <2> QED
    BY <2>1, BandedDecodes DEF GetNextStateDFA
<1>2. ASSUME Flagged(row, ToFull(vec))
      PROVE  GetNextStateDFA(row, input) = vec[input]
  BY <1>2, FullDecodes DEF GetNextStateDFA
<1>3. CASE f \in {ACF_FULL, ACF_FULLQ}
  BY <1>2, <1>3 DEF Pack
<1>4. CASE f = ACF_SPARSEBANDS
  <2>1. Flagged(row, ToSparseBands(vec))
    BY <1>4 DEF Pack
  <2> QED
    BY <2>1, SparseBandsDecode DEF GetNextStateDFA
<1>5. CASE f = ACF_SPARSE
  <2>1. Flagged(row, ToSparse(num, vec))
    BY <1>5 DEF Pack
  <2>2. CASE num = 0 \/ Len(Ascending(NonZero(vec))) > MaxRowNodes
    BY <1>2, <2>1, <2>2 DEF ToSparse
  <2>3. CASE ~ (num = 0 \/ Len(Ascending(NonZero(vec))) > MaxRowNodes)
    <3>1. row[0] = ACF_SPARSE /\ NextSparse(row, input) = vec[input]
      BY <2>1, <2>3, SparseDecodes
    <3> QED
      BY <3>1 DEF GetNextStateDFA
  <2> QED
    BY <2>2, <2>3
<1> QED
  BY <1>1, <1>3, <1>4, <1>5 DEF Format

(* The nondeterministic one reads back all but the banded rows, and FAIL   *)
(* where there is no transition.                                           *)
LEMMA PackedDecodesNFA ==
    ASSUME NEW vec \in FullRow, NEW f \in Format, f # ACF_BANDED, NEW num, NEW row,
           Flagged(row, Pack(f, num, vec)), NEW input \in Input
    PROVE  GetNextStateNFA(row, num, input) = OrFail(num, vec[input])
<1> USE DEF ACF_FULL, ACF_SPARSE, ACF_BANDED, ACF_SPARSEBANDS, ACF_FULLQ
<1>1. ASSUME Flagged(row, ToFull(vec))
      PROVE  GetNextStateNFA(row, num, input) = OrFail(num, vec[input])
  BY <1>1, FullDecodes DEF GetNextStateNFA
<1>2. CASE f \in {ACF_FULL, ACF_FULLQ}
  BY <1>1, <1>2 DEF Pack
<1>3. CASE f = ACF_SPARSEBANDS
  <2>1. Flagged(row, ToSparseBands(vec))
    BY <1>3 DEF Pack
  <2> QED
    BY <2>1, SparseBandsDecode DEF GetNextStateNFA
<1>4. CASE f = ACF_SPARSE
  <2>1. Flagged(row, ToSparse(num, vec))
    BY <1>4 DEF Pack
  <2>2. CASE num = 0 \/ Len(Ascending(NonZero(vec))) > MaxRowNodes
    BY <1>1, <2>1, <2>2 DEF ToSparse
  <2>3. CASE ~ (num = 0 \/ Len(Ascending(NonZero(vec))) > MaxRowNodes)
    <3>1. row[0] = ACF_SPARSE /\ NextSparseNFA(row, num, input) = OrFail(num, vec[input])
      BY <2>1, <2>3, SparseDecodes
    <3> QED
      BY <3>1 DEF GetNextStateNFA
  <2> QED
    BY <2>2, <2>3
<1> QED
  BY <1>2, <1>3, <1>4 DEF Format

-----------------------------------------------------------------------------

(* The inductive invariant: up to its flag, the row is the packed one.     *)
RowInv ==
    /\ full \in FullRow
    /\ fmt \in Format
    /\ pc \in {"list", "packed", "flagged"}
    /\ pc # "list" => Flagged(ps, Pack(fmt, k, full))

(* It holds initially.                                                     *)
LEMMA InitRowInv == Init => RowInv
BY DEF Init, RowInv

(* Every step preserves it.                                                *)
LEMMA StepRowInv == RowInv /\ [Next]_vars => RowInv'
<1> SUFFICES ASSUME RowInv, [Next]_vars PROVE RowInv'
  OBVIOUS
<1>1. CASE Convert
  BY <1>1 DEF RowInv, Convert, Flagged
<1>2. CASE UpdateMatchStates
  <2>1. Flagged(ps, Pack(fmt, k, full))
    BY <1>2 DEF RowInv, UpdateMatchStates
  <2>2. Flagged(ps', Pack(fmt, k, full))
    BY <1>2, <2>1 DEF UpdateMatchStates, Flagged
  <2> QED
    BY <1>2, <2>2 DEF RowInv, UpdateMatchStates
<1>3. CASE UNCHANGED vars
  BY <1>3 DEF RowInv, vars
<1> QED
  BY <1>1, <1>2, <1>3 DEF Next

(* In its reachable states a packed row is read back by both lookups.      *)
LEMMA RowDecodes == RowInv => DFADecodes /\ NFADecodes
<1> SUFFICES ASSUME RowInv, pc # "list", NEW input \in Input
             PROVE  /\ GetNextStateDFA(ps, input) = full[input]
                    /\ fmt # ACF_BANDED
                          => GetNextStateNFA(ps, k, input) = OrFail(k, full[input])
  BY DEF DFADecodes, NFADecodes
<1>1. full \in FullRow /\ fmt \in Format /\ Flagged(ps, Pack(fmt, k, full))
  BY DEF RowInv
<1> QED
  BY <1>1, PackedDecodes, PackedDecodesNFA

(* Whatever the format, a deterministic search reads the transitions a row *)
(* was built from, whether or not the match flag is set.                   *)
THEOREM RowsDecode == Spec => []DFADecodes
BY InitRowInv, StepRowInv, RowDecodes, PTL DEF Spec

(* A nondeterministic one reads them, and FAIL where there is none, from   *)
(* every row that is not banded.                                           *)
THEOREM RowsDecodeNFA == Spec => []NFADecodes
BY InitRowInv, StepRowInv, RowDecodes, PTL DEF Spec
=============================================================================
