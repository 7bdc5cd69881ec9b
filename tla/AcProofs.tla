------------------------------ MODULE AcProofs ------------------------------
(***************************************************************************)
(* The trie that _acsmCompile2 lays out and the machine that Build_NFA and *)
(* Convert_NFA_To_DFA make of it, for every alphabet, every pool of        *)
(* patterns and every number of them.                                      *)
(*                                                                         *)
(* The trie: the tables are large enough, the states are the prefixes of   *)
(* the patterns, and a pattern is entered in the match list of its last    *)
(* state. The recursive functions of AcBuild are unfolded here with the    *)
(* lemmas of DataLemmas.                                                   *)
(*                                                                         *)
(* The machine: the fail states are the longest suffixes, the match lists  *)
(* are complete, and both kinds of machine go to the longest suffix of     *)
(* what has been read. The argument is the breadth-first order: whatever   *)
(* is shorter than the first state in the queue is finished, and all that  *)
(* the step of a state reads is shorter.                                   *)
(*                                                                         *)
(* The searches over the packed machine, for every alphabet, every pool of *)
(* patterns, every payload, either kind of machine and every row format,   *)
(* the nondeterministic machine with banded rows excepted, whose rows are  *)
(* not read as they are written.  The machine is in the state of the       *)
(* longest suffix of what was read, and there is one report for every      *)
(* place where a pattern ends.                                             *)
(*                                                                         *)
(* It joins three results: a packed row is read back (AcRowsProofs), the   *)
(* machine goes from the longest suffix to the longest suffix, and the     *)
(* match list of a state is not empty exactly if a pattern ends there.     *)
(***************************************************************************)
EXTENDS AcSearch, DataLemmas

Pattern == [patrn : PatternPool, iid : Nat]

(* A transition list.                                                      *)
Row == UNION {[A -> Nat] : A \in SUBSET Input}

-----------------------------------------------------------------------------
(* The recursive functions of the model, unfolded.                         *)

(* A pattern is a string of at least one byte.                             *)
LEMMA PatternText ==
    ASSUME NEW p \in Pattern
    PROVE  /\ p.patrn \in Seq(Input)
           /\ Len(p.patrn) \in Nat \ {0}
           /\ p.patrn # <<>>
<1>1. p.patrn \in Seq(Input) \ {<<>>}
  BY BuildAssumption DEF Pattern
<1> QED
  BY <1>1, EmptySeq

(* CountStates is a running total.                                         *)
LEMMA CountUnfolds ==
    ASSUME NEW ps \in Seq(Pattern)
    PROVE  /\ CountStates(ps) \in [0 .. Len(ps) -> Nat]
           /\ CountStates(ps)[0] = 1
           /\ \A i \in 1 .. Len(ps) :
                 CountStates(ps)[i] = CountStates(ps)[i - 1] + Len(ps[i].patrn)
<1> DEFINE n == Len(ps)
           step == [x \in (1 .. n) \X Nat |-> x[2] + Len(ps[x[1]].patrn)]
           c == CountStates(ps)
<1>1. n \in Nat
  BY LenProperties
<1>2. \A i \in 1 .. n : Len(ps[i].patrn) \in Nat
  BY ElementOfSeq, PatternText
<1>3. step \in StepFcn(n, Nat)
  BY <1>2 DEF StepFcn
<1>4. PICK f : Unrolls(f, n, Nat, 1, step)
  <2> HIDE DEF step
  <2> QED
    BY <1>1, <1>3, PrimitiveRecursion
<1>5. \A i \in 1 .. n : f[i] = f[i - 1] + Len(ps[i].patrn)
  <2> SUFFICES ASSUME NEW i \in 1 .. n
               PROVE  f[i] = f[i - 1] + Len(ps[i].patrn)
    OBVIOUS
  <2>1. i - 1 \in 0 .. n
    BY <1>1
  <2>2. f[i - 1] \in Nat
    BY <1>4, <2>1 DEF Unrolls
  <2>3. step[<<i, f[i - 1]>>] = f[i - 1] + Len(ps[i].patrn)
    BY <2>2
  <2> QED
    BY <1>4, <2>3 DEF Unrolls
<1>6. f = [i \in 0 .. n |-> IF i = 0 THEN 1 ELSE f[i - 1] + Len(ps[i].patrn)]
  BY <1>1, <1>4, <1>5 DEF Unrolls
<1>7. c = [i \in 0 .. n |-> IF i = 0 THEN 1 ELSE c[i - 1] + Len(ps[i].patrn)]
  BY <1>6 DEF CountStates
<1> HIDE DEF c
<1>8. \A i \in 0 .. n : c[i] = IF i = 0 THEN 1 ELSE c[i - 1] + Len(ps[i].patrn)
  BY <1>7
<1> DEFINE P == {i \in 0 .. n : c[i] \in Nat}
<1>9. 0 \in P
  BY <1>1, <1>8
<1>10. \A i \in 0 .. n : i \in P /\ i < n => i + 1 \in P
  <2> SUFFICES ASSUME NEW i \in P, i < n
               PROVE  i + 1 \in P
    OBVIOUS
  <2>1. i + 1 \in 1 .. n /\ (i + 1) - 1 = i /\ c[i] \in Nat
    BY <1>1
  <2>2. c[i + 1] = c[i] + Len(ps[i + 1].patrn)
    BY <1>8, <2>1
  <2> QED
    BY <1>2, <2>1, <2>2
<1>11. 0 .. n \subseteq P
  <2> HIDE DEF P
  <2> QED
    BY <1>1, <1>9, <1>10, RangeInduction
<1>12. c \in [0 .. n -> Nat]
  BY <1>7, <1>11
<1>13. c[0] = 1 /\ \A i \in 1 .. n : c[i] = c[i - 1] + Len(ps[i].patrn)
  BY <1>1, <1>8
<1> QED
  BY <1>12, <1>13 DEF c

(* More patterns never need fewer states.                                  *)
LEMMA CountMonotonic ==
    ASSUME NEW ps \in Seq(Pattern), NEW j \in 0 .. Len(ps), NEW i \in 0 .. j
    PROVE  CountStates(ps)[i] <= CountStates(ps)[j]
<1> DEFINE c == CountStates(ps)
           P == {k \in 0 .. Len(ps) : \A l \in 0 .. k : c[l] <= c[k]}
<1>1. Len(ps) \in Nat
  BY LenProperties
<1>2. /\ c \in [0 .. Len(ps) -> Nat]
      /\ \A k \in 1 .. Len(ps) :
            c[k] = c[k - 1] + Len(ps[k].patrn) /\ Len(ps[k].patrn) \in Nat
  BY CountUnfolds, ElementOfSeq, PatternText
<1> HIDE DEF c
<1>3. 0 \in P
  BY <1>1, <1>2
<1>4. ASSUME NEW k \in 0 .. Len(ps), k \in P, k < Len(ps)
      PROVE  k + 1 \in P
  <2>1. k + 1 \in 1 .. Len(ps) /\ k + 1 \in 0 .. Len(ps) /\ (k + 1) - 1 = k
    BY <1>1, <1>4
  <2>2. c[k] <= c[k + 1] /\ c[k] \in Nat /\ c[k + 1] \in Nat
    <3>1. c[k + 1] = c[k] + Len(ps[k + 1].patrn) /\ Len(ps[k + 1].patrn) \in Nat
      BY <1>2, <2>1
    <3>2. c[k] \in Nat /\ c[k + 1] \in Nat
      BY <1>2, <2>1
    <3> QED
      BY <3>1, <3>2
  <2>3. ASSUME NEW l \in 0 .. k + 1
        PROVE  c[l] <= c[k + 1]
    <3>1. CASE l = k + 1
      BY <2>2, <3>1
    <3>2. CASE l \in 0 .. k
      <4>1. c[l] <= c[k] /\ c[l] \in Nat
        BY <1>2, <1>4, <3>2
      <4> QED
        BY <2>2, <4>1
    <3> QED
      BY <3>1, <3>2
  <2> QED
    BY <1>1, <2>1, <2>3
<1>5. 0 .. Len(ps) \subseteq P
  <2> HIDE DEF P
  <2> QED
    BY <1>1, <1>3, <1>4, RangeInduction
<1> QED
  BY <1>5 DEF c

(* The assumption on the pool bounds the count by the number of no state.  *)
LEMMA CountBelowFAIL ==
    ASSUME NEW ps \in Seq(Pattern), Len(ps) <= MaxPatterns
    PROVE  CountStates(ps)[Len(ps)] <= FAIL
<1> DEFINE c == CountStates(ps)
           n == Len(ps)
           L(k) == Len(ps[k].patrn)
           P == {i \in 0 .. n : i = 0 \/ \E k \in 1 .. i : c[i] <= 1 + i * L(k)}
<1>1. n \in Nat /\ FAIL \in Nat \ {0} /\ MaxPatterns \in Nat
  BY LenProperties, BuildAssumption
<1>2. /\ c \in [0 .. n -> Nat]
      /\ c[0] = 1
      /\ \A k \in 1 .. n : c[k] = c[k - 1] + L(k)
  BY CountUnfolds
<1>3. \A k \in 1 .. n : L(k) \in Nat
  BY ElementOfSeq, PatternText
<1>4. \A k \in 1 .. n : MaxPatterns * L(k) < FAIL
  <2> SUFFICES ASSUME NEW k \in 1 .. n
               PROVE  MaxPatterns * L(k) < FAIL
    OBVIOUS
  <2>1. ps[k] \in Pattern
    BY ElementOfSeq
  <2>2. ps[k].patrn \in PatternPool
    BY <2>1 DEF Pattern
  <2> QED
    BY <2>2, BuildAssumption
<1> HIDE DEF c, n, L
<1>5. 0 \in P
  BY <1>1
<1>6. ASSUME NEW i \in 0 .. n, i \in P, i < n
      PROVE  i + 1 \in P
  <2>1. i + 1 \in 1 .. n /\ (i + 1) - 1 = i /\ i \in Nat
    BY <1>1, <1>6
  <2>2. c[i + 1] = c[i] + L(i + 1) /\ L(i + 1) \in Nat /\ c[i] \in Nat
    BY <1>2, <1>3, <2>1
  <2>3. CASE i = 0
    <3>1. c[i + 1] <= 1 + (i + 1) * L(i + 1)
      BY <1>2, <2>2, <2>3
    <3> QED
      BY <2>1, <3>1
  <2>4. CASE i # 0
    <3>1. PICK k \in 1 .. i : c[i] <= 1 + i * L(k)
      BY <1>6, <2>4
    <3>2. k \in 1 .. n /\ L(k) \in Nat
      BY <1>1, <1>3
    <3>3. /\ i * L(k) + L(k) = (i + 1) * L(k)
          /\ i * L(i + 1) + L(i + 1) = (i + 1) * L(i + 1)
      BY <2>1, <2>2, <3>2
    <3>4. CASE L(i + 1) <= L(k)
      <4>1. c[i + 1] <= 1 + (i + 1) * L(k)
        <5>1. i * L(k) \in Nat
          BY <2>1, <3>2
        <5> QED
          BY <2>1, <2>2, <3>1, <3>2, <3>3, <3>4, <5>1
      <4>2. k \in 1 .. i + 1
        BY <2>1
      <4> QED
        BY <2>1, <4>1, <4>2
    <3>5. CASE L(k) <= L(i + 1)
      <4>1. i * L(k) <= i * L(i + 1)
        <5> DEFINE d == L(i + 1) - L(k)
        <5>1. d \in Nat /\ L(i + 1) = L(k) + d
          BY <2>2, <3>2, <3>5
        <5> HIDE DEF d
        <5>2. i * (L(k) + d) = i * L(k) + i * d
          BY <2>1, <3>2, <5>1
        <5>3. i * L(k) \in Nat /\ i * d \in Nat
          BY <2>1, <3>2, <5>1
        <5> QED
          BY <5>1, <5>2, <5>3
      <4>2. c[i + 1] <= 1 + (i + 1) * L(i + 1)
        <5>1. i * L(k) \in Nat /\ i * L(i + 1) \in Nat
          BY <2>1, <2>2, <3>2
        <5> QED
          BY <2>1, <2>2, <3>1, <3>3, <4>1, <5>1
      <4> QED
        BY <2>1, <4>2
    <3> QED
      BY <2>2, <3>2, <3>4, <3>5
  <2> QED
    BY <2>3, <2>4
<1>7. 0 .. n \subseteq P
  <2> HIDE DEF P
  <2> QED
    BY <1>1, <1>5, <1>6, RangeInduction
<1>8. CASE n = 0
  BY <1>1, <1>2, <1>8 DEF c, n
<1>9. CASE n # 0
  <2>1. n \in P
    BY <1>1, <1>7
  <2>2. PICK k \in 1 .. n : c[n] <= 1 + n * L(k)
    BY <1>9, <2>1
  <2>3. n * L(k) <= MaxPatterns * L(k)
    BY <1>1, <1>3 DEF n
  <2>4. /\ n * L(k) \in Nat /\ MaxPatterns * L(k) \in Nat /\ c[n] \in Nat
        /\ MaxPatterns * L(k) < FAIL
    <3>1. L(k) \in Nat
      BY <1>3
    <3>2. n * L(k) \in Nat /\ MaxPatterns * L(k) \in Nat
      BY <1>1, <3>1
    <3>3. c[n] \in Nat
      BY <1>1, <1>2
    <3> QED
      BY <1>4, <3>2, <3>3
  <2>5. c[n] <= FAIL
    BY <1>1, <2>2, <2>3, <2>4
  <2> QED
    BY <2>5 DEF c, n
<1> QED
  BY <1>8, <1>9

-----------------------------------------------------------------------------
(* The trie.                                                               *)

(* The words of the states 0 .. n: all different, each one a byte longer   *)
(* than another, and no longer than its number.                            *)
Words(wd, n) ==
    /\ n \in Nat
    /\ wd \in [0 .. n -> Seq(Input)]
    /\ wd[0] = <<>>
    /\ \A s, t \in 0 .. n : wd[s] = wd[t] => s = t
    /\ \A s \in 1 .. n :
          \E r \in 0 .. n, i \in Input : wd[s] = Append(wd[r], i)
    /\ \A s \in 0 .. n : Len(wd[s]) <= s

(* A row of the trie: it leads to the words one byte longer.               *)
NodeRow(row, wd, n, s) ==
    /\ row \in Row
    /\ \A i \in DOMAIN row : row[i] \in 1 .. n /\ wd[row[i]] = Append(wd[s], i)
    /\ \A t \in 0 .. n, i \in Input : wd[t] = Append(wd[s], i) => i \in DOMAIN row

Trie(table, wd, n) ==
    /\ Words(wd, n)
    /\ \A s \in 0 .. n : NodeRow(table[s], wd, n, s)

(* What a transition list maps, and to what.                               *)
LEMMA RowDomain ==
    ASSUME NEW row \in Row
    PROVE  /\ DOMAIN row \subseteq Input
           /\ \A i \in DOMAIN row : row[i] \in Nat
BY DEF Row

(* One byte of a pattern, from state v.                                    *)
Follow(t, i, v) ==
    IF i > 1 /\ v = 0 THEN 0
    ELSE LET next == GetNextState(TransTable, v, t[i])
         IN  IF next = FAIL THEN 0 ELSE next

(* Path follows the transitions, and stays among the states.               *)
LEMMA PathUnfolds ==
    ASSUME NEW n, Trie(TransTable, word, n), NEW t \in Seq(Input)
    PROVE  /\ Path(t) \in [0 .. Len(t) -> 0 .. n]
           /\ Path(t)[0] = 0
           /\ \A i \in 1 .. Len(t) : Path(t)[i] = Follow(t, i, Path(t)[i - 1])
<1> DEFINE N == Len(t)
           step == [x \in (1 .. N) \X (0 .. n) |-> Follow(t, x[1], x[2])]
           c == Path(t)
<1>1. N \in Nat /\ n \in Nat /\ 0 \in 0 .. n
  BY LenProperties DEF Trie, Words
<1>2. ASSUME NEW i \in 1 .. N, NEW v \in 0 .. n
      PROVE  Follow(t, i, v) \in 0 .. n
  <2>1. NodeRow(TransTable[v], word, n, v)
    BY DEF Trie
  <2>2. t[i] \in DOMAIN TransTable[v] => TransTable[v][t[i]] \in 0 .. n
    BY <1>1, <2>1 DEF NodeRow
  <2> QED
    BY <1>1, <2>2 DEF Follow, GetNextState
<1>3. step \in StepFcn(N, 0 .. n)
  BY <1>2 DEF StepFcn
<1>4. PICK f : Unrolls(f, N, 0 .. n, 0, step)
  <2> HIDE DEF step, N
  <2> QED
    BY <1>1, <1>3, PrimitiveRecursion
<1>5. \A i \in 1 .. N : f[i] = Follow(t, i, f[i - 1])
  <2> SUFFICES ASSUME NEW i \in 1 .. N
               PROVE  f[i] = Follow(t, i, f[i - 1])
    OBVIOUS
  <2>1. f[i - 1] \in 0 .. n
    BY <1>1, <1>4 DEF Unrolls
  <2> QED
    BY <1>4, <2>1 DEF Unrolls
<1>6. f = [i \in 0 .. N |-> IF i = 0 THEN 0 ELSE Follow(t, i, f[i - 1])]
  BY <1>1, <1>4, <1>5 DEF Unrolls
<1>7. f = [i \in 0 .. N |->
              IF i = 0 THEN 0
              ELSE IF i > 1 /\ f[i - 1] = 0 THEN 0
              ELSE LET next == GetNextState(TransTable, f[i - 1], t[i])
                   IN  IF next = FAIL THEN 0 ELSE next]
  BY <1>6 DEF Follow
<1>8. c = [i \in 0 .. N |->
              IF i = 0 THEN 0
              ELSE IF i > 1 /\ c[i - 1] = 0 THEN 0
              ELSE LET next == GetNextState(TransTable, c[i - 1], t[i])
                   IN  IF next = FAIL THEN 0 ELSE next]
  BY <1>7 DEF Path
<1>9. c = [i \in 0 .. N |-> IF i = 0 THEN 0 ELSE Follow(t, i, c[i - 1])]
  BY <1>8 DEF Follow
<1> HIDE DEF c
<1>10. \A i \in 0 .. N : c[i] = IF i = 0 THEN 0 ELSE Follow(t, i, c[i - 1])
  BY <1>9
<1> DEFINE P == {i \in 0 .. N : c[i] \in 0 .. n}
<1>11. 0 \in P
  BY <1>1, <1>10
<1>12. \A i \in 0 .. N : i \in P /\ i < N => i + 1 \in P
  <2> SUFFICES ASSUME NEW i \in P, i < N
               PROVE  i + 1 \in P
    OBVIOUS
  <2>1. i + 1 \in 1 .. N /\ i + 1 \in 0 .. N /\ (i + 1) - 1 = i /\ c[i] \in 0 .. n
    BY <1>1
  <2>2. c[i + 1] = Follow(t, i + 1, c[i])
    BY <1>10, <2>1
  <2> QED
    BY <1>2, <2>1, <2>2
<1>13. 0 .. N \subseteq P
  <2> HIDE DEF P
  <2> QED
    BY <1>1, <1>11, <1>12, RangeInduction
<1>14. c \in [0 .. N -> 0 .. n]
  BY <1>9, <1>13
<1>15. c[0] = 0 /\ \A i \in 1 .. N : c[i] = Follow(t, i, c[i - 1])
  BY <1>1, <1>10
<1> QED
  BY <1>14, <1>15 DEF c

(* The states on a path stand for the prefixes of the pattern; where the   *)
(* path ends the next byte has no transition.                              *)
LEMMA PathStates ==
    ASSUME NEW n, Trie(TransTable, word, n), n < FAIL, NEW t \in Seq(Input)
    PROVE  /\ \A i \in 0 .. Len(t) :
                 i = 0 \/ Path(t)[i] # 0 => word[Path(t)[i]] = SubSeq(t, 1, i)
           /\ \A i \in 1 .. Len(t) :
                 (i = 1 \/ Path(t)[i - 1] # 0) /\ Path(t)[i] = 0
                    => t[i] \notin DOMAIN TransTable[Path(t)[i - 1]]
<1> DEFINE N == Len(t)
           c == Path(t)
           P == {i \in 0 .. N : i = 0 \/ c[i] # 0 => word[c[i]] = SubSeq(t, 1, i)}
<1>1. N \in Nat /\ n \in Nat /\ word[0] = <<>> /\ FAIL \in Nat \ {0}
  BY LenProperties, BuildAssumption DEF Trie, Words
<1>2. /\ c \in [0 .. N -> 0 .. n]
      /\ c[0] = 0
      /\ \A i \in 1 .. N : c[i] = Follow(t, i, c[i - 1])
  BY PathUnfolds
<1>3. \A i \in 1 .. N : SubSeq(t, 1, i) = Append(SubSeq(t, 1, i - 1), t[i])
  BY PrefixStep
<1>4. SubSeq(t, 1, 0) = <<>>
  BY PrefixStep
<1>5. \A v \in 0 .. n : NodeRow(TransTable[v], word, n, v)
  BY DEF Trie
<1> HIDE DEF c
<1>6. 0 \in P
  <2>1. word[c[0]] = SubSeq(t, 1, 0)
    BY <1>1, <1>2, <1>4
  <2> QED
    BY <1>1, <2>1
<1>7. ASSUME NEW i \in 0 .. N, i \in P, i < N
      PROVE  i + 1 \in P
  <2>1. i + 1 \in 1 .. N /\ i + 1 \in 0 .. N /\ (i + 1) - 1 = i
    BY <1>1, <1>7
  <2>2. c[i] \in 0 .. n /\ c[i + 1] = Follow(t, i + 1, c[i])
    BY <1>2, <2>1
  <2> SUFFICES ASSUME c[i + 1] # 0
               PROVE  word[c[i + 1]] = SubSeq(t, 1, i + 1)
    BY <2>1
  <2>3. i = 0 \/ c[i] # 0
    BY <1>1, <2>1, <2>2 DEF Follow
  <2>4. word[c[i]] = SubSeq(t, 1, i)
    BY <1>7, <2>3
  <2>5. /\ t[i + 1] \in DOMAIN TransTable[c[i]]
        /\ c[i + 1] = TransTable[c[i]][t[i + 1]]
    BY <2>2, <2>3 DEF Follow, GetNextState
  <2>6. word[c[i + 1]] = Append(word[c[i]], t[i + 1])
    BY <1>5, <2>2, <2>5 DEF NodeRow
  <2> QED
    BY <1>3, <2>1, <2>4, <2>6
<1>8. 0 .. N \subseteq P
  <2> HIDE DEF P, N
  <2> QED
    BY <1>1, <1>6, <1>7, RangeInduction
<1>9. ASSUME NEW i \in 1 .. N, i = 1 \/ c[i - 1] # 0, c[i] = 0
      PROVE  t[i] \notin DOMAIN TransTable[c[i - 1]]
  <2>1. c[i - 1] \in 0 .. n /\ c[i] = Follow(t, i, c[i - 1])
    BY <1>1, <1>2
  <2>2. SUFFICES ASSUME t[i] \in DOMAIN TransTable[c[i - 1]]
                 PROVE  FALSE
    OBVIOUS
  <2>3. TransTable[c[i - 1]][t[i]] \in 1 .. n
    BY <1>5, <2>1, <2>2 DEF NodeRow
  <2>4. TransTable[c[i - 1]][t[i]] # 0 /\ TransTable[c[i - 1]][t[i]] # FAIL
    BY <1>1, <2>3
  <2>5. ~ (i > 1 /\ c[i - 1] = 0)
    BY <1>9
  <2>6. c[i] = TransTable[c[i - 1]][t[i]]
    BY <2>1, <2>2, <2>4, <2>5 DEF Follow, GetNextState
  <2> QED
    BY <1>9, <2>4, <2>6
<1> QED
  BY <1>8, <1>9 DEF c

(* Shared counts the bytes of the path: the longest prefix in the trie.    *)
LEMMA SharedPrefix ==
    ASSUME NEW n, Trie(TransTable, word, n), n < FAIL, NEW t \in Seq(Input),
           NEW m, m = Shared(t)
    PROVE  /\ m \in 0 .. Len(t)
           /\ Path(t)[0] = 0
           /\ \A i \in 0 .. m : /\ Path(t)[i] \in 0 .. n
                                /\ word[Path(t)[i]] = SubSeq(t, 1, i)
           /\ m < Len(t) => t[m + 1] \notin DOMAIN TransTable[Path(t)[m]]
<1> DEFINE N == Len(t)
           c == Path(t)
           Ends0(k) == /\ \A i \in 1 .. k : c[i] # 0
                       /\ k < N => c[k + 1] = 0
<1>1. N \in Nat
  BY LenProperties
<1>2. c \in [0 .. N -> 0 .. n] /\ c[0] = 0
  BY PathUnfolds
<1>3. \E k \in 0 .. N : Ends0(k)
  <2> DEFINE Z == {i \in 1 .. N : c[i] = 0}
  <2>1. CASE Z = {}
    <3>1. N \in 0 .. N /\ Ends0(N)
      BY <1>1, <2>1
    <3> QED
      BY <3>1
  <2>2. CASE Z # {}
    <3>1. Z \subseteq Nat
      OBVIOUS
    <3>2. PICK z \in Z : \A j \in Z : z <= j
      <4> HIDE DEF Z
      <4> QED
        BY <2>2, <3>1, LeastElement
    <3>3. z - 1 \in 0 .. N /\ (z - 1) + 1 = z
      BY <1>1
    <3>4. \A i \in 1 .. z - 1 : i \in 1 .. N /\ i < z
      BY <1>1
    <3>5. \A i \in 1 .. z - 1 : c[i] # 0
      BY <3>2, <3>4
    <3>6. Ends0(z - 1)
      BY <3>2, <3>3, <3>5
    <3> QED
      BY <3>3, <3>6
  <2> QED
    BY <2>1, <2>2
<1>4. m \in 0 .. N /\ Ends0(m)
  BY <1>3 DEF Shared
<1>5. /\ \A i \in 0 .. N : i = 0 \/ c[i] # 0 => word[c[i]] = SubSeq(t, 1, i)
      /\ \A i \in 1 .. N : (i = 1 \/ c[i - 1] # 0) /\ c[i] = 0
                              => t[i] \notin DOMAIN TransTable[c[i - 1]]
  BY PathStates
<1> HIDE DEF c, N
<1>6. ASSUME NEW i \in 0 .. m
      PROVE  c[i] \in 0 .. n /\ word[c[i]] = SubSeq(t, 1, i)
  <2>1. i \in 0 .. N /\ (i = 0 \/ i \in 1 .. m)
    BY <1>1, <1>4
  <2> QED
    BY <1>2, <1>4, <1>5, <2>1
<1>7. ASSUME m < N
      PROVE  t[m + 1] \notin DOMAIN TransTable[c[m]]
  <2>1. m + 1 \in 1 .. N /\ (m + 1) - 1 = m /\ (m = 0 \/ m \in 1 .. m)
    BY <1>1, <1>4, <1>7
  <2>2. (m + 1 = 1 \/ c[m] # 0) /\ c[m + 1] = 0
    BY <1>4, <1>7, <2>1
  <2> QED
    BY <1>5, <2>1, <2>2
<1> QED
  BY <1>2, <1>4, <1>6, <1>7 DEF c, N

(* A string gives its last byte and the rest.                              *)
LEMMA SameAppend ==
    ASSUME NEW s \in Seq(Input), NEW t \in Seq(Input),
           NEW a \in Input, NEW b \in Input, Append(s, a) = Append(t, b)
    PROVE  s = t /\ a = b
BY AppendInjective

Table(table, M) == table \in [0 .. M - 1 -> Row]

(* new is table with a transition added.                                   *)
RowPut(new, table, M, place, a, next) ==
    /\ \A s \in 0 .. M - 1 : s # place => new[s] = table[s]
    /\ DOMAIN new[place] = DOMAIN table[place] \cup {a}
    /\ new[place][a] = next
    /\ \A i \in DOMAIN table[place] : i # a => new[place][i] = table[place][i]

(* PutNextState changes one row, and that row for one byte.                *)
LEMMA PutNextStateRow ==
    ASSUME NEW M \in Nat, NEW table, Table(table, M),
           NEW place \in 0 .. M - 1, NEW a \in Input, NEW next \in Nat
    PROVE  /\ Table(PutNextState(table, place, a, next), M)
           /\ RowPut(PutNextState(table, place, a, next), table, M, place, a, next)
<1> DEFINE row == [i \in DOMAIN table[place] \cup {a} |->
                      IF i = a THEN next ELSE table[place][i]]
           new == PutNextState(table, place, a, next)
<1>1. new = [table EXCEPT ![place] = row]
  BY DEF PutNextState
<1>2. row \in Row
  <2>1. table[place] \in Row
    BY DEF Table
  <2>2. /\ DOMAIN table[place] \subseteq Input
        /\ \A i \in DOMAIN table[place] : table[place][i] \in Nat
    BY <2>1, RowDomain
  <2>3. DOMAIN table[place] \cup {a} \in SUBSET Input
    BY <2>2
  <2>4. row \in [DOMAIN table[place] \cup {a} -> Nat]
    BY <2>2
  <2> QED
    BY <2>3, <2>4 DEF Row
<1>3. /\ DOMAIN row = DOMAIN table[place] \cup {a}
      /\ row[a] = next
      /\ \A i \in DOMAIN table[place] : i # a => row[i] = table[place][i]
  OBVIOUS
<1> HIDE DEF row
<1>4. Table(new, M)
  BY <1>1, <1>2 DEF Table
<1>5. \A s \in 0 .. M - 1 : s # place => new[s] = table[s]
  BY <1>1 DEF Table
<1>6. new[place] = row
  BY <1>1 DEF Table
<1> HIDE DEF new
<1>7. RowPut(new, table, M, place, a, next)
  BY <1>3, <1>5, <1>6 DEF RowPut
<1> QED
  BY <1>4, <1>7 DEF new

(* wd2 gives state n + 1 the word of at and one byte more.                 *)
Grown(wd2, wd, n, at, a) ==
    /\ wd2 \in [0 .. n + 1 -> Seq(Input)]
    /\ \A s \in 0 .. n : wd2[s] = wd[s]
    /\ wd2[n + 1] = Append(wd[at], a)

(* A trie stays one when a state is added below another by a byte it has   *)
(* no transition for.                                                      *)
LEMMA TrieInsert ==
    ASSUME NEW wd, NEW n, NEW table, Trie(table, wd, n),
           NEW M \in Nat, Table(table, M), n + 1 < M,
           NEW at \in 0 .. n, NEW a \in Input,
           a \notin DOMAIN table[at], DOMAIN table[n + 1] = {},
           NEW wd2, Grown(wd2, wd, n, at, a)
    PROVE  Trie(PutNextState(table, at, a, n + 1), wd2, n + 1)
<1> DEFINE table2 == PutNextState(table, at, a, n + 1)
<1>1. /\ n \in Nat
      /\ wd \in [0 .. n -> Seq(Input)]
      /\ wd[0] = <<>>
      /\ \A s, t \in 0 .. n : wd[s] = wd[t] => s = t
      /\ \A s \in 1 .. n :
            \E r \in 0 .. n, i \in Input : wd[s] = Append(wd[r], i)
      /\ \A s \in 0 .. n : Len(wd[s]) <= s
      /\ \A s \in 0 .. n : NodeRow(table[s], wd, n, s)
  BY DEF Trie, Words
<1>2. \A s \in 0 .. n : wd[s] \in Seq(Input) /\ Len(wd[s]) \in Nat
  BY <1>1, LenProperties
<1>3. /\ \A s \in 0 .. M - 1 : s # at => table2[s] = table[s]
      /\ DOMAIN table2[at] = DOMAIN table[at] \cup {a}
      /\ table2[at][a] = n + 1
      /\ \A i \in DOMAIN table[at] : i # a => table2[at][i] = table[at][i]
      /\ \A s \in 0 .. n + 1 : table2[s] \in Row
  <2>1. at \in 0 .. M - 1 /\ n + 1 \in Nat
    BY <1>1
  <2> HIDE DEF table2
  <2>2. Table(table2, M) /\ RowPut(table2, table, M, at, a, n + 1)
    BY <2>1, PutNextStateRow DEF table2
  <2>3. \A s \in 0 .. n + 1 : s \in 0 .. M - 1
    BY <1>1
  <2> QED
    BY <2>1, <2>2, <2>3 DEF RowPut, Table
<1> HIDE DEF table2
<1>4. \A s \in 0 .. n + 1 : s \in 0 .. M - 1
  BY <1>1
<1>5. /\ wd2 \in [0 .. n + 1 -> Seq(Input)]
      /\ \A s \in 0 .. n : wd2[s] = wd[s]
      /\ wd2[n + 1] = Append(wd[at], a)
  BY DEF Grown
<1>6. \A s \in 0 .. n : wd[s] # Append(wd[at], a)
  BY <1>5, <1>1 DEF NodeRow
<1>7. \A s \in 0 .. n + 1 : s = n + 1 \/ s \in 0 .. n
  BY <1>5, <1>1
<1>8. \A s \in 0 .. n : s \in 0 .. n + 1 /\ s # n + 1
  BY <1>5, <1>1
<1>9. Words(wd2, n + 1)
  <2>1. n + 1 \in Nat /\ wd2[0] = <<>>
    BY <1>5, <1>1
  <2>2. ASSUME NEW s \in 0 .. n + 1, NEW t \in 0 .. n + 1, wd2[s] = wd2[t]
        PROVE  s = t
    BY <1>5, <1>1, <1>6, <1>7, <2>2
  <2>3. ASSUME NEW s \in 1 .. n + 1
        PROVE  \E r \in 0 .. n + 1, i \in Input : wd2[s] = Append(wd2[r], i)
    <3>1. CASE s = n + 1
      BY <1>5, <1>8, <3>1
    <3>2. CASE s # n + 1
      <4>1. s \in 1 .. n /\ s \in 0 .. n
        BY <1>5, <1>1, <3>2
      <4>2. PICK r \in 0 .. n, i \in Input : wd[s] = Append(wd[r], i)
        BY <1>5, <1>1, <4>1
      <4> QED
        BY <1>5, <1>8, <4>1, <4>2
    <3> QED
      BY <1>5, <3>1, <3>2
  <2>4. ASSUME NEW s \in 0 .. n + 1
        PROVE  Len(wd2[s]) <= s
    <3>1. CASE s = n + 1
      <4>1. Len(wd2[s]) = Len(wd[at]) + 1
        <5>1. wd[at] \in Seq(Input) /\ wd2[s] = Append(wd[at], a)
          BY <1>2, <1>5, <3>1
        <5> QED
          BY <5>1, AppendProperties
      <4>2. Len(wd[at]) <= at /\ Len(wd[at]) \in Nat /\ at <= n
        BY <1>5, <1>1, <1>2
      <4> QED
        BY <1>5, <1>1, <3>1, <4>1, <4>2
    <3>2. CASE s \in 0 .. n
      BY <1>5, <1>1, <3>2
    <3> QED
      BY <1>5, <1>7, <3>1, <3>2
  <2> QED
    BY <1>5, <2>1, <2>2, <2>3, <2>4 DEF Words
<1>10. ASSUME NEW s \in 0 .. n + 1
      PROVE  NodeRow(table2[s], wd2, n + 1, s)
  <2>1. \A k \in 1 .. n : k \in 1 .. n + 1 /\ k \in 0 .. n
    BY <1>5, <1>1
  <2>2. CASE s = at
    <3>1. DOMAIN table2[s] = DOMAIN table[at] \cup {a}
      BY <1>5, <1>3, <2>2
    <3>2. NodeRow(table[at], wd, n, at) /\ wd2[s] = wd[at]
      BY <1>5, <1>1, <2>2
    <3>3. ASSUME NEW i \in DOMAIN table2[s]
          PROVE  table2[s][i] \in 1 .. n + 1 /\ wd2[table2[s][i]] = Append(wd2[s], i)
      <4>1. CASE i = a
        <5>1. table2[s][i] = n + 1
          BY <1>5, <1>3, <2>2, <3>3, <4>1
        <5> QED
          BY <1>5, <1>1, <3>2, <4>1, <5>1
      <4>2. CASE i # a
        <5>1. i \in DOMAIN table[at] /\ table2[s][i] = table[at][i]
          BY <1>5, <1>3, <2>2, <3>1, <3>3, <4>2
        <5>2. table[at][i] \in 1 .. n /\ wd[table[at][i]] = Append(wd[at], i)
          BY <1>5, <3>2, <5>1 DEF NodeRow
        <5> QED
          BY <1>5, <2>1, <3>2, <5>1, <5>2
      <4> QED
        BY <1>5, <4>1, <4>2
    <3>4. ASSUME NEW t \in 0 .. n + 1, NEW i \in Input, wd2[t] = Append(wd2[s], i)
          PROVE  i \in DOMAIN table2[s]
      <4>1. CASE t = n + 1
        <5>1. Append(wd[at], a) = Append(wd[at], i)
          BY <1>5, <3>2, <3>4, <4>1
        <5>2. a = i
          BY <1>2, <5>1, SameAppend
        <5> QED
          BY <1>5, <3>1, <5>2
      <4>2. CASE t \in 0 .. n
        BY <1>5, <3>1, <3>2, <3>4, <4>2 DEF NodeRow
      <4> QED
        BY <1>5, <1>7, <4>1, <4>2
    <3>5. table2[s] \in Row
      BY <1>5, <1>3, <1>1, <2>2
    <3> QED
      BY <1>5, <3>3, <3>4, <3>5 DEF NodeRow
  <2>3. CASE s = n + 1
    <3>1. table2[s] = table[n + 1] /\ DOMAIN table2[s] = {} /\ table2[s] \in Row
      <4>1. n + 1 # at /\ n + 1 \in 0 .. M - 1 /\ n + 1 \in 0 .. n + 1
      BY <1>4, <1>1
    <4> QED
      BY <4>1, <1>3, <2>3
    <3>2. ASSUME NEW t \in 0 .. n + 1, NEW i \in Input, wd2[t] = Append(wd2[s], i)
          PROVE  FALSE
      <4>1. wd2[s] = Append(wd[at], a) /\ wd2[s] \in Seq(Input)
        BY <1>5, <2>3
      <4>2. /\ Len(Append(wd2[s], i)) # Len(wd2[s])
            /\ Append(wd2[s], i) # <<>>
        <5>1. wd2[s] \in Seq(Input)
          BY <1>5, <4>1
        <5>2. Len(wd2[s]) \in Nat
          BY <5>1, LenProperties
        <5>3. /\ Len(Append(wd2[s], i)) = Len(wd2[s]) + 1
              /\ Append(wd2[s], i) # <<>>
          BY <5>1, AppendProperties
        <5> QED
          BY <1>5, <5>2, <5>3
      <4>3. t # s
        BY <1>5, <3>2, <4>2
      <4>4. t \in 0 .. n /\ wd[t] = Append(wd2[s], i)
        BY <1>5, <1>7, <2>3, <3>2, <4>3
      <4>5. t \in 1 .. n
        BY <1>5, <1>1, <4>2, <4>4
      <4>6. PICK r \in 0 .. n, j \in Input : wd[t] = Append(wd[r], j)
        BY <1>5, <1>1, <4>5
      <4>7. wd[r] = wd2[s]
        <5>1. wd[r] \in Seq(Input) /\ Append(wd[r], j) = Append(wd2[s], i)
          BY <1>5, <1>2, <4>4, <4>6
        <5> DEFINE x == wd[r]
                   y == wd2[s]
        <5>2. x \in Seq(Input) /\ y \in Seq(Input) /\ Append(x, j) = Append(y, i)
          BY <4>1, <5>1
        <5> HIDE DEF x, y
        <5>3. x = y
          BY <5>2, SameAppend
        <5> QED
          BY <5>3 DEF x, y
      <4> QED
        BY <1>5, <1>6, <4>1, <4>7
    <3> QED
      BY <1>5, <3>1, <3>2 DEF NodeRow
  <2>4. CASE s \in 0 .. n /\ s # at
    <3>1. table2[s] = table[s] /\ wd2[s] = wd[s] /\ NodeRow(table[s], wd, n, s)
      BY <1>5, <1>4, <1>1, <1>3, <1>8, <2>4
    <3>2. ASSUME NEW i \in DOMAIN table2[s]
          PROVE  table2[s][i] \in 1 .. n + 1 /\ wd2[table2[s][i]] = Append(wd2[s], i)
      <4>1. table[s][i] \in 1 .. n /\ wd[table[s][i]] = Append(wd[s], i)
        BY <1>5, <3>1, <3>2 DEF NodeRow
      <4> QED
        BY <1>5, <2>1, <3>1, <4>1
    <3>3. ASSUME NEW t \in 0 .. n + 1, NEW i \in Input, wd2[t] = Append(wd2[s], i)
          PROVE  i \in DOMAIN table2[s]
      <4>1. CASE t = n + 1
        <5>1. Append(wd[at], a) = Append(wd[s], i)
          BY <1>5, <3>1, <3>3, <4>1
        <5>2. wd[s] \in Seq(Input) /\ wd[at] \in Seq(Input)
          BY <1>5, <1>2, <2>4
        <5>3. wd[s] = wd[at]
          BY <5>1, <5>2, SameAppend
        <5> QED
          BY <1>5, <1>1, <2>4, <5>3
      <4>2. CASE t \in 0 .. n
        BY <1>5, <3>1, <3>3, <4>2 DEF NodeRow
      <4> QED
        BY <1>5, <1>7, <4>1, <4>2
    <3> QED
      BY <1>5, <3>1, <3>2, <3>3 DEF NodeRow
  <2> QED
    BY <1>5, <1>7, <2>2, <2>3, <2>4
<1> QED
  BY <1>5, <1>9, <1>10 DEF Trie, table2

(* The lists of a pattern, state by state.                                 *)
LEMMA ExtendedUnfolds ==
    ASSUME NEW M \in Nat, Table(TransTable, M), acsmNumStates \in Nat,
           NEW t \in Seq(Input), NEW m \in 0 .. Len(t),
           \A i \in 0 .. Len(t) : StateAt(t, m, i) \in 0 .. M - 1
    PROVE  /\ Extended(t, m)[0] = TransTable
           /\ \A j \in 0 .. Len(t) - m : Table(Extended(t, m)[j], M)
           /\ \A j \in 1 .. Len(t) - m :
                 Extended(t, m)[j] =
                    PutNextState(Extended(t, m)[j - 1], StateAt(t, m, m + j - 1),
                                 t[m + j], StateAt(t, m, m + j))
<1> DEFINE N == Len(t) - m
           S == [0 .. M - 1 -> Row]
           Put(j, table) == PutNextState(table, StateAt(t, m, m + j - 1),
                                         t[m + j], StateAt(t, m, m + j))
           step == [x \in (1 .. N) \X S |-> Put(x[1], x[2])]
           c == Extended(t, m)
<1>1. N \in Nat /\ Len(t) \in Nat /\ TransTable \in S
  BY LenProperties DEF Table
<1>2. ASSUME NEW j \in 1 .. N, NEW table \in S
      PROVE  Put(j, table) \in S
  <2>1. /\ m + j - 1 \in 0 .. Len(t) /\ m + j \in 0 .. Len(t)
        /\ m + j \in 1 .. Len(t)
    BY <1>1
  <2>2. /\ StateAt(t, m, m + j - 1) \in 0 .. M - 1
        /\ StateAt(t, m, m + j) \in Nat
        /\ t[m + j] \in Input
    BY <2>1, ElementOfSeq
  <2>3. Table(table, M)
    BY DEF Table
  <2>4. Table(Put(j, table), M)
    BY <2>2, <2>3, PutNextStateRow
  <2> QED
    BY <2>4 DEF Table
<1> HIDE DEF S, Put
<1>3. step \in StepFcn(N, S)
  BY <1>2 DEF StepFcn
<1>4. PICK f : Unrolls(f, N, S, TransTable, step)
  <2> HIDE DEF step, N
  <2> QED
    BY <1>1, <1>3, PrimitiveRecursion
<1>5. \A j \in 1 .. N : f[j] = Put(j, f[j - 1])
  <2> SUFFICES ASSUME NEW j \in 1 .. N
               PROVE  f[j] = Put(j, f[j - 1])
    OBVIOUS
  <2>1. f[j - 1] \in S
    <3>1. j - 1 \in 0 .. N
      BY <1>1
    <3> QED
      BY <1>4, <3>1 DEF Unrolls
  <2>2. step[<<j, f[j - 1]>>] = Put(j, f[j - 1])
    BY <2>1
  <2> QED
    BY <1>4, <2>2 DEF Unrolls
<1>6. f = [j \in 0 .. N |-> IF j = 0 THEN TransTable ELSE Put(j, f[j - 1])]
  <2>1. \A j \in 0 .. N : f[j] = IF j = 0 THEN TransTable ELSE Put(j, f[j - 1])
    BY <1>1, <1>4, <1>5 DEF Unrolls
  <2> QED
    BY <1>4, <2>1 DEF Unrolls
<1>7. c = [j \in 0 .. N |-> IF j = 0 THEN TransTable ELSE Put(j, c[j - 1])]
  BY <1>6 DEF Extended, Put
<1> HIDE DEF c
<1>8. \A j \in 0 .. N : c[j] = IF j = 0 THEN TransTable ELSE Put(j, c[j - 1])
  BY <1>7
<1> DEFINE P == {j \in 0 .. N : c[j] \in S}
<1>9. 0 \in P
  BY <1>1, <1>8
<1>10. \A j \in 0 .. N : j \in P /\ j < N => j + 1 \in P
  <2> SUFFICES ASSUME NEW j \in P, j < N
               PROVE  j + 1 \in P
    OBVIOUS
  <2>1. j + 1 \in 1 .. N /\ j + 1 \in 0 .. N /\ (j + 1) - 1 = j /\ c[j] \in S
    BY <1>1
  <2>2. c[j + 1] = Put(j + 1, c[j])
    BY <1>8, <2>1
  <2> QED
    BY <1>2, <2>1, <2>2
<1>11. 0 .. N \subseteq P
  <2> HIDE DEF P, N
  <2> QED
    BY <1>1, <1>9, <1>10, RangeInduction
<1>12. \A j \in 0 .. N : Table(c[j], M)
  BY <1>11 DEF Table, S
<1>13. c[0] = TransTable /\ \A j \in 1 .. N : c[j] = Put(j, c[j - 1])
  BY <1>1, <1>8
<1> QED
  BY <1>12, <1>13 DEF c, Put

(* The words of the states after j of them are added.                      *)
GrownWords(t, m, j) ==
    [s \in 0 .. acsmNumStates + j |->
        IF s \in 0 .. acsmNumStates THEN word[s]
        ELSE SubSeq(t, 1, m + s - acsmNumStates)]

(* The trie after j states are added: those to come have no transitions.   *)
Laid(t, m, M, j) ==
    /\ Trie(Extended(t, m)[j], GrownWords(t, m, j), acsmNumStates + j)
    /\ \A s \in 0 .. M - 1 :
          s > acsmNumStates /\ s >= acsmNumStates + j
             => DOMAIN Extended(t, m)[j][s] = {}

(* What is known when a pattern is laid out.                               *)
Ready(t, m, M) ==
    /\ M \in Nat
    /\ Table(TransTable, M)
    /\ Trie(TransTable, word, acsmNumStates)
    /\ acsmNumStates < FAIL
    /\ acsmNumStates + Len(t) < M
    /\ \A s \in 0 .. M - 1 : s > acsmNumStates => DOMAIN TransTable[s] = {}
    /\ m = Shared(t)

(* The states a pattern meets, in place and to be added, in their tables.  *)
LEMMA ReadyFacts ==
    ASSUME NEW t \in Seq(Input), NEW m, NEW M, Ready(t, m, M)
    PROVE  /\ acsmNumStates \in Nat /\ M \in Nat /\ Len(t) \in Nat
           /\ m \in 0 .. Len(t)
           /\ word \in [0 .. acsmNumStates -> Seq(Input)]
           /\ \A i \in 0 .. m : /\ StateAt(t, m, i) = Path(t)[i]
                                /\ Path(t)[i] \in 0 .. acsmNumStates
                                /\ word[Path(t)[i]] = SubSeq(t, 1, i)
           /\ \A i \in m + 1 .. Len(t) : StateAt(t, m, i) = acsmNumStates + i - m
           /\ \A i \in 0 .. Len(t) : StateAt(t, m, i) \in 0 .. M - 1
           /\ m < Len(t) => t[m + 1] \notin DOMAIN TransTable[Path(t)[m]]
<1>1. /\ Trie(TransTable, word, acsmNumStates) /\ m = Shared(t)
      /\ acsmNumStates < FAIL /\ M \in Nat /\ acsmNumStates + Len(t) < M
  BY DEF Ready
<1>2. /\ acsmNumStates \in Nat /\ Len(t) \in Nat
      /\ word \in [0 .. acsmNumStates -> Seq(Input)]
  BY <1>1, LenProperties DEF Trie, Words
<1>3. /\ m \in 0 .. Len(t)
      /\ \A i \in 0 .. m : /\ Path(t)[i] \in 0 .. acsmNumStates
                           /\ word[Path(t)[i]] = SubSeq(t, 1, i)
      /\ m < Len(t) => t[m + 1] \notin DOMAIN TransTable[Path(t)[m]]
  BY <1>1, SharedPrefix
<1>4. \A i \in 0 .. m : StateAt(t, m, i) = Path(t)[i]
  BY <1>2, <1>3 DEF StateAt
<1>5. \A i \in m + 1 .. Len(t) : StateAt(t, m, i) = acsmNumStates + i - m
  BY <1>2, <1>3 DEF StateAt
<1>6. ASSUME NEW i \in 0 .. Len(t)
      PROVE  StateAt(t, m, i) \in 0 .. M - 1
  <2>1. CASE i \in 0 .. m
    <3>1. StateAt(t, m, i) \in 0 .. acsmNumStates
      BY <1>3, <1>4, <2>1
    <3> QED
      BY <1>1, <1>2, <3>1
  <2>2. CASE i \in m + 1 .. Len(t)
    <3>1. StateAt(t, m, i) = acsmNumStates + i - m
      BY <1>5, <2>2
    <3> QED
      BY <1>1, <1>2, <1>3, <2>2, <3>1
  <2> QED
    BY <1>2, <1>3, <2>1, <2>2
<1> QED
  BY <1>1, <1>2, <1>3, <1>4, <1>5, <1>6

(* One more state added to a pattern's path leaves a trie.                 *)
LEMMA LaidStep ==
    ASSUME NEW t \in Seq(Input), NEW m, NEW M, Ready(t, m, M),
           NEW j \in 0 .. Len(t) - m, j < Len(t) - m, Laid(t, m, M, j)
    PROVE  Laid(t, m, M, j + 1)
<1> DEFINE num == acsmNumStates
           at == StateAt(t, m, m + j)
           a == t[m + j + 1]
           E == Extended(t, m)
           W(k) == GrownWords(t, m, k)
<1>1. /\ num \in Nat /\ M \in Nat /\ Len(t) \in Nat
      /\ m \in 0 .. Len(t)
      /\ word \in [0 .. num -> Seq(Input)]
      /\ \A i \in 0 .. m : /\ StateAt(t, m, i) = Path(t)[i]
                           /\ Path(t)[i] \in 0 .. num
                           /\ word[Path(t)[i]] = SubSeq(t, 1, i)
      /\ \A i \in m + 1 .. Len(t) : StateAt(t, m, i) = num + i - m
      /\ m < Len(t) => t[m + 1] \notin DOMAIN TransTable[Path(t)[m]]
  BY ReadyFacts
<1>2. num + Len(t) < M
  BY DEF Ready
<1>3. /\ E[0] = TransTable
      /\ Table(E[j], M)
      /\ E[j + 1] = PutNextState(E[j], at, a, num + j + 1)
  <2>1. /\ E[0] = TransTable
        /\ \A k \in 0 .. Len(t) - m : Table(E[k], M)
        /\ \A k \in 1 .. Len(t) - m :
              E[k] = PutNextState(E[k - 1], StateAt(t, m, m + k - 1),
                                  t[m + k], StateAt(t, m, m + k))
    BY <1>1, ReadyFacts, ExtendedUnfolds DEF Ready
  <2>2. /\ j + 1 \in 1 .. Len(t) - m /\ (j + 1) - 1 = j
        /\ m + (j + 1) - 1 = m + j /\ m + (j + 1) = m + j + 1
        /\ m + j + 1 \in m + 1 .. Len(t)
        /\ num + (m + j + 1) - m = num + j + 1
    <3>1. num \in Nat /\ Len(t) \in Nat /\ m \in 0 .. Len(t)
      BY <1>1
    <3> HIDE DEF num
    <3> QED
      BY <3>1
  <2>3. StateAt(t, m, m + j + 1) = num + j + 1
    BY <1>1, <2>2
  <2>4. E[j + 1] = PutNextState(E[(j + 1) - 1], StateAt(t, m, m + (j + 1) - 1),
                                t[m + (j + 1)], StateAt(t, m, m + (j + 1)))
    BY <2>1, <2>2
  <2> QED
    BY <2>1, <2>2, <2>3, <2>4
<1>4. /\ Trie(E[j], W(j), num + j)
      /\ \A s \in 0 .. M - 1 : s > num /\ s >= num + j => DOMAIN E[j][s] = {}
  BY DEF Laid
<1>5. /\ j \in Nat /\ m + j \in 0 .. Len(t) /\ m + j + 1 \in 1 .. Len(t)
      /\ num + j + 1 < M
  BY <1>1, <1>2
<1>6. at \in 0 .. num + j /\ W(j)[at] = SubSeq(t, 1, m + j)
      /\ a \notin DOMAIN E[j][at]
  <2>1. CASE j = 0
    <3>1. at = Path(t)[m] /\ m + j = m /\ m + j + 1 = m + 1
      BY <1>1, <2>1
    <3>2. at \in 0 .. num /\ word[at] = SubSeq(t, 1, m)
      BY <1>1, <3>1
    <3>3. W(j)[at] = word[at]
      BY <1>1, <2>1, <3>2 DEF GrownWords
    <3>4. a \notin DOMAIN TransTable[at]
      BY <1>1, <1>5, <3>1
    <3> QED
      BY <1>1, <1>3, <2>1, <3>1, <3>2, <3>3, <3>4
  <2>2. CASE j > 0
    <3>1. m + j \in m + 1 .. Len(t) /\ num + (m + j) - m = num + j
      BY <1>1, <1>5, <2>2
    <3>2. at = num + j
      BY <1>1, <3>1
    <3>3. W(j)[at] = SubSeq(t, 1, m + j)
      <4>1. at \in 0 .. num + j /\ at \notin 0 .. num /\ m + at - num = m + j
        BY <1>1, <1>5, <2>2, <3>2
      <4> QED
        BY <4>1 DEF GrownWords
    <3>4. DOMAIN E[j][at] = {}
      BY <1>1, <1>4, <1>5, <2>2, <3>2
    <3> QED
      BY <1>1, <1>5, <3>2, <3>3, <3>4
  <2> QED
    BY <1>5, <2>1, <2>2
<1>7. Grown(W(j + 1), W(j), num + j, at, a)
  <2>1. W(j + 1) \in [0 .. (num + j) + 1 -> Seq(Input)]
    <3>1. (num + j) + 1 = num + (j + 1)
      BY <1>1, <1>5
    <3>2. ASSUME NEW s \in 0 .. num + (j + 1), s \notin 0 .. num
          PROVE  SubSeq(t, 1, m + s - num) \in Seq(Input)
      <4>1. m + s - num \in 0 .. Len(t)
        BY <1>1, <1>5, <3>2
      <4> QED
        BY <4>1, PrefixStep
    <3> QED
      BY <1>1, <3>1, <3>2 DEF GrownWords
  <2>2. \A s \in 0 .. num + j : W(j + 1)[s] = W(j)[s]
    <3>1. \A s \in 0 .. num + j : s \in 0 .. num + (j + 1)
      BY <1>1, <1>5
    <3> QED
      BY <3>1 DEF GrownWords
  <2>3. W(j + 1)[(num + j) + 1] = Append(W(j)[at], a)
    <3>1. /\ (num + j) + 1 \in 0 .. num + (j + 1)
          /\ (num + j) + 1 \notin 0 .. num
          /\ m + ((num + j) + 1) - num = m + j + 1
          /\ (m + j + 1) - 1 = m + j
      BY <1>1, <1>5
    <3>2. W(j + 1)[(num + j) + 1] = SubSeq(t, 1, m + j + 1)
      BY <3>1 DEF GrownWords
    <3>3. SubSeq(t, 1, m + j + 1) = Append(SubSeq(t, 1, m + j), a)
      BY <1>5, <3>1, PrefixStep
    <3> QED
      BY <1>6, <3>2, <3>3
  <2> QED
    BY <2>1, <2>2, <2>3 DEF Grown
<1>8. Trie(E[j + 1], W(j + 1), num + (j + 1))
  <2>1. a \in Input
    BY <1>5, ElementOfSeq
  <2>2. /\ DOMAIN E[j][(num + j) + 1] = {}
        /\ (num + j) + 1 < M
        /\ (num + j) + 1 = num + (j + 1)
        /\ num + j + 1 = (num + j) + 1
    BY <1>1, <1>4, <1>5
  <2>3. Trie(PutNextState(E[j], at, a, (num + j) + 1), W(j + 1), (num + j) + 1)
    <3> DEFINE wd == W(j)
               wd2 == W(j + 1)
               n == num + j
               table == E[j]
               b == a
               s == at
    <3>1. /\ Trie(table, wd, n) /\ Table(table, M) /\ n + 1 < M /\ M \in Nat
          /\ s \in 0 .. n /\ b \in Input /\ b \notin DOMAIN table[s]
          /\ DOMAIN table[n + 1] = {} /\ Grown(wd2, wd, n, s, b)
      BY <1>1, <1>3, <1>4, <1>6, <1>7, <2>1, <2>2
    <3> HIDE DEF wd, wd2, n, table, b, s
    <3>2. Trie(PutNextState(table, s, b, n + 1), wd2, n + 1)
      BY <3>1, TrieInsert
    <3> QED
      BY <3>2 DEF wd, wd2, n, table, b, s
  <2> QED
    BY <1>3, <2>2, <2>3
<1>9. ASSUME NEW s \in 0 .. M - 1, s > num, s >= num + (j + 1)
      PROVE  DOMAIN E[j + 1][s] = {}
  <2>1. s # at /\ s >= num + j
    BY <1>1, <1>5, <1>6, <1>9
  <2>2. E[j + 1][s] = E[j][s]
    <3>1. at \in 0 .. M - 1 /\ a \in Input /\ num + j + 1 \in Nat
      BY <1>1, <1>5, <1>6, ElementOfSeq
    <3>2. RowPut(E[j + 1], E[j], M, at, a, num + j + 1)
      BY <1>1, <1>3, <3>1, PutNextStateRow
    <3> QED
      BY <2>1, <3>2 DEF RowPut
  <2> QED
    BY <1>4, <1>9, <2>1, <2>2
<1> QED
  BY <1>8, <1>9 DEF Laid

(* A pattern laid out leaves a trie that holds it.                         *)
LEMMA PatternLaid ==
    ASSUME NEW t \in Seq(Input), NEW m, NEW M, Ready(t, m, M),
           NEW k, k = Len(t) - m
    PROVE  /\ k \in Nat
           /\ Table(Extended(t, m)[k], M)
           /\ Laid(t, m, M, k)
           /\ \A i \in 0 .. Len(t) :
                 /\ StateAt(t, m, i) \in 0 .. acsmNumStates + k
                 /\ GrownWords(t, m, k)[StateAt(t, m, i)] = SubSeq(t, 1, i)
           /\ \A s \in 0 .. acsmNumStates : GrownWords(t, m, k)[s] = word[s]
           /\ \A s \in acsmNumStates + 1 .. acsmNumStates + k :
                 \E i \in 1 .. Len(t) : GrownWords(t, m, k)[s] = SubSeq(t, 1, i)
<1> DEFINE num == acsmNumStates
           E == Extended(t, m)
           P == {j \in 0 .. k : Laid(t, m, M, j)}
<1>1. /\ num \in Nat /\ M \in Nat /\ Len(t) \in Nat
      /\ m \in 0 .. Len(t)
      /\ word \in [0 .. num -> Seq(Input)]
      /\ \A i \in 0 .. m : /\ StateAt(t, m, i) = Path(t)[i]
                           /\ Path(t)[i] \in 0 .. num
                           /\ word[Path(t)[i]] = SubSeq(t, 1, i)
      /\ \A i \in m + 1 .. Len(t) : StateAt(t, m, i) = num + i - m
  BY ReadyFacts
<1>2. k \in Nat
  BY <1>1
<1>3. E[0] = TransTable /\ Table(E[k], M)
  <2>1. /\ E[0] = TransTable
        /\ \A j \in 0 .. Len(t) - m : Table(E[j], M)
    BY <1>1, ReadyFacts, ExtendedUnfolds DEF Ready
  <2> QED
    BY <1>2, <2>1
<1>4. Laid(t, m, M, 0)
  <2>1. GrownWords(t, m, 0) = word
    <3>1. GrownWords(t, m, 0) = [s \in 0 .. num |-> word[s]]
      BY <1>1 DEF GrownWords
    <3> QED
      BY <1>1, <3>1
  <2>2. num + 0 = num
    BY <1>1
  <2>3. /\ Trie(TransTable, word, num)
        /\ \A s \in 0 .. M - 1 : s > num => DOMAIN TransTable[s] = {}
    BY DEF Ready
  <2> QED
    BY <1>3, <2>1, <2>2, <2>3 DEF Laid
<1>5. \A j \in 0 .. k : j \in P /\ j < k => j + 1 \in P
  <2> SUFFICES ASSUME NEW j \in 0 .. k, j \in P, j < k
               PROVE  j + 1 \in P
    OBVIOUS
  <2>1. Laid(t, m, M, j + 1)
    BY LaidStep
  <2> QED
    BY <1>2, <2>1
<1>6. 0 .. k \subseteq P
  <2>1. 0 \in P
    BY <1>2, <1>4
  <2> HIDE DEF P
  <2> QED
    BY <1>2, <1>5, <2>1, RangeInduction
<1>7. Laid(t, m, M, k)
  BY <1>2, <1>6
<1>8. \A s \in 0 .. num : GrownWords(t, m, k)[s] = word[s]
  <2>1. \A s \in 0 .. num : s \in 0 .. num + k
    BY <1>1, <1>2
  <2> QED
    BY <2>1 DEF GrownWords
<1>9. \A s \in num + 1 .. num + k :
         /\ m + s - num \in 1 .. Len(t)
         /\ GrownWords(t, m, k)[s] = SubSeq(t, 1, m + s - num)
  <2> SUFFICES ASSUME NEW s \in num + 1 .. num + k
               PROVE  /\ m + s - num \in 1 .. Len(t)
                      /\ GrownWords(t, m, k)[s] = SubSeq(t, 1, m + s - num)
    OBVIOUS
  <2>1. /\ s \in 0 .. num + k /\ s \notin 0 .. num
        /\ m + s - num \in 1 .. Len(t)
    <3>1. num \in Nat /\ Len(t) \in Nat /\ m \in 0 .. Len(t)
      BY <1>1
    <3> HIDE DEF num
    <3> QED
      BY <1>2, <3>1
  <2> QED
    BY <2>1 DEF GrownWords
<1>10. ASSUME NEW i \in 0 .. Len(t)
       PROVE  /\ StateAt(t, m, i) \in 0 .. num + k
              /\ GrownWords(t, m, k)[StateAt(t, m, i)] = SubSeq(t, 1, i)
  <2>1. CASE i \in 0 .. m
    <3>1. /\ StateAt(t, m, i) \in 0 .. num
          /\ word[StateAt(t, m, i)] = SubSeq(t, 1, i)
      BY <1>1, <2>1
    <3> QED
      BY <1>1, <1>2, <1>8, <3>1
  <2>2. CASE i \in m + 1 .. Len(t)
    <3>1. StateAt(t, m, i) = num + i - m
      BY <1>1, <2>2
    <3>2. /\ num + i - m \in num + 1 .. num + k
          /\ num + i - m \in 0 .. num + k
          /\ m + (num + i - m) - num = i
      <4>1. num \in Nat /\ Len(t) \in Nat /\ m \in 0 .. Len(t)
        BY <1>1
      <4> HIDE DEF num
      <4> QED
        BY <2>2, <4>1
    <3> QED
      BY <1>9, <3>1, <3>2
  <2> QED
    BY <1>1, <2>1, <2>2
<1> QED
  BY <1>2, <1>3, <1>7, <1>8, <1>9, <1>10

-----------------------------------------------------------------------------
(* The inductive invariant.                                                *)

(* The patterns, numbered from the last of the list to its first.          *)
PatternsInv ==
    /\ acsmPatterns \in Seq(Pattern)
    /\ Len(acsmPatterns) <= MaxPatterns
    /\ \A i \in 1 .. Len(acsmPatterns) :
          acsmPatterns[i].iid = Len(acsmPatterns) - i + 1

TablesInv ==
    /\ acsmMaxStates = CountStates(acsmPatterns)[Len(acsmPatterns)]
    /\ DOMAIN TransTable = 0 .. acsmMaxStates - 1
    /\ MatchList \in [0 .. acsmMaxStates - 1 -> Seq(Pattern)]

(* The words are the prefixes of the first d patterns.                     *)
Covered(wd, n, d) ==
    /\ \A s \in 1 .. n : \E k \in 1 .. d :
          \E l \in 1 .. Len(acsmPatterns[k].patrn) :
             wd[s] = SubSeq(acsmPatterns[k].patrn, 1, l)
    /\ \A k \in 1 .. d : \A l \in 0 .. Len(acsmPatterns[k].patrn) :
          \E s \in 0 .. n : wd[s] = SubSeq(acsmPatterns[k].patrn, 1, l)

(* Those of the first d patterns that are the string w.                    *)
Own(d, w) == {acsmPatterns[k] : k \in {l \in 1 .. d : acsmPatterns[l].patrn = w}}

(* While the patterns are laid out, the first d are in the trie.           *)
LayoutInv(d) ==
    /\ d \in 0 .. Len(acsmPatterns)
    /\ plist \in Seq(Pattern)
    /\ Len(plist) = Len(acsmPatterns) - d
    /\ \A i \in 1 .. Len(plist) : plist[i] = acsmPatterns[d + i]
    /\ acsmNumStates < CountStates(acsmPatterns)[d]
    /\ Table(TransTable, acsmMaxStates)
    /\ Trie(TransTable, word, acsmNumStates)
    /\ Covered(word, acsmNumStates, d)
    /\ \A s \in 0 .. acsmMaxStates - 1 : s > acsmNumStates =>
          DOMAIN TransTable[s] = {} /\ MatchList[s] = <<>>
    /\ \A s \in 0 .. acsmNumStates :
          Lists(MatchList[s], Pattern, Own(d, word[s]))

(* No two entries of the pattern list are equal: iid tells them apart.     *)
LEMMA PatternsDistinct ==
    ASSUME PatternsInv, NEW i \in 1 .. Len(acsmPatterns),
           NEW j \in 1 .. Len(acsmPatterns), acsmPatterns[i] = acsmPatterns[j]
    PROVE  i = j
<1>1. Len(acsmPatterns) \in Nat
  BY LenProperties DEF PatternsInv
<1>2. Len(acsmPatterns) - i + 1 = Len(acsmPatterns) - j + 1
  BY DEF PatternsInv
<1> QED
  BY <1>1, <1>2

(* The next pattern to lay out, and the room there is for it.              *)
LEMMA NextPattern ==
    ASSUME PatternsInv, TablesInv, NEW d, LayoutInv(d), plist # <<>>,
           NEW p, p = Head(plist), NEW m, m = Shared(p.patrn)
    PROVE  /\ d + 1 \in 1 .. Len(acsmPatterns)
           /\ p = acsmPatterns[d + 1]
           /\ p \in Pattern
           /\ p.patrn \in Seq(Input)
           /\ CountStates(acsmPatterns)[d + 1] =
                 CountStates(acsmPatterns)[d] + Len(p.patrn)
           /\ CountStates(acsmPatterns)[d] \in Nat
           /\ Ready(p.patrn, m, acsmMaxStates)
<1> DEFINE c == CountStates(acsmPatterns)
           n == Len(acsmPatterns)
<1>1. acsmPatterns \in Seq(Pattern) /\ n \in Nat /\ n <= MaxPatterns
  BY LenProperties DEF PatternsInv
<1>2. plist \in Seq(Pattern) /\ Len(plist) = n - d /\ d \in 0 .. n
  BY DEF LayoutInv
<1>3. Len(plist) \in Nat \ {0}
  BY <1>2, EmptySeq
<1>4. d + 1 \in 1 .. n /\ d + 1 \in 0 .. n /\ (d + 1) - 1 = d /\ 1 \in 1 .. Len(plist)
  BY <1>1, <1>2, <1>3
<1>5. p = acsmPatterns[d + 1] /\ p \in Pattern
  <2>1. p = plist[1]
    BY <1>2
  <2>2. plist[1] = acsmPatterns[d + 1]
    BY <1>4 DEF LayoutInv
  <2> QED
    BY <1>1, <1>4, <2>1, <2>2, ElementOfSeq
<1>6. p.patrn \in Seq(Input) /\ Len(p.patrn) \in Nat
  BY <1>5, PatternText
<1>7. /\ c \in [0 .. n -> Nat]
      /\ \A i \in 1 .. n : c[i] = c[i - 1] + Len(acsmPatterns[i].patrn)
  BY <1>1, CountUnfolds
<1>8. c[d + 1] = c[d] + Len(p.patrn) /\ c[d] \in Nat
  BY <1>2, <1>4, <1>5, <1>7
<1>9. c[d + 1] <= c[n]
  BY <1>1, <1>4, CountMonotonic
<1>10. c[n] <= FAIL /\ c[n] \in Nat /\ acsmMaxStates = c[n]
  BY <1>1, <1>7, CountBelowFAIL DEF TablesInv
<1>11. acsmNumStates < c[d] /\ acsmNumStates \in Nat
  BY DEF LayoutInv, Trie, Words
<1>12. FAIL \in Nat
  BY BuildAssumption
<1> HIDE DEF c, n
<1>13. acsmNumStates + Len(p.patrn) < acsmMaxStates /\ acsmNumStates < FAIL
  BY <1>6, <1>8, <1>9, <1>10, <1>11, <1>12
<1>14. Ready(p.patrn, m, acsmMaxStates)
  BY <1>10, <1>13 DEF Ready, LayoutInv
<1> QED
  BY <1>4, <1>5, <1>6, <1>8, <1>14 DEF c, n

(* What AddPatternStates does, in the terms of the lemmas above.           *)
LEMMA AddPatternStatesEffect ==
    ASSUME PatternsInv, TablesInv, NEW d, LayoutInv(d), AddPatternStates,
           NEW p, p = Head(plist), NEW m, m = Shared(p.patrn),
           NEW k, k = Len(p.patrn) - m,
           NEW last, last = StateAt(p.patrn, m, Len(p.patrn))
    PROVE  /\ plist # <<>>
           /\ k \in Nat
           /\ acsmNumStates' = acsmNumStates + k
           /\ TransTable' = Extended(p.patrn, m)[k]
           /\ word' = GrownWords(p.patrn, m, k)
           /\ MatchList' = [MatchList EXCEPT ![last] = <<p>> \o MatchList[last]]
<1>1. plist # <<>>
  BY DEF AddPatternStates
<1>2. /\ p.patrn \in Seq(Input)
      /\ Ready(p.patrn, m, acsmMaxStates)
  BY <1>1, NextPattern
<1>3. k \in Nat
  BY <1>2, PatternLaid
<1>4. /\ acsmNumStates \in Nat /\ m \in Nat /\ Len(p.patrn) \in Nat
      /\ DOMAIN word = 0 .. acsmNumStates
  BY <1>2, ReadyFacts
<1>5. acsmNumStates' = acsmNumStates + k
  <2>1. acsmNumStates' = acsmNumStates + Len(p.patrn) - m
    BY DEF AddPatternStates
  <2> QED
    BY <1>4, <2>1
<1>6. TransTable' = Extended(p.patrn, m)[k]
  BY DEF AddPatternStates
<1>7. word' = GrownWords(p.patrn, m, k)
  <2>1. word' = [s \in 0 .. acsmNumStates' |->
                   IF s \in DOMAIN word THEN word[s]
                   ELSE SubSeq(p.patrn, 1, m + s - acsmNumStates)]
    BY DEF AddPatternStates
  <2> QED
    BY <1>4, <1>5, <2>1 DEF GrownWords
<1>8. MatchList' = [MatchList EXCEPT ![last] = <<p>> \o MatchList[last]]
  BY DEF AddPatternStates
<1> QED
  BY <1>1, <1>3, <1>5, <1>6, <1>7, <1>8

(* AddPatternStates puts one more pattern in the trie and in the match     *)
(* list of its last state.                                                 *)
LEMMA AddPatternStatesInv ==
    ASSUME PatternsInv, TablesInv, NEW d, LayoutInv(d), AddPatternStates
    PROVE  TablesInv' /\ LayoutInv(d + 1)'
<1> DEFINE num == acsmNumStates
           p == Head(plist)
           t == p.patrn
           m == Shared(t)
           k == Len(t) - m
           last == StateAt(t, m, Len(t))
           wd2 == GrownWords(t, m, k)
           ps == acsmPatterns
           M == acsmMaxStates
<1>1. /\ plist # <<>>
      /\ k \in Nat
      /\ acsmNumStates' = num + k
      /\ TransTable' = Extended(t, m)[k]
      /\ word' = wd2
      /\ MatchList' = [MatchList EXCEPT ![last] = <<p>> \o MatchList[last]]
  BY AddPatternStatesEffect
<1>2. /\ d + 1 \in 1 .. Len(ps)
      /\ p = ps[d + 1]
      /\ p \in Pattern
      /\ t \in Seq(Input)
      /\ CountStates(ps)[d + 1] = CountStates(ps)[d] + Len(t)
      /\ CountStates(ps)[d] \in Nat
      /\ Ready(t, m, M)
  BY <1>1, NextPattern
<1>3. /\ num \in Nat /\ M \in Nat /\ Len(t) \in Nat /\ m \in 0 .. Len(t)
      /\ num + Len(t) < M
  BY <1>2, ReadyFacts DEF Ready
<1>4. /\ Table(TransTable', M)
      /\ Laid(t, m, M, k)
      /\ \A i \in 0 .. Len(t) : /\ StateAt(t, m, i) \in 0 .. num + k
                                /\ wd2[StateAt(t, m, i)] = SubSeq(t, 1, i)
      /\ \A s \in 0 .. num : wd2[s] = word[s]
      /\ \A s \in num + 1 .. num + k :
            \E i \in 1 .. Len(t) : wd2[s] = SubSeq(t, 1, i)
  <2> HIDE DEF t, m, M
  <2>1. /\ Table(Extended(t, m)[k], M)
        /\ Laid(t, m, M, k)
        /\ \A i \in 0 .. Len(t) : /\ StateAt(t, m, i) \in 0 .. num + k
                                  /\ wd2[StateAt(t, m, i)] = SubSeq(t, 1, i)
        /\ \A s \in 0 .. num : wd2[s] = word[s]
        /\ \A s \in num + 1 .. num + k :
              \E i \in 1 .. Len(t) : wd2[s] = SubSeq(t, 1, i)
    BY <1>2, PatternLaid
  <2> QED
    BY <1>1, <2>1
<1>5. /\ plist' = Tail(plist)
      /\ UNCHANGED <<acsmPatterns, acsmMaxStates>>
  BY DEF AddPatternStates
<1>6. /\ num + k <= num + Len(t) /\ num + k < M
  BY <1>1, <1>3
<1>7. d \in 0 .. Len(ps) /\ Len(ps) \in Nat /\ d + 1 \in 0 .. Len(ps)
  BY <1>2, LenProperties DEF LayoutInv, PatternsInv
<1>8. /\ last \in 0 .. num + k
      /\ wd2[last] = t
  <2>1. Len(t) \in 0 .. Len(t) /\ SubSeq(t, 1, Len(t)) = t
    BY <1>2, <1>3, PrefixStep
  <2> HIDE DEF num, t, m, k, wd2
  <2> QED
    BY <1>4, <2>1
<1>9. \A s, u \in 0 .. num + k : wd2[s] = wd2[u] => s = u
  BY <1>4 DEF Laid, Trie, Words
<1>10. MatchList \in [0 .. M - 1 -> Seq(Pattern)]
  BY DEF TablesInv
<1>11. \A s \in 0 .. num : s \in 0 .. num + k /\ s \in 0 .. M - 1
  BY <1>1, <1>3, <1>6
<1>12. \A s \in 0 .. num + k : s \in 0 .. M - 1 /\ (s \in 0 .. num \/ s \in num + 1 .. num + k)
  BY <1>1, <1>3, <1>6
<1> HIDE DEF num, p, t, m, k, last, wd2, ps, M
<1>13. ASSUME NEW s \in num + 1 .. num + k
       PROVE  Own(d, wd2[s]) = {} /\ MatchList[s] = <<>>
  <2>1. s > num /\ s \in 0 .. M - 1 /\ s \in 0 .. num + k
    BY <1>1, <1>3, <1>6
  <2>2. ASSUME NEW l \in 1 .. d, ps[l].patrn = wd2[s]
        PROVE  FALSE
    <3>1. l \in 1 .. Len(ps)
      BY <1>7
    <3>2. ps[l].patrn \in Seq(Input) /\ Len(ps[l].patrn) \in Nat
      BY <3>1, ElementOfSeq, PatternText DEF PatternsInv, ps
    <3>3. /\ Len(ps[l].patrn) \in 0 .. Len(ps[l].patrn)
          /\ SubSeq(ps[l].patrn, 1, Len(ps[l].patrn)) = ps[l].patrn
      BY <3>2, PrefixStep
    <3>4. PICK s0 \in 0 .. num : word[s0] = ps[l].patrn
      BY <3>3 DEF LayoutInv, Covered, ps, num
    <3>5. wd2[s0] = wd2[s]
      BY <1>4, <2>2, <3>4
    <3>6. s0 = s
      BY <1>9, <1>11, <2>1, <3>5
    <3> QED
      BY <1>3, <2>1, <3>6
  <2>3. Own(d, wd2[s]) = {}
    BY <2>2 DEF Own, ps
  <2>4. MatchList[s] = <<>>
    BY <2>1 DEF LayoutInv, num, M
  <2> QED
    BY <2>3, <2>4
<1>14. ASSUME NEW s \in 0 .. num + k
       PROVE  Lists(MatchList[s], Pattern, Own(d, wd2[s]))
  <2>1. CASE s \in 0 .. num
    <3>1. Lists(MatchList[s], Pattern, Own(d, word[s]))
      BY <2>1 DEF LayoutInv, num
    <3> QED
      BY <1>4, <2>1, <3>1
  <2>2. CASE s \in num + 1 .. num + k
    BY <1>13, <2>2, ListsEmpty
  <2> QED
    BY <1>12, <2>1, <2>2
<1>15. \A s \in 0 .. num + k :
          Own(d + 1, wd2[s]) = IF s = last THEN Own(d, wd2[s]) \cup {p}
                               ELSE Own(d, wd2[s])
  <2>1. \A l \in 1 .. d + 1 : l \in 1 .. d \/ l = d + 1
    BY <1>7
  <2>2. \A l \in 1 .. d : l \in 1 .. d + 1
    BY <1>7
  <2>3. d + 1 \in 1 .. d + 1
    BY <1>7
  <2>4. p = ps[d + 1] /\ t = p.patrn
    BY <1>2 DEF t, p
  <2>5. \A s \in 0 .. num + k : wd2[s] = t <=> s = last
    BY <1>8, <1>9
  <2> QED
    BY <2>1, <2>2, <2>3, <2>4, <2>5 DEF Own, ps
<1>16. p \notin Own(d, wd2[last])
  <2> SUFFICES ASSUME NEW l \in 1 .. d, ps[l] = p
               PROVE  FALSE
    BY DEF Own, ps
  <2>1. l \in 1 .. Len(ps) /\ d + 1 \in 1 .. Len(ps) /\ l # d + 1
    BY <1>2, <1>7
  <2>2. l = d + 1
    BY <1>2, <2>1, PatternsDistinct DEF ps
  <2> QED
    BY <2>1, <2>2
<1>17. ASSUME NEW s \in 0 .. num + k
       PROVE  Lists(MatchList'[s], Pattern, Own(d + 1, wd2[s]))
  <2>1. CASE s = last
    <3>1. Lists(<<p>>, Pattern, {p})
      BY <1>2, ListsOne
    <3>2. Lists(<<p>> \o MatchList[s], Pattern, {p} \cup Own(d, wd2[s]))
      BY <1>14, <1>16, <2>1, <3>1, ListsConcat
    <3>3. MatchList'[s] = <<p>> \o MatchList[s]
      BY <1>1, <1>10, <1>12, <2>1
    <3>4. Own(d + 1, wd2[s]) = {p} \cup Own(d, wd2[s])
      BY <1>15, <2>1
    <3> QED
      BY <3>2, <3>3, <3>4
  <2>2. CASE s # last
    <3>1. MatchList'[s] = MatchList[s]
      BY <1>1, <1>10, <1>12, <2>2
    <3> QED
      BY <1>14, <1>15, <2>2, <3>1
  <2> QED
    BY <2>1, <2>2
<1>18. MatchList' \in [0 .. M - 1 -> Seq(Pattern)]
  <2>1. last \in 0 .. M - 1
    BY <1>8, <1>12
  <2>2. <<p>> \o MatchList[last] \in Seq(Pattern)
    <3>1. <<p>> \in Seq(Pattern)
      BY <1>2
    <3>2. MatchList[last] \in Seq(Pattern)
      BY <1>10, <2>1
    <3> QED
      BY <3>1, <3>2, ConcatProperties
  <2> QED
    BY <1>1, <1>10, <2>1, <2>2
<1>19. TablesInv'
  <2>1. DOMAIN TransTable' = 0 .. M - 1
    BY <1>4 DEF Table
  <2> QED
    BY <1>5, <1>18, <2>1 DEF TablesInv, M
<1>20. Covered(wd2, num + k, d + 1)
  <2>1. ASSUME NEW s \in 1 .. num + k
        PROVE  \E j \in 1 .. d + 1 : \E l \in 1 .. Len(ps[j].patrn) :
                  wd2[s] = SubSeq(ps[j].patrn, 1, l)
    <3>1. CASE s \in 1 .. num
      <4>1. PICK j \in 1 .. d : \E l \in 1 .. Len(ps[j].patrn) :
                                   word[s] = SubSeq(ps[j].patrn, 1, l)
        BY <3>1 DEF LayoutInv, Covered, ps, num
      <4>2. j \in 1 .. d + 1 /\ s \in 0 .. num
        BY <1>3, <1>7, <3>1
      <4> QED
        BY <1>4, <4>1, <4>2
    <3>2. CASE s \in num + 1 .. num + k
      <4>1. \E l \in 1 .. Len(t) : wd2[s] = SubSeq(t, 1, l)
        BY <1>4, <3>2
      <4>2. t = ps[d + 1].patrn /\ d + 1 \in 1 .. d + 1
        BY <1>2, <1>7 DEF t
      <4> QED
        BY <4>1, <4>2
    <3> QED
      BY <1>1, <1>3, <3>1, <3>2
  <2>2. ASSUME NEW j \in 1 .. d + 1, NEW l \in 0 .. Len(ps[j].patrn)
        PROVE  \E s \in 0 .. num + k : wd2[s] = SubSeq(ps[j].patrn, 1, l)
    <3>1. CASE j \in 1 .. d
      <4>1. PICK s \in 0 .. num : word[s] = SubSeq(ps[j].patrn, 1, l)
        BY <3>1 DEF LayoutInv, Covered, ps, num
      <4> QED
        BY <1>4, <1>11, <4>1
    <3>2. CASE j = d + 1
      <4>1. l \in 0 .. Len(t) /\ ps[j].patrn = t
        BY <1>2, <3>2 DEF t
      <4> QED
        BY <1>4, <4>1
    <3> QED
      BY <1>7, <3>1, <3>2
  <2> QED
    BY <2>1, <2>2 DEF Covered, ps
<1>21. plist' \in Seq(Pattern)
       /\ Len(plist') = Len(ps) - (d + 1)
       /\ \A i \in 1 .. Len(plist') : plist'[i] = ps[(d + 1) + i]
  <2>1. /\ plist \in Seq(Pattern)
        /\ Len(plist) = Len(ps) - d
        /\ \A i \in 1 .. Len(plist) : plist[i] = ps[d + i]
    BY DEF LayoutInv, ps
  <2>2. /\ plist' \in Seq(Pattern)
        /\ Len(plist') = Len(plist) - 1
        /\ \A i \in 1 .. Len(plist') : plist'[i] = plist[i + 1]
    BY <1>1, <1>5, <2>1, HeadTailProperties
  <2>3. ASSUME NEW i \in 1 .. Len(plist')
        PROVE  plist'[i] = ps[(d + 1) + i]
    <3>1. i + 1 \in 1 .. Len(plist) /\ d + (i + 1) = (d + 1) + i
      BY <1>7, <2>1, <2>2
    <3> QED
      BY <2>1, <2>2, <3>1
  <2> QED
    BY <1>7, <2>1, <2>2, <2>3
<1>22. num + k < CountStates(ps)[d + 1]
  <2>1. num < CountStates(ps)[d]
    BY DEF LayoutInv, ps, num
  <2> QED
    BY <1>1, <1>2, <1>3, <1>6, <2>1
<1>23. ASSUME NEW s \in 0 .. M - 1, s > num + k
       PROVE  DOMAIN TransTable'[s] = {} /\ MatchList'[s] = <<>>
  <2>1. s > num /\ s >= num + k /\ s # last
    BY <1>1, <1>3, <1>8, <1>23
  <2>2. DOMAIN TransTable'[s] = {}
    BY <1>1, <1>4, <2>1 DEF Laid, num, M
  <2>3. MatchList[s] = <<>>
    BY <2>1 DEF LayoutInv, num, M
  <2>4. MatchList'[s] = MatchList[s]
    BY <1>1, <1>10, <2>1
  <2> QED
    BY <2>2, <2>3, <2>4
<1>24. Trie(TransTable', wd2, num + k)
  BY <1>1, <1>4 DEF Laid, num, wd2
<1>25. Covered(word, acsmNumStates, d + 1)'
  BY <1>1, <1>5, <1>20 DEF Covered
<1>26. \A s \in 0 .. num + k : Lists(MatchList'[s], Pattern, Own(d + 1, word[s])')
  BY <1>1, <1>5, <1>17 DEF Own
<1>27. LayoutInv(d + 1)'
  BY <1>1, <1>4, <1>5, <1>7, <1>21, <1>22, <1>23, <1>24, <1>25, <1>26
     DEF LayoutInv, ps, M
<1> QED
  BY <1>19, <1>27

(* The tables as they are sized hold the trie of no pattern.               *)
LEMMA BeginCompileInv ==
    ASSUME PatternsInv, BeginCompile
    PROVE  TablesInv' /\ LayoutInv(0)'
<1> DEFINE M == acsmMaxStates'
           none == [i \in {} |-> 0]
<1>1. /\ plist' = acsmPatterns
      /\ M = CountStates(acsmPatterns)[Len(acsmPatterns)]
      /\ acsmNumStates' = 0
      /\ TransTable' = [s \in 0 .. M - 1 |-> none]
      /\ MatchList' = [s \in 0 .. M - 1 |-> <<>>]
      /\ word' = [s \in {0} |-> <<>>]
      /\ acsmPatterns' = acsmPatterns
  BY DEF BeginCompile
<1>2. acsmPatterns \in Seq(Pattern) /\ Len(acsmPatterns) \in Nat
  BY LenProperties DEF PatternsInv
<1>3. CountStates(acsmPatterns)[0] = 1
  BY <1>2, CountUnfolds
<1>4. M \in Nat /\ M >= 1
  <2>1. CountStates(acsmPatterns)[0] <= CountStates(acsmPatterns)[Len(acsmPatterns)]
    BY <1>2, CountMonotonic
  <2>2. CountStates(acsmPatterns)[Len(acsmPatterns)] \in Nat
    BY <1>2, CountUnfolds
  <2> QED
    BY <1>1, <1>3, <2>1, <2>2
<1> HIDE DEF M
<1>5. none \in Row /\ DOMAIN none = {}
  <2>1. {} \in SUBSET Input /\ none \in [{} -> Nat]
    OBVIOUS
  <2> QED
    BY <2>1 DEF Row
<1> HIDE DEF none
<1>6. /\ DOMAIN TransTable' = 0 .. M - 1
      /\ Table(TransTable', M)
      /\ \A s \in 0 .. M - 1 : TransTable'[s] = none
  BY <1>1, <1>5 DEF Table
<1>7. <<>> \in Seq(Pattern) /\ <<>> \in Seq(Input) /\ Len(<<>>) = 0
  BY EmptySeq
<1>8. /\ MatchList' \in [0 .. M - 1 -> Seq(Pattern)]
      /\ \A s \in 0 .. M - 1 : MatchList'[s] = <<>>
  BY <1>1, <1>7
<1>9. TablesInv'
  BY <1>1, <1>6, <1>8 DEF TablesInv, M
<1>10. 0 .. 0 = {0} /\ 1 .. 0 = {} /\ 0 \in 0 .. M - 1
  BY <1>4
<1>11. word' \in [0 .. 0 -> Seq(Input)] /\ word'[0] = <<>>
  BY <1>1, <1>7, <1>10
<1>12. Words(word', 0)
  BY <1>7, <1>10, <1>11 DEF Words
<1>13. NodeRow(none, word', 0, 0)
  <2>1. ASSUME NEW t \in 0 .. 0, NEW i \in Input, word'[t] = Append(word'[0], i)
        PROVE  FALSE
    <3>1. word'[t] = <<>>
      BY <1>10, <1>11
    <3>2. Append(word'[0], i) # <<>>
      BY <1>7, <1>11, AppendProperties
    <3> QED
      BY <2>1, <3>1, <3>2
  <2> QED
    BY <1>5, <2>1 DEF NodeRow
<1>14. Trie(TransTable', word', 0)
  BY <1>6, <1>10, <1>12, <1>13 DEF Trie
<1>15. Covered(word, acsmNumStates, 0)'
  BY <1>1, <1>10 DEF Covered
<1>16. Lists(MatchList'[0], Pattern, Own(0, word[0])')
  <2>1. Own(0, word[0])' = {}
    BY <1>10 DEF Own
  <2> QED
    BY <1>8, <1>10, <2>1, ListsEmpty
<1>17. LayoutInv(0)'
  <2>1. /\ 0 \in 0 .. Len(acsmPatterns)
        /\ Len(plist') = Len(acsmPatterns) - 0
        /\ \A i \in 1 .. Len(plist') : plist'[i] = acsmPatterns[0 + i]
    BY <1>1, <1>2
  <2>2. \A s \in 0 .. M - 1 : s > 0 => DOMAIN TransTable'[s] = {} /\ MatchList'[s] = <<>>
    BY <1>5, <1>6, <1>8
  <2>3. \A s \in 0 .. 0 : Lists(MatchList'[s], Pattern, Own(0, word[s])')
    BY <1>10, <1>16
  <2>4. /\ plist' \in Seq(Pattern)
        /\ acsmNumStates' < CountStates(acsmPatterns')[0]
    BY <1>1, <1>2, <1>3
  <2>5. /\ Trie(TransTable', word', acsmNumStates')
        /\ 0 .. acsmNumStates' = 0 .. 0
    BY <1>1, <1>14
  <2> QED
    BY <1>1, <1>6, <1>15, <2>1, <2>2, <2>3, <2>4, <2>5 DEF LayoutInv, M
<1> QED
  BY <1>9, <1>17

-----------------------------------------------------------------------------
(* The queue of states to visit.                                           *)

(* q2 is Q with the elements of C added behind, unless they waited.        *)
Queued(q2, Q, C) ==
    /\ q2 \in Seq(Nat)
    /\ Len(Q) <= Len(q2)
    /\ \A k \in 1 .. Len(Q) : q2[k] = Q[k]
    /\ \A k \in 1 .. Len(q2) : k > Len(Q) => q2[k] \in C
    /\ \A c \in C : \E k \in 1 .. Len(q2) : q2[k] = c
    /\ (\A i, j \in 1 .. Len(Q) : Q[i] = Q[j] => i = j)
          => \A i, j \in 1 .. Len(q2) : q2[i] = q2[j] => i = j

(* queue_add adds a state unless it waits already.                         *)
LEMMA QueueAddQueued ==
    ASSUME NEW Q \in Seq(Nat), NEW q2, NEW C, Queued(q2, Q, C), NEW s \in Nat
    PROVE  Queued(QueueAdd(q2, s), Q, C \cup {s})
<1> DEFINE m == Len(Q)
           n == Len(q2)
           r == QueueAdd(q2, s)
<1>1. q2 \in Seq(Nat) /\ m \in Nat /\ n \in Nat /\ m <= n
  BY LenProperties DEF Queued
<1>2. DOMAIN q2 = 1 .. n
  BY <1>1, LenProperties
<1>3. CASE s \in ToSet(q2)
  <2>1. r = q2
    BY <1>3 DEF QueueAdd
  <2>2. \E k \in 1 .. n : q2[k] = s
    BY <1>2, <1>3 DEF ToSet
  <2> QED
    BY <2>1, <2>2 DEF Queued
<1>4. CASE s \notin ToSet(q2)
  <2>1. r = Append(q2, s)
    BY <1>4 DEF QueueAdd
  <2>2. /\ r \in Seq(Nat) /\ Len(r) = n + 1
        /\ \A k \in 1 .. n : r[k] = q2[k]
        /\ r[n + 1] = s
    BY <1>1, <2>1, AppendProperties
  <2>3. \A k \in 1 .. n : q2[k] # s
    BY <1>2, <1>4 DEF ToSet
  <2> HIDE DEF r
  <2>4. /\ \A k \in 1 .. m : q2[k] = Q[k]
        /\ \A k \in 1 .. n : k > m => q2[k] \in C
        /\ \A c \in C : \E k \in 1 .. n : q2[k] = c
        /\ (\A i, j \in 1 .. m : Q[i] = Q[j] => i = j)
              => \A i, j \in 1 .. n : q2[i] = q2[j] => i = j
    BY DEF Queued
  <2> HIDE DEF m, n
  <2>5. /\ \A k \in 1 .. n + 1 : k \in 1 .. n \/ k = n + 1
        /\ \A k \in 1 .. n : k \in 1 .. n + 1
        /\ \A k \in 1 .. m : k \in 1 .. n
        /\ n + 1 \in 1 .. n + 1 /\ m <= n + 1
    BY <1>1
  <2>6. \A k \in 1 .. m : r[k] = Q[k]
    BY <2>2, <2>4, <2>5
  <2>7. \A k \in 1 .. n + 1 : k > m => r[k] \in C \cup {s}
    BY <2>2, <2>4, <2>5
  <2>8. \A c \in C \cup {s} : \E k \in 1 .. n + 1 : r[k] = c
    BY <2>2, <2>4, <2>5
  <2>9. ASSUME \A i, j \in 1 .. m : Q[i] = Q[j] => i = j,
               NEW i \in 1 .. n + 1, NEW j \in 1 .. n + 1, r[i] = r[j]
        PROVE  i = j
    BY <2>2, <2>3, <2>4, <2>5, <2>9
  <2>10. Len(Q) = m /\ Len(r) = n + 1
    BY <2>2 DEF m
  <2>11. Queued(r, Q, C \cup {s})
    BY <2>2, <2>5, <2>6, <2>7, <2>8, <2>9, <2>10 DEF Queued
  <2> QED
    BY <2>11 DEF r
<1> QED
  BY <1>3, <1>4

(* QueueSuccessors adds the states other than 0 that a row leads to.       *)
LEMMA QueueSuccessorsQueued ==
    ASSUME NEW Q \in Seq(Nat), NEW table, NEW place,
           \A i \in Input : GetNextState2(table, place, i) \in Nat
    PROVE  Queued(QueueSuccessors(Q, table, place), Q,
                  {GetNextState2(table, place, i) : i \in Input} \ {0})
<1> DEFINE N == AlphabetSize
           S == Seq(Nat)
           To(i) == GetNextState2(table, place, i - 1)
           Put(i, u) == IF To(i) = 0 THEN u ELSE QueueAdd(u, To(i))
           step == [x \in (1 .. N) \X S |-> Put(x[1], x[2])]
<1>1. N \in Nat
  BY BuildAssumption
<1>2. \A i \in 1 .. N : i - 1 \in Input /\ To(i) \in Nat
  BY <1>1 DEF Input
<1>3. ASSUME NEW i \in 1 .. N, NEW u \in S
      PROVE  Put(i, u) \in S
  <2>1. Append(u, To(i)) \in S
    BY <1>2, AppendProperties
  <2> QED
    BY <2>1 DEF QueueAdd
<1> HIDE DEF Put
<1>4. step \in StepFcn(N, S)
  BY <1>3 DEF StepFcn
<1>5. PICK f : Unrolls(f, N, S, Q, step)
  <2> HIDE DEF step, N
  <2> QED
    BY <1>1, <1>4, PrimitiveRecursion
<1>6. \A i \in 1 .. N : f[i] = Put(i, f[i - 1])
  <2> SUFFICES ASSUME NEW i \in 1 .. N
               PROVE  f[i] = Put(i, f[i - 1])
    OBVIOUS
  <2>1. f[i - 1] \in S
    <3>1. i - 1 \in 0 .. N
      BY <1>1
    <3> QED
      BY <1>5, <3>1 DEF Unrolls
  <2> HIDE DEF S
  <2>2. step[<<i, f[i - 1]>>] = Put(i, f[i - 1])
    BY <2>1
  <2> QED
    BY <1>5, <2>2 DEF Unrolls
<1>7. f = [i \in 0 .. N |-> IF i = 0 THEN Q ELSE Put(i, f[i - 1])]
  <2>1. \A i \in 0 .. N : f[i] = IF i = 0 THEN Q ELSE Put(i, f[i - 1])
    BY <1>1, <1>5, <1>6 DEF Unrolls
  <2> QED
    BY <1>5, <2>1 DEF Unrolls
<1> DEFINE c == CHOOSE c : c = [i \in 0 .. N |-> IF i = 0 THEN Q ELSE Put(i, c[i - 1])]
<1>8. c = [i \in 0 .. N |-> IF i = 0 THEN Q ELSE Put(i, c[i - 1])]
  BY <1>7
<1>9. QueueSuccessors(Q, table, place) = c[N]
  BY DEF QueueSuccessors, Put
<1> HIDE DEF c
<1>10. \A i \in 0 .. N : c[i] = IF i = 0 THEN Q ELSE Put(i, c[i - 1])
  BY <1>8
<1> DEFINE C(i) == {GetNextState2(table, place, x) : x \in 0 .. i - 1} \ {0}
           P == {i \in 0 .. N : Queued(c[i], Q, C(i))}
<1>11. 0 \in P
  <2>1. C(0) = {}
    OBVIOUS
  <2>2. c[0] = Q
    BY <1>1, <1>10
  <2>3. Len(Q) \in Nat
    BY LenProperties
  <2>4. Queued(Q, Q, {})
    BY <2>3 DEF Queued
  <2> HIDE DEF C
  <2>5. Queued(c[0], Q, C(0))
    BY <2>1, <2>2, <2>4
  <2> QED
    BY <1>1, <2>5
<1>12. \A i \in 0 .. N : i \in P /\ i < N => i + 1 \in P
  <2> SUFFICES ASSUME NEW i \in P, i < N
               PROVE  i + 1 \in P
    OBVIOUS
  <2>1. i + 1 \in 1 .. N /\ i + 1 \in 0 .. N /\ (i + 1) - 1 = i /\ i \in 0 .. N
    BY <1>1
  <2>2. c[i + 1] = Put(i + 1, c[i])
    BY <1>10, <2>1
  <2>3. To(i + 1) = GetNextState2(table, place, i) /\ To(i + 1) \in Nat
    BY <1>2, <2>1
  <2>4. 0 .. (i + 1) - 1 = (0 .. i - 1) \cup {i}
    BY <2>1
  <2>5. CASE To(i + 1) = 0
    <3>1. C(i + 1) = C(i)
      BY <2>3, <2>4, <2>5
    <3>2. c[i + 1] = c[i]
      BY <2>2, <2>5 DEF Put
    <3> QED
      BY <2>1, <3>1, <3>2
  <2>6. CASE To(i + 1) # 0
    <3>1. C(i + 1) = C(i) \cup {To(i + 1)}
      BY <2>3, <2>4, <2>6
    <3>2. c[i + 1] = QueueAdd(c[i], To(i + 1))
      BY <2>2, <2>6 DEF Put
    <3>3. Queued(c[i], Q, C(i))
      OBVIOUS
    <3> HIDE DEF C
    <3>4. Queued(c[i + 1], Q, C(i) \cup {To(i + 1)})
      BY <2>3, <3>2, <3>3, QueueAddQueued
    <3> QED
      BY <2>1, <3>1, <3>4
  <2> QED
    BY <2>5, <2>6
<1>13. 0 .. N \subseteq P
  <2> HIDE DEF P, N
  <2> QED
    BY <1>1, <1>11, <1>12, RangeInduction
<1>14. Queued(c[N], Q, C(N))
  <2>1. N \in 0 .. N
    BY <1>1
  <2> HIDE DEF C, N
  <2> QED
    BY <1>13, <2>1
<1>15. C(N) = {GetNextState2(table, place, i) : i \in Input} \ {0}
  BY DEF Input
<1> QED
  BY <1>9, <1>14, <1>15

-----------------------------------------------------------------------------
(* The breadth-first order.                                                *)

Parent(wd, r, s) == \E i \in Input : wd[s] = Append(wd[r], i)

Children(wd, n, r) == {s \in 0 .. n : Parent(wd, r, s)}

(* The states of V are visited; those whose parent is and that are not     *)
(* visited themselves wait, the shorter ones first.                        *)
Frontier(Q, V, wd, n) ==
    /\ V \subseteq 0 .. n
    /\ 0 \in V
    /\ Q \in Seq(Nat)
    /\ \A j, k \in 1 .. Len(Q) : Q[j] = Q[k] => j = k
    /\ \A k \in 1 .. Len(Q) :
          /\ Q[k] \in (0 .. n) \ V
          /\ \E r \in V : Parent(wd, r, Q[k])
    /\ \A s \in (0 .. n) \ V : (\E r \in V : Parent(wd, r, s))
          => \E k \in 1 .. Len(Q) : Q[k] = s
    /\ \A j, k \in 1 .. Len(Q) : j <= k => Len(wd[Q[j]]) <= Len(wd[Q[k]])
    /\ \A v \in V : \A k \in 1 .. Len(Q) : Len(wd[v]) <= Len(wd[Q[k]])

(* The words as a tree: lengths, and the one parent of each state but 0.   *)
LEMMA WordFacts ==
    ASSUME NEW wd, NEW n, Words(wd, n)
    PROVE  /\ n \in Nat /\ 0 \in 0 .. n /\ wd[0] = <<>> /\ Len(wd[0]) = 0
           /\ \A s \in 0 .. n : /\ wd[s] \in Seq(Input)
                                /\ Len(wd[s]) \in Nat
                                /\ s # 0 => \E r \in 0 .. n : Parent(wd, r, s)
           /\ \A r, s \in 0 .. n : Parent(wd, r, s) =>
                 Len(wd[s]) = Len(wd[r]) + 1 /\ s # 0 /\ wd[s] # <<>>
           /\ \A r, x, s \in 0 .. n : Parent(wd, r, s) /\ Parent(wd, x, s) => r = x
<1>1. n \in Nat /\ 0 \in 0 .. n /\ wd[0] = <<>> /\ Len(wd[0]) = 0
  BY EmptySeq DEF Words
<1>2. \A s \in 0 .. n : wd[s] \in Seq(Input) /\ Len(wd[s]) \in Nat
  BY LenProperties DEF Words
<1>3. \A s \in 0 .. n : s # 0 => \E r \in 0 .. n : Parent(wd, r, s)
  <2> SUFFICES ASSUME NEW s \in 0 .. n, s # 0
               PROVE  \E r \in 0 .. n : Parent(wd, r, s)
    OBVIOUS
  <2>1. s \in 1 .. n
    BY <1>1
  <2> QED
    BY <2>1 DEF Words, Parent
<1>4. ASSUME NEW r \in 0 .. n, NEW s \in 0 .. n, Parent(wd, r, s)
      PROVE  Len(wd[s]) = Len(wd[r]) + 1 /\ s # 0 /\ wd[s] # <<>>
  <2>1. PICK i \in Input : wd[s] = Append(wd[r], i)
    BY <1>4 DEF Parent
  <2>2. wd[r] \in Seq(Input)
    BY <1>2
  <2>3. Len(wd[s]) = Len(wd[r]) + 1 /\ wd[s] # <<>>
    BY <2>1, <2>2, AppendProperties
  <2> QED
    BY <1>1, <2>3
<1>5. ASSUME NEW r \in 0 .. n, NEW x \in 0 .. n, NEW s \in 0 .. n,
             Parent(wd, r, s), Parent(wd, x, s)
      PROVE  r = x
  <2>1. PICK i \in Input : wd[s] = Append(wd[r], i)
    BY <1>5 DEF Parent
  <2>2. PICK j \in Input : wd[s] = Append(wd[x], j)
    BY <1>5 DEF Parent
  <2>3. wd[r] \in Seq(Input) /\ wd[x] \in Seq(Input)
    BY <1>2
  <2>4. wd[r] = wd[x]
    BY <2>1, <2>2, <2>3, SameAppend
  <2> QED
    BY <2>4 DEF Words
<1> QED
  BY <1>1, <1>2, <1>3, <1>4, <1>5

(* Whatever is not visited is behind something that waits.                 *)
LEMMA FrontierReach ==
    ASSUME NEW wd, NEW n, Words(wd, n), NEW Q, NEW V, Frontier(Q, V, wd, n),
           NEW s \in (0 .. n) \ V
    PROVE  \E k \in 1 .. Len(Q) : Len(wd[Q[k]]) <= Len(wd[s])
<1> DEFINE D == {l \in Nat : \E x \in (0 .. n) \ V : Len(wd[x]) = l}
<1>1. /\ \A x \in 0 .. n : Len(wd[x]) \in Nat
      /\ \A x \in 0 .. n : x # 0 => \E r \in 0 .. n : Parent(wd, r, x)
      /\ \A r, x \in 0 .. n : Parent(wd, r, x) => Len(wd[x]) = Len(wd[r]) + 1
  BY WordFacts
<1>2. D \subseteq Nat /\ Len(wd[s]) \in D
  BY <1>1
<1>3. PICK d \in D : \A l \in D : d <= l
  <2> HIDE DEF D
  <2> QED
    BY <1>2, LeastElement
<1>4. PICK x \in (0 .. n) \ V : Len(wd[x]) = d
  OBVIOUS
<1>5. x # 0
  BY DEF Frontier
<1>6. PICK r \in 0 .. n : Parent(wd, r, x)
  BY <1>1, <1>5
<1>7. r \in V
  <2> SUFFICES ASSUME r \notin V
               PROVE  FALSE
    OBVIOUS
  <2>1. Len(wd[r]) \in D /\ Len(wd[r]) \in Nat /\ Len(wd[x]) = Len(wd[r]) + 1
    BY <1>1, <1>6
  <2>2. d <= Len(wd[r])
    BY <1>3, <2>1
  <2> QED
    BY <1>4, <2>1, <2>2
<1>8. \E k \in 1 .. Len(Q) : Q[k] = x
  BY <1>6, <1>7 DEF Frontier
<1> QED
  BY <1>2, <1>3, <1>4, <1>8

(* When nothing waits everything is visited; otherwise at least what is    *)
(* shorter than the first that waits.                                      *)
LEMMA FrontierVisited ==
    ASSUME NEW wd, NEW n, Words(wd, n), NEW Q, NEW V, Frontier(Q, V, wd, n)
    PROVE  /\ Q = <<>> => V = 0 .. n
           /\ Q # <<>> => /\ Head(Q) \in (0 .. n) \ V
                          /\ Head(Q) # 0
                          /\ \E r \in V : Parent(wd, r, Head(Q))
                          /\ \A s \in 0 .. n : Len(wd[s]) < Len(wd[Head(Q)])
                                                  => s \in V
<1>1. Q \in Seq(Nat) /\ Len(Q) \in Nat
  BY LenProperties DEF Frontier
<1>2. ASSUME Q = <<>>
      PROVE  V = 0 .. n
  <2>1. 1 .. Len(Q) = {}
    BY <1>1, <1>2, EmptySeq
  <2>2. \A s \in 0 .. n : s \in V
    BY <2>1, FrontierReach
  <2> QED
    BY <2>2 DEF Frontier
<1>3. ASSUME Q # <<>>
      PROVE  /\ Head(Q) \in (0 .. n) \ V
             /\ Head(Q) # 0
             /\ \E r \in V : Parent(wd, r, Head(Q))
             /\ \A s \in 0 .. n : Len(wd[s]) < Len(wd[Head(Q)]) => s \in V
  <2>1. Len(Q) \in Nat \ {0} /\ Head(Q) = Q[1]
    BY <1>1, <1>3, EmptySeq
  <2>2. 1 \in 1 .. Len(Q) /\ \A k \in 1 .. Len(Q) : 1 <= k
    BY <2>1
  <2>3. /\ Q[1] \in (0 .. n) \ V
        /\ Q[1] # 0
        /\ \E r \in V : Parent(wd, r, Q[1])
    BY <2>2 DEF Frontier
  <2>4. ASSUME NEW s \in 0 .. n, Len(wd[s]) < Len(wd[Q[1]]), s \notin V
        PROVE  FALSE
    <3>1. PICK k \in 1 .. Len(Q) : Len(wd[Q[k]]) <= Len(wd[s])
      BY <2>4, FrontierReach
    <3>2. Len(wd[Q[1]]) <= Len(wd[Q[k]])
      BY <2>2 DEF Frontier
    <3>3. Q[k] \in 0 .. n
      BY DEF Frontier
    <3>4. Len(wd[Q[1]]) \in Nat /\ Len(wd[Q[k]]) \in Nat /\ Len(wd[s]) \in Nat
      BY <2>3, <3>3, WordFacts
    <3> QED
      BY <2>4, <3>1, <3>2, <3>4
  <2> QED
    BY <2>1, <2>3, <2>4
<1> QED
  BY <1>2, <1>3

(* The order holds when the states at depth 1 are queued.                  *)
LEMMA FrontierInit ==
    ASSUME NEW wd, NEW n, Words(wd, n), NEW Q, Queued(Q, <<>>, Children(wd, n, 0))
    PROVE  Frontier(Q, {0}, wd, n)
<1>1. /\ n \in Nat /\ 0 \in 0 .. n /\ Len(wd[0]) = 0
      /\ \A r, s \in 0 .. n : Parent(wd, r, s) => Len(wd[s]) = Len(wd[r]) + 1 /\ s # 0
  BY WordFacts
<1>2. Len(<<>>) = 0
  BY EmptySeq
<1> DEFINE e == <<>>
<1>3. 1 .. Len(e) = {} /\ Len(e) = 0 /\ Queued(Q, e, Children(wd, n, 0))
  BY <1>2
<1> HIDE DEF e
<1>4. Q \in Seq(Nat) /\ Len(Q) \in Nat
  BY <1>3, LenProperties DEF Queued
<1>5. \A k \in 1 .. Len(Q) : k > 0
  BY <1>4
<1>6. /\ \A j, k \in 1 .. Len(Q) : Q[j] = Q[k] => j = k
      /\ \A k \in 1 .. Len(Q) : Q[k] \in Children(wd, n, 0)
      /\ \A c \in Children(wd, n, 0) : \E k \in 1 .. Len(Q) : Q[k] = c
  BY <1>3, <1>5 DEF Queued
<1>7. ASSUME NEW k \in 1 .. Len(Q)
      PROVE  Q[k] \in (0 .. n) \ {0} /\ Parent(wd, 0, Q[k]) /\ Len(wd[Q[k]]) = 1
  <2>1. Q[k] \in 0 .. n /\ Parent(wd, 0, Q[k])
    BY <1>6 DEF Children
  <2>2. Len(wd[Q[k]]) = Len(wd[0]) + 1 /\ Q[k] # 0
    BY <1>1, <2>1
  <2> QED
    BY <1>1, <2>1, <2>2
<1>8. \A s \in (0 .. n) \ {0} : (\E r \in {0} : Parent(wd, r, s))
         => \E k \in 1 .. Len(Q) : Q[k] = s
  BY <1>6 DEF Children
<1>9. /\ \A k \in 1 .. Len(Q) : /\ Q[k] \in (0 .. n) \ {0}
                               /\ \E r \in {0} : Parent(wd, r, Q[k])
      /\ \A j, k \in 1 .. Len(Q) : j <= k => Len(wd[Q[j]]) <= Len(wd[Q[k]])
      /\ \A v \in {0} : \A k \in 1 .. Len(Q) : Len(wd[v]) <= Len(wd[Q[k]])
  BY <1>1, <1>7
<1> QED
  BY <1>1, <1>4, <1>6, <1>8, <1>9 DEF Frontier

(* It holds when the first state is taken and its successors are queued.   *)
LEMMA FrontierStep ==
    ASSUME NEW wd, NEW n, Words(wd, n), NEW Q, NEW V, Frontier(Q, V, wd, n),
           Q # <<>>, NEW r, r = Head(Q),
           NEW q2, Queued(q2, Tail(Q), Children(wd, n, r))
    PROVE  Frontier(q2, V \cup {r}, wd, n)
<1> DEFINE u == Tail(Q)
           m == Len(Q)
           W == V \cup {r}
<1>1. Q \in Seq(Nat) /\ m \in Nat \ {0}
  BY EmptySeq DEF Frontier
<1>2. /\ u \in Seq(Nat) /\ Len(u) = m - 1
      /\ \A k \in 1 .. m - 1 : u[k] = Q[k + 1]
      /\ r = Q[1]
  BY <1>1, HeadTailProperties
<1>3. /\ n \in Nat
      /\ \A s \in 0 .. n : Len(wd[s]) \in Nat
      /\ \A x, s \in 0 .. n : Parent(wd, x, s) => Len(wd[s]) = Len(wd[x]) + 1
  BY WordFacts
<1>4. /\ V \subseteq 0 .. n
      /\ 0 \in V
      /\ \A j, k \in 1 .. m : Q[j] = Q[k] => j = k
      /\ \A k \in 1 .. m : Q[k] \in (0 .. n) \ V /\ \E x \in V : Parent(wd, x, Q[k])
      /\ \A s \in (0 .. n) \ V : (\E x \in V : Parent(wd, x, s))
            => \E k \in 1 .. m : Q[k] = s
      /\ \A j, k \in 1 .. m : j <= k => Len(wd[Q[j]]) <= Len(wd[Q[k]])
      /\ \A v \in V : \A k \in 1 .. m : Len(wd[v]) <= Len(wd[Q[k]])
  BY DEF Frontier
<1> HIDE DEF u, m
<1>5. 1 \in 1 .. m /\ \A k \in 1 .. m - 1 : k + 1 \in 1 .. m /\ k + 1 # 1 /\ 1 <= k + 1
  BY <1>1
<1>6. /\ q2 \in Seq(Nat) /\ Len(q2) \in Nat
      /\ m - 1 <= Len(q2)
      /\ \A k \in 1 .. m - 1 : q2[k] = u[k]
      /\ \A k \in 1 .. Len(q2) : k > m - 1 => q2[k] \in Children(wd, n, r)
      /\ \A c \in Children(wd, n, r) : \E k \in 1 .. Len(q2) : q2[k] = c
      /\ (\A i, j \in 1 .. m - 1 : u[i] = u[j] => i = j)
            => \A i, j \in 1 .. Len(q2) : q2[i] = q2[j] => i = j
  BY <1>2, LenProperties DEF Queued, u
<1>7. \A k \in 1 .. Len(q2) :
         \/ k \in 1 .. m - 1 /\ q2[k] = Q[k + 1]
         \/ k > m - 1 /\ q2[k] \in 0 .. n /\ Parent(wd, r, q2[k])
  BY <1>1, <1>2, <1>6 DEF Children
<1>8. r \in 0 .. n /\ r \notin V /\ Len(wd[r]) \in Nat
  BY <1>2, <1>3, <1>4, <1>5
<1>9. \A v \in W : v \in 0 .. n /\ Len(wd[v]) <= Len(wd[r]) /\ Len(wd[v]) \in Nat
  BY <1>2, <1>3, <1>4, <1>5, <1>8
<1>10. ASSUME NEW c \in 0 .. n, Parent(wd, r, c)
       PROVE  Len(wd[c]) = Len(wd[r]) + 1 /\ c \notin W
  <2>1. Len(wd[c]) = Len(wd[r]) + 1
    BY <1>3, <1>8, <1>10
  <2> QED
    BY <1>8, <1>9, <2>1
<1>11. \A k \in 1 .. m - 1 : /\ Q[k + 1] \in (0 .. n) \ W
                             /\ \E x \in V : Parent(wd, x, Q[k + 1])
                             /\ Len(wd[Q[k + 1]]) <= Len(wd[r]) + 1
                             /\ Len(wd[r]) <= Len(wd[Q[k + 1]])
  <2> SUFFICES ASSUME NEW k \in 1 .. m - 1
               PROVE  /\ Q[k + 1] \in (0 .. n) \ W
                      /\ \E x \in V : Parent(wd, x, Q[k + 1])
                      /\ Len(wd[Q[k + 1]]) <= Len(wd[r]) + 1
                      /\ Len(wd[r]) <= Len(wd[Q[k + 1]])
    OBVIOUS
  <2>1. Q[k + 1] \in (0 .. n) \ V /\ Q[k + 1] # r
    BY <1>2, <1>4, <1>5
  <2>2. PICK x \in V : Parent(wd, x, Q[k + 1])
    BY <1>4, <1>5
  <2>3. Len(wd[Q[k + 1]]) = Len(wd[x]) + 1
    BY <1>3, <1>4, <2>1, <2>2
  <2>4. Len(wd[x]) <= Len(wd[r]) /\ Len(wd[x]) \in Nat
    BY <1>9
  <2>5. Len(wd[r]) <= Len(wd[Q[k + 1]])
    BY <1>2, <1>4, <1>5
  <2> QED
    BY <1>8, <2>1, <2>2, <2>3, <2>4, <2>5
<1>12. \A i, j \in 1 .. Len(q2) : q2[i] = q2[j] => i = j
  <2>1. ASSUME NEW i \in 1 .. m - 1, NEW j \in 1 .. m - 1, u[i] = u[j]
        PROVE  i = j
    <3>1. Q[i + 1] = Q[j + 1] /\ i + 1 \in 1 .. m /\ j + 1 \in 1 .. m
      BY <1>2, <1>5, <2>1
    <3>2. i + 1 = j + 1
      BY <1>4, <3>1
    <3> QED
      BY <3>2
  <2> QED
    BY <1>6, <2>1
<1>13. \A k \in 1 .. Len(q2) : /\ q2[k] \in (0 .. n) \ W
                               /\ \E x \in W : Parent(wd, x, q2[k])
  BY <1>7, <1>10, <1>11
<1>14. ASSUME NEW s \in (0 .. n) \ W, NEW x \in W, Parent(wd, x, s)
       PROVE  \E k \in 1 .. Len(q2) : q2[k] = s
  <2>1. CASE x = r
    BY <1>6, <1>14, <2>1 DEF Children
  <2>2. CASE x \in V
    <3>1. PICK k \in 1 .. m : Q[k] = s
      BY <1>4, <1>14, <2>2
    <3>2. k # 1
      BY <1>2, <3>1
    <3>3. k - 1 \in 1 .. m - 1 /\ (k - 1) + 1 = k /\ k - 1 \in 1 .. Len(q2)
      BY <1>1, <1>6, <3>2
    <3>4. q2[k - 1] = Q[(k - 1) + 1]
      BY <1>2, <1>6, <3>3
    <3> QED
      BY <3>1, <3>3, <3>4
  <2> QED
    BY <2>1, <2>2
<1>15. ASSUME NEW j \in 1 .. Len(q2), NEW k \in 1 .. Len(q2), j <= k
       PROVE  Len(wd[q2[j]]) <= Len(wd[q2[k]])
  <2>1. CASE k \in 1 .. m - 1
    <3>1. j \in 1 .. m - 1
      BY <1>1, <1>15, <2>1
    <3>2. q2[j] = Q[j + 1] /\ q2[k] = Q[k + 1] /\ j + 1 <= k + 1
      BY <1>2, <1>6, <1>15, <2>1, <3>1
    <3> QED
      BY <1>4, <1>5, <2>1, <3>1, <3>2
  <2>2. CASE k > m - 1
    <3>1. q2[k] \in 0 .. n /\ Parent(wd, r, q2[k])
      BY <1>1, <1>7, <2>2
    <3>2. Len(wd[q2[k]]) = Len(wd[r]) + 1
      BY <1>10, <3>1
    <3>3. Len(wd[q2[j]]) <= Len(wd[r]) + 1
      <4>1. CASE j \in 1 .. m - 1 /\ q2[j] = Q[j + 1]
        BY <1>11, <4>1
      <4>2. CASE q2[j] \in 0 .. n /\ Parent(wd, r, q2[j])
        <5>1. Len(wd[q2[j]]) = Len(wd[r]) + 1
          BY <1>10, <4>2
        <5> QED
          BY <1>8, <5>1
      <4> QED
        BY <1>7, <4>1, <4>2
    <3> QED
      BY <3>2, <3>3
  <2> QED
    BY <1>1, <2>1, <2>2
<1>16. ASSUME NEW v \in W, NEW k \in 1 .. Len(q2)
       PROVE  Len(wd[v]) <= Len(wd[q2[k]])
  <2>1. Len(wd[v]) <= Len(wd[r]) /\ Len(wd[v]) \in Nat
    BY <1>9
  <2>2. Len(wd[r]) <= Len(wd[q2[k]]) /\ Len(wd[q2[k]]) \in Nat
    <3>1. CASE k \in 1 .. m - 1 /\ q2[k] = Q[k + 1]
      BY <1>3, <1>11, <3>1
    <3>2. CASE q2[k] \in 0 .. n /\ Parent(wd, r, q2[k])
      <4>1. Len(wd[q2[k]]) = Len(wd[r]) + 1
        BY <1>10, <3>2
      <4> QED
        BY <1>8, <4>1
    <3> QED
      BY <1>7, <3>1, <3>2
  <2> QED
    BY <1>8, <2>1, <2>2
<1>17. W \subseteq 0 .. n /\ 0 \in W
  BY <1>4, <1>8
<1> QED
  BY <1>6, <1>12, <1>13, <1>14, <1>15, <1>16, <1>17 DEF Frontier

(* What a row of the trie queues.                                          *)
LEMMA RowSuccessors ==
    ASSUME NEW wd, NEW n, Words(wd, n), NEW table, NEW s \in 0 .. n,
           NodeRow(table[s], wd, n, s)
    PROVE  /\ \A i \in Input : GetNextState2(table, s, i) \in Nat
           /\ {GetNextState2(table, s, i) : i \in Input} \ {0} = Children(wd, n, s)
<1> DEFINE row == table[s]
           To(i) == GetNextState2(table, s, i)
<1>1. n \in Nat
  BY DEF Words
<1>2. /\ row \in Row
      /\ \A i \in DOMAIN row : row[i] \in 1 .. n /\ wd[row[i]] = Append(wd[s], i)
      /\ \A t \in 0 .. n, i \in Input : wd[t] = Append(wd[s], i) => i \in DOMAIN row
  BY DEF NodeRow
<1>3. DOMAIN row \subseteq Input
  BY <1>2, RowDomain
<1>4. \A i \in Input : To(i) = IF i \in DOMAIN row THEN row[i] ELSE 0
  BY DEF GetNextState2
<1> HIDE DEF To, row
<1>5. \A i \in Input : To(i) \in Nat
  BY <1>1, <1>2, <1>4
<1>6. ASSUME NEW i \in Input, To(i) # 0
      PROVE  To(i) \in Children(wd, n, s)
  <2>1. i \in DOMAIN row /\ To(i) = row[i]
    BY <1>4, <1>6
  <2>2. To(i) \in 0 .. n /\ wd[To(i)] = Append(wd[s], i)
    BY <1>1, <1>2, <2>1
  <2> QED
    BY <2>2 DEF Children, Parent
<1>7. ASSUME NEW t \in Children(wd, n, s)
      PROVE  t # 0 /\ \E i \in Input : t = To(i)
  <2>1. PICK i \in Input : wd[t] = Append(wd[s], i)
    BY DEF Children, Parent
  <2>2. t \in 0 .. n
    BY DEF Children
  <2>3. i \in DOMAIN row
    BY <1>2, <2>1, <2>2
  <2>4. row[i] \in 0 .. n /\ row[i] # 0 /\ wd[row[i]] = wd[t]
    BY <1>1, <1>2, <2>1, <2>3
  <2>5. row[i] = t
    BY <2>2, <2>4 DEF Words
  <2> QED
    BY <1>4, <2>3, <2>4, <2>5
<1>8. {To(i) : i \in Input} \ {0} = Children(wd, n, s)
  BY <1>6, <1>7
<1> QED
  BY <1>5, <1>8 DEF To

-----------------------------------------------------------------------------
(* Longest suffixes.                                                       *)

(* f is the longest suffix of x among the words. *)
Longest(f, x, wd, n) ==
    /\ f \in 0 .. n
    /\ Ends(wd[f], x)
    /\ \A t \in 0 .. n : Ends(wd[t], x) => Len(wd[t]) <= Len(wd[f])

(* There is only one.                                                      *)
LEMMA LongestUnique ==
    ASSUME NEW wd, NEW n, Words(wd, n), NEW x \in Seq(Input),
           NEW f, Longest(f, x, wd, n), NEW g, Longest(g, x, wd, n)
    PROVE  f = g
<1>1. f \in 0 .. n /\ g \in 0 .. n /\ Ends(wd[f], x) /\ Ends(wd[g], x)
  BY DEF Longest
<1>2. /\ wd[f] \in Seq(Input) /\ wd[g] \in Seq(Input)
      /\ Len(wd[f]) \in Nat /\ Len(wd[g]) \in Nat
  BY <1>1, WordFacts
<1>3. Len(wd[f]) <= Len(wd[g]) /\ Len(wd[g]) <= Len(wd[f])
  BY <1>1 DEF Longest
<1>4. Len(wd[f]) = Len(wd[g])
  BY <1>2, <1>3
<1>5. Ends(wd[f], wd[g])
  BY <1>1, <1>2, <1>3, EndsOrder
<1>6. wd[f] = wd[g]
  BY <1>2, <1>4, <1>5, EndsOrder
<1> QED
  BY <1>1, <1>6 DEF Words

(* A state is the longest suffix of its own word.                          *)
LEMMA LongestSelf ==
    ASSUME NEW wd, NEW n, Words(wd, n), NEW s \in 0 .. n
    PROVE  Longest(s, wd[s], wd, n)
<1>1. wd[s] \in Seq(Input)
  BY WordFacts
<1>2. Ends(wd[s], wd[s])
  BY <1>1, EndsOrder
<1> QED
  BY <1>2 DEF Longest, Ends

(* A word that ends a string with a byte added comes from a word that ends *)
(* the string.                                                             *)
LEMMA EndsParent ==
    ASSUME NEW wd, NEW n, Words(wd, n), NEW x \in Seq(Input), NEW a \in Input,
           NEW t \in (0 .. n) \ {0}, Ends(wd[t], Append(x, a))
    PROVE  \E r \in 0 .. n : wd[t] = Append(wd[r], a) /\ Ends(wd[r], x)
<1>1. PICK r \in 0 .. n : Parent(wd, r, t)
  BY WordFacts
<1>2. PICK i \in Input : wd[t] = Append(wd[r], i)
  BY <1>1 DEF Parent
<1>3. wd[r] \in Seq(Input)
  BY WordFacts
<1>4. i = a /\ Ends(wd[r], x)
  BY <1>2, <1>3, EndsAppend
<1> QED
  BY <1>2, <1>4

(* The longest suffix can be taken in two steps.                           *)
LEMMA LongestStep ==
    ASSUME NEW wd, NEW n, Words(wd, n), NEW x \in Seq(Input), NEW a \in Input,
           NEW f, Longest(f, x, wd, n), NEW g, Longest(g, Append(wd[f], a), wd, n)
    PROVE  Longest(g, Append(x, a), wd, n)
<1>1. f \in 0 .. n /\ g \in 0 .. n /\ Ends(wd[f], x) /\ Ends(wd[g], Append(wd[f], a))
  BY DEF Longest
<1>2. /\ wd[f] \in Seq(Input) /\ wd[g] \in Seq(Input)
      /\ Append(wd[f], a) \in Seq(Input) /\ Append(x, a) \in Seq(Input)
      /\ Len(wd[0]) = 0 /\ Len(wd[g]) \in Nat
  BY <1>1, WordFacts, AppendProperties
<1>3. Ends(Append(wd[f], a), Append(x, a))
  BY <1>1, <1>2, EndsAppend
<1>4. Ends(wd[g], Append(x, a))
  <2> DEFINE y == wd[g]
             z == Append(wd[f], a)
             u == Append(x, a)
  <2>1. y \in Seq(Input) /\ z \in Seq(Input) /\ u \in Seq(Input)
    BY <1>2
  <2>2. Ends(y, z) /\ Ends(z, u)
    BY <1>1, <1>3
  <2> HIDE DEF y, z, u
  <2>3. Ends(y, u)
    BY <2>1, <2>2, EndsOrder
  <2> QED
    BY <2>3 DEF y, u
<1>5. ASSUME NEW t \in 0 .. n, Ends(wd[t], Append(x, a)), t # 0
      PROVE  Len(wd[t]) <= Len(wd[g])
  <2>1. PICK r \in 0 .. n : wd[t] = Append(wd[r], a) /\ Ends(wd[r], x)
    BY <1>5, EndsParent
  <2>2. wd[r] \in Seq(Input)
    BY WordFacts
  <2>3. Len(wd[r]) <= Len(wd[f])
    BY <2>1 DEF Longest
  <2>4. Ends(wd[r], wd[f])
    BY <1>1, <1>2, <2>1, <2>2, <2>3, EndsOrder
  <2>5. Ends(wd[t], Append(wd[f], a))
    BY <1>2, <2>1, <2>2, <2>4, EndsAppend
  <2> QED
    BY <2>5 DEF Longest
<1>6. \A t \in 0 .. n : Ends(wd[t], Append(x, a)) => Len(wd[t]) <= Len(wd[g])
  BY <1>2, <1>5
<1> QED
  BY <1>1, <1>4, <1>6 DEF Longest

(* When a string is no word, the longest suffix of it is that of its tail. *)
LEMMA LongestTail ==
    ASSUME NEW wd, NEW n, Words(wd, n), NEW x \in Seq(Input), x # <<>>,
           \A t \in 0 .. n : wd[t] # x, NEW g, Longest(g, Tail(x), wd, n)
    PROVE  Longest(g, x, wd, n)
<1>1. \A t \in 0 .. n : wd[t] \in Seq(Input)
  BY WordFacts
<1>2. \A t \in 0 .. n : Ends(wd[t], x) <=> Ends(wd[t], Tail(x))
  BY <1>1, EndsTail
<1> QED
  BY <1>2 DEF Longest

(* The tail of a longer string.                                            *)
LEMMA TailAppend ==
    ASSUME NEW x \in Seq(Input), x # <<>>, NEW a \in Input
    PROVE  Tail(Append(x, a)) = Append(Tail(x), a)
<1> DEFINE m == Len(x)
           y == Append(x, a)
           u == Tail(x)
           v == Tail(y)
           w == Append(u, a)
<1>1. m \in Nat \ {0}
  BY EmptySeq, LenProperties
<1>2. /\ y \in Seq(Input) /\ y # <<>> /\ Len(y) = m + 1
      /\ \A k \in 1 .. m : y[k] = x[k]
      /\ y[m + 1] = a
  BY AppendProperties
<1>3. u \in Seq(Input) /\ Len(u) = m - 1 /\ \A k \in 1 .. m - 1 : u[k] = x[k + 1]
  BY HeadTailProperties
<1> HIDE DEF y
<1>4. v \in Seq(Input) /\ Len(v) = (m + 1) - 1 /\ \A k \in 1 .. (m + 1) - 1 : v[k] = y[k + 1]
  BY <1>2, HeadTailProperties
<1> HIDE DEF u
<1>5. /\ w \in Seq(Input) /\ Len(w) = (m - 1) + 1
      /\ \A k \in 1 .. m - 1 : w[k] = u[k]
      /\ w[(m - 1) + 1] = a
  BY <1>3, AppendProperties
<1> HIDE DEF v, w, m
<1>6. (m + 1) - 1 = m /\ (m - 1) + 1 = m
  BY <1>1
<1>7. ASSUME NEW k \in 1 .. m
      PROVE  v[k] = w[k]
  <2>1. CASE k = m
    BY <1>1, <1>2, <1>4, <1>5, <1>6, <2>1
  <2>2. CASE k # m
    <3>1. k \in 1 .. m - 1 /\ k + 1 \in 1 .. m
      BY <1>1, <2>2
    <3> QED
      BY <1>2, <1>3, <1>4, <1>5, <1>6, <3>1
  <2> QED
    BY <2>1, <2>2
<1>8. Len(v) = Len(w) /\ \A k \in 1 .. Len(v) : v[k] = w[k]
  BY <1>4, <1>5, <1>6, <1>7
<1>9. v = w
  BY <1>4, <1>5, <1>8, SeqEqual
<1> QED
  BY <1>9 DEF v, w, y, u

-----------------------------------------------------------------------------
(* Following the fail states.                                              *)

(* The number of the last state, once state 0 is counted. *)
Top == acsmNumStates - 1

(* FailChain takes a fail state at each step, and stays among the states.  *)
LEMMA FailChainUnfolds ==
    ASSUME acsmNumStates \in Nat, FailState \in [States -> States],
           NEW fs \in States
    PROVE  /\ FailChain(fs) \in [0 .. acsmNumStates -> States]
           /\ FailChain(fs)[0] = fs
           /\ \A j \in 1 .. acsmNumStates :
                 FailChain(fs)[j] = FailState[FailChain(fs)[j - 1]]
<1> DEFINE N == acsmNumStates
           S == States
           step == [x \in (1 .. N) \X S |-> FailState[x[2]]]
<1>1. N \in Nat
  OBVIOUS
<1> HIDE DEF N, S
<1>2. step \in StepFcn(N, S)
  BY DEF StepFcn, S
<1>3. PICK f : Unrolls(f, N, S, fs, step)
  <2>1. fs \in S
    BY DEF S
  <2> HIDE DEF step
  <2> QED
    BY <1>1, <1>2, <2>1, PrimitiveRecursion
<1>4. \A i \in 1 .. N : f[i] = FailState[f[i - 1]]
  <2> SUFFICES ASSUME NEW i \in 1 .. N
               PROVE  f[i] = FailState[f[i - 1]]
    OBVIOUS
  <2>1. f[i - 1] \in S
    <3>1. i - 1 \in 0 .. N
      BY <1>1
    <3> QED
      BY <1>3, <3>1 DEF Unrolls
  <2>2. step[<<i, f[i - 1]>>] = FailState[f[i - 1]]
    BY <2>1
  <2> QED
    BY <1>3, <2>2 DEF Unrolls
<1>5. f = [i \in 0 .. N |-> IF i = 0 THEN fs ELSE FailState[f[i - 1]]]
  <2>1. \A i \in 0 .. N : f[i] = IF i = 0 THEN fs ELSE FailState[f[i - 1]]
    BY <1>1, <1>3, <1>4 DEF Unrolls
  <2> QED
    BY <1>3, <2>1 DEF Unrolls
<1> DEFINE c == CHOOSE c : c = [i \in 0 .. N |-> IF i = 0 THEN fs
                                                 ELSE FailState[c[i - 1]]]
<1>6. c = [i \in 0 .. N |-> IF i = 0 THEN fs ELSE FailState[c[i - 1]]]
  BY <1>5
<1>7. FailChain(fs) = c
  BY DEF FailChain, N
<1> HIDE DEF c
<1>8. \A i \in 0 .. N : c[i] = IF i = 0 THEN fs ELSE FailState[c[i - 1]]
  BY <1>6
<1> DEFINE P == {i \in 0 .. N : c[i] \in S}
<1>9. 0 \in P
  BY <1>1, <1>8 DEF S
<1>10. \A i \in 0 .. N : i \in P /\ i < N => i + 1 \in P
  <2> SUFFICES ASSUME NEW i \in P, i < N
               PROVE  i + 1 \in P
    OBVIOUS
  <2>1. i + 1 \in 1 .. N /\ i + 1 \in 0 .. N /\ (i + 1) - 1 = i
    BY <1>1
  <2>2. c[i + 1] = FailState[c[i]]
    BY <1>8, <2>1
  <2> QED
    BY <2>1, <2>2 DEF S
<1>11. 0 .. N \subseteq P
  <2> HIDE DEF P, N
  <2> QED
    BY <1>1, <1>9, <1>10, RangeInduction
<1>12. c \in [0 .. N -> S]
  BY <1>6, <1>11
<1>13. c[0] = fs /\ \A j \in 1 .. N : c[j] = FailState[c[j - 1]]
  BY <1>1, <1>8
<1> QED
  BY <1>7, <1>12, <1>13 DEF N, S

(* The fail states of the states no longer than l are right, and so are    *)
(* their rows.                                                             *)
FailsUpTo(l) ==
    /\ FailState \in [States -> States]
    /\ \A s \in States \ {0} : Len(word[s]) <= l
          => Longest(FailState[s], Tail(word[s]), word, Top)
    /\ \A s \in States : Len(word[s]) <= l
          => NodeRow(TransTable[s], word, Top, s)

(* The first j of a chain: as long as state 0 is not met, each is a suffix *)
(* of x, they get shorter, and no suffix of x is passed over.              *)
ChainTo(c, x, j) ==
    /\ Ends(word[c[j]], x)
    /\ Len(word[c[j]]) + j <= Len(word[c[0]])
    /\ \A t \in States : Ends(word[t], x) /\ Len(word[c[j]]) < Len(word[t])
          => \E l \in 0 .. j - 1 : t = c[l]

(* Following one more fail state passes over no suffix: the fail state is  *)
(* the longest one that is shorter.                                        *)
LEMMA ChainStep ==
    ASSUME acsmNumStates \in Nat \ {0}, Words(word, Top), NEW x \in Seq(Input),
           NEW c \in [0 .. acsmNumStates -> States],
           FailsUpTo(Len(word[c[0]])),
           NEW j \in 0 .. acsmNumStates - 1, c[j + 1] = FailState[c[j]],
           c[j] # 0, ChainTo(c, x, j)
    PROVE  ChainTo(c, x, j + 1)
<1> DEFINE s == c[j]
           f == c[j + 1]
<1>1. j \in 0 .. acsmNumStates /\ j + 1 \in 0 .. acsmNumStates /\ j \in Nat
  OBVIOUS
<1>2. States = 0 .. Top
  BY DEF States, Top
<1>3. s \in States \ {0} /\ f \in States /\ c[0] \in States
  BY <1>1
<1>4. /\ \A t \in States : word[t] \in Seq(Input) /\ Len(word[t]) \in Nat
      /\ \A t \in States : t # 0 => \E r \in States : Parent(word, r, t)
      /\ \A r, t \in States : Parent(word, r, t) => word[t] # <<>>
      /\ \A r, t \in States : word[r] = word[t] => r = t
  <2>1. \A r, t \in States : word[r] = word[t] => r = t
    BY <1>2 DEF Words
  <2> QED
    BY <1>2, <2>1, WordFacts
<1>5. /\ Ends(word[s], x)
      /\ Len(word[s]) + j <= Len(word[c[0]])
      /\ \A t \in States : Ends(word[t], x) /\ Len(word[s]) < Len(word[t])
            => \E l \in 0 .. j - 1 : t = c[l]
  BY DEF ChainTo
<1> HIDE DEF s, f
<1>6. word[s] \in Seq(Input) /\ word[s] # <<>> /\ word[f] \in Seq(Input)
  BY <1>3, <1>4
<1>7. Len(word[s]) <= Len(word[c[0]])
  BY <1>1, <1>3, <1>4, <1>5
<1>8. Longest(f, Tail(word[s]), word, Top)
  BY <1>3, <1>7 DEF FailsUpTo, s, f
<1>9. Ends(word[f], word[s]) /\ Len(word[f]) < Len(word[s])
  <2>1. Ends(word[f], Tail(word[s]))
    BY <1>8 DEF Longest
  <2> QED
    BY <1>6, <2>1, EndsTail
<1>10. Ends(word[f], x)
  BY <1>5, <1>6, <1>9, EndsOrder
<1>11. Len(word[f]) + (j + 1) <= Len(word[c[0]])
  <2>1. /\ Len(word[s]) \in Nat /\ Len(word[f]) \in Nat
        /\ Len(word[c[0]]) \in Nat /\ j \in Nat
    BY <1>1, <1>3, <1>4
  <2>2. Len(word[s]) + j <= Len(word[c[0]]) /\ Len(word[f]) < Len(word[s])
    BY <1>5, <1>9
  <2> QED
    BY <2>1, <2>2
<1>12. ASSUME NEW t \in States, Ends(word[t], x), Len(word[f]) < Len(word[t])
       PROVE  \E l \in 0 .. j : t = c[l]
  <2>1. CASE Len(word[s]) < Len(word[t])
    <3>1. PICK l \in 0 .. j - 1 : t = c[l]
      BY <1>5, <1>12, <2>1
    <3>2. l \in 0 .. j
      BY <1>1
    <3> QED
      BY <3>1, <3>2
  <2>2. CASE ~ (Len(word[s]) < Len(word[t]))
    <3>1. Len(word[t]) <= Len(word[s]) /\ word[t] \in Seq(Input)
      BY <1>3, <1>4, <2>2
    <3>2. Ends(word[t], word[s])
      BY <1>5, <1>6, <1>12, <3>1, EndsOrder
    <3>3. word[t] = word[s] \/ Ends(word[t], Tail(word[s]))
      BY <1>6, <3>1, <3>2, EndsTail
    <3>4. ~ Ends(word[t], Tail(word[s]))
      <4> SUFFICES ASSUME Ends(word[t], Tail(word[s]))
                   PROVE  FALSE
        OBVIOUS
      <4>1. Len(word[t]) <= Len(word[f])
        BY <1>2, <1>8 DEF Longest
      <4> QED
        BY <1>3, <1>4, <1>12, <4>1
    <3>5. t = s
      BY <1>3, <1>4, <3>3, <3>4
    <3>6. j \in 0 .. j
      BY <1>1
    <3> QED
      BY <3>5, <3>6 DEF s
  <2> QED
    BY <2>1, <2>2
<1>13. (j + 1) - 1 = j
  BY <1>1
<1> QED
  BY <1>10, <1>11, <1>12, <1>13 DEF ChainTo, f

(* So it is all along the chain, until state 0 is met.                     *)
LEMMA ChainHolds ==
    ASSUME acsmNumStates \in Nat \ {0}, Words(word, Top), NEW x \in Seq(Input),
           NEW fs \in States, Longest(fs, x, word, Top),
           FailsUpTo(Len(word[fs])),
           NEW k \in 0 .. acsmNumStates, \A l \in 0 .. k - 1 : FailChain(fs)[l] # 0
    PROVE  ChainTo(FailChain(fs), x, k)
<1> DEFINE c == FailChain(fs)
           N == acsmNumStates
           P == {j \in 0 .. k : ChainTo(c, x, j)}
<1>1. /\ c \in [0 .. N -> States]
      /\ c[0] = fs
      /\ \A j \in 1 .. N : c[j] = FailState[c[j - 1]]
  BY FailChainUnfolds DEF FailsUpTo
<1>2. States = 0 .. Top
  BY DEF States, Top
<1> HIDE DEF c
<1>3. 0 \in P
  <2>1. Len(word[fs]) \in Nat
    BY <1>2, WordFacts
  <2>2. ChainTo(c, x, 0)
    <3>1. \A t \in States : Ends(word[t], x) => ~ (Len(word[fs]) < Len(word[t]))
      <4> SUFFICES ASSUME NEW t \in States, Ends(word[t], x)
                   PROVE  ~ (Len(word[fs]) < Len(word[t]))
        OBVIOUS
      <4>1. Len(word[t]) <= Len(word[fs]) /\ Len(word[t]) \in Nat
        BY <1>2, WordFacts DEF Longest
      <4> QED
        BY <2>1, <4>1
    <3>2. Ends(word[fs], x)
      BY DEF Longest
    <3> QED
      BY <1>1, <2>1, <3>1, <3>2 DEF ChainTo
  <2> QED
    BY <2>2
<1>4. \A j \in 0 .. k : j \in P /\ j < k => j + 1 \in P
  <2> SUFFICES ASSUME NEW j \in 0 .. k, j \in P, j < k
               PROVE  j + 1 \in P
    OBVIOUS
  <2>1. /\ j \in 0 .. N - 1 /\ j + 1 \in 0 .. k /\ j + 1 \in 1 .. N
        /\ (j + 1) - 1 = j /\ j \in 0 .. k - 1
    OBVIOUS
  <2>2. c[j + 1] = FailState[c[j]] /\ c[j] # 0
    BY <1>1, <2>1 DEF c
  <2>3. ChainTo(c, x, j) /\ FailsUpTo(Len(word[c[0]]))
    BY <1>1
  <2>4. ChainTo(c, x, j + 1)
    BY <1>1, <2>1, <2>2, <2>3, ChainStep
  <2> QED
    BY <2>1, <2>4
<1>5. 0 .. k \subseteq P
  <2> HIDE DEF P
  <2>1. k \in Nat
    OBVIOUS
  <2> QED
    BY <1>3, <1>4, <2>1, RangeInduction
<1> QED
  BY <1>5 DEF c

(* Following the fail states ends in state 0 at the latest, which has a    *)
(* transition on every input; so a first state on the way has one.         *)
LEMMA FailChainTakes ==
    ASSUME acsmNumStates \in Nat \ {0}, acsmNumStates <= FAIL,
           Words(word, Top), NEW x \in Seq(Input),
           NEW fs \in States, Longest(fs, x, word, Top),
           FailsUpTo(Len(word[fs])), NEW a \in Input
    PROVE  LET c == FailChain(fs)
               Takes(j) == GetNextState(TransTable, c[j], a) # FAIL
           IN  /\ \A j \in 0 .. acsmNumStates : c[j] = 0 => Takes(j)
               /\ \E j \in 0 .. acsmNumStates :
                     Takes(j) /\ \A l \in 0 .. j - 1 : ~ Takes(l)
<1> DEFINE c == FailChain(fs)
           N == acsmNumStates
           Takes(j) == GetNextState(TransTable, c[j], a) # FAIL
           First(j) == Takes(j) /\ \A l \in 0 .. j - 1 : ~ Takes(l)
           Met == {j \in 0 .. N : Takes(j)}
<1>1. /\ c \in [0 .. N -> States]
      /\ c[0] = fs
  BY FailChainUnfolds DEF FailsUpTo
<1>2. /\ States = 0 .. Top
      /\ Top \in Nat /\ N = Top + 1 /\ N \in Nat
      /\ FAIL \in Nat /\ FAIL # 0 /\ Top < FAIL
  BY BuildAssumption DEF States, Top
<1>3. /\ \A t \in States : /\ word[t] \in Seq(Input) /\ Len(word[t]) \in Nat
                           /\ Len(word[t]) <= t
      /\ 0 \in States /\ word[0] = <<>> /\ Len(word[0]) = 0
      /\ \A r, t \in States : word[r] = word[t] => r = t
  <2>1. \A r, t \in States : word[r] = word[t] => r = t
    BY <1>2 DEF Words
  <2>2. \A t \in States : Len(word[t]) <= t
    BY <1>2 DEF Words
  <2> QED
    BY <1>2, <2>1, <2>2, WordFacts
<1>4. \A k \in 0 .. N : (\A l \in 0 .. k - 1 : c[l] # 0) => ChainTo(c, x, k)
  BY ChainHolds
<1> HIDE DEF c
<1>6. \A j \in 0 .. N : c[j] = 0 => Takes(j)
  <2> SUFFICES ASSUME NEW j \in 0 .. N, c[j] = 0
               PROVE  Takes(j)
    OBVIOUS
  <2>1. NodeRow(TransTable[0], word, Top, 0)
    <3>1. Len(word[fs]) \in Nat
      BY <1>3
    <3>2. 0 \in States /\ Len(word[0]) <= Len(word[fs])
      BY <1>3, <3>1
    <3> QED
      BY <3>2 DEF FailsUpTo
  <2>2. \A i \in DOMAIN TransTable[0] : TransTable[0][i] \in 1 .. Top
    BY <2>1 DEF NodeRow
  <2> QED
    BY <1>2, <2>2 DEF GetNextState
<1>7. \E j \in 0 .. N : c[j] = 0
  <2> SUFFICES ASSUME \A j \in 0 .. N : c[j] # 0
               PROVE  FALSE
    OBVIOUS
  <2>1. N \in 0 .. N /\ \A l \in 0 .. N - 1 : l \in 0 .. N
    BY <1>2
  <2>2. ChainTo(c, x, N)
    BY <1>4, <2>1
  <2>3. Len(word[c[N]]) + N <= Len(word[fs])
    BY <1>1, <2>2 DEF ChainTo
  <2>4. c[N] \in States
    BY <1>1, <2>1
  <2>5. Len(word[c[N]]) \in Nat /\ Len(word[fs]) \in Nat /\ Len(word[fs]) <= fs
    BY <1>3, <2>4
  <2>6. fs \in Nat /\ fs <= Top
    BY <1>2
  <2>7. N = Top + 1 /\ Top \in Nat
    BY <1>2
  <2> DEFINE u == Len(word[c[N]])
             v == Len(word[fs])
  <2>8. u + N <= v /\ u \in Nat /\ v \in Nat /\ v <= fs
    BY <2>3, <2>5
  <2> HIDE DEF N, u, v
  <2> QED
    BY <2>6, <2>7, <2>8
<1>8. Met \subseteq Nat /\ Met # {}
  BY <1>6, <1>7
<1>9. \E j \in 0 .. N : First(j)
  <2> HIDE DEF Takes
  <2>1. PICK j \in Met : \A l \in Met : j <= l
    <3> HIDE DEF Met
    <3> QED
      BY <1>8, LeastElement
  <2>2. \A l \in 0 .. j - 1 : l \in 0 .. N /\ ~ (j <= l)
    BY <1>2
  <2> QED
    BY <2>1, <2>2
<1> QED
  BY <1>6, <1>9 DEF c

(* The loop that looks for a transition finds the longest suffix of the    *)
(* string with the byte added.                                             *)
LEMMA NextValidLongest ==
    ASSUME acsmNumStates \in Nat \ {0}, acsmNumStates <= FAIL,
           Words(word, Top), NEW x \in Seq(Input),
           NEW fs \in States, Longest(fs, x, word, Top),
           FailsUpTo(Len(word[fs])), NEW a \in Input
    PROVE  Longest(NextValid(fs, a), Append(x, a), word, Top)
<1> DEFINE c == FailChain(fs)
           N == acsmNumStates
           Takes(j) == GetNextState(TransTable, c[j], a) # FAIL
           First(j) == Takes(j) /\ \A l \in 0 .. j - 1 : ~ Takes(l)
           first == CHOOSE j \in 0 .. N : First(j)
<1>1. /\ c \in [0 .. N -> States]
      /\ c[0] = fs
  BY FailChainUnfolds DEF FailsUpTo
<1>2. /\ States = 0 .. Top
      /\ Top \in Nat /\ N = Top + 1 /\ N \in Nat
      /\ FAIL \in Nat /\ FAIL # 0 /\ Top < FAIL
  BY BuildAssumption DEF States, Top
<1>3. /\ \A t \in States : /\ word[t] \in Seq(Input) /\ Len(word[t]) \in Nat
                           /\ Len(word[t]) <= t
      /\ 0 \in States /\ word[0] = <<>> /\ Len(word[0]) = 0
      /\ \A r, t \in States : word[r] = word[t] => r = t
  <2>1. \A r, t \in States : word[r] = word[t] => r = t
    BY <1>2 DEF Words
  <2>2. \A t \in States : Len(word[t]) <= t
    BY <1>2 DEF Words
  <2> QED
    BY <1>2, <2>1, <2>2, WordFacts
<1>4. \A k \in 0 .. N : (\A l \in 0 .. k - 1 : c[l] # 0) => ChainTo(c, x, k)
  BY ChainHolds
<1>5. NextValid(fs, a) = GetNextState(TransTable, c[first], a)
  BY DEF NextValid
<1>6. \A j \in 0 .. N : c[j] = 0 => Takes(j)
  BY FailChainTakes
<1>9. \E j \in 0 .. N : First(j)
  BY FailChainTakes
<1> HIDE DEF c
<1>10. first \in 0 .. N /\ First(first)
  <2> HIDE DEF First
  <2> QED
    BY <1>9
<1> HIDE DEF first
<1>11. \A l \in 0 .. first - 1 : l \in 0 .. N /\ c[l] # 0 /\ ~ Takes(l)
  BY <1>2, <1>6, <1>10
<1> DEFINE s == c[first]
           g == NextValid(fs, a)
           y == Append(x, a)
<1>12. ChainTo(c, x, first)
  BY <1>4, <1>10, <1>11
<1>13. s \in States /\ g = GetNextState(TransTable, s, a) /\ g # FAIL
  BY <1>1, <1>5, <1>10
<1>14. /\ Ends(word[s], x)
       /\ \A t \in States : Ends(word[t], x) /\ Len(word[s]) < Len(word[t])
             => \E l \in 0 .. first - 1 : t = c[l]
       /\ Len(word[s]) + first <= Len(word[fs])
  BY <1>1, <1>12 DEF ChainTo
<1>15. \A t \in States : Ends(word[t], x) => Len(word[t]) <= Len(word[fs])
  BY <1>2 DEF Longest
<1>16. \A t \in States : Ends(word[t], x) => NodeRow(TransTable[t], word, Top, t)
  BY <1>15 DEF FailsUpTo
<1> HIDE DEF s, g, y, Takes
<1>17. ASSUME NEW t \in States, Ends(word[t], x), Len(word[s]) < Len(word[t])
       PROVE  a \notin DOMAIN TransTable[t]
  <2>1. PICK l \in 0 .. first - 1 : t = c[l]
    BY <1>14, <1>17
  <2>2. GetNextState(TransTable, t, a) = FAIL
    BY <1>11, <2>1 DEF Takes
  <2>3. NodeRow(TransTable[t], word, Top, t)
    BY <1>16, <1>17
  <2>4. \A i \in DOMAIN TransTable[t] : TransTable[t][i] # FAIL
    BY <1>2, <2>3 DEF NodeRow
  <2> QED
    BY <2>2, <2>4 DEF GetNextState
<1>18. ASSUME NEW t \in States, t # 0, Ends(word[t], y)
       PROVE  \E r \in States : /\ word[t] = Append(word[r], a)
                                /\ Ends(word[r], x)
                                /\ a \in DOMAIN TransTable[r]
                                /\ Len(word[r]) <= Len(word[s])
                                /\ Len(word[t]) = Len(word[r]) + 1
  <2>1. PICK r \in States : word[t] = Append(word[r], a) /\ Ends(word[r], x)
    BY <1>2, <1>18, EndsParent DEF y
  <2>2. NodeRow(TransTable[r], word, Top, r)
    BY <1>16, <2>1
  <2>3. a \in DOMAIN TransTable[r]
    BY <1>2, <2>1, <2>2 DEF NodeRow
  <2>4. Len(word[r]) <= Len(word[s])
    BY <1>3, <1>13, <1>17, <2>1, <2>3
  <2>5. word[r] \in Seq(Input)
    BY <1>3
  <2>6. Len(word[t]) = Len(word[r]) + 1
    BY <2>1, <2>5, AppendProperties
  <2> QED
    BY <2>1, <2>3, <2>4, <2>6
<1>19. word[s] \in Seq(Input) /\ y \in Seq(Input) /\ Len(word[s]) \in Nat
  BY <1>3, <1>13, AppendProperties DEF y
<1>20. CASE a \in DOMAIN TransTable[s]
  <2>1. g = TransTable[s][a]
    BY <1>13, <1>20 DEF GetNextState
  <2>2. NodeRow(TransTable[s], word, Top, s)
    BY <1>13, <1>14, <1>16
  <2>3. g \in States /\ word[g] = Append(word[s], a)
    BY <1>2, <1>20, <2>1, <2>2 DEF NodeRow
  <2>4. Ends(word[g], y)
    BY <1>14, <1>19, <2>3, EndsAppend DEF y
  <2>5. Len(word[g]) = Len(word[s]) + 1
    BY <1>19, <2>3, AppendProperties
  <2>6. ASSUME NEW t \in States, Ends(word[t], y)
        PROVE  Len(word[t]) <= Len(word[g])
    <3>1. CASE t = 0
      BY <1>3, <1>19, <2>5, <3>1
    <3>2. CASE t # 0
      <4>1. PICK r \in States : /\ Len(word[r]) <= Len(word[s])
                                /\ Len(word[t]) = Len(word[r]) + 1
        BY <1>18, <2>6, <3>2
      <4>2. Len(word[r]) \in Nat
        BY <1>3
      <4> QED
        BY <1>19, <2>5, <4>1, <4>2
    <3> QED
      BY <3>1, <3>2
  <2>7. Longest(g, y, word, Top)
    BY <1>2, <2>3, <2>4, <2>6 DEF Longest
  <2> QED
    BY <2>7 DEF g, y
<1>21. CASE a \notin DOMAIN TransTable[s]
  <2>1. s = 0 /\ g = 0
    BY <1>13, <1>21 DEF GetNextState
  <2>2. Ends(word[0], y)
    BY <1>3, <1>19, EndsOrder
  <2>3. ASSUME NEW t \in States, Ends(word[t], y)
        PROVE  t = 0
    <3> SUFFICES ASSUME t # 0
                 PROVE  FALSE
      OBVIOUS
    <3>1. PICK r \in States : /\ a \in DOMAIN TransTable[r]
                              /\ Len(word[r]) <= Len(word[s])
      BY <1>18, <2>3
    <3>2. Len(word[r]) \in Nat /\ word[r] \in Seq(Input)
      BY <1>3
    <3>3. Len(word[r]) = 0
      BY <1>3, <2>1, <3>1, <3>2
    <3>4. word[r] = <<>>
      BY <3>2, <3>3, EmptySeq
    <3>5. r = 0
      BY <1>3, <3>4
    <3> QED
      BY <1>21, <2>1, <3>1, <3>5
  <2>4. \A t \in 0 .. Top : Ends(word[t], y) => Len(word[t]) <= Len(word[0])
    BY <1>2, <1>3, <2>3
  <2>5. Longest(0, y, word, Top)
    BY <1>2, <1>3, <2>2, <2>4 DEF Longest
  <2> QED
    BY <2>1, <2>5 DEF g, y
<1> QED
  BY <1>20, <1>21

-----------------------------------------------------------------------------
(* The invariant while the fail states are made.                           *)

(* The trie is complete: the words are the prefixes of all patterns.       *)
TrieInv ==
    /\ acsmNumStates \in Nat \ {0}
    /\ acsmNumStates <= acsmMaxStates
    /\ acsmNumStates <= FAIL
    /\ Words(word, Top)
    /\ Covered(word, Top, Len(acsmPatterns))

(* The patterns a string ends with. *)
Endings(w) == {p \in ToSet(acsmPatterns) : Ends(p.patrn, w)}

(* A state has its fail state and its matches once its parent is visited. *)
Settled(V, s) == s = 0 \/ \E r \in V : Parent(word, r, s)

FailsInv(V) ==
    /\ FailState \in [States -> States]
    /\ \A s \in States \ {0} :
          Settled(V, s) => Longest(FailState[s], Tail(word[s]), word, Top)

ListsInv(V) ==
    \A s \in States :
       Lists(MatchList[s], Pattern,
             IF Settled(V, s) THEN Endings(word[s])
             ELSE Own(Len(acsmPatterns), word[s]))

RowsInv == \A s \in States : NodeRow(TransTable[s], word, Top, s)

NfaInv(V) == /\ Frontier(queue, V, word, Top)
             /\ FailsInv(V)
             /\ ListsInv(V)
             /\ RowsInv

(* The patterns, as a set.                                                 *)
LEMMA PatternSet ==
    ASSUME PatternsInv, NEW w \in Seq(Input)
    PROVE  /\ ToSet(acsmPatterns) \subseteq Pattern
           /\ \A p \in ToSet(acsmPatterns) :
                 \E k \in 1 .. Len(acsmPatterns) : p = acsmPatterns[k]
           /\ Own(Len(acsmPatterns), w) = {p \in ToSet(acsmPatterns) : p.patrn = w}
<1>1. acsmPatterns \in Seq(Pattern)
  BY DEF PatternsInv
<1>2. DOMAIN acsmPatterns = 1 .. Len(acsmPatterns)
  BY <1>1, LenProperties
<1>3. ToSet(acsmPatterns) = {acsmPatterns[k] : k \in 1 .. Len(acsmPatterns)}
  BY <1>2 DEF ToSet
<1>4. \A k \in 1 .. Len(acsmPatterns) : acsmPatterns[k] \in Pattern
  BY <1>1, ElementOfSeq
<1>5. Own(Len(acsmPatterns), w) = {p \in ToSet(acsmPatterns) : p.patrn = w}
  BY <1>3 DEF Own
<1> QED
  BY <1>3, <1>4, <1>5

(* What ends with a string of one byte, or of none, is that string.        *)
LEMMA ShortEndings ==
    ASSUME PatternsInv, NEW w \in Seq(Input), Len(w) <= 1
    PROVE  Endings(w) = Own(Len(acsmPatterns), w)
<1>1. ASSUME NEW p \in ToSet(acsmPatterns)
      PROVE  Ends(p.patrn, w) <=> p.patrn = w
  <2>1. p \in Pattern
    BY PatternSet
  <2>2. p.patrn \in Seq(Input) /\ Len(p.patrn) \in Nat \ {0}
    BY <2>1, PatternText
  <2>3. Len(w) \in Nat
    BY LenProperties
  <2>4. ASSUME Ends(p.patrn, w)
        PROVE  p.patrn = w
    <3>1. Len(p.patrn) = Len(w)
      BY <2>2, <2>3, <2>4 DEF Ends
    <3> QED
      BY <2>2, <2>4, <3>1, EndsOrder
  <2>5. Ends(w, w)
    BY EndsOrder
  <2> QED
    BY <2>4, <2>5
<1> QED
  BY <1>1, PatternSet DEF Endings

(* State 0 is counted when the last pattern is laid out, and what is at    *)
(* depth 1 fails to it.                                                    *)
LEMMA BeginNFAInv ==
    ASSUME PatternsInv, TablesInv, NEW d, LayoutInv(d), BeginNFA
    PROVE  TablesInv' /\ TrieInv' /\ NfaInv({0})'
<1> DEFINE n == acsmNumStates
<1>1. /\ plist = <<>>
      /\ acsmNumStates' = n + 1
      /\ FailState' = [s \in 0 .. n |-> 0]
      /\ queue' = QueueSuccessors(<<>>, TransTable, 0)
      /\ acsmPatterns' = acsmPatterns /\ acsmMaxStates' = acsmMaxStates
      /\ TransTable' = TransTable /\ MatchList' = MatchList /\ word' = word
  BY DEF BeginNFA
<1>2. /\ Len(plist) = Len(acsmPatterns) - d
      /\ d \in 0 .. Len(acsmPatterns)
      /\ n < CountStates(acsmPatterns)[d]
      /\ Trie(TransTable, word, n)
      /\ Covered(word, n, d)
      /\ \A s \in 0 .. n : Lists(MatchList[s], Pattern, Own(d, word[s]))
  BY DEF LayoutInv
<1>3. /\ acsmPatterns \in Seq(Pattern) /\ Len(acsmPatterns) \in Nat
      /\ Len(acsmPatterns) <= MaxPatterns
  BY LenProperties DEF PatternsInv
<1>4. d = Len(acsmPatterns)
  <2>1. Len(plist) = 0
    BY <1>1, EmptySeq
  <2> QED
    BY <1>2, <1>3, <2>1
<1>5. Words(word, n) /\ \A s \in 0 .. n : NodeRow(TransTable[s], word, n, s)
  BY <1>2 DEF Trie
<1>6. /\ n \in Nat /\ 0 \in 0 .. n /\ word[0] = <<>> /\ Len(word[0]) = 0
      /\ \A s \in 0 .. n : word[s] \in Seq(Input) /\ Len(word[s]) \in Nat
      /\ \A r, s \in 0 .. n : Parent(word, r, s) =>
            Len(word[s]) = Len(word[r]) + 1 /\ s # 0 /\ word[s] # <<>>
  BY <1>5, WordFacts
<1>7. n + 1 <= acsmMaxStates /\ acsmMaxStates <= FAIL /\ acsmMaxStates \in Nat
  <2>1. CountStates(acsmPatterns)[d] \in Nat
    BY <1>3, <1>4, CountUnfolds
  <2>2. acsmMaxStates <= FAIL
    BY <1>3, CountBelowFAIL DEF TablesInv
  <2> QED
    BY <1>2, <1>4, <1>6, <2>1, <2>2 DEF TablesInv
<1> HIDE DEF n
<1>8. Top' = n /\ States' = 0 .. n
  BY <1>1, <1>6 DEF Top, States
<1>9. TablesInv'
  BY <1>1 DEF TablesInv
<1>10. TrieInv'
  <2>1. n + 1 \in Nat \ {0} /\ n + 1 <= FAIL
    BY <1>6, <1>7, BuildAssumption
  <2>2. Covered(word, Top, Len(acsmPatterns))'
    BY <1>1, <1>2, <1>4, <1>8 DEF Covered
  <2> QED
    BY <1>1, <1>4, <1>5, <1>7, <1>8, <2>1, <2>2 DEF TrieInv
<1>11. Frontier(queue', {0}, word, n)
  <2>1. /\ \A i \in Input : GetNextState2(TransTable, 0, i) \in Nat
        /\ {GetNextState2(TransTable, 0, i) : i \in Input} \ {0} = Children(word, n, 0)
    BY <1>5, <1>6, RowSuccessors
  <2> DEFINE e == <<>>
  <2>2. e \in Seq(Nat)
    OBVIOUS
  <2> HIDE DEF e
  <2>3. Queued(QueueSuccessors(e, TransTable, 0), e, Children(word, n, 0))
    BY <2>1, <2>2, QueueSuccessorsQueued
  <2>4. Queued(queue', <<>>, Children(word, n, 0))
    BY <1>1, <2>3 DEF e
  <2> QED
    BY <1>5, <2>4, FrontierInit
<1>12. ASSUME NEW s \in 0 .. n, Settled({0}, s)'
       PROVE  Len(word[s]) <= 1 /\ (s # 0 => Tail(word[s]) = <<>>)
  <2>1. s = 0 \/ Parent(word, 0, s)
    BY <1>1, <1>12 DEF Settled
  <2>2. CASE s = 0
    BY <1>6, <2>2
  <2>3. CASE Parent(word, 0, s)
    <3>1. Len(word[s]) = 1 /\ word[s] # <<>> /\ word[s] \in Seq(Input)
      <4>1. s \in 0 .. n /\ 0 \in 0 .. n
        BY <1>6
      <4>2. Len(word[s]) = Len(word[0]) + 1 /\ word[s] # <<>>
        BY <1>6, <2>3, <4>1
      <4>3. Len(word[s]) = 1
        BY <1>6, <4>2
      <4> QED
        BY <1>6, <4>1, <4>2, <4>3
    <3>2. Tail(word[s]) \in Seq(Input) /\ Len(Tail(word[s])) = 1 - 1
      BY <3>1, HeadTailProperties
    <3>3. Tail(word[s]) = <<>>
      <4> DEFINE u == Tail(word[s])
      <4>1. u \in Seq(Input) /\ Len(u) = 0
        BY <3>2
      <4> HIDE DEF u
      <4>2. u = <<>>
        BY <4>1, EmptySeq
      <4> QED
        BY <4>2 DEF u
    <3> QED
      BY <3>1, <3>3
  <2> QED
    BY <2>1, <2>2, <2>3
<1>13. FailsInv({0})'
  <2>1. FailState' \in [0 .. n -> 0 .. n]
    BY <1>1, <1>6
  <2>2. ASSUME NEW s \in (0 .. n) \ {0}, Settled({0}, s)'
        PROVE  Longest(FailState'[s], Tail(word[s]), word, n)
    <3>1. FailState'[s] = 0 /\ Tail(word[s]) = word[0]
      BY <1>1, <1>6, <1>12, <2>2
    <3>2. Longest(0, word[0], word, n)
      BY <1>5, <1>6, LongestSelf
    <3> QED
      BY <3>1, <3>2
  <2> QED
    BY <1>1, <1>8, <2>1, <2>2 DEF FailsInv
<1>14. ListsInv({0})'
  <2> SUFFICES ASSUME NEW s \in 0 .. n
               PROVE  Lists(MatchList[s], Pattern,
                            IF Settled({0}, s)' THEN Endings(word[s])
                            ELSE Own(Len(acsmPatterns), word[s]))
    BY <1>1, <1>8 DEF ListsInv, Endings, Own
  <2>1. Lists(MatchList[s], Pattern, Own(Len(acsmPatterns), word[s]))
    BY <1>2, <1>4
  <2>2. Settled({0}, s)' => Endings(word[s]) = Own(Len(acsmPatterns), word[s])
    BY <1>6, <1>12, ShortEndings
  <2> QED
    BY <2>1, <2>2
<1>15. RowsInv'
  BY <1>1, <1>5, <1>8 DEF RowsInv
<1>16. NfaInv({0})'
  BY <1>1, <1>8, <1>11, <1>13, <1>14, <1>15 DEF NfaInv
<1> QED
  BY <1>9, <1>10, <1>16

(* The transitions of the trie are its parents and children.               *)
LEMMA ChildFacts ==
    ASSUME TrieInv, RowsInv, NEW r \in States, NEW s \in States
    PROVE  /\ Child(r, s) <=> Parent(word, r, s)
           /\ Parent(word, r, s) => /\ InputTo(r, s) \in Input
                                    /\ word[s] = Append(word[r], InputTo(r, s))
<1> DEFINE row == TransTable[r]
<1>1. /\ States = 0 .. Top
      /\ \A x, t \in States : word[x] = word[t] => x = t
      /\ Top \in Nat
  BY DEF TrieInv, States, Top, Words
<1>2. /\ row \in Row
      /\ \A i \in DOMAIN row : row[i] \in 1 .. Top /\ word[row[i]] = Append(word[r], i)
      /\ \A t \in 0 .. Top, i \in Input :
            word[t] = Append(word[r], i) => i \in DOMAIN row
  BY DEF RowsInv, NodeRow
<1>3. DOMAIN row \subseteq Input
  BY <1>2, RowDomain
<1>4. \A i \in DOMAIN row : row[i] \in States /\ i \in Input
  BY <1>1, <1>2, <1>3
<1>5. \A i \in Input : word[s] = Append(word[r], i) => i \in DOMAIN row /\ row[i] = s
  BY <1>1, <1>2, <1>4
<1>6. Child(r, s) <=> \E i \in DOMAIN row : row[i] = s
  BY DEF Child
<1>7. Child(r, s) <=> Parent(word, r, s)
  BY <1>2, <1>4, <1>5, <1>6 DEF Parent
<1>8. ASSUME Child(r, s)
      PROVE  InputTo(r, s) \in DOMAIN row /\ row[InputTo(r, s)] = s
  <2> HIDE DEF row
  <2>1. \E i \in DOMAIN row : row[i] = s
    BY <1>6, <1>8
  <2> QED
    BY <2>1 DEF InputTo, row
<1> QED
  BY <1>2, <1>4, <1>7, <1>8

(* What is known of the first state in the queue: shorter states are done. *)
LEMMA HeadFacts ==
    ASSUME TrieInv, NEW V, Frontier(queue, V, word, Top), FailsInv(V),
           queue # <<>>, NEW r, r = Head(queue)
    PROVE  /\ r \in States \ V /\ r # 0
           /\ word[r] \in Seq(Input) /\ word[r] # <<>>
           /\ \A t \in States : Len(word[t]) < Len(word[r])
                 => t \in V /\ Settled(V, t)
           /\ FailState[r] \in States
           /\ Longest(FailState[r], Tail(word[r]), word, Top)
           /\ Len(word[FailState[r]]) < Len(word[r])
<1>1. States = 0 .. Top /\ Words(word, Top)
  BY DEF States, Top, TrieInv
<1>2. /\ r \in States \ V /\ r # 0
      /\ \E x \in V : Parent(word, x, r)
      /\ \A t \in States : Len(word[t]) < Len(word[r]) => t \in V
  BY <1>1, FrontierVisited
<1>3. /\ \A t \in States : word[t] \in Seq(Input) /\ Len(word[t]) \in Nat
      /\ \A t \in States : t # 0 => \E x \in States : Parent(word, x, t)
      /\ \A x, t \in States : Parent(word, x, t)
            => Len(word[t]) = Len(word[x]) + 1 /\ word[t] # <<>>
  BY <1>1, WordFacts
<1>4. word[r] \in Seq(Input) /\ word[r] # <<>>
  BY <1>2, <1>3
<1>5. ASSUME NEW t \in States, Len(word[t]) < Len(word[r])
      PROVE  t \in V /\ Settled(V, t)
  <2>1. CASE t = 0
    BY <1>2, <1>5, <2>1 DEF Settled
  <2>2. CASE t # 0
    <3>1. PICK x \in States : Parent(word, x, t)
      BY <1>3, <2>2
    <3>2. Len(word[x]) < Len(word[r])
      <4>1. Len(word[t]) = Len(word[x]) + 1
        BY <1>3, <3>1
      <4>2. Len(word[x]) \in Nat /\ Len(word[t]) \in Nat /\ Len(word[r]) \in Nat
        BY <1>2, <1>3
      <4> QED
        BY <1>5, <4>1, <4>2
    <3>3. x \in V
      BY <1>2, <3>2
    <3> QED
      BY <1>2, <1>5, <3>1, <3>3 DEF Settled
  <2> QED
    BY <2>1, <2>2
<1>6. FailState[r] \in States /\ Longest(FailState[r], Tail(word[r]), word, Top)
  <2>1. Settled(V, r)
    BY <1>2 DEF Settled
  <2> QED
    BY <1>2, <2>1 DEF FailsInv
<1>7. Len(word[FailState[r]]) < Len(word[r])
  <2>1. word[FailState[r]] \in Seq(Input)
    BY <1>3, <1>6
  <2>2. Ends(word[FailState[r]], Tail(word[r]))
    BY <1>6 DEF Longest
  <2> QED
    BY <1>4, <2>1, <2>2, EndsTail
<1> QED
  BY <1>2, <1>4, <1>5, <1>6, <1>7

(* The fail state found for a successor of the first state in the queue.   *)
LEMMA FailFound ==
    ASSUME TrieInv, NEW V, NfaInv(V), queue # <<>>, NEW r, r = Head(queue),
           NEW s \in States, Parent(word, r, s),
           NEW f, f = NextValid(FailState[r], InputTo(r, s))
    PROVE  /\ f \in States /\ Settled(V, f)
           /\ Longest(f, Tail(word[s]), word, Top)
           /\ ~ Settled(V, s)
<1> DEFINE fs == FailState[r]
           i == InputTo(r, s)
           x == Tail(word[r])
<1>1. Frontier(queue, V, word, Top) /\ FailsInv(V) /\ RowsInv
  BY DEF NfaInv
<1>2. /\ States = 0 .. Top /\ Words(word, Top)
      /\ acsmNumStates \in Nat \ {0} /\ acsmNumStates <= FAIL
  BY DEF States, Top, TrieInv
<1>3. /\ r \in States \ V /\ r # 0
      /\ word[r] \in Seq(Input) /\ word[r] # <<>>
      /\ \A t \in States : Len(word[t]) < Len(word[r])
            => t \in V /\ Settled(V, t)
      /\ fs \in States
      /\ Longest(fs, x, word, Top)
      /\ Len(word[fs]) < Len(word[r])
  BY <1>1, HeadFacts
<1>4. i \in Input /\ word[s] = Append(word[r], i)
  BY <1>1, <1>3, ChildFacts
<1>5. x \in Seq(Input) /\ Tail(word[s]) = Append(x, i)
  BY <1>3, <1>4, HeadTailProperties, TailAppend
<1>6. /\ \A t \in States : word[t] \in Seq(Input) /\ Len(word[t]) \in Nat
      /\ \A p, t \in States : Parent(word, p, t) => word[t] # <<>> /\ t # 0
      /\ \A p, z, t \in States : Parent(word, p, t) /\ Parent(word, z, t) => p = z
      /\ Len(word[s]) = Len(word[r]) + 1
  BY <1>2, <1>3, WordFacts
<1> HIDE DEF fs, i, x
<1>7. FailsUpTo(Len(word[fs]))
  <2>1. \A t \in States : Len(word[t]) <= Len(word[fs]) => Settled(V, t)
    <3> SUFFICES ASSUME NEW t \in States, Len(word[t]) <= Len(word[fs])
                 PROVE  Settled(V, t)
      OBVIOUS
    <3>1. Len(word[t]) \in Nat /\ Len(word[fs]) \in Nat /\ Len(word[r]) \in Nat
      BY <1>3, <1>6
    <3>2. Len(word[t]) < Len(word[r])
      BY <1>3, <3>1
    <3> QED
      BY <1>3, <3>2
  <2> QED
    BY <1>1, <2>1 DEF FailsUpTo, FailsInv, RowsInv
<1>8. Longest(NextValid(fs, i), Append(x, i), word, Top)
  BY <1>2, <1>3, <1>4, <1>5, <1>7, NextValidLongest
<1>9. Longest(f, Tail(word[s]), word, Top)
  BY <1>5, <1>8 DEF fs, i
<1>10. f \in States
  BY <1>2, <1>9 DEF Longest
<1>11. Settled(V, f)
  <2>1. CASE f = 0
    BY <2>1 DEF Settled
  <2>2. CASE f # 0
    <3>1. Ends(word[f], Append(x, i))
      BY <1>5, <1>9 DEF Longest
    <3>2. PICK p \in 0 .. Top : word[f] = Append(word[p], i) /\ Ends(word[p], x)
      BY <1>2, <1>4, <1>5, <1>10, <2>2, <3>1, EndsParent
    <3>3. word[p] \in Seq(Input)
      BY <1>2, <1>6
    <3>4. Len(word[p]) < Len(word[r])
      BY <1>3, <3>2, <3>3, EndsTail DEF x
    <3>5. p \in V
      BY <1>2, <1>3, <3>4
    <3> QED
      BY <1>4, <3>2, <3>5 DEF Settled, Parent
  <2> QED
    BY <2>1, <2>2
<1>12. ~ Settled(V, s)
  <2>1. V \subseteq States
    BY <1>1, <1>2 DEF Frontier
  <2>2. s # 0
    BY <1>3, <1>6
  <2> QED
    BY <1>3, <1>6, <2>1, <2>2 DEF Settled
<1> QED
  BY <1>9, <1>10, <1>11, <1>12

(* The matches of a state are its own and those of its fail state.         *)
LEMMA MatchesJoin ==
    ASSUME PatternsInv, TrieInv, NEW s \in States, s # 0,
           NEW f, Longest(f, Tail(word[s]), word, Top),
           Lists(MatchList[f], Pattern, Endings(word[f])),
           Lists(MatchList[s], Pattern, Own(Len(acsmPatterns), word[s]))
    PROVE  Lists(CopyMatches(MatchList[f], MatchList[s]), Pattern, Endings(word[s]))
<1> DEFINE w == word[s]
           v == word[f]
           own == Own(Len(acsmPatterns), w)
<1>1. States = 0 .. Top /\ Words(word, Top) /\ f \in States
  BY DEF States, Top, TrieInv, Longest
<1>2. /\ w \in Seq(Input) /\ w # <<>> /\ v \in Seq(Input)
      /\ \A t \in States : word[t] \in Seq(Input)
  <2>1. \E r \in 0 .. Top : Parent(word, r, s)
    BY <1>1, WordFacts
  <2> QED
    BY <1>1, <2>1, WordFacts
<1>3. /\ own = {p \in ToSet(acsmPatterns) : p.patrn = w}
      /\ \A p \in ToSet(acsmPatterns) :
            /\ p \in Pattern
            /\ \E k \in 1 .. Len(acsmPatterns) : p = acsmPatterns[k]
  BY <1>2, PatternSet
<1>4. /\ Ends(v, Tail(w))
      /\ \A t \in States : Ends(word[t], Tail(w)) => Len(word[t]) <= Len(v)
  BY <1>1 DEF Longest
<1>5. ASSUME NEW p \in ToSet(acsmPatterns)
      PROVE  \E t \in States : word[t] = p.patrn
  <2>1. PICK k \in 1 .. Len(acsmPatterns) : p = acsmPatterns[k]
    BY <1>3
  <2>2. p.patrn \in Seq(Input) /\ Len(p.patrn) \in Nat
    BY <1>3, PatternText
  <2>3. PICK t \in 0 .. Top : word[t] = SubSeq(p.patrn, 1, Len(p.patrn))
    <3>1. \A l \in 0 .. Len(acsmPatterns[k].patrn) :
             \E t \in 0 .. Top : word[t] = SubSeq(acsmPatterns[k].patrn, 1, l)
      BY DEF TrieInv, Covered
    <3>2. Len(p.patrn) \in 0 .. Len(p.patrn)
      BY <2>2
    <3> QED
      BY <2>1, <3>1, <3>2
  <2>4. SubSeq(p.patrn, 1, Len(p.patrn)) = p.patrn
    BY <2>2, PrefixStep
  <2> QED
    BY <1>1, <2>3, <2>4
<1>6. Tail(w) \in Seq(Input) /\ Ends(v, w) /\ Len(v) < Len(w)
  BY <1>2, <1>4, HeadTailProperties, EndsTail
<1> HIDE DEF w, v, own
<1>7. ASSUME NEW p \in ToSet(acsmPatterns)
      PROVE  /\ Ends(p.patrn, w) <=> (p.patrn = w \/ Ends(p.patrn, v))
             /\ Ends(p.patrn, v) => p.patrn # w
  <2> DEFINE u == p.patrn
  <2>1. PICK t \in States : word[t] = u
    BY <1>5
  <2>2. u \in Seq(Input)
    BY <1>2, <2>1
  <2> HIDE DEF u
  <2>3. Ends(u, w) <=> (u = w \/ Ends(u, Tail(w)))
    BY <1>2, <2>2, EndsTail
  <2>4. ASSUME Ends(u, Tail(w))
        PROVE  Ends(u, v)
    <3>1. Len(u) <= Len(v)
      BY <1>4, <2>1, <2>4
    <3> QED
      BY <1>2, <1>4, <1>6, <2>2, <2>4, <3>1, EndsOrder
  <2>5. ASSUME Ends(u, v)
        PROVE  Ends(u, Tail(w)) /\ u # w
    <3>1. Ends(u, Tail(w))
      BY <1>2, <1>4, <1>6, <2>2, <2>5, EndsOrder
    <3>2. Len(u) < Len(w)
      BY <1>2, <2>2, <3>1, EndsTail
    <3>3. Len(w) \in Nat
      BY <1>2, LenProperties
    <3> QED
      BY <3>1, <3>2, <3>3
  <2> QED
    BY <2>3, <2>4, <2>5 DEF u
<1>8. Endings(v) \cap own = {} /\ Endings(w) = Endings(v) \cup own
  BY <1>3, <1>7 DEF Endings
<1>9. Lists(MatchList[f], Pattern, Endings(v)) /\ Lists(MatchList[s], Pattern, own)
  BY DEF v, w, own
<1>10. Lists(Reverse(MatchList[f]), Pattern, Endings(v))
  BY <1>9, ListsReverse
<1>11. Lists(Reverse(MatchList[f]) \o MatchList[s], Pattern, Endings(v) \cup own)
  BY <1>8, <1>9, <1>10, ListsConcat
<1> QED
  BY <1>8, <1>11 DEF CopyMatches, w

(* A step of Build_NFA settles the successors of the state it takes.       *)
LEMMA NfaStepInv ==
    ASSUME PatternsInv, TablesInv, TrieInv, NEW V, NfaInv(V), NfaStep,
           NEW r, r = Head(queue)
    PROVE  TablesInv' /\ TrieInv' /\ NfaInv(V \cup {r})'
<1> DEFINE W == V \cup {r}
           F(s) == NextValid(FailState[r], InputTo(r, s))
<1>1. /\ queue # <<>>
      /\ FailState' = [s \in DOMAIN FailState |->
                         IF Child(r, s) THEN F(s) ELSE FailState[s]]
      /\ MatchList' = [s \in DOMAIN MatchList |->
                         IF Child(r, s)
                         THEN CopyMatches(MatchList[F(s)], MatchList[s])
                         ELSE MatchList[s]]
      /\ queue' = QueueSuccessors(Tail(queue), TransTable, r)
      /\ acsmPatterns' = acsmPatterns /\ acsmMaxStates' = acsmMaxStates
      /\ acsmNumStates' = acsmNumStates /\ TransTable' = TransTable /\ word' = word
  BY DEF NfaStep
<1>2. Frontier(queue, V, word, Top) /\ FailsInv(V) /\ ListsInv(V) /\ RowsInv
  BY DEF NfaInv
<1>3. /\ States = 0 .. Top /\ Words(word, Top) /\ States' = States /\ Top' = Top
      /\ States \subseteq 0 .. acsmMaxStates - 1
  <2>1. acsmNumStates \in Nat \ {0} /\ acsmNumStates <= acsmMaxStates
    BY DEF TrieInv
  <2>2. CountStates(acsmPatterns)[Len(acsmPatterns)] \in Nat
    <3>1. acsmPatterns \in Seq(Pattern) /\ Len(acsmPatterns) \in Nat
      BY LenProperties DEF PatternsInv
    <3> QED
      BY <3>1, CountUnfolds
  <2>3. acsmMaxStates \in Nat
    BY <2>2 DEF TablesInv
  <2> QED
    BY <1>1, <2>1, <2>3 DEF States, Top, TrieInv
<1>4. r \in States \ V /\ r # 0
  BY <1>1, <1>2, HeadFacts
<1>5. /\ DOMAIN FailState = States /\ FailState \in [States -> States]
      /\ DOMAIN MatchList = 0 .. acsmMaxStates - 1
      /\ \A s \in 0 .. acsmMaxStates - 1 : MatchList[s] \in Seq(Pattern)
  BY <1>2 DEF FailsInv, TablesInv
<1>6. \A s \in States : Child(r, s) <=> Parent(word, r, s)
  BY <1>2, <1>4, ChildFacts
<1>7. \A s : Child(r, s) => s \in States
  <2>1. \A i \in DOMAIN TransTable[r] : TransTable[r][i] \in 1 .. Top
    BY <1>2, <1>4 DEF RowsInv, NodeRow
  <2> QED
    BY <1>3, <2>1 DEF Child
<1>8. ASSUME NEW s \in States, Parent(word, r, s)
      PROVE  /\ F(s) \in States /\ Settled(V, F(s)) /\ ~ Settled(V, s)
             /\ Longest(F(s), Tail(word[s]), word, Top)
  BY <1>1, <1>8, FailFound
<1> HIDE DEF F
<1>9. ASSUME NEW s \in States, Parent(word, r, s)
      PROVE  Lists(CopyMatches(MatchList[F(s)], MatchList[s]), Pattern,
                   Endings(word[s]))
  <2>1. s # 0
    BY <1>3, <1>4, <1>9, WordFacts
  <2>2. Lists(MatchList[F(s)], Pattern, Endings(word[F(s)]))
    BY <1>2, <1>8, <1>9 DEF ListsInv
  <2>3. Lists(MatchList[s], Pattern, Own(Len(acsmPatterns), word[s]))
    BY <1>2, <1>8, <1>9 DEF ListsInv
  <2> QED
    BY <1>8, <1>9, <2>1, <2>2, <2>3, MatchesJoin
<1>10. \A s \in States : Settled(W, s) <=> Settled(V, s) \/ Parent(word, r, s)
  BY DEF Settled
<1>11. TablesInv'
  <2>1. \A s \in 0 .. acsmMaxStates - 1 : MatchList'[s] \in Seq(Pattern)
    <3> SUFFICES ASSUME NEW s \in 0 .. acsmMaxStates - 1
                 PROVE  MatchList'[s] \in Seq(Pattern)
      OBVIOUS
    <3>1. CASE Child(r, s)
      <4>1. s \in States /\ Parent(word, r, s)
        BY <1>6, <1>7, <3>1
      <4>2. MatchList'[s] = CopyMatches(MatchList[F(s)], MatchList[s])
        BY <1>1, <1>5, <3>1
      <4> QED
        BY <1>9, <4>1, <4>2 DEF Lists
    <3>2. CASE ~ Child(r, s)
      BY <1>1, <1>5, <3>2
    <3> QED
      BY <3>1, <3>2
  <2>2. MatchList' \in [0 .. acsmMaxStates - 1 -> Seq(Pattern)]
    BY <1>1, <1>5, <2>1
  <2> QED
    BY <1>1, <2>2 DEF TablesInv
<1>12. TrieInv'
  BY <1>1, <1>3 DEF TrieInv, Covered
<1>13. Frontier(queue', W, word, Top)
  <2>1. NodeRow(TransTable[r], word, Top, r)
    BY <1>2, <1>4 DEF RowsInv
  <2>2. /\ \A i \in Input : GetNextState2(TransTable, r, i) \in Nat
        /\ {GetNextState2(TransTable, r, i) : i \in Input} \ {0}
              = Children(word, Top, r)
    BY <1>3, <1>4, <2>1, RowSuccessors
  <2>3. Tail(queue) \in Seq(Nat)
    BY <1>1, <1>2, HeadTailProperties DEF Frontier
  <2> DEFINE u == Tail(queue)
  <2>4. Queued(queue', Tail(queue), Children(word, Top, r))
    <3>1. u \in Seq(Nat) /\ queue' = QueueSuccessors(u, TransTable, r)
      BY <1>1, <2>3
    <3> HIDE DEF u
    <3>2. Queued(QueueSuccessors(u, TransTable, r), u, Children(word, Top, r))
      BY <2>2, <3>1, QueueSuccessorsQueued
    <3> QED
      BY <3>1, <3>2 DEF u
  <2> QED
    BY <1>1, <1>2, <1>3, <2>4, FrontierStep
<1>14. FailsInv(W)'
  <2>1. \A s \in States : FailState'[s] = IF Parent(word, r, s) THEN F(s)
                                          ELSE FailState[s]
    BY <1>1, <1>5, <1>6
  <2>2. FailState' \in [States -> States]
    BY <1>1, <1>5, <1>6, <1>8
  <2>3. ASSUME NEW s \in States \ {0}, Settled(W, s)
        PROVE  Longest(FailState'[s], Tail(word[s]), word, Top)
    <3>1. CASE Parent(word, r, s)
      BY <1>8, <2>1, <3>1
    <3>2. CASE ~ Parent(word, r, s)
      BY <1>2, <1>10, <2>1, <2>3, <3>2 DEF FailsInv
    <3> QED
      BY <3>1, <3>2
  <2>4. \A s \in States \ {0} : Settled(W, s)'
           => Longest(FailState'[s], Tail(word[s]), word, Top)
    BY <1>1, <2>3 DEF Settled, Parent
  <2> QED
    BY <1>1, <1>3, <2>2, <2>4 DEF FailsInv
<1>15. ListsInv(W)'
  <2>1. ASSUME NEW s \in States
        PROVE  Lists(MatchList'[s], Pattern,
                     IF Settled(W, s) THEN Endings(word[s])
                     ELSE Own(Len(acsmPatterns), word[s]))
    <3>1. s \in 0 .. acsmMaxStates - 1
      BY <1>3
    <3>2. CASE Parent(word, r, s)
      <4>1. MatchList'[s] = CopyMatches(MatchList[F(s)], MatchList[s])
        BY <1>1, <1>5, <1>6, <3>1, <3>2
      <4> QED
        BY <1>9, <1>10, <3>2, <4>1
    <3>3. CASE ~ Parent(word, r, s)
      <4>1. MatchList'[s] = MatchList[s]
        BY <1>1, <1>5, <1>6, <3>1, <3>3
      <4> QED
        BY <1>2, <1>10, <3>3, <4>1 DEF ListsInv
    <3> QED
      BY <3>2, <3>3
  <2>2. \A s \in States : /\ Settled(W, s)' <=> Settled(W, s)
                          /\ Endings(word[s])' = Endings(word[s])
                          /\ Own(Len(acsmPatterns), word[s])'
                                = Own(Len(acsmPatterns), word[s])
    BY <1>1 DEF Settled, Parent, Endings, Own
  <2> QED
    BY <1>3, <2>1, <2>2 DEF ListsInv
<1>16. RowsInv'
  BY <1>1, <1>2, <1>3 DEF RowsInv
<1>17. Frontier(queue, W, word, Top)'
  BY <1>1, <1>3, <1>13
<1> QED
  BY <1>11, <1>12, <1>14, <1>15, <1>16, <1>17 DEF NfaInv

-----------------------------------------------------------------------------
(* The invariant while the machine is made deterministic.                  *)

FailsDone ==
    /\ FailState \in [States -> States]
    /\ \A s \in States \ {0} : Longest(FailState[s], Tail(word[s]), word, Top)

ListsDone == \A s \in States : Lists(MatchList[s], Pattern, Endings(word[s]))

(* From s the machine goes to the longest suffix of what has been read.    *)
Goes(table, s) ==
    \A i \in Input :
       Longest(GetNextState2(table, s, i), Append(word[s], i), word, Top)

(* The rows of the visited states are complete, the others are the trie's. *)
DfaInv(V) ==
    /\ Frontier(queue, V, word, Top)
    /\ FailsDone
    /\ ListsDone
    /\ \A s \in States : s = 0 \/ s \notin V
          => NodeRow(TransTable[s], word, Top, s)
    /\ \A s \in V : Goes(TransTable, s)

DoneInv ==
    /\ FailsDone
    /\ ListsDone
    /\ acsmFSA = "NFA" => RowsInv
    /\ acsmFSA = "DFA" => \A s \in States : Goes(TransTable, s)

(* When the queue is empty every state is settled.                         *)
LEMMA NfaComplete ==
    ASSUME TrieInv, NEW V, NfaInv(V), queue = <<>>
    PROVE  FailsDone /\ ListsDone /\ RowsInv
<1>1. States = 0 .. Top /\ Words(word, Top)
  BY DEF States, Top, TrieInv
<1>2. Frontier(queue, V, word, Top) /\ FailsInv(V) /\ ListsInv(V) /\ RowsInv
  BY DEF NfaInv
<1>3. V = States
  BY <1>1, <1>2, FrontierVisited
<1>4. \A s \in States : Settled(V, s)
  BY <1>1, <1>3, WordFacts DEF Settled
<1> QED
  BY <1>2, <1>4 DEF FailsDone, FailsInv, ListsDone, ListsInv

(* Where the trie has a transition the machine takes it.                   *)
LEMMA RowLongest ==
    ASSUME TrieInv, NEW s \in States, NodeRow(TransTable[s], word, Top, s),
           NEW i \in DOMAIN TransTable[s]
    PROVE  Longest(GetNextState2(TransTable, s, i), Append(word[s], i), word, Top)
<1> DEFINE g == TransTable[s][i]
<1>1. Words(word, Top) /\ Top \in Nat
  BY DEF TrieInv, Words
<1>2. g \in 0 .. Top /\ word[g] = Append(word[s], i)
  BY <1>1 DEF NodeRow
<1> HIDE DEF g
<1>3. Longest(g, word[g], word, Top)
  BY <1>1, <1>2, LongestSelf
<1> QED
  BY <1>2, <1>3 DEF GetNextState2, g

(* State 0 stays where no word begins with the byte.                       *)
LEMMA RootGoes ==
    ASSUME TrieInv, NodeRow(TransTable[0], word, Top, 0)
    PROVE  Goes(TransTable, 0)
<1>1. /\ States = 0 .. Top /\ Words(word, Top)
      /\ \A s, t \in States : word[s] = word[t] => s = t
  BY DEF States, Top, TrieInv, Words
<1>2. /\ 0 \in States /\ word[0] = <<>> /\ Len(word[0]) = 0
      /\ \A s \in States : word[s] \in Seq(Input) /\ Len(word[s]) \in Nat
  BY <1>1, WordFacts
<1> SUFFICES ASSUME NEW i \in Input
             PROVE  Longest(GetNextState2(TransTable, 0, i), Append(word[0], i),
                            word, Top)
  BY DEF Goes
<1>3. CASE i \in DOMAIN TransTable[0]
  BY <1>2, <1>3, RowLongest
<1>4. CASE i \notin DOMAIN TransTable[0]
  <2> DEFINE x == Append(word[0], i)
  <2>1. x \in Seq(Input)
    BY <1>2, AppendProperties
  <2>2. ASSUME NEW t \in States, t # 0, Ends(word[t], x)
        PROVE  FALSE
    <3>1. PICK z \in 0 .. Top : word[t] = Append(word[z], i) /\ Ends(word[z], word[0])
      <4>1. t \in (0 .. Top) \ {0} /\ word[0] \in Seq(Input)
        BY <1>1, <1>2, <2>2
      <4>2. Ends(word[t], Append(word[0], i))
        BY <2>2
      <4> QED
        BY <1>1, <4>1, <4>2, EndsParent
    <3>2. Len(word[z]) <= 0 /\ Len(word[z]) \in Nat /\ word[z] \in Seq(Input)
      BY <1>1, <1>2, <3>1 DEF Ends
    <3>3. word[z] = <<>>
      BY <3>2, EmptySeq
    <3>4. z = 0
      BY <1>1, <1>2, <3>3
    <3> QED
      BY <1>1, <1>4, <3>1, <3>4 DEF NodeRow
  <2>3. Ends(word[0], x)
    BY <1>2, <2>1, EndsOrder
  <2>4. \A t \in 0 .. Top : Ends(word[t], x) => Len(word[t]) <= Len(word[0])
    BY <1>1, <1>2, <2>2
  <2>5. Longest(0, x, word, Top)
    BY <1>1, <1>2, <2>3, <2>4 DEF Longest
  <2> QED
    BY <1>4, <2>5 DEF GetNextState2
<1> QED
  BY <1>3, <1>4

(* A nondeterministic machine is complete when the queue is empty.         *)
LEMMA EndNFAInv ==
    ASSUME TrieInv, NEW V, NfaInv(V), EndNFA
    PROVE  DoneInv
<1>1. queue = <<>> /\ acsmFSA = "NFA"
  BY DEF EndNFA
<1> QED
  BY <1>1, NfaComplete DEF DoneInv

(* Convert_NFA_To_DFA begins with only state 0 visited.                    *)
LEMMA BeginDFAInv ==
    ASSUME TrieInv, NEW V, NfaInv(V), BeginDFA
    PROVE  DfaInv({0})'
<1>1. /\ queue = <<>> /\ queue' = QueueSuccessors(<<>>, TransTable, 0)
      /\ acsmPatterns' = acsmPatterns /\ acsmNumStates' = acsmNumStates
      /\ FailState' = FailState /\ MatchList' = MatchList
      /\ TransTable' = TransTable /\ word' = word
  BY DEF BeginDFA
<1>2. FailsDone /\ ListsDone /\ RowsInv
  BY <1>1, NfaComplete
<1>3. /\ States = 0 .. Top /\ Words(word, Top) /\ States' = States /\ Top' = Top
      /\ 0 \in States
  BY <1>1 DEF States, Top, TrieInv
<1>4. Frontier(queue', {0}, word, Top)
  <2>1. /\ \A i \in Input : GetNextState2(TransTable, 0, i) \in Nat
        /\ {GetNextState2(TransTable, 0, i) : i \in Input} \ {0}
              = Children(word, Top, 0)
    BY <1>2, <1>3, RowSuccessors DEF RowsInv
  <2> DEFINE e == <<>>
  <2>2. e \in Seq(Nat)
    OBVIOUS
  <2> HIDE DEF e
  <2>3. Queued(QueueSuccessors(e, TransTable, 0), e, Children(word, Top, 0))
    BY <2>1, <2>2, QueueSuccessorsQueued
  <2>4. Queued(queue', <<>>, Children(word, Top, 0))
    BY <1>1, <2>3 DEF e
  <2> QED
    BY <1>3, <2>4, FrontierInit
<1>5. Frontier(queue, {0}, word, Top)'
  BY <1>1, <1>3, <1>4
<1>6. FailsDone' /\ ListsDone'
  BY <1>1, <1>2, <1>3 DEF FailsDone, ListsDone, Endings
<1>7. \A s \in States : NodeRow(TransTable[s], word, Top, s)
  BY <1>2 DEF RowsInv
<1>8. Goes(TransTable, 0)'
  <2>1. Goes(TransTable, 0)
    BY <1>3, <1>7, RootGoes
  <2> QED
    BY <1>1, <1>3, <2>1 DEF Goes
<1>9. (\A s \in States : s = 0 \/ s \notin {0} => NodeRow(TransTable[s], word, Top, s))'
  BY <1>1, <1>3, <1>7
<1>10. (\A s \in {0} : Goes(TransTable, s))'
  BY <1>8
<1> QED
  BY <1>5, <1>6, <1>9, <1>10 DEF DfaInv

(* The row completed by the transitions of the fail state.                 *)
LEMMA CompletedGoes ==
    ASSUME TrieInv, NEW V, DfaInv(V), queue # <<>>, NEW r, r = Head(queue),
           NEW table, table[r] = Completed(r)
    PROVE  Goes(table, r)
<1> DEFINE fs == FailState[r]
           own == DOMAIN TransTable[r]
           w == word[r]
<1>1. /\ States = 0 .. Top /\ Words(word, Top) /\ Top \in Nat
      /\ FAIL \in Nat /\ Top < FAIL
  <2>1. FAIL \in Nat /\ acsmNumStates \in Nat \ {0} /\ acsmNumStates <= FAIL
    BY BuildAssumption DEF TrieInv
  <2>2. Top = acsmNumStates - 1 /\ Words(word, Top) /\ States = 0 .. Top
    BY DEF States, Top, TrieInv
  <2> QED
    BY <2>1, <2>2
<1>2. /\ Frontier(queue, V, word, Top) /\ FailsDone
      /\ \A s \in States : s = 0 \/ s \notin V
            => NodeRow(TransTable[s], word, Top, s)
      /\ \A s \in V : Goes(TransTable, s)
  BY DEF DfaInv
<1>3. FailsInv(V)
  BY <1>2 DEF FailsDone, FailsInv
<1>4. /\ r \in States \ V /\ r # 0
      /\ w \in Seq(Input) /\ w # <<>>
      /\ \A t \in States : Len(word[t]) < Len(w) => t \in V
      /\ fs \in States
      /\ Longest(fs, Tail(w), word, Top)
      /\ Len(word[fs]) < Len(w)
  BY <1>2, <1>3, HeadFacts
<1>5. fs \in V /\ Goes(TransTable, fs) /\ NodeRow(TransTable[r], word, Top, r)
  BY <1>2, <1>4
<1> HIDE DEF fs, own, w
<1> SUFFICES ASSUME NEW i \in Input
             PROVE  Longest(GetNextState2(table, r, i), Append(w, i), word, Top)
  BY DEF Goes, w
<1> DEFINE g == GetNextState2(TransTable, fs, i)
<1>6. Longest(g, Append(word[fs], i), word, Top) /\ g \in 0 .. Top
  BY <1>5 DEF Goes, Longest
<1>7. GetNextState2(table, r, i) = IF i \in own THEN TransTable[r][i] ELSE g
  <2> DEFINE h == GetNextState(TransTable, fs, i)
             more == {j \in Input \ own :
                        GetNextState(TransTable, fs, j) \notin {0, FAIL}}
  <2>1. Completed(r) = [j \in own \cup more |->
                          IF j \in own THEN TransTable[r][j]
                          ELSE GetNextState(TransTable, fs, j)]
    BY DEF Completed, own, fs
  <2>2. /\ i \in DOMAIN Completed(r) <=> i \in own \/ i \in more
        /\ i \in own => Completed(r)[i] = TransTable[r][i]
        /\ i \in more /\ i \notin own => Completed(r)[i] = h
    <3> HIDE DEF more
    <3> QED
      BY <2>1
  <2>3. i \in own => GetNextState2(table, r, i) = TransTable[r][i]
    BY <2>2 DEF GetNextState2
  <2>4. ASSUME i \notin own
        PROVE  GetNextState2(table, r, i) = g
    <3>1. g # FAIL
      BY <1>1, <1>6
    <3>2. CASE i \in DOMAIN TransTable[fs]
      <4>1. h = g
        BY <3>2 DEF GetNextState, GetNextState2
      <4>2. i \in more <=> g # 0
        BY <2>4, <3>1, <4>1
      <4> HIDE DEF g, h, more
      <4>3. GetNextState2(table, r, i) = IF i \in more THEN h ELSE 0
        BY <2>2, <2>4 DEF GetNextState2
      <4> QED
        BY <4>1, <4>2, <4>3
    <3>3. CASE i \notin DOMAIN TransTable[fs]
      <4>1. h \in {0, FAIL} /\ g = 0
        BY <3>3 DEF GetNextState, GetNextState2
      <4>2. i \notin more
        BY <4>1
      <4> HIDE DEF g, h, more
      <4>3. GetNextState2(table, r, i) = 0
        BY <2>2, <2>4, <4>2 DEF GetNextState2
      <4> QED
        BY <4>1, <4>3
    <3> QED
      BY <3>2, <3>3
  <2> QED
    BY <2>3, <2>4
<1>8. CASE i \in own
  <2>1. Longest(GetNextState2(TransTable, r, i), Append(word[r], i), word, Top)
    BY <1>4, <1>5, <1>8, RowLongest DEF own
  <2>2. GetNextState2(TransTable, r, i) = TransTable[r][i]
    BY <1>8 DEF GetNextState2, own
  <2> QED
    BY <1>7, <1>8, <2>1, <2>2 DEF w
<1>9. CASE i \notin own
  <2> DEFINE x == Append(w, i)
  <2>1. Tail(w) \in Seq(Input) /\ Tail(x) = Append(Tail(w), i)
    BY <1>4, HeadTailProperties, TailAppend
  <2>2. x \in Seq(Input) /\ x # <<>>
    BY <1>4, AppendProperties
  <2>3. Longest(g, Append(Tail(w), i), word, Top)
    <3> HIDE DEF g
    <3> QED
      BY <1>1, <1>4, <1>6, <2>1, LongestStep
  <2>4. \A t \in 0 .. Top : word[t] # x
    BY <1>5, <1>9 DEF NodeRow, own, w
  <2>5. Longest(g, x, word, Top)
    <3>1. Longest(g, Tail(x), word, Top)
      BY <2>1, <2>3
    <3> HIDE DEF g, x
    <3> QED
      BY <1>1, <2>2, <2>4, <3>1, LongestTail
  <2> QED
    BY <1>7, <1>9, <2>5
<1> QED
  BY <1>8, <1>9

(* A step of Convert_NFA_To_DFA completes the row of the state it takes    *)
(* and disturbs no other.                                                  *)
LEMMA DfaStepInv ==
    ASSUME PatternsInv, TablesInv, TrieInv, NEW V, DfaInv(V), DfaStep,
           NEW r, r = Head(queue)
    PROVE  TablesInv' /\ TrieInv' /\ DfaInv(V \cup {r})'
<1> DEFINE W == V \cup {r}
           row == Completed(r)
<1>1. /\ queue # <<>>
      /\ TransTable' = [TransTable EXCEPT ![r] = row]
      /\ queue' = QueueSuccessors(Tail(queue), TransTable, r)
      /\ acsmPatterns' = acsmPatterns /\ acsmMaxStates' = acsmMaxStates
      /\ acsmNumStates' = acsmNumStates /\ FailState' = FailState
      /\ MatchList' = MatchList /\ word' = word
  BY DEF DfaStep
<1>2. /\ Frontier(queue, V, word, Top) /\ FailsDone /\ ListsDone
      /\ \A s \in States : s = 0 \/ s \notin V
            => NodeRow(TransTable[s], word, Top, s)
      /\ \A s \in V : Goes(TransTable, s)
  BY DEF DfaInv
<1>3. /\ States = 0 .. Top /\ Words(word, Top) /\ States' = States /\ Top' = Top
      /\ States \subseteq DOMAIN TransTable
  <2>1. acsmNumStates \in Nat \ {0} /\ acsmNumStates <= acsmMaxStates
    BY DEF TrieInv
  <2>2. acsmPatterns \in Seq(Pattern) /\ Len(acsmPatterns) \in Nat
    BY LenProperties DEF PatternsInv
  <2>3. acsmMaxStates \in Nat /\ DOMAIN TransTable = 0 .. acsmMaxStates - 1
    BY <2>2, CountUnfolds DEF TablesInv
  <2> QED
    BY <1>1, <2>1, <2>3 DEF States, Top, TrieInv
<1>4. r \in States \ V /\ r # 0
  <2>1. FailsInv(V)
    BY <1>2 DEF FailsDone, FailsInv
  <2> QED
    BY <1>1, <1>2, <2>1, HeadFacts
<1>5. /\ DOMAIN TransTable' = DOMAIN TransTable
      /\ TransTable'[r] = row
      /\ \A s \in States : s # r => TransTable'[s] = TransTable[s]
  BY <1>1, <1>3, <1>4
<1>6. Goes(TransTable', r)
  BY <1>1, <1>5, CompletedGoes
<1> HIDE DEF row
<1>7. TablesInv'
  BY <1>1, <1>5 DEF TablesInv
<1>8. TrieInv'
  BY <1>1, <1>3 DEF TrieInv, Covered
<1>9. Frontier(queue', W, word, Top)
  <2>1. NodeRow(TransTable[r], word, Top, r)
    BY <1>2, <1>4
  <2>2. /\ \A i \in Input : GetNextState2(TransTable, r, i) \in Nat
        /\ {GetNextState2(TransTable, r, i) : i \in Input} \ {0}
              = Children(word, Top, r)
    BY <1>3, <1>4, <2>1, RowSuccessors
  <2>3. Tail(queue) \in Seq(Nat)
    BY <1>1, <1>2, HeadTailProperties DEF Frontier
  <2> DEFINE u == Tail(queue)
  <2>4. Queued(queue', Tail(queue), Children(word, Top, r))
    <3>1. u \in Seq(Nat) /\ queue' = QueueSuccessors(u, TransTable, r)
      BY <1>1, <2>3
    <3> HIDE DEF u
    <3>2. Queued(QueueSuccessors(u, TransTable, r), u, Children(word, Top, r))
      BY <2>2, <3>1, QueueSuccessorsQueued
    <3> QED
      BY <3>1, <3>2 DEF u
  <2> QED
    BY <1>1, <1>2, <1>3, <2>4, FrontierStep
<1>10. Frontier(queue, W, word, Top)'
  BY <1>1, <1>3, <1>9
<1>11. FailsDone' /\ ListsDone'
  BY <1>1, <1>2, <1>3 DEF FailsDone, ListsDone, Endings
<1>12. (\A s \in States : s = 0 \/ s \notin W
          => NodeRow(TransTable[s], word, Top, s))'
  BY <1>1, <1>2, <1>3, <1>4, <1>5
<1>13. \A s \in W : Goes(TransTable', s)
  <2> SUFFICES ASSUME NEW s \in V
               PROVE  Goes(TransTable', s)
    BY <1>6
  <2>1. s \in States /\ s # r
    BY <1>2, <1>3, <1>4 DEF Frontier
  <2>2. TransTable'[s] = TransTable[s]
    BY <1>5, <2>1
  <2>3. \A i : GetNextState2(TransTable', s, i) = GetNextState2(TransTable, s, i)
    BY <2>2 DEF GetNextState2
  <2> QED
    BY <1>2, <2>3 DEF Goes
<1>14. (\A s \in W : Goes(TransTable, s))'
  BY <1>1, <1>3, <1>13 DEF Goes
<1> QED
  BY <1>7, <1>8, <1>10, <1>11, <1>12, <1>14 DEF DfaInv

(* A deterministic machine is complete when the queue is empty.            *)
LEMMA EndDFAInv ==
    ASSUME TrieInv, NEW V, DfaInv(V), EndDFA, acsmFSA = "DFA"
    PROVE  DoneInv
<1>1. queue = <<>>
  BY DEF EndDFA
<1>2. Frontier(queue, V, word, Top) /\ Words(word, Top) /\ States = 0 .. Top
  BY DEF DfaInv, TrieInv, States, Top
<1>3. V = States
  BY <1>1, <1>2, FrontierVisited
<1> QED
  BY <1>3 DEF DfaInv, DoneInv

-----------------------------------------------------------------------------
(* The inductive invariant.                                                *)

IInv ==
    /\ pc \in {"adding", "states", "nfa", "dfa", "done"}
    /\ acsmFSA \in {"NFA", "DFA"}
    /\ PatternsInv
    /\ pc # "adding" => TablesInv
    /\ pc = "states" => \E d \in 0 .. Len(acsmPatterns) : LayoutInv(d)
    /\ TrieDone => TrieInv
    /\ pc = "nfa" => \E V \in SUBSET States : NfaInv(V)
    /\ pc = "dfa" => acsmFSA = "DFA" /\ \E V \in SUBSET States : DfaInv(V)
    /\ pc = "done" => DoneInv

(* It holds before any pattern is added.                                   *)
LEMMA InitInv == Init => IInv
<1> SUFFICES ASSUME Init
             PROVE  IInv
  OBVIOUS
<1>1. pc = "adding" /\ acsmFSA \in {"NFA", "DFA"} /\ acsmPatterns = <<>>
  BY BuildAssumption DEF Init
<1>2. PatternsInv
  <2> DEFINE e == <<>>
  <2>1. e \in Seq(Pattern) /\ Len(e) = 0 /\ MaxPatterns \in Nat
    BY BuildAssumption, EmptySeq
  <2>2. acsmPatterns = e
    BY <1>1
  <2> HIDE DEF e
  <2>3. Len(e) <= MaxPatterns /\ 1 .. Len(e) = {}
    BY <2>1
  <2> QED
    BY <2>1, <2>2, <2>3 DEF PatternsInv
<1> QED
  BY <1>1, <1>2 DEF IInv, TrieDone

(* acsmAddPattern2 keeps the patterns numbered.                            *)
LEMMA AddPatternInv ==
    ASSUME PatternsInv, NEW patrn \in PatternPool, AddPattern(patrn)
    PROVE  PatternsInv'
<1> DEFINE p == [patrn |-> patrn, iid |-> Len(acsmPatterns) + 1]
           one == <<p>>
           m == Len(acsmPatterns)
           new == one \o acsmPatterns
<1>1. /\ acsmPatterns \in Seq(Pattern) /\ m \in Nat /\ m < MaxPatterns
      /\ acsmPatterns' = new /\ MaxPatterns \in Nat
      /\ \A i \in 1 .. m : acsmPatterns[i].iid = m - i + 1
  BY LenProperties, BuildAssumption DEF PatternsInv, AddPattern
<1>2. p \in Pattern /\ p.iid = m + 1
  BY <1>1 DEF Pattern
<1> HIDE DEF p
<1>3. one \in Seq(Pattern) /\ Len(one) = 1 /\ one[1] = p
  BY <1>2
<1> HIDE DEF one
<1>4. /\ new \in Seq(Pattern) /\ Len(new) = 1 + m
      /\ \A i \in 1 .. 1 + m :
            new[i] = IF i <= 1 THEN one[i] ELSE acsmPatterns[i - 1]
  BY <1>1, <1>3, ConcatProperties
<1> HIDE DEF new, m
<1>5. ASSUME NEW i \in 1 .. 1 + m
      PROVE  new[i].iid = (1 + m) - i + 1
  <2>1. CASE i = 1
    BY <1>1, <1>2, <1>3, <1>4, <2>1
  <2>2. CASE i # 1
    <3>1. i - 1 \in 1 .. m /\ ~ (i <= 1)
      BY <1>1, <2>2
    <3>2. new[i] = acsmPatterns[i - 1]
      BY <1>4, <3>1
    <3>3. acsmPatterns[i - 1].iid = m - (i - 1) + 1
      BY <1>1, <3>1
    <3> QED
      BY <1>1, <3>2, <3>3
  <2> QED
    BY <2>1, <2>2
<1>6. Len(new) <= MaxPatterns
  BY <1>1, <1>4
<1>7. new \in Seq(Pattern) /\ \A i \in 1 .. Len(new) : new[i].iid = Len(new) - i + 1
  BY <1>4, <1>5
<1> QED
  BY <1>1, <1>6, <1>7 DEF PatternsInv

(* Every step keeps it.                                                    *)
LEMMA NextInv == IInv /\ [Next]_vars => IInv'
<1> SUFFICES ASSUME IInv, [Next]_vars
             PROVE  IInv'
  OBVIOUS
<1>1. /\ pc \in {"adding", "states", "nfa", "dfa", "done"}
      /\ acsmFSA \in {"NFA", "DFA"}
      /\ PatternsInv
      /\ pc # "adding" => TablesInv
      /\ pc = "states" => \E d \in 0 .. Len(acsmPatterns) : LayoutInv(d)
      /\ pc \in {"nfa", "dfa", "done"} => TrieInv
      /\ pc = "nfa" => \E V \in SUBSET States : NfaInv(V)
      /\ pc = "dfa" => acsmFSA = "DFA" /\ \E V \in SUBSET States : DfaInv(V)
      /\ pc = "done" => DoneInv
  BY DEF IInv, TrieDone
<1>2. ASSUME NEW patrn \in PatternPool, AddPattern(patrn)
      PROVE  IInv'
  <2>1. pc' = "adding" /\ acsmFSA' = acsmFSA
    BY <1>2 DEF AddPattern
  <2>2. PatternsInv'
    BY <1>1, <1>2, AddPatternInv
  <2> QED
    BY <1>1, <2>1, <2>2 DEF IInv, TrieDone
<1>3. ASSUME BeginCompile
      PROVE  IInv'
  <2>1. pc' = "states" /\ acsmFSA' = acsmFSA /\ acsmPatterns' = acsmPatterns
    BY <1>3 DEF BeginCompile
  <2>2. TablesInv' /\ LayoutInv(0)'
    BY <1>1, <1>3, BeginCompileInv
  <2>3. PatternsInv'
    BY <1>1, <2>1 DEF PatternsInv
  <2>4. (\E d \in 0 .. Len(acsmPatterns) : LayoutInv(d))'
    <3>1. 0 \in 0 .. Len(acsmPatterns)'
      BY <2>2 DEF LayoutInv
    <3> QED
      BY <2>2, <3>1
  <2> QED
    BY <1>1, <2>1, <2>2, <2>3, <2>4 DEF IInv, TrieDone
<1>4. ASSUME AddPatternStates
      PROVE  IInv'
  <2>1. pc = "states" /\ pc' = "states" /\ acsmFSA' = acsmFSA
        /\ acsmPatterns' = acsmPatterns
    BY <1>4 DEF AddPatternStates
  <2>2. PICK d \in 0 .. Len(acsmPatterns) : LayoutInv(d)
    BY <1>1, <2>1
  <2>3. TablesInv' /\ LayoutInv(d + 1)'
    BY <1>1, <1>4, <2>1, <2>2, AddPatternStatesInv
  <2>4. PatternsInv'
    BY <1>1, <2>1 DEF PatternsInv
  <2>5. (\E k \in 0 .. Len(acsmPatterns) : LayoutInv(k))'
    <3>1. d + 1 \in 0 .. Len(acsmPatterns)'
      BY <2>3 DEF LayoutInv
    <3> QED
      BY <2>3, <3>1
  <2> QED
    BY <1>1, <2>1, <2>3, <2>4, <2>5 DEF IInv, TrieDone
<1>5. ASSUME BeginNFA
      PROVE  IInv'
  <2>1. pc = "states" /\ pc' = "nfa" /\ acsmFSA' = acsmFSA
        /\ acsmPatterns' = acsmPatterns
    BY <1>5 DEF BeginNFA
  <2>2. PICK d \in 0 .. Len(acsmPatterns) : LayoutInv(d)
    BY <1>1, <2>1
  <2>3. TablesInv' /\ TrieInv' /\ NfaInv({0})'
    BY <1>1, <1>5, <2>1, <2>2, BeginNFAInv
  <2>4. PatternsInv'
    BY <1>1, <2>1 DEF PatternsInv
  <2>5. (\E V \in SUBSET States : NfaInv(V))'
    <3>1. {0} \in SUBSET States'
      BY <2>3 DEF NfaInv, Frontier, States, Top
    <3> QED
      BY <2>3, <3>1
  <2> QED
    BY <1>1, <2>1, <2>3, <2>4, <2>5 DEF IInv, TrieDone
<1>6. ASSUME NfaStep
      PROVE  IInv'
  <2>1. pc = "nfa" /\ pc' = "nfa" /\ acsmFSA' = acsmFSA
        /\ acsmPatterns' = acsmPatterns
    BY <1>6 DEF NfaStep
  <2>2. PICK V \in SUBSET States : NfaInv(V)
    BY <1>1, <2>1
  <2>3. PICK r : r = Head(queue)
    OBVIOUS
  <2> DEFINE W == V \cup {r}
  <2>4. TablesInv' /\ TrieInv' /\ NfaInv(W)'
    BY <1>1, <1>6, <2>1, <2>2, <2>3, NfaStepInv
  <2>5. PatternsInv'
    BY <1>1, <2>1 DEF PatternsInv
  <2>6. (\E X \in SUBSET States : NfaInv(X))'
    <3>1. W \in SUBSET States'
      BY <2>4 DEF NfaInv, Frontier, States, Top
    <3> QED
      BY <2>4, <3>1
  <2> QED
    BY <1>1, <2>1, <2>4, <2>5, <2>6 DEF IInv, TrieDone
<1>7. ASSUME EndNFA
      PROVE  IInv'
  <2>1. /\ pc = "nfa" /\ pc' = "done"
        /\ UNCHANGED <<acsmFSA, acsmPatterns, plist, compileVars>>
    BY <1>7 DEF EndNFA
  <2>2. DoneInv
    BY <1>1, <1>7, <2>1, EndNFAInv
  <2>3. /\ UNCHANGED <<acsmPatterns, acsmMaxStates, acsmNumStates, TransTable,
                      FailState, MatchList, word>>
        /\ States' = States /\ Top' = Top
    BY <2>1 DEF compileVars, States, Top
  <2>4. PatternsInv' = PatternsInv /\ TablesInv' = TablesInv /\ TrieInv' = TrieInv
    BY <2>3 DEF PatternsInv, TablesInv, TrieInv, Covered
  <2>5. DoneInv' = DoneInv
    BY <2>1, <2>3 DEF DoneInv, FailsDone, ListsDone, Endings, Goes, RowsInv
  <2> QED
    BY <1>1, <2>1, <2>2, <2>4, <2>5 DEF IInv, TrieDone
<1>8. ASSUME BeginDFA
      PROVE  IInv'
  <2>1. /\ pc = "nfa" /\ pc' = "dfa" /\ acsmFSA = "DFA"
        /\ UNCHANGED <<acsmFSA, acsmPatterns, plist, acsmMaxStates, acsmNumStates,
                       TransTable, FailState, MatchList, word>>
    BY <1>8 DEF BeginDFA
  <2>2. PICK V \in SUBSET States : NfaInv(V)
    BY <1>1, <2>1
  <2>3. DfaInv({0})'
    BY <1>1, <1>8, <2>1, <2>2, BeginDFAInv
  <2>4. PatternsInv' /\ TablesInv' /\ TrieInv'
    <3>1. Top' = Top
      BY <2>1 DEF Top
    <3>2. PatternsInv' = PatternsInv /\ TablesInv' = TablesInv /\ TrieInv' = TrieInv
      BY <2>1, <3>1 DEF PatternsInv, TablesInv, TrieInv, Covered
    <3> QED
      BY <1>1, <2>1, <3>2
  <2>5. (\E X \in SUBSET States : DfaInv(X))'
    <3>1. {0} \in SUBSET States'
      BY <2>3 DEF DfaInv, Frontier, States, Top
    <3> QED
      BY <2>3, <3>1
  <2> QED
    BY <1>1, <2>1, <2>4, <2>5 DEF IInv, TrieDone
<1>9. ASSUME DfaStep
      PROVE  IInv'
  <2>1. pc = "dfa" /\ pc' = "dfa" /\ acsmFSA' = acsmFSA
        /\ acsmPatterns' = acsmPatterns
    BY <1>9 DEF DfaStep
  <2>2. PICK V \in SUBSET States : DfaInv(V)
    BY <1>1, <2>1
  <2>3. PICK r : r = Head(queue)
    OBVIOUS
  <2> DEFINE W == V \cup {r}
  <2>4. TablesInv' /\ TrieInv' /\ DfaInv(W)'
    BY <1>1, <1>9, <2>1, <2>2, <2>3, DfaStepInv
  <2>5. PatternsInv'
    BY <1>1, <2>1 DEF PatternsInv
  <2>6. (\E X \in SUBSET States : DfaInv(X))'
    <3>1. W \in SUBSET States'
      BY <2>4 DEF DfaInv, Frontier, States, Top
    <3> QED
      BY <2>4, <3>1
  <2> QED
    BY <1>1, <2>1, <2>4, <2>5, <2>6 DEF IInv, TrieDone
<1>10. ASSUME EndDFA
       PROVE  IInv'
  <2>1. /\ pc = "dfa" /\ pc' = "done"
        /\ UNCHANGED <<acsmFSA, acsmPatterns, plist, compileVars>>
    BY <1>10 DEF EndDFA
  <2>2. DoneInv
    BY <1>1, <1>10, <2>1, EndDFAInv
  <2>3. /\ UNCHANGED <<acsmPatterns, acsmMaxStates, acsmNumStates, TransTable,
                      FailState, MatchList, word>>
        /\ States' = States /\ Top' = Top
    BY <2>1 DEF compileVars, States, Top
  <2>4. PatternsInv' = PatternsInv /\ TablesInv' = TablesInv /\ TrieInv' = TrieInv
    BY <2>3 DEF PatternsInv, TablesInv, TrieInv, Covered
  <2>5. DoneInv' = DoneInv
    BY <2>1, <2>3 DEF DoneInv, FailsDone, ListsDone, Endings, Goes, RowsInv
  <2> QED
    BY <1>1, <2>1, <2>2, <2>4, <2>5 DEF IInv, TrieDone
<1>11. ASSUME UNCHANGED vars
       PROVE  IInv'
  <2>1. /\ pc' = pc
        /\ UNCHANGED <<acsmFSA, acsmPatterns, plist, acsmMaxStates, acsmNumStates,
                       TransTable, FailState, MatchList, queue, word>>
    BY <1>11 DEF vars, compileVars
  <2>2. States' = States /\ Top' = Top
    BY <2>1 DEF States, Top
  <2>3. PatternsInv' = PatternsInv /\ TablesInv' = TablesInv /\ TrieInv' = TrieInv
    BY <2>1, <2>2 DEF PatternsInv, TablesInv, TrieInv, Covered
  <2>4. \A d : LayoutInv(d)' <=> LayoutInv(d)
    BY <2>1 DEF LayoutInv, Covered, Own
  <2>5. \A V : NfaInv(V)' <=> NfaInv(V)
    BY <2>1, <2>2 DEF NfaInv, FailsInv, ListsInv, RowsInv, Settled, Endings, Own
  <2>6. \A V : DfaInv(V)' <=> DfaInv(V)
    BY <2>1, <2>2 DEF DfaInv, FailsDone, ListsDone, Endings, Goes
  <2>7. DoneInv' = DoneInv
    BY <2>1, <2>2 DEF DoneInv, FailsDone, ListsDone, Endings, Goes, RowsInv
  <2> QED
    BY <1>1, <2>1, <2>2, <2>3, <2>4, <2>5, <2>6, <2>7 DEF IInv, TrieDone
<1> QED
  BY <1>2, <1>3, <1>4, <1>5, <1>6, <1>7, <1>8, <1>9, <1>10, <1>11 DEF Next, Compile

(* The inductive invariant holds in every reachable state.                 *)
THEOREM Invariant == Spec => []IInv
<1>1. Init => IInv
  BY InitInv
<1>2. IInv /\ [Next]_vars => IInv'
  BY NextInv
<1> QED
  BY <1>1, <1>2, PTL DEF Spec

-----------------------------------------------------------------------------
(* What the invariant says of the tables, and of the finished machine.     *)

(* LongestSuffix chooses the longest suffix.                               *)
LEMMA LongestSuffixIs ==
    ASSUME TrieInv, NEW x \in Seq(Input), NEW f, Longest(f, x, word, Top)
    PROVE  LongestSuffix(x) = f
<1> DEFINE Best(s) == /\ IsSuffix(word[s], x)
                      /\ \A t \in States :
                            IsSuffix(word[t], x) => Len(word[t]) <= Len(word[s])
           g == CHOOSE s \in States : Best(s)
<1>1. States = 0 .. Top /\ Words(word, Top)
  BY DEF TrieInv, States, Top
<1>2. \A s \in States : word[s] \in Seq(Input)
  BY <1>1, WordFacts
<1>3. \A s \in States : IsSuffix(word[s], x) <=> Ends(word[s], x)
  BY <1>2, SuffixEnds
<1>4. \A s \in States : Best(s) <=> Longest(s, x, word, Top)
  BY <1>1, <1>3 DEF Longest
<1> HIDE DEF Best
<1>5. f \in States /\ Best(f)
  BY <1>1, <1>4 DEF Longest
<1>6. g \in States /\ Best(g)
  BY <1>5
<1>7. LongestSuffix(x) = g
  BY DEF LongestSuffix, Best
<1> HIDE DEF g
<1>8. g = f
  BY <1>1, <1>4, <1>6, LongestUnique
<1> QED
  BY <1>7, <1>8

(* The tables are large enough because no more states are added than bytes *)
(* are counted, and Build_NFA only writes states it has queued.            *)
LEMMA StatesFitInv == IInv => StatesFit
<1> SUFFICES ASSUME IInv, pc # "adding"
             PROVE  /\ acsmNumStates <= acsmMaxStates
                    /\ pc = "states" => acsmNumStates < acsmMaxStates
                    /\ DOMAIN TransTable = 0 .. acsmMaxStates - 1
                    /\ DOMAIN MatchList = 0 .. acsmMaxStates - 1
                    /\ pc # "states" => /\ DOMAIN FailState = States
                                        /\ \A s \in States : FailState[s] \in States
  BY DEF StatesFit
<1>1. PatternsInv /\ TablesInv
  BY DEF IInv
<1>2. DOMAIN TransTable = 0 .. acsmMaxStates - 1 /\ DOMAIN MatchList = 0 .. acsmMaxStates - 1
  BY <1>1 DEF TablesInv
<1>3. CASE pc = "states"
  <2>1. PICK d \in 0 .. Len(acsmPatterns) : LayoutInv(d)
    BY <1>3 DEF IInv
  <2> DEFINE m == Len(acsmPatterns)
             c == CountStates(acsmPatterns)
  <2>2. acsmPatterns \in Seq(Pattern) /\ m \in Nat
    BY <1>1, LenProperties DEF PatternsInv
  <2>3. c[d] \in Nat /\ c[m] \in Nat /\ c[d] <= c[m]
    BY <2>2, CountUnfolds, CountMonotonic
  <2>4. acsmNumStates < c[d] /\ acsmMaxStates = c[m] /\ acsmNumStates \in Nat
    BY <1>1, <2>1 DEF LayoutInv, TablesInv, Trie, Words
  <2> HIDE DEF c, m
  <2>5. acsmNumStates < acsmMaxStates /\ acsmNumStates <= acsmMaxStates
    BY <2>3, <2>4
  <2> QED
    BY <1>2, <1>3, <2>5
<1>4. CASE pc # "states"
  <2>1. TrieInv
    BY <1>4 DEF IInv, TrieDone
  <2>2. FailState \in [States -> States]
    BY <1>4 DEF IInv, NfaInv, FailsInv, DfaInv, DoneInv, FailsDone
  <2> QED
    BY <1>2, <1>4, <2>1, <2>2 DEF TrieInv
<1> QED
  BY <1>3, <1>4

(* The words that Covered relates to the patterns are their prefixes.      *)
LEMMA TrieExactInv == IInv => TrieExact
<1> SUFFICES ASSUME IInv, TrieDone
             PROVE  /\ DOMAIN word = States
                    /\ {word[s] : s \in States} =
                          {<<>>} \cup UNION {Prefixes(t) : t \in Texts}
                    /\ \A s, t \in States : word[s] = word[t] => s = t
                    /\ pc = "nfa" =>
                          \A s \in States : \A i \in DOMAIN TransTable[s] :
                              word[TransTable[s][i]] = Append(word[s], i)
  BY DEF TrieExact
<1> DEFINE m == Len(acsmPatterns)
<1>1. /\ PatternsInv /\ Words(word, Top) /\ States = 0 .. Top
      /\ Covered(word, Top, m)
  BY DEF IInv, TrieInv, States, Top
<1>2. /\ DOMAIN word = States
      /\ \A s, t \in States : word[s] = word[t] => s = t
  BY <1>1 DEF Words
<1>3. acsmPatterns \in Seq(Pattern) /\ DOMAIN acsmPatterns = 1 .. m
  BY <1>1, LenProperties DEF PatternsInv
<1>4. Texts = {acsmPatterns[k].patrn : k \in 1 .. m}
  BY <1>3 DEF Texts
<1>5. \A k \in 1 .. m : /\ acsmPatterns[k].patrn \in Seq(Input)
                        /\ Len(acsmPatterns[k].patrn) \in Nat
  BY <1>3, ElementOfSeq, PatternText
<1>6. 0 \in States /\ word[0] = <<>> /\ Top \in Nat
  BY <1>1, WordFacts DEF Words
<1> HIDE DEF m
<1>7. ASSUME NEW s \in States
      PROVE  word[s] \in {<<>>} \cup UNION {Prefixes(t) : t \in Texts}
  <2>1. CASE s = 0
    BY <1>6, <2>1
  <2>2. CASE s # 0
    <3>1. s \in 1 .. Top
      BY <1>1, <1>6, <2>2
    <3>2. PICK k \in 1 .. m : \E l \in 1 .. Len(acsmPatterns[k].patrn) :
                                 word[s] = SubSeq(acsmPatterns[k].patrn, 1, l)
      BY <1>1, <3>1 DEF Covered
    <3>3. word[s] \in Prefixes(acsmPatterns[k].patrn)
      BY <1>5, <3>2 DEF Prefixes
    <3>4. acsmPatterns[k].patrn \in Texts
      BY <1>4
    <3> QED
      BY <3>3, <3>4
  <2> QED
    BY <2>1, <2>2
<1>8. ASSUME NEW t \in Texts, NEW w \in Prefixes(t)
      PROVE  \E s \in States : word[s] = w
  <2>1. PICK k \in 1 .. m : t = acsmPatterns[k].patrn
    BY <1>4
  <2>2. PICK l \in 0 .. Len(acsmPatterns[k].patrn) :
           w = SubSeq(acsmPatterns[k].patrn, 1, l)
    BY <2>1 DEF Prefixes
  <2> QED
    BY <1>1, <2>2 DEF Covered
<1>9. {word[s] : s \in States} = {<<>>} \cup UNION {Prefixes(t) : t \in Texts}
  BY <1>6, <1>7, <1>8
<1>10. ASSUME pc = "nfa", NEW s \in States, NEW i \in DOMAIN TransTable[s]
       PROVE  word[TransTable[s][i]] = Append(word[s], i)
  BY <1>10 DEF IInv, NfaInv, RowsInv, NodeRow
<1> QED
  BY <1>2, <1>9, <1>10

(* The fail states and the lists are complete from "dfa" on.               *)
LEMMA Completion ==
    ASSUME IInv, pc \in {"dfa", "done"}
    PROVE  PatternsInv /\ TrieInv /\ FailsDone /\ ListsDone
BY DEF IInv, TrieDone, DfaInv, DoneInv

(* A fail state is what LongestSuffix chooses.                             *)
LEMMA FailLongestInv == IInv => FailLongest
<1> SUFFICES ASSUME IInv, pc \in {"dfa", "done"}, NEW s \in States \ {0}
             PROVE  FailState[s] = LongestSuffix(Tail(word[s]))
  BY DEF FailLongest
<1>1. TrieInv /\ FailsDone /\ Words(word, Top) /\ States = 0 .. Top
  BY Completion DEF TrieInv, States, Top
<1>2. word[s] \in Seq(Input) /\ word[s] # <<>>
  <2>1. \E r \in 0 .. Top : Parent(word, r, s)
    BY <1>1, WordFacts
  <2> QED
    BY <1>1, <2>1, WordFacts
<1>3. Tail(word[s]) \in Seq(Input)
  BY <1>2, HeadTailProperties
<1>4. Longest(FailState[s], Tail(word[s]), word, Top)
  BY <1>1 DEF FailsDone
<1> QED
  BY <1>1, <1>3, <1>4, LongestSuffixIs

(* A complete list holds the patterns its state ends with.                 *)
LEMMA MatchListExactInv == IInv => MatchListExact
<1> SUFFICES ASSUME IInv, pc \in {"dfa", "done"}, NEW s \in States
             PROVE  /\ ToSet(MatchList[s]) =
                          {p \in ToSet(acsmPatterns) : IsSuffix(p.patrn, word[s])}
                    /\ IsInjective(MatchList[s])
  BY DEF MatchListExact
<1>1. /\ PatternsInv /\ TrieInv /\ ListsDone
      /\ Words(word, Top) /\ States = 0 .. Top
  BY Completion DEF TrieInv, States, Top
<1>2. word[s] \in Seq(Input)
  BY <1>1, WordFacts
<1>3. \A p \in ToSet(acsmPatterns) : p.patrn \in Seq(Input)
  BY <1>1, <1>2, PatternSet, PatternText
<1>4. \A p \in ToSet(acsmPatterns) :
         IsSuffix(p.patrn, word[s]) <=> Ends(p.patrn, word[s])
  BY <1>2, <1>3, SuffixEnds
<1>5. Lists(MatchList[s], Pattern, Endings(word[s]))
  BY <1>1 DEF ListsDone
<1> QED
  BY <1>4, <1>5 DEF Lists, Endings

(* The completed row, and the loop over the fail states, both give what    *)
(* LongestSuffix chooses.                                                  *)
LEMMA MachineExactInv == IInv => MachineExact
<1> SUFFICES ASSUME IInv, pc = "done", NEW s \in States, NEW i \in Input
             PROVE  LongestSuffix(Append(word[s], i)) =
                       IF acsmFSA = "DFA" THEN GetNextState2(TransTable, s, i)
                       ELSE NextValid(s, i)
  BY DEF MachineExact
<1>1. /\ TrieInv /\ FailsDone /\ Words(word, Top) /\ States = 0 .. Top
      /\ acsmNumStates \in Nat \ {0} /\ acsmNumStates <= FAIL
  BY Completion DEF TrieInv, States, Top
<1>2. acsmFSA \in {"NFA", "DFA"} /\ DoneInv
  BY DEF IInv
<1>3. word[s] \in Seq(Input)
  BY <1>1, WordFacts
<1>4. Append(word[s], i) \in Seq(Input)
  BY <1>3, AppendProperties
<1>5. CASE acsmFSA = "DFA"
  <2>1. Longest(GetNextState2(TransTable, s, i), Append(word[s], i), word, Top)
    BY <1>2, <1>5 DEF DoneInv, Goes
  <2> QED
    BY <1>1, <1>4, <1>5, <2>1, LongestSuffixIs
<1>6. CASE acsmFSA = "NFA"
  <2>1. FailsUpTo(Len(word[s]))
    BY <1>1, <1>2, <1>6 DEF FailsUpTo, FailsDone, DoneInv, RowsInv
  <2>2. Longest(s, word[s], word, Top)
    BY <1>1, LongestSelf
  <2>3. Longest(NextValid(s, i), Append(word[s], i), word, Top)
    BY <1>1, <1>3, <2>1, <2>2, NextValidLongest
  <2> QED
    BY <1>1, <1>4, <1>6, <2>3, LongestSuffixIs
<1> QED
  BY <1>2, <1>5, <1>6

(* No write of the compilation leaves its table.                           *)
THEOREM StatesFitAlways == Spec => []StatesFit
BY Invariant, StatesFitInv, PTL

(* Once the patterns are laid out, the states are the prefixes of the      *)
(* patterns, each one exactly once.                                        *)
THEOREM TrieExactAlways == Spec => []TrieExact
BY Invariant, TrieExactInv, PTL

(* Every fail state Build_NFA leaves is the longest proper suffix of its   *)
(* state.                                                                  *)
THEOREM FailLongestAlways == Spec => []FailLongest
BY Invariant, FailLongestInv, PTL

(* The match lists then hold what ends at their state, each pattern once.  *)
THEOREM MatchListExactAlways == Spec => []MatchListExact
BY Invariant, MatchListExactInv, PTL

(* Both machines, when done, go to the longest suffix of what is read.     *)
THEOREM MachineExactAlways == Spec => []MachineExact
BY Invariant, MachineExactInv, PTL

-----------------------------------------------------------------------------
(* The row of the current state, to cite the theorems on rows.             *)
F == INSTANCE AcRowsProofs WITH
        States <- 0 .. FAIL - 1,
        fmt <- acsmFormat,
        k <- state,
        full <- [i \in Input |-> GetNextState2(TransTable, state, i)],
        hasMatch <- (MatchList[state] # <<>>),
        ps <- NextState[state],
        pc <- spc

-----------------------------------------------------------------------------
(* The rows of the machine.                                                *)

(* Both instances of the row formats pack alike.                           *)
LEMMA SamePack ==
    ASSUME NEW fmt, NEW num, NEW vec
    PROVE  Rows!Pack(fmt, num, vec) = F!Pack(fmt, num, vec)
BY DEF Rows!Pack, F!Pack, Rows!ToFull, F!ToFull, Rows!ToSparse, F!ToSparse,
       Rows!ToBanded, F!ToBanded, Rows!ToSparseBands, F!ToSparseBands,
       Rows!Ascending, F!Ascending, Rows!NonZero, F!NonZero,
       Rows!Words, F!Words, Rows!Filled, F!Filled, Rows!BandWords, F!BandWords,
       Rows!BandBegins, F!BandBegins, Rows!BandEnd, F!BandEnd,
       Rows!FirstKey, F!FirstKey, Rows!LastKey, F!LastKey,
       Rows!Input, F!Input, Rows!ACF_FULL, F!ACF_FULL,
       Rows!ACF_SPARSE, F!ACF_SPARSE, Rows!ACF_BANDED, F!ACF_BANDED,
       Rows!ACF_SPARSEBANDS, F!ACF_SPARSEBANDS

(* And they look up alike.                                                 *)
LEMMA SameLookup ==
    ASSUME NEW row, NEW num, NEW input, NEW next
    PROVE  /\ Rows!NextFull(row, input) = F!NextFull(row, input)
           /\ Rows!NextBanded(row, input) = F!NextBanded(row, input)
           /\ Rows!GetNextStateDFA(row, input) = F!GetNextStateDFA(row, input)
           /\ Rows!GetNextStateNFA(row, num, input) =
                 F!GetNextStateNFA(row, num, input)
           /\ Rows!OrFail(num, next) = F!OrFail(num, next)
           /\ Rows!Format = F!Format
BY DEF Rows!NextFull, F!NextFull, Rows!NextBanded, F!NextBanded,
       Rows!GetNextStateDFA, F!GetNextStateDFA,
       Rows!GetNextStateNFA, F!GetNextStateNFA,
       Rows!NextSparse, F!NextSparse, Rows!NextSparseBands, F!NextSparseBands,
       Rows!BandOffset, F!BandOffset, Rows!OrFail, F!OrFail,
       Rows!NextBandedNFA, F!NextBandedNFA, Rows!NextSparseNFA, F!NextSparseNFA,
       Rows!Format, F!Format, Rows!ACF_FULL, F!ACF_FULL, Rows!ACF_FULLQ, F!ACF_FULLQ,
       Rows!ACF_SPARSE, F!ACF_SPARSE, Rows!ACF_BANDED, F!ACF_BANDED,
       Rows!ACF_SPARSEBANDS, F!ACF_SPARSEBANDS

(* What the theorems on rows assume.                                       *)
RowAssumptions ==
    /\ 0 .. FAIL - 1 \subseteq Nat
    /\ 0 \in 0 .. FAIL - 1
    /\ FAIL \notin 0 .. FAIL - 1
    /\ FAIL \in Nat
    /\ AlphabetSize \in Nat \ {0}
    /\ FAIL >= AlphabetSize

(* The constants of the search satisfy it.                                 *)
LEMMA RowsApply == RowAssumptions
BY BuildAssumption, SearchAssumption DEF RowAssumptions

(* The row of a state, up to its match flag.                               *)
PackedRow(row, f, num, vec) ==
    /\ vec \in [Input -> 0 .. FAIL - 1]
    /\ f \in Rows!Format
    /\ F!Flagged(row, Rows!Pack(f, num, vec))

(* A packed row has a word for the flag.                                   *)
LEMMA RowHasFlag ==
    ASSUME NEW vec \in [Input -> 0 .. FAIL - 1], NEW f \in Rows!Format, NEW num
    PROVE  1 \in DOMAIN Rows!Pack(f, num, vec)
<1>1. vec \in F!FullRow /\ f \in F!Format
  BY SameLookup DEF F!FullRow, F!Input, Input
<1>2. 1 \in DOMAIN F!Pack(f, num, vec)
  BY <1>1, RowsApply, F!PackedHasFlag DEF RowAssumptions
<1> QED
  BY <1>2, SamePack

(* Every search looks up the transitions the row was built from.           *)
LEMMA RowLookups ==
    ASSUME NEW row, NEW f, NEW num, NEW vec, PackedRow(row, f, num, vec),
           NEW i \in Input
    PROVE  /\ f \in FullFormats => Rows!NextFull(row, i) = vec[i]
           /\ f = Rows!ACF_BANDED => Rows!NextBanded(row, i) = vec[i]
           /\ Rows!GetNextStateDFA(row, i) = vec[i]
           /\ f # Rows!ACF_BANDED =>
                 Rows!GetNextStateNFA(row, num, i) = Rows!OrFail(num, vec[i])
<1>1. vec \in F!FullRow /\ f \in F!Format /\ i \in F!Input
  BY SameLookup DEF PackedRow, F!FullRow, F!Input, Input
<1>2. F!Flagged(row, F!Pack(f, num, vec))
  BY SamePack DEF PackedRow
<1>3. /\ Rows!ACF_FULL = F!ACF_FULL /\ Rows!ACF_FULLQ = F!ACF_FULLQ
      /\ Rows!ACF_BANDED = F!ACF_BANDED
  BY DEF Rows!ACF_FULL, F!ACF_FULL, Rows!ACF_FULLQ, F!ACF_FULLQ,
         Rows!ACF_BANDED, F!ACF_BANDED
<1>4. ASSUME f \in FullFormats
      PROVE  F!NextFull(row, i) = vec[i]
  <2>1. F!Pack(f, num, vec) = F!ToFull(vec)
    BY <1>4 DEF FullFormats, F!Pack, Rows!ACF_FULL, Rows!ACF_FULLQ,
       F!ACF_SPARSE, F!ACF_BANDED, F!ACF_SPARSEBANDS
  <2> QED
    BY <1>1, <1>2, <2>1, RowsApply, F!FullDecodes DEF RowAssumptions
<1>5. ASSUME f = Rows!ACF_BANDED
      PROVE  F!NextBanded(row, i) = vec[i]
  <2>1. F!Pack(f, num, vec) = F!ToBanded(vec)
    BY <1>5 DEF F!Pack, Rows!ACF_BANDED, F!ACF_SPARSE, F!ACF_BANDED
  <2> QED
    BY <1>1, <1>2, <2>1, RowsApply, F!BandedDecodes DEF RowAssumptions
<1>6. F!GetNextStateDFA(row, i) = vec[i]
  BY <1>1, <1>2, RowsApply, F!PackedDecodes DEF RowAssumptions
<1>7. f # F!ACF_BANDED => F!GetNextStateNFA(row, num, i) = F!OrFail(num, vec[i])
  BY <1>1, <1>2, RowsApply, F!PackedDecodesNFA DEF RowAssumptions
<1> QED
  BY <1>3, <1>4, <1>5, <1>6, <1>7, SameLookup

-----------------------------------------------------------------------------
(* The machine that is searched with.                                      *)

RowOf(s) == [i \in Input |-> GetNextState2(TransTable, s, i)]

(* The packed rows with their match flags.                                 *)
Packed ==
    \A s \in States :
       /\ PackedRow(NextState[s], acsmFormat, s, RowOf(s))
       /\ NextState[s][1] = 1 <=> MatchList[s] # <<>>

(* The compilation is complete: nothing of it is left to do.               *)
Compiled == IInv /\ pc = "done"

(* What a search relies on.                                                *)
LEMMA CompiledFacts ==
    ASSUME Compiled
    PROVE  /\ PatternsInv /\ TrieInv /\ FailsDone /\ ListsDone /\ DoneInv
           /\ Words(word, Top) /\ States = 0 .. Top
           /\ acsmFSA \in {"NFA", "DFA"}
           /\ acsmNumStates \in Nat \ {0} /\ acsmNumStates <= FAIL
           /\ States \subseteq 0 .. FAIL - 1 /\ FAIL \notin States
<1>1. PatternsInv /\ TrieInv /\ FailsDone /\ ListsDone
  BY Completion DEF Compiled
<1>2. DoneInv /\ acsmFSA \in {"NFA", "DFA"}
  BY DEF Compiled, IInv
<1>3. /\ Words(word, Top) /\ States = 0 .. Top
      /\ acsmNumStates \in Nat \ {0} /\ acsmNumStates <= FAIL
  BY <1>1 DEF TrieInv, States, Top
<1>4. States \subseteq 0 .. FAIL - 1 /\ FAIL \notin States
  BY <1>3, BuildAssumption DEF States
<1> QED
  BY <1>1, <1>2, <1>3, <1>4

(* Once it is complete the compilation does not step.                      *)
LEMMA CompiledStops ==
    ASSUME pc = "done"
    PROVE  ~ Next
BY DEF Next, AddPattern, BeginCompile, Compile, AddPatternStates, BeginNFA,
       NfaStep, EndNFA, BeginDFA, DfaStep, EndDFA

(* The rows of the table hold states.                                      *)
LEMMA RowsHoldStates ==
    ASSUME Compiled, NEW s \in States, NEW i \in Input
    PROVE  GetNextState2(TransTable, s, i) \in States
<1>1. /\ DoneInv /\ States = 0 .. Top /\ Words(word, Top)
      /\ acsmFSA \in {"NFA", "DFA"}
  BY CompiledFacts
<1>2. CASE acsmFSA = "DFA"
  BY <1>1, <1>2 DEF DoneInv, Goes, Longest
<1>3. CASE acsmFSA = "NFA"
  <2>1. NodeRow(TransTable[s], word, Top, s)
    BY <1>1, <1>3 DEF DoneInv, RowsInv
  <2>2. 0 \in 0 .. Top /\ 1 .. Top \subseteq 0 .. Top
    BY <1>1, WordFacts
  <2> QED
    BY <1>1, <2>1, <2>2 DEF NodeRow, GetNextState2
<1> QED
  BY <1>1, <1>2, <1>3

(* The end of _acsmCompile2 packs the rows and sets their flags.           *)
LEMMA PackRowsPacks ==
    ASSUME Compiled, acsmFormat \in Rows!Format, PackRows
    PROVE  Packed'
<1> DEFINE flag(s) == IF MatchList[s] # <<>> THEN 1 ELSE 0
<1>1. \A s \in States :
         NextState'[s] = [Rows!Pack(acsmFormat, s, RowOf(s)) EXCEPT ![1] = flag(s)]
  BY DEF PackRows, RowOf
<1>2. /\ UNCHANGED <<acsmNumStates, TransTable, MatchList, acsmFormat>>
      /\ States' = States /\ (\A s : RowOf(s)' = RowOf(s))
  BY DEF PackRows, vars, compileVars, States, RowOf, GetNextState2
<1>3. ASSUME NEW s \in States
      PROVE  /\ PackedRow(NextState'[s], acsmFormat, s, RowOf(s))
             /\ NextState'[s][1] = flag(s)
  <2>1. RowOf(s) \in [Input -> 0 .. FAIL - 1]
    BY RowsHoldStates, CompiledFacts DEF RowOf
  <2> HIDE DEF flag
  <2>2. 1 \in DOMAIN Rows!Pack(acsmFormat, s, RowOf(s))
    BY <2>1, RowHasFlag
  <2> QED
    BY <1>1, <2>1, <2>2 DEF PackedRow, F!Flagged
<1>4. ASSUME NEW s \in States
      PROVE  /\ PackedRow(NextState[s], acsmFormat, s, RowOf(s))'
             /\ (NextState[s][1] = 1 <=> MatchList[s] # <<>>)'
  <2>1. PackedRow(NextState[s], acsmFormat, s, RowOf(s))'
    BY <1>2, <1>3 DEF PackedRow, F!Flagged
  <2>2. (NextState[s][1] = 1 <=> MatchList[s] # <<>>)'
    BY <1>2, <1>3
  <2> QED
    BY <2>1, <2>2
<1> QED
  BY <1>2, <1>4 DEF Packed

(* A byte takes the deterministic machine to the longest suffix of what    *)
(* was read, through whatever rows.                                        *)
LEMMA StepDFA ==
    ASSUME Compiled, acsmFSA = "DFA", NEW x \in Seq(Input),
           NEW s, Longest(s, x, word, Top), NEW i \in Input
    PROVE  Longest(RowOf(s)[i], Append(x, i), word, Top)
<1>1. DoneInv /\ Words(word, Top) /\ s \in States
  BY CompiledFacts DEF Longest
<1>2. Longest(RowOf(s)[i], Append(word[s], i), word, Top)
  BY <1>1 DEF DoneInv, Goes, RowOf
<1> QED
  BY <1>1, <1>2, LongestStep

(* What the nondeterministic lookup answers for a row of the trie.         *)
LEMMA RowNFA ==
    ASSUME Compiled, acsmFSA = "NFA", NEW s \in States, NEW i \in Input
    PROVE  Rows!OrFail(s, RowOf(s)[i]) = GetNextState(TransTable, s, i)
<1>1. NodeRow(TransTable[s], word, Top, s)
  BY CompiledFacts DEF DoneInv, RowsInv
<1>2. \A j \in DOMAIN TransTable[s] : TransTable[s][j] # 0
  BY <1>1 DEF NodeRow
<1> QED
  BY <1>2 DEF Rows!OrFail, RowOf, GetNextState, GetNextState2

(* The nondeterministic machine takes a byte from the first state on the   *)
(* way of the fail states that has a transition on it, as NextValid does.  *)
LEMMA StepNFA ==
    ASSUME Compiled, Packed, acsmFSA = "NFA", acsmFormat # Rows!ACF_BANDED,
           NEW x \in Seq(Input), Longest(state, x, word, Top), NEW i \in Input,
           NEW from, from = TakesFrom(i)
    PROVE  Longest(Rows!GetNextStateNFA(NextState[from], from, i), Append(x, i),
                   word, Top)
<1> DEFINE n == acsmNumStates
           c == FailChain(state)
           A(j) == Rows!GetNextStateNFA(NextState[c[j]], c[j], i)
           B(j) == GetNextState(TransTable, c[j], i)
           P(j) == A(j) # FAIL /\ \A l \in 0 .. j - 1 : ~ (A(l) # FAIL)
           Q(j) == B(j) # FAIL /\ \A l \in 0 .. j - 1 : ~ (B(l) # FAIL)
           a == CHOOSE j \in 0 .. n : P(j)
           b == CHOOSE j \in 0 .. n : Q(j)
<1>1. /\ DoneInv /\ TrieInv /\ FailsDone /\ Words(word, Top) /\ States = 0 .. Top
      /\ n \in Nat \ {0} /\ n <= FAIL /\ state \in States
  BY CompiledFacts DEF Longest
<1>2. c \in [0 .. n -> States]
  BY <1>1, FailChainUnfolds DEF FailsDone
<1>3. \A s \in States :
         Rows!GetNextStateNFA(NextState[s], s, i) = GetNextState(TransTable, s, i)
  BY RowLookups, RowNFA DEF Packed
<1>4. \A j \in 0 .. n : A(j) = B(j)
  BY <1>2, <1>3
<1>5. from = c[a]
  BY DEF TakesFrom
<1>6. NextValid(state, i) = B(b)
  BY DEF NextValid
<1>7. FailsUpTo(Len(word[state]))
  BY <1>1 DEF FailsUpTo, FailsDone, DoneInv, RowsInv
<1>8. Longest(NextValid(state, i), Append(x, i), word, Top)
  BY <1>1, <1>7, NextValidLongest
<1>9. \E j \in 0 .. n : Q(j)
  BY <1>1, <1>7, FailChainTakes
<1>10. Rows!GetNextStateNFA(NextState[from], from, i) = A(a)
  BY <1>5
<1>11. \A j \in 0 .. n : P(j) <=> Q(j)
  <2>1. \A j \in 0 .. n : \A l \in 0 .. j - 1 : l \in 0 .. n
    BY <1>1
  <2> QED
    BY <1>4, <2>1
<1> HIDE DEF A, B, P, Q
<1>12. b \in 0 .. n
  BY <1>9
<1>13. a = b
  BY <1>11, Zenon
<1> HIDE DEF a, b
<1>14. A(a) = B(b)
  BY <1>4, <1>12, <1>13
<1> QED
  BY <1>6, <1>8, <1>10, <1>14

-----------------------------------------------------------------------------
(* What is reported.                                                       *)

(* A pattern ends after e bytes of x.                                      *)
Occurs(x, e) ==
    \E p \in ToSet(acsmPatterns) : Ends(p.patrn, SubSeq(x, 1, e))

(* State s is reached after e bytes of x and has a match list.             *)
Matches(x, e, s) == /\ s \in States
                    /\ Longest(s, SubSeq(x, 1, e), word, Top)
                    /\ MatchList[s] # <<>>

(* A state has a match list if and only if a pattern ends where it is      *)
(* reached; the first entry of the list is such a pattern.                 *)
LEMMA ListTells ==
    ASSUME Compiled, NEW x \in Seq(Input), NEW s, Longest(s, x, word, Top)
    PROVE  /\ MatchList[s] # <<>> <=> \E p \in ToSet(acsmPatterns) : Ends(p.patrn, x)
           /\ MatchList[s] # <<>> => /\ Head(MatchList[s]) \in ToSet(acsmPatterns)
                                     /\ Head(MatchList[s]) \in Pattern
                                     /\ Ends(Head(MatchList[s]).patrn, x)
<1>1. /\ PatternsInv /\ ListsDone /\ Words(word, Top) /\ States = 0 .. Top
      /\ Covered(word, Top, Len(acsmPatterns))
  BY CompiledFacts DEF TrieInv
<1>2. /\ s \in States /\ Ends(word[s], x)
      /\ \A t \in States : Ends(word[t], x) => Len(word[t]) <= Len(word[s])
  BY <1>1 DEF Longest
<1>3. \A t \in States : word[t] \in Seq(Input)
  BY <1>1, WordFacts
<1>4. ASSUME NEW p \in ToSet(acsmPatterns)
      PROVE  p \in Pattern /\ p.patrn \in Seq(Input) /\ \E t \in States : word[t] = p.patrn
  <2>1. p \in Pattern /\ \E k \in 1 .. Len(acsmPatterns) : p = acsmPatterns[k]
    BY <1>1, <1>2, <1>3, PatternSet
  <2>2. PICK k \in 1 .. Len(acsmPatterns) : p = acsmPatterns[k]
    BY <2>1
  <2>3. p.patrn \in Seq(Input) /\ Len(p.patrn) \in 0 .. Len(p.patrn)
    BY <2>1, PatternText
  <2>4. \E t \in 0 .. Top : word[t] = SubSeq(p.patrn, 1, Len(p.patrn))
    BY <1>1, <2>2, <2>3 DEF Covered
  <2>5. SubSeq(p.patrn, 1, Len(p.patrn)) = p.patrn
    BY <2>3, PrefixStep
  <2> QED
    BY <1>1, <2>1, <2>3, <2>4, <2>5
<1>5. /\ MatchList[s] \in Seq(Pattern)
      /\ ToSet(MatchList[s]) = Endings(word[s])
  BY <1>1, <1>2 DEF ListsDone, Lists
<1>6. ASSUME NEW p \in ToSet(acsmPatterns)
      PROVE  p \in Endings(word[s]) <=> Ends(p.patrn, x)
  <2>1. PICK t \in States : word[t] = p.patrn
    BY <1>4
  <2>2. p.patrn \in Seq(Input) /\ word[s] \in Seq(Input)
    BY <1>2, <1>3, <1>4
  <2>3. Ends(p.patrn, word[s]) => Ends(p.patrn, x)
    BY <1>2, <2>2, EndsOrder
  <2>4. ASSUME Ends(p.patrn, x)
        PROVE  Ends(p.patrn, word[s])
    <3>1. Len(p.patrn) <= Len(word[s])
      BY <1>2, <2>1, <2>4
    <3> QED
      BY <1>2, <2>2, <2>4, <3>1, EndsOrder
  <2> QED
    BY <2>3, <2>4 DEF Endings
<1>7. ASSUME MatchList[s] # <<>>
      PROVE  Head(MatchList[s]) \in Endings(word[s])
  <2>1. Head(MatchList[s]) = MatchList[s][1] /\ 1 \in DOMAIN MatchList[s]
    BY <1>5, <1>7, HeadTailProperties, LenProperties, EmptySeq
  <2>2. Head(MatchList[s]) \in ToSet(MatchList[s])
    BY <2>1 DEF ToSet
  <2> QED
    BY <1>5, <2>2
<1>8. ASSUME MatchList[s] = <<>>
      PROVE  Endings(word[s]) = {}
  BY <1>5, <1>8 DEF ToSet
<1>9. Endings(word[s]) \subseteq ToSet(acsmPatterns)
  BY DEF Endings
<1> QED
  BY <1>4, <1>6, <1>7, <1>8, <1>9

(* The prefixes of a text stay what they are when a byte is added.         *)
LEMMA PrefixKept ==
    ASSUME NEW x \in Seq(Input), NEW a \in Input
    PROVE  /\ Append(x, a) \in Seq(Input)
           /\ Len(x) \in Nat
           /\ Len(Append(x, a)) = Len(x) + 1
           /\ \A e \in 0 .. Len(x) : SubSeq(Append(x, a), 1, e) = SubSeq(x, 1, e)
<1> DEFINE y == Append(x, a)
<1>1. /\ y \in Seq(Input) /\ Len(x) \in Nat /\ Len(y) = Len(x) + 1
      /\ \A i \in 1 .. Len(x) : y[i] = x[i]
  BY AppendProperties, LenProperties
<1>2. ASSUME NEW e \in 0 .. Len(x)
      PROVE  SubSeq(y, 1, e) = SubSeq(x, 1, e)
  <2> HIDE DEF y
  <2>1. SubSeq(y, 1, e) = [i \in 1 .. e |-> y[i]]
    BY <1>1
  <2>2. SubSeq(x, 1, e) = [i \in 1 .. e |-> x[i]]
    BY <1>1
  <2>3. \A i \in 1 .. e : y[i] = x[i]
    BY <1>1
  <2> QED
    BY <2>1, <2>2, <2>3
<1> QED
  BY <1>1, <1>2

(* After e bytes: the prefix and what ends there.                          *)
LEMMA MatchFacts ==
    ASSUME Compiled, NEW x \in Seq(Input), NEW e \in 0 .. Len(x),
           NEW s, Longest(s, SubSeq(x, 1, e), word, Top)
    PROVE  /\ s \in States
           /\ MatchList[s] # <<>> <=> Occurs(x, e)
           /\ MatchList[s] # <<>> => Matches(x, e, s)
           /\ MatchList[s] # <<>> =>
                 LET p == Head(MatchList[s])
                 IN  /\ p \in ToSet(acsmPatterns) /\ p \in Pattern
                     /\ p.patrn \in Seq(Input)
                     /\ Len(p.patrn) \in 1 .. e
                     /\ Ends(p.patrn, SubSeq(x, 1, e))
<1>1. SubSeq(x, 1, e) \in Seq(Input) /\ Len(SubSeq(x, 1, e)) = e
  BY PrefixStep
<1>2. s \in States
  BY CompiledFacts DEF Longest
<1>3. MatchList[s] # <<>> <=> Occurs(x, e)
  BY <1>1, ListTells DEF Occurs
<1>4. ASSUME MatchList[s] # <<>>, NEW p, p = Head(MatchList[s])
      PROVE  /\ p \in ToSet(acsmPatterns) /\ p \in Pattern
             /\ p.patrn \in Seq(Input)
             /\ Len(p.patrn) \in 1 .. e
             /\ Ends(p.patrn, SubSeq(x, 1, e))
  <2>1. p \in ToSet(acsmPatterns) /\ p \in Pattern /\ Ends(p.patrn, SubSeq(x, 1, e))
    BY <1>1, <1>4, ListTells
  <2>2. p.patrn \in Seq(Input) /\ Len(p.patrn) \in Nat \ {0}
    BY <2>1, PatternText
  <2>3. Len(p.patrn) <= e
    BY <1>1, <2>1 DEF Ends
  <2> QED
    BY <2>1, <2>2, <2>3
<1> QED
  BY <1>2, <1>3, <1>4 DEF Matches

(* At the beginning nothing matches.                                       *)
LEMMA NothingAtStart ==
    ASSUME Compiled, NEW x \in Seq(Input)
    PROVE  ~ Occurs(x, 0)
<1>1. PatternsInv /\ <<>> \in Seq(Input)
  BY CompiledFacts
<1>2. ASSUME NEW p \in ToSet(acsmPatterns)
      PROVE  ~ Ends(p.patrn, SubSeq(x, 1, 0))
  <2>1. p \in Pattern
    BY <1>1, PatternSet
  <2>2. Len(p.patrn) \in Nat \ {0}
    BY <2>1, PatternText
  <2>3. Len(SubSeq(x, 1, 0)) = 0
    BY PrefixStep, LenProperties
  <2> QED
    BY <2>2, <2>3 DEF Ends
<1> QED
  BY <1>2 DEF Occurs

-----------------------------------------------------------------------------
(* The searches that report at once: one report for each place where a     *)
(* pattern ends, in the order of the places.                               *)

(* The queued search, and the searches that test a state before they take  *)
(* the byte after it.                                                      *)
QueuedSearch == Is("DFA", {Rows!ACF_FULLQ})

LateSearch == Is("DFA", FullFormats \cup {Rows!ACF_BANDED})

(* A call of Match.                                                        *)
HitRecord == [entry : Pattern, id : {"udata", "iid"}, index : Int]

(* The hits h for the first m bytes of x.                                  *)
Reported(h, x, m) ==
    /\ h \in Seq(HitRecord)
    /\ \A i \in 1 .. Len(h) :
          /\ EndOf(h[i]) \in 1 .. m
          /\ \E s \in States : /\ Matches(x, EndOf(h[i]), s)
                               /\ h[i].entry = Head(MatchList[s])
    /\ \A e \in 1 .. m : Occurs(x, e) => \E i \in 1 .. Len(h) : EndOf(h[i]) = e
    /\ \A i, j \in 1 .. Len(h) : i < j => EndOf(h[i]) < EndOf(h[j])

(* How far the text was tested before its prefix of n bytes is.            *)
Before(n) == IF n = 0 THEN 0 ELSE n - 1

(* The nondeterministic search is early by one byte.                       *)
LEMMA EarlyFacts ==
    /\ Early \in {0, 1}
    /\ LateSearch => Early = 0
    /\ \A g : /\ StartOf(g) = g.index + Early
             /\ EndOf(g) = StartOf(g) + Len(g.entry.patrn)
BY DEF Early, StartOf, EndOf, LateSearch, Is

(* A report is a record whose end is the place the state was reached at.   *)
LEMMA HitFacts ==
    ASSUME Compiled, NEW x \in Seq(Input), NEW n \in 0 .. Len(x),
           NEW s, Longest(s, SubSeq(x, 1, n), word, Top), MatchList[s] # <<>>,
           NEW id \in {"udata", "iid"}
    PROVE  /\ Hit(s, id, n - Early) \in HitRecord
           /\ Hit(s, id, n - Early).entry = Head(MatchList[s])
           /\ EndOf(Hit(s, id, n - Early)) = n
<1> DEFINE p == Head(MatchList[s])
           d == n - Early - Len(p.patrn)
           g == Hit(s, id, n - Early)
<1>1. n \in Nat
  BY LenProperties
<1>2. p \in Pattern /\ Len(p.patrn) \in 1 .. n
  BY MatchFacts
<1>3. /\ g.entry = p /\ g.index = d
      /\ g = [entry |-> p, id |-> id, index |-> d]
  BY DEF Hit
<1>4. d \in Int /\ (d + Early) + Len(p.patrn) = n
  BY <1>1, <1>2, EarlyFacts
<1> HIDE DEF p, d, g
<1>5. EndOf(g) = n
  BY <1>3, <1>4, EarlyFacts
<1> QED
  BY <1>2, <1>3, <1>4, <1>5 DEF HitRecord, p, g

(* Nothing is reported of no text.                                         *)
LEMMA ReportedStart ==
    ASSUME NEW x
    PROVE  Reported(<<>>, x, 0)
<1>1. <<>> \in Seq(HitRecord) /\ Len(<<>>) = 0
  BY EmptySeq
<1> DEFINE h == <<>>
<1>2. h \in Seq(HitRecord) /\ Len(h) = 0
  BY <1>1
<1> HIDE DEF h
<1>3. Reported(h, x, 0)
  BY <1>2 DEF Reported
<1> QED
  BY <1>3 DEF h

(* The test of the state after n bytes.                                    *)
LEMMA ReportedTest ==
    ASSUME Compiled, NEW x \in Seq(Input), NEW n \in 0 .. Len(x),
           NEW h, Reported(h, x, Before(n)),
           NEW s, Longest(s, SubSeq(x, 1, n), word, Top),
           NEW id \in {"udata", "iid"},
           NEW h2, h2 = IF MatchList[s] # <<>>
                        THEN Append(h, Hit(s, id, n - Early)) ELSE h
    PROVE  Reported(h2, x, n)
<1>1. n \in Nat /\ h \in Seq(HitRecord) /\ Len(h) \in Nat
  BY LenProperties DEF Reported
<1>2. MatchList[s] # <<>> <=> Occurs(x, n)
  BY MatchFacts
<1>3. CASE n = 0
  <2>1. MatchList[s] = <<>>
    BY <1>2, <1>3, NothingAtStart
  <2> QED
    BY <1>3, <2>1 DEF Before
<1>4. CASE n # 0 /\ MatchList[s] = <<>>
  <2>1. h2 = h /\ ~ Occurs(x, n) /\ Before(n) = n - 1
    BY <1>2, <1>4 DEF Before
  <2>2. \A e \in 1 .. n : e \in 1 .. n - 1 \/ e = n
    BY <1>1
  <2>3. \A e \in 1 .. n - 1 : e \in 1 .. n
    BY <1>1
  <2> QED
    BY <2>1, <2>2, <2>3 DEF Reported
<1>5. CASE n # 0 /\ MatchList[s] # <<>>
  <2> DEFINE g == Hit(s, id, n - Early)
             l == Len(h)
  <2>1. g \in HitRecord /\ g.entry = Head(MatchList[s]) /\ EndOf(g) = n
    BY <1>5, HitFacts
  <2>2. Matches(x, n, s) /\ s \in States
    BY <1>5, MatchFacts
  <2> HIDE DEF g
  <2>3. h2 = Append(h, g)
    BY <1>5 DEF g
  <2>4. /\ h2 \in Seq(HitRecord) /\ Len(h2) = l + 1
        /\ \A i \in 1 .. l : h2[i] = h[i]
        /\ h2[l + 1] = g
    BY <1>1, <2>1, <2>3, AppendProperties
  <2>5. Before(n) = n - 1 /\ n \in 1 .. n
    BY <1>1, <1>5 DEF Before
  <2>6. /\ \A i \in 1 .. l :
              /\ EndOf(h[i]) \in 1 .. n - 1
              /\ \E t \in States : /\ Matches(x, EndOf(h[i]), t)
                                   /\ h[i].entry = Head(MatchList[t])
        /\ \A e \in 1 .. n - 1 : Occurs(x, e) => \E i \in 1 .. l : EndOf(h[i]) = e
        /\ \A i, j \in 1 .. l : i < j => EndOf(h[i]) < EndOf(h[j])
    BY <2>5 DEF Reported
  <2> HIDE DEF l
  <2>7. l \in Nat
    BY <1>1 DEF l
  <2>8. /\ \A i \in 1 .. l + 1 : i \in 1 .. l \/ i = l + 1
        /\ \A i \in 1 .. l : i \in 1 .. l + 1
        /\ l + 1 \in 1 .. l + 1
        /\ \A e \in 1 .. n - 1 : e \in 1 .. n /\ e < n
        /\ \A e \in 1 .. n : e \in 1 .. n - 1 \/ e = n
    BY <1>1, <2>7
  <2>9. \A i \in 1 .. l + 1 :
           /\ EndOf(h2[i]) \in 1 .. n
           /\ \E t \in States : /\ Matches(x, EndOf(h2[i]), t)
                                /\ h2[i].entry = Head(MatchList[t])
    <3> SUFFICES ASSUME NEW i \in 1 .. l + 1
                 PROVE  /\ EndOf(h2[i]) \in 1 .. n
                        /\ \E t \in States : /\ Matches(x, EndOf(h2[i]), t)
                                             /\ h2[i].entry = Head(MatchList[t])
      OBVIOUS
    <3>1. CASE i = l + 1
      BY <2>1, <2>2, <2>4, <2>5, <3>1
    <3>2. CASE i \in 1 .. l
      <4>1. h2[i] = h[i]
        BY <2>4, <3>2
      <4>2. EndOf(h[i]) \in 1 .. n
        BY <2>6, <2>8, <3>2
      <4> QED
        BY <2>6, <3>2, <4>1, <4>2
    <3> QED
      BY <2>8, <3>1, <3>2
  <2>10. \A e \in 1 .. n : Occurs(x, e) => \E i \in 1 .. l + 1 : EndOf(h2[i]) = e
    <3> SUFFICES ASSUME NEW e \in 1 .. n, Occurs(x, e)
                 PROVE  \E i \in 1 .. l + 1 : EndOf(h2[i]) = e
      OBVIOUS
    <3>1. CASE e = n
      BY <2>1, <2>4, <2>8, <3>1
    <3>2. CASE e \in 1 .. n - 1
      <4>1. PICK i \in 1 .. l : EndOf(h[i]) = e
        BY <2>6, <3>2
      <4> QED
        BY <2>4, <2>8, <4>1
    <3> QED
      BY <2>8, <3>1, <3>2
  <2>11. ASSUME NEW i \in 1 .. l + 1, NEW j \in 1 .. l + 1, i < j
         PROVE  EndOf(h2[i]) < EndOf(h2[j])
    <3>1. i \in 1 .. l
      BY <2>7, <2>11
    <3>2. CASE j \in 1 .. l
      BY <2>4, <2>6, <2>11, <3>1, <3>2
    <3>3. CASE j = l + 1
      BY <2>1, <2>4, <2>6, <2>8, <3>1, <3>3
    <3> QED
      BY <2>8, <3>2, <3>3
  <2>12. Len(h2) = l + 1 /\ h2 \in Seq(HitRecord)
    BY <2>4
  <2> QED
    BY <2>9, <2>10, <2>11, <2>12 DEF Reported
<1> QED
  BY <1>3, <1>4, <1>5

(* What occurs in a text does not depend on what follows.                  *)
LEMMA TextGrows ==
    ASSUME NEW x \in Seq(Input), NEW a \in Input, NEW e \in 0 .. Len(x)
    PROVE  /\ Occurs(Append(x, a), e) <=> Occurs(x, e)
           /\ \A s : Matches(Append(x, a), e, s) <=> Matches(x, e, s)
BY PrefixKept DEF Occurs, Matches

(* A byte that was read but not tested.                                    *)
LEMMA ReportedMore ==
    ASSUME NEW x \in Seq(Input), NEW a \in Input, NEW m \in 0 .. Len(x),
           NEW h, Reported(h, x, m)
    PROVE  Reported(h, Append(x, a), m)
<1>1. \A e \in 1 .. m : e \in 0 .. Len(x)
  BY LenProperties
<1>2. \A e \in 1 .. m : /\ Occurs(Append(x, a), e) <=> Occurs(x, e)
                        /\ \A s : Matches(Append(x, a), e, s) <=> Matches(x, e, s)
  BY <1>1, TextGrows
<1> DEFINE y == Append(x, a)
<1> HIDE DEF y
<1>3. \A e \in 1 .. m : /\ Occurs(y, e) <=> Occurs(x, e)
                        /\ \A s : Matches(y, e, s) <=> Matches(x, e, s)
  BY <1>2 DEF y
<1>4. Reported(h, y, m)
  BY <1>3 DEF Reported
<1> QED
  BY <1>4 DEF y

(* The reports for a text are sound, complete and in order.                *)
LEMMA ReportedExact ==
    ASSUME Compiled, NEW x \in Seq(Input), NEW m \in 0 .. Len(x),
           NEW h, Reported(h, x, m)
    PROVE  /\ \A i \in 1 .. Len(h) :
                 /\ StartOf(h[i]) >= 0
                 /\ EndOf(h[i]) <= Len(x)
                 /\ SubSeq(x, StartOf(h[i]) + 1, EndOf(h[i])) = h[i].entry.patrn
           /\ {EndOf(h[i]) : i \in 1 .. Len(h)} = {e \in 1 .. m : Occurs(x, e)}
<1>1. m \in Nat /\ Len(x) \in Nat /\ m <= Len(x) /\ h \in Seq(HitRecord)
  BY LenProperties DEF Reported
<1>2. \A i \in 1 .. Len(h) :
         /\ EndOf(h[i]) \in 1 .. m
         /\ EndOf(h[i]) \in 0 .. Len(x)
         /\ \E s \in States : /\ Matches(x, EndOf(h[i]), s)
                              /\ h[i].entry = Head(MatchList[s])
  BY <1>1 DEF Reported
<1>3. ASSUME NEW i \in 1 .. Len(h)
      PROVE  /\ StartOf(h[i]) >= 0
             /\ EndOf(h[i]) <= Len(x)
             /\ SubSeq(x, StartOf(h[i]) + 1, EndOf(h[i])) = h[i].entry.patrn
             /\ Occurs(x, EndOf(h[i]))
  <2> DEFINE e == EndOf(h[i])
             p == h[i].entry.patrn
             d == StartOf(h[i])
             y == SubSeq(x, 1, e)
  <2>1. e \in 1 .. m /\ e \in 0 .. Len(x)
    BY <1>2
  <2>2. PICK s \in States : Matches(x, e, s) /\ h[i].entry = Head(MatchList[s])
    BY <1>2
  <2>3. Longest(s, y, word, Top) /\ MatchList[s] # <<>>
    BY <2>2 DEF Matches
  <2>4. /\ p \in Seq(Input) /\ Len(p) \in 1 .. e /\ Ends(p, y) /\ Occurs(x, e)
    BY <2>1, <2>2, <2>3, MatchFacts
  <2>5. h[i] \in HitRecord
    BY <1>1, ElementOfSeq
  <2>6. d \in Nat /\ e = d + Len(p)
    <3>1. h[i].index \in Int /\ d = h[i].index + Early /\ e = d + Len(p)
      BY <2>5, EarlyFacts DEF HitRecord
    <3>2. d \in Int
      BY <3>1, EarlyFacts
    <3> HIDE DEF d, p, e
    <3> QED
      BY <2>1, <2>4, <3>1, <3>2
  <2> HIDE DEF d, p, e
  <2>7. Len(y) = e /\ y = [k \in 1 .. e |-> x[k]]
    BY <1>1, <2>1
  <2>8. \A k \in 1 .. Len(p) : p[k] = x[d + k]
    <3> SUFFICES ASSUME NEW k \in 1 .. Len(p)
                 PROVE  p[k] = x[d + k]
      OBVIOUS
    <3>1. p[k] = y[e - Len(p) + k]
      BY <2>4, <2>7 DEF Ends
    <3>2. e - Len(p) + k = d + k /\ d + k \in 1 .. e
      BY <2>1, <2>4, <2>6
    <3> QED
      BY <2>7, <3>1, <3>2
  <2>9. SubSeq(x, d + 1, e) = p
    <3>1. p = [k \in 1 .. Len(p) |-> p[k]]
      BY <2>4, LenProperties
    <3>2. SubSeq(x, d + 1, e) = [k \in 1 .. (1 + e - (d + 1)) |-> x[(d + 1) + k - 1]]
      BY <1>1, <2>1, <2>6
    <3>3. 1 + e - (d + 1) = Len(p)
      BY <2>4, <2>6
    <3>4. \A k \in 1 .. Len(p) : (d + 1) + k - 1 = d + k
      BY <2>4, <2>6
    <3> HIDE DEF y
    <3>5. [k \in 1 .. Len(p) |-> x[(d + 1) + k - 1]] = [k \in 1 .. Len(p) |-> p[k]]
      BY <2>8, <3>4
    <3> QED
      BY <3>1, <3>2, <3>3, <3>5
  <2>10. d >= 0 /\ e <= Len(x)
    BY <1>1, <2>1, <2>6
  <2> QED
    BY <2>4, <2>9, <2>10 DEF d, p, e
<1>4. \A e \in 1 .. m : Occurs(x, e) => \E i \in 1 .. Len(h) : EndOf(h[i]) = e
  BY DEF Reported
<1>5. {EndOf(h[i]) : i \in 1 .. Len(h)} = {e \in 1 .. m : Occurs(x, e)}
  BY <1>2, <1>3, <1>4
<1> QED
  BY <1>3, <1>5

-----------------------------------------------------------------------------
(* The queued search: the matching states wait and are reported later.     *)

(* The hits h and the states w waiting for the first m bytes of x.         *)
Collected(h, w, x, m) ==
    /\ h \in Seq(HitRecord)
    /\ w \in Seq(States)
    /\ \A i, j \in 1 .. Len(w) : w[i] = w[j] => i = j
    /\ \A i \in 1 .. Len(h) : \E e \in 1 .. m, s \in States :
          Matches(x, e, s) /\ h[i].entry = Head(MatchList[s])
    /\ \A i \in 1 .. Len(w) : \E e \in 1 .. m : Matches(x, e, w[i])
    /\ \A e \in 1 .. m : Occurs(x, e) => \E s \in States :
          /\ Matches(x, e, s)
          /\ \/ \E i \in 1 .. Len(w) : w[i] = s
             \/ \E i \in 1 .. Len(h) : h[i].entry = Head(MatchList[s])

(* Nothing waits at the beginning.                                         *)
LEMMA CollectedStart ==
    ASSUME NEW x
    PROVE  Collected(<<>>, <<>>, x, 0)
<1> DEFINE h == <<>>
<1>1. h \in Seq(HitRecord) /\ h \in Seq(States) /\ Len(h) = 0
  BY EmptySeq
<1> HIDE DEF h
<1>2. Collected(h, h, x, 0)
  BY <1>1 DEF Collected
<1> QED
  BY <1>2 DEF h

(* The test of the state after n bytes: it waits, unless it waits already. *)
LEMMA CollectedTest ==
    ASSUME Compiled, NEW x \in Seq(Input), NEW n \in 0 .. Len(x),
           NEW h, NEW w, Collected(h, w, x, Before(n)),
           NEW s, Longest(s, SubSeq(x, 1, n), word, Top),
           NEW w2, w2 = IF MatchList[s] = <<>> \/ s \in ToSet(w) THEN w
                        ELSE Append(w, s)
    PROVE  Collected(h, w2, x, n)
<1>1. n \in Nat /\ h \in Seq(HitRecord) /\ w \in Seq(States) /\ Len(w) \in Nat
  BY LenProperties DEF Collected
<1>2. s \in States /\ (MatchList[s] # <<>> <=> Occurs(x, n))
  BY MatchFacts
<1>3. CASE n = 0
  <2>1. MatchList[s] = <<>>
    BY <1>2, <1>3, NothingAtStart
  <2> QED
    BY <1>3, <2>1 DEF Before
<1>4. CASE n # 0
  <2> DEFINE l == Len(w)
  <2>1. /\ \A i, j \in 1 .. l : w[i] = w[j] => i = j
        /\ \A i \in 1 .. Len(h) : \E e \in 1 .. n - 1, t \in States :
              Matches(x, e, t) /\ h[i].entry = Head(MatchList[t])
        /\ \A i \in 1 .. l : \E e \in 1 .. n - 1 : Matches(x, e, w[i])
        /\ \A e \in 1 .. n - 1 : Occurs(x, e) => \E t \in States :
              /\ Matches(x, e, t)
              /\ \/ \E i \in 1 .. l : w[i] = t
                 \/ \E i \in 1 .. Len(h) : h[i].entry = Head(MatchList[t])
    BY <1>4 DEF Collected, Before
  <2>2. /\ \A e \in 1 .. n - 1 : e \in 1 .. n
        /\ \A e \in 1 .. n : e \in 1 .. n - 1 \/ e = n
        /\ n \in 1 .. n
    BY <1>1, <1>4
  <2>3. \A i \in 1 .. Len(h) : \E e \in 1 .. n, t \in States :
           Matches(x, e, t) /\ h[i].entry = Head(MatchList[t])
    BY <2>1, <2>2
  <2>4. /\ w2 \in Seq(States)
        /\ \A i, j \in 1 .. Len(w2) : w2[i] = w2[j] => i = j
        /\ \A i \in 1 .. Len(w2) :
              (w2[i] = s /\ MatchList[s] # <<>>) \/ \E j \in 1 .. l : w2[i] = w[j]
        /\ \A j \in 1 .. l : \E i \in 1 .. Len(w2) : w2[i] = w[j]
        /\ MatchList[s] # <<>> => \E i \in 1 .. Len(w2) : w2[i] = s
    <3>1. s \in ToSet(w) <=> \E i \in 1 .. l : w[i] = s
      <4>1. DOMAIN w = 1 .. l
        BY <1>1, LenProperties
      <4> QED
        BY <4>1 DEF ToSet
    <3>2. CASE MatchList[s] = <<>> \/ s \in ToSet(w)
      BY <1>1, <2>1, <3>1, <3>2
    <3>3. CASE ~ (MatchList[s] = <<>> \/ s \in ToSet(w))
      <4>1. /\ w2 \in Seq(States) /\ Len(w2) = l + 1
            /\ \A i \in 1 .. l : w2[i] = w[i]
            /\ w2[l + 1] = s
        BY <1>1, <1>2, <3>3, AppendProperties
      <4>2. \A i \in 1 .. l : w[i] # s
        BY <3>1, <3>3
      <4>3. l \in Nat
        BY <1>1
      <4> HIDE DEF l
      <4>4. /\ \A i \in 1 .. l + 1 : i \in 1 .. l \/ i = l + 1
            /\ \A i \in 1 .. l : i \in 1 .. l + 1
            /\ l + 1 \in 1 .. l + 1
        BY <4>3
      <4>5. \A i, j \in 1 .. l + 1 : w2[i] = w2[j] => i = j
        BY <2>1, <4>1, <4>2, <4>4
      <4> QED
        BY <3>3, <4>1, <4>4, <4>5
    <3> QED
      BY <3>2, <3>3
  <2> HIDE DEF l
  <2>5. \A i \in 1 .. Len(w2) : \E e \in 1 .. n : Matches(x, e, w2[i])
    <3> SUFFICES ASSUME NEW i \in 1 .. Len(w2)
                 PROVE  \E e \in 1 .. n : Matches(x, e, w2[i])
      OBVIOUS
    <3>1. CASE w2[i] = s /\ MatchList[s] # <<>>
      BY <2>2, <3>1, MatchFacts
    <3>2. CASE \E j \in 1 .. l : w2[i] = w[j]
      BY <2>1, <2>2, <3>2
    <3> QED
      BY <2>4, <3>1, <3>2
  <2>6. ASSUME NEW e \in 1 .. n, Occurs(x, e)
        PROVE  \E t \in States :
                  /\ Matches(x, e, t)
                  /\ \/ \E i \in 1 .. Len(w2) : w2[i] = t
                     \/ \E i \in 1 .. Len(h) : h[i].entry = Head(MatchList[t])
    <3>1. CASE e = n
      <4>1. Matches(x, n, s) /\ \E i \in 1 .. Len(w2) : w2[i] = s
        BY <1>2, <2>4, <2>6, <3>1, MatchFacts
      <4> QED
        BY <1>2, <3>1, <4>1
    <3>2. CASE e \in 1 .. n - 1
      <4>1. PICK t \in States :
               /\ Matches(x, e, t)
               /\ \/ \E i \in 1 .. l : w[i] = t
                  \/ \E i \in 1 .. Len(h) : h[i].entry = Head(MatchList[t])
        BY <2>1, <2>6, <3>2
      <4>2. (\E i \in 1 .. l : w[i] = t) => \E i \in 1 .. Len(w2) : w2[i] = t
        BY <2>4
      <4> QED
        BY <4>1, <4>2
    <3> QED
      BY <2>2, <3>1, <3>2
  <2> QED
    BY <1>1, <2>3, <2>4, <2>5, <2>6 DEF Collected
<1> QED
  BY <1>3, <1>4

(* A queue that is emptied is reported.                                    *)
LEMMA CollectedProcess ==
    ASSUME Compiled, NEW x \in Seq(Input), NEW m \in 0 .. Len(x),
           NEW h, NEW w, Collected(h, w, x, m),
           NEW h2,
           h2 = h \o [i \in DOMAIN w |->
                        [entry |-> Head(MatchList[w[i]]), id |-> "udata", index |-> 0]]
    PROVE  Collected(h2, <<>>, x, m)
<1> DEFINE r(i) == [entry |-> Head(MatchList[w[i]]), id |-> "udata", index |-> 0]
           g == [i \in 1 .. Len(w) |-> r(i)]
           a == Len(h)
           b == Len(w)
           none == <<>>
<1>1. /\ h \in Seq(HitRecord) /\ w \in Seq(States) /\ a \in Nat /\ b \in Nat
      /\ DOMAIN w = 1 .. b
  BY LenProperties DEF Collected
<1>2. h2 = h \o g
  BY <1>1
<1>3. \A i \in 1 .. b : r(i) \in HitRecord /\ w[i] \in States
  <2> SUFFICES ASSUME NEW i \in 1 .. b
               PROVE  r(i) \in HitRecord /\ w[i] \in States
    OBVIOUS
  <2>1. PICK e \in 1 .. m : Matches(x, e, w[i])
    BY DEF Collected
  <2>2. e \in 0 .. Len(x)
    BY LenProperties
  <2>3. /\ w[i] \in States /\ MatchList[w[i]] # <<>>
        /\ Longest(w[i], SubSeq(x, 1, e), word, Top)
    BY <2>1 DEF Matches
  <2>4. Head(MatchList[w[i]]) \in Pattern
    BY <2>2, <2>3, MatchFacts
  <2> QED
    BY <2>3, <2>4 DEF HitRecord
<1>4. g \in Seq(HitRecord) /\ Len(g) = b /\ \A i \in 1 .. b : g[i] = r(i)
  BY <1>1, <1>3
<1> HIDE DEF g
<1>5. /\ h2 \in Seq(HitRecord) /\ Len(h2) = a + b
      /\ \A i \in 1 .. a : h2[i] = h[i]
      /\ \A i \in a + 1 .. a + b : h2[i] = g[i - a]
  <2>1. /\ h \o g \in Seq(HitRecord)
        /\ Len(h \o g) = Len(h) + Len(g)
        /\ \A i \in 1 .. Len(h) + Len(g) :
              (h \o g)[i] = IF i <= Len(h) THEN h[i] ELSE g[i - Len(h)]
    <3>1. h \in Seq(HitRecord) /\ g \in Seq(HitRecord)
      BY <1>1, <1>4
    <3> QED
      BY <3>1, ConcatProperties
  <2> DEFINE y == h \o g
  <2> HIDE DEF y
  <2>2. /\ y \in Seq(HitRecord) /\ Len(y) = a + b
        /\ \A i \in 1 .. a + b : y[i] = IF i <= a THEN h[i] ELSE g[i - a]
    BY <1>4, <2>1 DEF y
  <2>3. /\ \A i \in 1 .. a : i \in 1 .. a + b /\ i <= a
        /\ \A i \in a + 1 .. a + b : i \in 1 .. a + b /\ ~ (i <= a)
    BY <1>1
  <2>4. h2 = y
    BY <1>2 DEF y
  <2> QED
    BY <2>2, <2>3, <2>4
<1>6. /\ none \in Seq(States) /\ Len(none) = 0
  BY EmptySeq
<1> HIDE DEF none, a, b
<1>7. /\ \A i \in 1 .. a + b : i \in 1 .. a \/ i \in a + 1 .. a + b
      /\ \A i \in a + 1 .. a + b : i - a \in 1 .. b
      /\ \A i \in 1 .. a : i \in 1 .. a + b
      /\ \A i \in 1 .. b : a + i \in a + 1 .. a + b /\ (a + i) - a = i
      /\ \A i \in a + 1 .. a + b : i \in 1 .. a + b
  BY <1>1
<1>8. /\ \A i \in 1 .. a : \E e \in 1 .. m, s \in States :
            Matches(x, e, s) /\ h[i].entry = Head(MatchList[s])
      /\ \A i \in 1 .. b : \E e \in 1 .. m : Matches(x, e, w[i])
      /\ \A e \in 1 .. m : Occurs(x, e) => \E s \in States :
            /\ Matches(x, e, s)
            /\ \/ \E i \in 1 .. b : w[i] = s
               \/ \E i \in 1 .. a : h[i].entry = Head(MatchList[s])
  BY DEF Collected, a, b
<1>9. \A i \in 1 .. b : r(i).entry = Head(MatchList[w[i]])
  OBVIOUS
<1> HIDE DEF r
<1>10. ASSUME NEW i \in 1 .. a + b
       PROVE  \E e \in 1 .. m, s \in States :
                 Matches(x, e, s) /\ h2[i].entry = Head(MatchList[s])
  <2>1. CASE i \in 1 .. a
    BY <1>5, <1>8, <2>1
  <2>2. CASE i \in a + 1 .. a + b
    <3> DEFINE j == i - a
    <3>1. j \in 1 .. b /\ h2[i] = r(j)
      BY <1>4, <1>5, <1>7, <2>2
    <3> HIDE DEF j
    <3>2. h2[i].entry = Head(MatchList[w[j]]) /\ w[j] \in States
      BY <1>3, <1>9, <3>1
    <3> QED
      BY <1>8, <3>1, <3>2
  <2> QED
    BY <1>7, <2>1, <2>2
<1>11. ASSUME NEW e \in 1 .. m, Occurs(x, e)
       PROVE  \E s \in States :
                 /\ Matches(x, e, s)
                 /\ \E i \in 1 .. a + b : h2[i].entry = Head(MatchList[s])
  <2>1. PICK s \in States :
           /\ Matches(x, e, s)
           /\ \/ \E i \in 1 .. b : w[i] = s
              \/ \E i \in 1 .. a : h[i].entry = Head(MatchList[s])
    BY <1>8, <1>11
  <2>2. CASE \E i \in 1 .. a : h[i].entry = Head(MatchList[s])
    BY <1>5, <1>7, <2>1, <2>2
  <2>3. CASE \E i \in 1 .. b : w[i] = s
    <3>1. PICK i \in 1 .. b : w[i] = s
      BY <2>3
    <3> DEFINE j == a + i
    <3>2. j \in a + 1 .. a + b /\ j - a = i /\ j \in 1 .. a + b
      BY <1>7
    <3> HIDE DEF j
    <3>3. h2[j] = r(i)
      BY <1>4, <1>5, <3>2
    <3>4. h2[j].entry = Head(MatchList[s])
      BY <1>9, <3>1, <3>3
    <3> QED
      BY <2>1, <3>2, <3>4
  <2> QED
    BY <2>1, <2>2, <2>3
<1>12. Collected(h2, none, x, m)
  <2>1. 1 .. Len(none) = {}
    BY <1>6
  <2>2. /\ Len(h2) = a + b /\ h2 \in Seq(HitRecord)
    BY <1>5
  <2>3. /\ \A i, j \in 1 .. Len(none) : none[i] = none[j] => i = j
        /\ \A i \in 1 .. Len(none) : \E e \in 1 .. m : Matches(x, e, none[i])
    BY <2>1
  <2>4. \A i \in 1 .. Len(h2) : \E e \in 1 .. m, s \in States :
           Matches(x, e, s) /\ h2[i].entry = Head(MatchList[s])
    BY <1>10, <2>2
  <2>5. \A e \in 1 .. m : Occurs(x, e) => \E s \in States :
           /\ Matches(x, e, s)
           /\ \/ \E i \in 1 .. Len(none) : none[i] = s
              \/ \E i \in 1 .. Len(h2) : h2[i].entry = Head(MatchList[s])
    BY <1>11, <2>2
  <2> QED
    BY <1>6, <2>2, <2>3, <2>4, <2>5 DEF Collected
<1> QED
  BY <1>12 DEF none

(* A byte that was read but not tested.                                    *)
LEMMA CollectedMore ==
    ASSUME NEW x \in Seq(Input), NEW a \in Input, NEW m \in 0 .. Len(x),
           NEW h, NEW w, Collected(h, w, x, m)
    PROVE  Collected(h, w, Append(x, a), m)
<1> DEFINE y == Append(x, a)
<1>1. \A e \in 1 .. m : e \in 0 .. Len(x)
  BY LenProperties
<1>2. \A e \in 1 .. m : /\ Occurs(y, e) <=> Occurs(x, e)
                        /\ \A s : Matches(y, e, s) <=> Matches(x, e, s)
  BY <1>1, TextGrows
<1> HIDE DEF y
<1>3. Collected(h, w, y, m)
  BY <1>2 DEF Collected
<1> QED
  BY <1>3 DEF y

-----------------------------------------------------------------------------
(* The inductive invariant.                                                *)

(* How many bytes have been tested.                                        *)
Tested == IF spc = "end" \/ (spc = "scan" /\ ~ LateSearch) THEN Len(Tx)
          ELSE Before(Len(Tx))

Found(h, w, x, m) ==
    /\ QueuedSearch => Collected(h, w, x, m)
    /\ ~ QueuedSearch => Reported(h, x, m) /\ w = <<>>

SearchInv ==
    /\ IInv
    /\ acsmFormat \in Rows!Format
    /\ acsmFSA = "NFA" => acsmFormat # Rows!ACF_BANDED
    /\ spc \in {"compile", "scan", "end", "crash"}
    /\ spc = "compile" => Tx = <<>> /\ state = 0 /\ q = <<>> /\ hits = <<>>
    /\ Tx \in Seq(Input)
    /\ spc # "compile" => pc = "done" /\ Found(hits, q, Tx, Tested)
    /\ spc = "scan" => Packed /\ Len(q) < AC_MAX_INQ
    /\ spc = "end" => q = <<>>
    /\ spc = "crash" => acsmFSA = "NFA"
    /\ spc \in {"scan", "end"} => Longest(state, Tx, word, Top)

(* What holds while a text is scanned.                                     *)
LEMMA ScanFacts ==
    ASSUME SearchInv, spc = "scan"
    PROVE  /\ Compiled /\ Packed
           /\ Tx \in Seq(Input) /\ Len(Tx) \in Nat
           /\ Longest(state, Tx, word, Top) /\ state \in States
           /\ Longest(state, SubSeq(Tx, 1, Len(Tx)), word, Top)
           /\ NextState[state][1] = 1 <=> MatchList[state] # <<>>
           /\ Found(hits, q, Tx, IF LateSearch THEN Before(Len(Tx)) ELSE Len(Tx))
           /\ Len(q) < AC_MAX_INQ
           /\ AC_MAX_INQ \in Nat \ {0}
<1>1. Compiled /\ Packed /\ Tx \in Seq(Input) /\ Longest(state, Tx, word, Top)
  BY DEF SearchInv, Compiled
<1>2. state \in States
  BY <1>1, CompiledFacts DEF Longest
<1>3. Len(Tx) \in Nat /\ SubSeq(Tx, 1, Len(Tx)) = Tx
  BY <1>1, LenProperties, PrefixStep
<1>4. Found(hits, q, Tx, IF LateSearch THEN Before(Len(Tx)) ELSE Len(Tx))
  BY DEF SearchInv, Tested
<1> QED
  BY <1>1, <1>2, <1>3, <1>4, SearchAssumption DEF Packed, SearchInv

(* A step of a search leaves the machine alone.                            *)
LEMMA ScanKeeps ==
    ASSUME SearchInv, spc = "scan",
           UNCHANGED <<vars, acsmFormat, NextState>>,
           spc' \in {"scan", "end", "crash"},
           spc' = "crash" => acsmFSA = "NFA",
           Tx' \in Seq(Input),
           spc' # "crash" => Longest(state', Tx', word, Top),
           Found(hits', q', Tx', Tested'),
           spc' = "scan" => Len(q') < AC_MAX_INQ,
           spc' = "end" => q' = <<>>
    PROVE  SearchInv'
<1>1. /\ acsmFSA' = acsmFSA /\ MatchList' = MatchList /\ word' = word
      /\ acsmNumStates' = acsmNumStates /\ acsmPatterns' = acsmPatterns
      /\ TransTable' = TransTable /\ pc' = pc
      /\ Top' = Top /\ States' = States
  BY DEF vars, compileVars, Top, States
<1>2. IInv'
  BY NextInv DEF SearchInv
<1>3. Packed'
  <2>1. \A s : RowOf(s)' = RowOf(s)
    BY <1>1 DEF RowOf, GetNextState2
  <2>2. Packed /\ NextState' = NextState /\ acsmFormat' = acsmFormat
    BY DEF SearchInv
  <2>3. ASSUME NEW s \in States
        PROVE  /\ PackedRow(NextState[s], acsmFormat, s, RowOf(s))'
               /\ (NextState[s][1] = 1 <=> MatchList[s] # <<>>)'
    <3>1. PackedRow(NextState[s], acsmFormat, s, RowOf(s))
      BY <2>2 DEF Packed
    <3>2. PackedRow(NextState[s], acsmFormat, s, RowOf(s))'
      BY <2>1, <2>2, <3>1 DEF PackedRow, F!Flagged
    <3>3. (NextState[s][1] = 1 <=> MatchList[s] # <<>>)'
      BY <1>1, <2>2 DEF Packed
    <3> QED
      BY <3>2, <3>3
  <2> QED
    BY <1>1, <2>3 DEF Packed
<1>4. Reported(hits', Tx', Tested') => Reported(hits, Tx, Tested)'
  BY <1>1 DEF Reported, Matches, Occurs, EndOf, StartOf, Early
<1>5. Collected(hits', q', Tx', Tested') => Collected(hits, q, Tx, Tested)'
  BY <1>1 DEF Collected, Matches, Occurs
<1>6. QueuedSearch' = QueuedSearch
  BY <1>1 DEF QueuedSearch, Is
<1>7. Found(hits, q, Tx, Tested)'
  BY <1>4, <1>5, <1>6 DEF Found
<1>8. spc' \in {"scan", "end"} => Longest(state, Tx, word, Top)'
  BY <1>1
<1> QED
  BY <1>1, <1>2, <1>3, <1>7, <1>8 DEF SearchInv

(* A byte is read: the text and its length.                                *)
LEMMA ReadFacts ==
    ASSUME SearchInv, NEW b \in Byte, Read(b)
    PROVE  /\ spc = "scan"
           /\ xlatcase[b] \in Input
           /\ Tx' = Append(Tx, xlatcase[b])
           /\ Tx' \in Seq(Input) /\ Len(Tx') = Len(Tx) + 1
           /\ Before(Len(Tx')) = Len(Tx) /\ Len(Tx) \in 0 .. Len(Tx)
           /\ SubSeq(Tx', 1, Len(Tx')) = Tx' /\ Len(Tx') \in 0 .. Len(Tx')
           /\ UNCHANGED <<vars, acsmFormat, NextState>>
           /\ LateSearch' = LateSearch
           /\ QueuedSearch => LateSearch
<1>1. spc = "scan" /\ Tx' = Append(Tx, xlatcase[b]) /\ Tx \in Seq(Input)
      /\ UNCHANGED <<vars, acsmFormat, NextState>>
  BY DEF Read, SearchInv
<1>2. xlatcase[b] \in Input
  BY SearchAssumption
<1>3. Tx' \in Seq(Input) /\ Len(Tx') = Len(Tx) + 1 /\ Len(Tx) \in Nat
  BY <1>1, <1>2, PrefixKept
<1>4. SubSeq(Tx', 1, Len(Tx')) = Tx'
  BY <1>3, PrefixStep
<1>5. Before(Len(Tx')) = Len(Tx)
  BY <1>3 DEF Before
<1>6. LateSearch' = LateSearch
  BY <1>1 DEF LateSearch, Is, vars, FullFormats
<1>7. QueuedSearch => LateSearch
  BY DEF QueuedSearch, LateSearch, Is, FullFormats
<1> QED
  BY <1>1, <1>2, <1>3, <1>4, <1>5, <1>6, <1>7

(* Searches that test the state before they take the byte.                 *)
LEMMA ReportBefore ==
    ASSUME SearchInv, NEW b \in Byte, Read(b), LateSearch, ~ QueuedSearch,
           NEW id \in {"udata", "iid"}
    PROVE  Reported(Report(state, id, Len(Tx)), Tx', Len(Tx)) /\ q = <<>>
<1>1. /\ Compiled /\ Tx \in Seq(Input) /\ Len(Tx) \in 0 .. Len(Tx)
      /\ Longest(state, SubSeq(Tx, 1, Len(Tx)), word, Top)
      /\ NextState[state][1] = 1 <=> MatchList[state] # <<>>
      /\ Reported(hits, Tx, Before(Len(Tx))) /\ q = <<>>
  BY ReadFacts, ScanFacts DEF Found
<1> DEFINE h2 == Report(state, id, Len(Tx))
<1>2. h2 = IF MatchList[state] # <<>> THEN Append(hits, Hit(state, id, Len(Tx)))
           ELSE hits
  BY <1>1 DEF Report
<1> HIDE DEF h2
<1>3. Reported(h2, Tx, Len(Tx))
  <2>1. Len(Tx) - Early = Len(Tx)
    BY <1>1, EarlyFacts
  <2> QED
    BY <1>1, <1>2, <2>1, ReportedTest
<1>4. Reported(h2, Append(Tx, xlatcase[b]), Len(Tx))
  BY <1>1, <1>3, ReadFacts, ReportedMore
<1> QED
  BY <1>1, <1>4, ReadFacts DEF h2

(* Searches that test the state the byte leads to.                         *)
LEMMA ReportAfter ==
    ASSUME SearchInv, NEW b \in Byte, Read(b), ~ LateSearch,
           NEW s, Longest(s, Tx', word, Top),
           NEW h2, h2 = IF MatchList[s] # <<>>
                        THEN Append(hits, Hit(s, "udata", Len(Tx) + 1 - Early))
                        ELSE hits
    PROVE  Reported(h2, Tx', Len(Tx')) /\ q = <<>>
<1>1. /\ Compiled /\ Tx \in Seq(Input) /\ Len(Tx) \in 0 .. Len(Tx)
      /\ Reported(hits, Tx, Len(Tx)) /\ q = <<>>
  BY ReadFacts, ScanFacts DEF Found
<1>2. Reported(hits, Append(Tx, xlatcase[b]), Len(Tx))
  BY <1>1, ReadFacts, ReportedMore
<1> DEFINE y == Append(Tx, xlatcase[b])
           n == Len(y)
<1>3. /\ y \in Seq(Input) /\ n \in 0 .. n /\ n = Len(Tx) + 1
      /\ Reported(hits, y, Before(n))
      /\ Longest(s, SubSeq(y, 1, n), word, Top)
      /\ y = Tx' /\ n = Len(y)
  BY <1>2, ReadFacts
<1> HIDE DEF y, n
<1>4. h2 = IF MatchList[s] # <<>> THEN Append(hits, Hit(s, "udata", n - Early))
           ELSE hits
  <2>1. n = Len(Tx) + 1 /\ Len(Tx) \in Nat /\ Early \in Int
    BY <1>1, <1>3, EarlyFacts
  <2>2. n - Early = Len(Tx) + 1 - Early
    BY <2>1
  <2> QED
    BY <2>2
<1>5. Reported(h2, y, n)
  BY <1>1, <1>3, <1>4, ReportedTest
<1> QED
  BY <1>1, <1>3, <1>5

(* The match flag tells whether the match list is empty.                   *)
LEMMA FlagTells ==
    ASSUME SearchInv, spc = "scan", NEW s, NEW x, Longest(s, x, word, Top)
    PROVE  (NextState[s][1] = 1) <=> (MatchList[s] # <<>>)
<1>1. Compiled /\ Packed
  BY ScanFacts
<1>2. s \in States
  BY <1>1, CompiledFacts DEF Longest
<1> QED
  BY <1>1, <1>2 DEF Packed

(* The lookups of the deterministic searches go to the longest suffix.     *)
LEMMA MovesDFA ==
    ASSUME SearchInv, NEW b \in Byte, Read(b), acsmFSA = "DFA",
           NEW a, a = xlatcase[b]
    PROVE  /\ acsmFormat \in FullFormats =>
                 Longest(Rows!NextFull(NextState[state], a), Tx', word, Top)
           /\ acsmFormat = Rows!ACF_BANDED =>
                 Longest(Rows!NextBanded(NextState[state], a), Tx', word, Top)
           /\ Longest(Rows!GetNextStateDFA(NextState[state], a), Tx', word, Top)
<1>1. /\ Compiled /\ Packed /\ Tx \in Seq(Input) /\ state \in States
      /\ Longest(state, Tx, word, Top)
  BY ReadFacts, ScanFacts
<1>2. a \in Input /\ Tx' = Append(Tx, a)
  BY ReadFacts
<1>3. Longest(RowOf(state)[a], Append(Tx, a), word, Top)
  BY <1>1, <1>2, StepDFA
<1>4. PackedRow(NextState[state], acsmFormat, state, RowOf(state))
  BY <1>1 DEF Packed
<1> QED
  BY <1>2, <1>3, <1>4, RowLookups

(* acsmSearchSparseDFA_Full and acsmSearchSparseDFA_Banded.                *)
LEMMA ScanLateInv ==
    ASSUME SearchInv, NEW b \in Byte, ScanFull(b) \/ ScanBanded(b)
    PROVE  SearchInv'
<1>1. /\ Read(b) /\ spc' = spc /\ q' = q
      /\ LateSearch /\ ~ QueuedSearch /\ acsmFSA = "DFA"
  BY DEF ScanFull, ScanBanded, LateSearch, QueuedSearch, Is, FullFormats,
         Rows!ACF_FULL, Rows!ACF_FULLQ, Rows!ACF_BANDED
<1>2. Longest(state', Tx', word, Top)
  BY <1>1, MovesDFA DEF ScanFull, ScanBanded, Is, FullFormats
<1>3. Reported(hits', Tx', Len(Tx)) /\ q = <<>>
  BY <1>1, ReportBefore DEF ScanFull, ScanBanded
<1>4. Tested' = Len(Tx) /\ spc = "scan"
  BY <1>1, ReadFacts DEF Tested
<1>5. Found(hits', q', Tx', Tested')
  BY <1>1, <1>3, <1>4 DEF Found
<1>6. Len(q') < AC_MAX_INQ
  BY <1>1, <1>4, ScanFacts
<1> QED
  BY <1>1, <1>2, <1>4, <1>5, <1>6, ReadFacts, ScanKeeps

(* acsmSearchSparseDFA                                                     *)
LEMMA ScanSparseInv ==
    ASSUME SearchInv, NEW b \in Byte, ScanSparse(b)
    PROVE  SearchInv'
<1>1. /\ Read(b) /\ spc' = spc /\ q' = q
      /\ ~ LateSearch /\ ~ QueuedSearch /\ acsmFSA = "DFA"
  BY DEF ScanSparse, LateSearch, QueuedSearch, Is, FullFormats, Rows!ACF_FULL,
         Rows!ACF_FULLQ, Rows!ACF_BANDED, Rows!ACF_SPARSE, Rows!ACF_SPARSEBANDS
<1>2. Longest(state', Tx', word, Top)
  BY <1>1, MovesDFA DEF ScanSparse
<1>3. Reported(hits', Tx', Len(Tx')) /\ q = <<>>
  <2>1. Len(Tx) + 1 - Early = Len(Tx) + 1
    <3>1. Len(Tx) \in Nat
      BY <1>1, ReadFacts
    <3>2. Early = 0
      BY <1>1 DEF Early
    <3> QED
      BY <3>1, <3>2
  <2>2. (NextState[state'][1] = 1) <=> (MatchList[state'] # <<>>)
    BY <1>1, <1>2, ReadFacts, FlagTells
  <2>3. hits' = IF MatchList[state'] # <<>>
                THEN Append(hits, Hit(state', "udata", Len(Tx) + 1 - Early))
                ELSE hits
    BY <2>1, <2>2 DEF ScanSparse, Report
  <2> QED
    BY <1>1, <1>2, <2>3, ReportAfter
<1>4. Tested' = Len(Tx') /\ spc = "scan"
  BY <1>1, ReadFacts DEF Tested
<1>5. Found(hits', q', Tx', Tested')
  BY <1>1, <1>3, <1>4 DEF Found
<1>6. Len(q') < AC_MAX_INQ
  BY <1>1, <1>4, ScanFacts
<1> QED
  BY <1>1, <1>2, <1>4, <1>5, <1>6, ReadFacts, ScanKeeps

(* acsmSearchSparseNFA                                                     *)
LEMMA ScanNFAInv ==
    ASSUME SearchInv, NEW b \in Byte, ScanNFA(b)
    PROVE  SearchInv'
<1>1. /\ Read(b) /\ spc' = spc /\ q' = q
      /\ ~ LateSearch /\ ~ QueuedSearch /\ acsmFSA = "NFA"
  BY DEF ScanNFA, LateSearch, QueuedSearch, Is
<1>2. Longest(state', Tx', word, Top)
  <2>1. /\ Compiled /\ Packed /\ Tx \in Seq(Input) /\ Longest(state, Tx, word, Top)
        /\ xlatcase[b] \in Input /\ Tx' = Append(Tx, xlatcase[b])
    BY <1>1, ReadFacts, ScanFacts
  <2>2. acsmFormat # Rows!ACF_BANDED
    BY <1>1 DEF SearchInv
  <2> DEFINE from == TakesFrom(xlatcase[b])
  <2>3. state' = Rows!GetNextStateNFA(NextState[from], from, xlatcase[b])
    BY DEF ScanNFA
  <2> HIDE DEF from
  <2>4. Longest(Rows!GetNextStateNFA(NextState[from], from, xlatcase[b]),
                Append(Tx, xlatcase[b]), word, Top)
    BY <1>1, <2>1, <2>2, StepNFA DEF from
  <2> QED
    BY <2>1, <2>3, <2>4
<1>3. Reported(hits', Tx', Len(Tx')) /\ q = <<>>
  <2>1. Len(Tx) = Len(Tx) + 1 - Early
    <3>1. Len(Tx) \in Nat
      BY <1>1, ReadFacts
    <3>2. Early = 1
      BY <1>1 DEF Early
    <3> QED
      BY <3>1, <3>2
  <2>2. hits' = IF MatchList[state'] # <<>>
                THEN Append(hits, Hit(state', "udata", Len(Tx) + 1 - Early))
                ELSE hits
    BY <2>1 DEF ScanNFA, ReportUnflagged
  <2> QED
    BY <1>1, <1>2, <2>2, ReportAfter
<1>4. Tested' = Len(Tx') /\ spc = "scan"
  BY <1>1, ReadFacts DEF Tested
<1>5. Found(hits', q', Tx', Tested')
  BY <1>1, <1>3, <1>4 DEF Found
<1>6. Len(q') < AC_MAX_INQ
  BY <1>1, <1>4, ScanFacts
<1> QED
  BY <1>1, <1>2, <1>4, <1>5, <1>6, ReadFacts, ScanKeeps

(* A fail table that was released ends the search without a report.        *)
LEMMA NullFailInv ==
    ASSUME SearchInv, NEW b \in Byte, NullFail(b)
    PROVE  SearchInv'
<1>1. /\ Read(b) /\ spc' = "crash" /\ q' = q /\ hits' = hits
      /\ ~ LateSearch /\ ~ QueuedSearch /\ acsmFSA = "NFA"
  BY DEF NullFail, LateSearch, QueuedSearch, Is
<1>2. /\ Reported(hits, Tx, Len(Tx)) /\ q = <<>>
      /\ Tx \in Seq(Input) /\ Len(Tx) \in 0 .. Len(Tx)
  BY <1>1, ReadFacts, ScanFacts DEF Found
<1>3. Reported(hits, Append(Tx, xlatcase[b]), Len(Tx))
  BY <1>1, <1>2, ReadFacts, ReportedMore
<1>4. Tested' = Len(Tx) /\ spc = "scan" /\ Tx' = Append(Tx, xlatcase[b])
  BY <1>1, ReadFacts DEF Tested
<1>5. Found(hits', q', Tx', Tested')
  BY <1>1, <1>2, <1>3, <1>4 DEF Found
<1> QED
  BY <1>1, <1>4, <1>5, ReadFacts, ScanKeeps

(* While the queue has a place left, _add_queue finds one.                 *)
LEMMA QueueTests ==
    ASSUME SearchInv, spc = "scan", QueuedSearch,
           NEW added,
           added = IF MatchList[state] # <<>> THEN AddQueue(state) ELSE q
    PROVE  /\ Collected(hits, added, Tx, Len(Tx))
           /\ Len(added) <= AC_MAX_INQ
           /\ MatchList[state] = <<>> \/ state \in ToSet(q) => Len(added) < AC_MAX_INQ
<1>1. /\ Compiled /\ Tx \in Seq(Input) /\ Len(Tx) \in 0 .. Len(Tx)
      /\ Longest(state, SubSeq(Tx, 1, Len(Tx)), word, Top)
      /\ state \in States
      /\ Len(q) < AC_MAX_INQ /\ AC_MAX_INQ \in Nat
      /\ Found(hits, q, Tx, IF LateSearch THEN Before(Len(Tx)) ELSE Len(Tx))
  BY ScanFacts
<1>2. Collected(hits, q, Tx, Before(Len(Tx)))
  BY <1>1 DEF Found, QueuedSearch, LateSearch, Is, FullFormats
<1>3. q \in Seq(States) /\ Len(q) \in Nat
  BY <1>2, LenProperties DEF Collected
<1>4. added = IF MatchList[state] = <<>> \/ state \in ToSet(q) THEN q
              ELSE Append(q, state)
  BY <1>1, <1>3 DEF AddQueue
<1>5. Collected(hits, added, Tx, Len(Tx))
  BY <1>1, <1>2, <1>4, ReportedTest, CollectedTest
<1>6. Len(Append(q, state)) = Len(q) + 1
  BY <1>1, <1>3, AppendProperties
<1> QED
  BY <1>1, <1>3, <1>4, <1>5, <1>6

(* acsmSearchSparseDFA_Full_q                                              *)
LEMMA ScanFullQInv ==
    ASSUME SearchInv, NEW b \in Byte, ScanFullQ(b)
    PROVE  SearchInv'
<1> DEFINE match == NextState[state][1] = 1 /\ MatchList[state] # <<>>
           added == IF match THEN AddQueue(state) ELSE q
           full == match /\ state \notin ToSet(q) /\ Len(added) = AC_MAX_INQ
<1>1. /\ Read(b) /\ spc' = spc /\ LateSearch /\ QueuedSearch /\ acsmFSA = "DFA"
      /\ acsmFormat \in FullFormats
  BY DEF ScanFullQ, LateSearch, QueuedSearch, Is, FullFormats
<1>2. /\ hits' = IF full THEN Process(added) ELSE hits
      /\ q' = IF full THEN <<>> ELSE added
      /\ state' = Rows!NextFull(NextState[state], xlatcase[b])
  BY DEF ScanFullQ
<1>3. /\ Compiled /\ Tx \in Seq(Input) /\ Len(Tx) \in 0 .. Len(Tx) /\ spc = "scan"
      /\ match <=> MatchList[state] # <<>>
      /\ AC_MAX_INQ \in Nat \ {0}
  BY <1>1, ReadFacts, ScanFacts
<1>4. Longest(state', Tx', word, Top)
  BY <1>1, <1>2, MovesDFA
<1>5. added = IF MatchList[state] # <<>> THEN AddQueue(state) ELSE q
  BY <1>3
<1>6. full <=> /\ MatchList[state] # <<>> /\ state \notin ToSet(q)
               /\ Len(added) = AC_MAX_INQ
  BY <1>3
<1> HIDE DEF match, added, full
<1>7. /\ Collected(hits, added, Tx, Len(Tx))
      /\ Len(added) <= AC_MAX_INQ
      /\ MatchList[state] = <<>> \/ state \in ToSet(q) => Len(added) < AC_MAX_INQ
  BY <1>1, <1>3, <1>5, QueueTests
<1>8. Len(added) \in Nat
  BY <1>7, LenProperties DEF Collected
<1>9. Collected(hits', q', Tx, Len(Tx)) /\ Len(q') < AC_MAX_INQ
  <2>1. CASE full
    <3>1. hits' = Process(added) /\ q' = <<>>
      BY <1>2, <2>1
    <3>2. Collected(hits', <<>>, Tx, Len(Tx))
      BY <1>3, <1>7, <3>1, CollectedProcess DEF Process
    <3>3. Len(<<>>) = 0
      BY EmptySeq
    <3> QED
      BY <1>3, <3>1, <3>2, <3>3
  <2>2. CASE ~ full
    <3>1. hits' = hits /\ q' = added
      BY <1>2, <2>2
    <3>2. Len(added) < AC_MAX_INQ
      BY <1>3, <1>6, <1>7, <1>8, <2>2
    <3> QED
      BY <1>7, <3>1, <3>2
  <2> QED
    BY <2>1, <2>2
<1>10. Collected(hits', q', Append(Tx, xlatcase[b]), Len(Tx))
  BY <1>1, <1>3, <1>9, ReadFacts, CollectedMore
<1>11. Tested' = Len(Tx) /\ Tx' = Append(Tx, xlatcase[b])
  BY <1>1, <1>3, ReadFacts DEF Tested
<1>12. Found(hits', q', Tx', Tested')
  BY <1>1, <1>10, <1>11 DEF Found
<1> QED
  BY <1>1, <1>3, <1>4, <1>9, <1>12, ReadFacts, ScanKeeps

(* The searches that test a state late test the last one at the end.       *)
LEMMA EndOfTextInv ==
    ASSUME SearchInv, EndOfText
    PROVE  SearchInv'
<1>1. /\ spc = "scan" /\ spc' = "end" /\ Tx' = Tx /\ state' = state /\ q' = <<>>
      /\ UNCHANGED <<vars, acsmFormat, NextState>>
  BY DEF EndOfText
<1>2. /\ Compiled /\ Tx \in Seq(Input) /\ Len(Tx) \in 0 .. Len(Tx)
      /\ Longest(state, Tx, word, Top)
      /\ Longest(state, SubSeq(Tx, 1, Len(Tx)), word, Top)
      /\ NextState[state][1] = 1 <=> MatchList[state] # <<>>
      /\ Found(hits, q, Tx, IF LateSearch THEN Before(Len(Tx)) ELSE Len(Tx))
  BY <1>1, ScanFacts
<1>3. /\ QueuedSearch => hits' = Process(IF MatchList[state] # <<>> THEN AddQueue(state)
                                         ELSE q)
      /\ LateSearch /\ ~ QueuedSearch => hits' = ReportUnflagged(state, "udata", Len(Tx))
      /\ ~ LateSearch => hits' = hits /\ ~ QueuedSearch
  BY DEF EndOfText, LateSearch, QueuedSearch, Is, FullFormats,
         Rows!ACF_FULL, Rows!ACF_FULLQ, Rows!ACF_BANDED
<1>4. ASSUME QueuedSearch
      PROVE  Found(hits', <<>>, Tx, Len(Tx))
  <2> DEFINE added == IF MatchList[state] # <<>> THEN AddQueue(state) ELSE q
  <2>1. Collected(hits, added, Tx, Len(Tx))
    BY <1>1, <1>4, QueueTests
  <2>2. hits' = Process(added)
    BY <1>3, <1>4
  <2> HIDE DEF added
  <2>3. Collected(hits', <<>>, Tx, Len(Tx))
    BY <1>2, <2>1, <2>2, CollectedProcess DEF Process
  <2> QED
    BY <1>1, <1>4, <2>3 DEF Found
<1>5. ASSUME LateSearch /\ ~ QueuedSearch
      PROVE  Found(hits', <<>>, Tx, Len(Tx))
  <2> DEFINE h2 == ReportUnflagged(state, "udata", Len(Tx))
  <2>1. h2 = IF MatchList[state] # <<>>
             THEN Append(hits, Hit(state, "udata", Len(Tx) - Early)) ELSE hits
    <3>1. Len(Tx) - Early = Len(Tx)
      BY <1>2, <1>5, EarlyFacts
    <3> QED
      BY <3>1 DEF ReportUnflagged
  <2>2. hits' = h2
    BY <1>3, <1>5
  <2>3. Reported(hits, Tx, Before(Len(Tx)))
    BY <1>2, <1>5 DEF Found
  <2> HIDE DEF h2
  <2>4. Reported(h2, Tx, Len(Tx))
    BY <1>2, <2>1, <2>3, ReportedTest
  <2> QED
    BY <1>1, <1>5, <2>2, <2>4 DEF Found
<1>6. ASSUME ~ LateSearch
      PROVE  Found(hits', <<>>, Tx, Len(Tx))
  BY <1>1, <1>2, <1>3, <1>6 DEF Found
<1>7. q' = <<>> /\ Tx' = Tx /\ Tested' = Len(Tx)
  BY <1>1 DEF Tested
<1>8. Found(hits', q', Tx', Tested')
  BY <1>4, <1>5, <1>6, <1>7
<1> QED
  BY <1>1, <1>2, <1>8, ScanKeeps

(* The search starts in state 0, which every text ends with.               *)
LEMMA PackRowsInv ==
    ASSUME SearchInv, PackRows
    PROVE  SearchInv'
<1>1. /\ pc = "done" /\ spc = "compile" /\ spc' = "scan"
      /\ UNCHANGED <<vars, acsmFormat, Tx, state, q, hits>>
      /\ Tx = <<>> /\ state = 0 /\ q = <<>> /\ hits = <<>>
  BY DEF PackRows, SearchInv
<1>2. Compiled /\ acsmFormat \in Rows!Format
  BY <1>1 DEF SearchInv, Compiled
<1>3. Packed'
  BY <1>2, PackRowsPacks
<1>4. /\ acsmFSA' = acsmFSA /\ MatchList' = MatchList /\ word' = word
      /\ acsmPatterns' = acsmPatterns /\ Top' = Top /\ States' = States
  BY <1>1 DEF vars, compileVars, Top, States
<1>5. Longest(state, Tx, word, Top)
  <2>1. Words(word, Top)
    BY <1>2, CompiledFacts
  <2>2. 0 \in 0 .. Top /\ word[0] = <<>>
    BY <2>1, WordFacts
  <2> QED
    BY <1>1, <2>1, <2>2, LongestSelf
<1>6. Before(0) = 0 /\ Len(<<>>) = 0
  BY EmptySeq DEF Before
<1>7. Reported(hits, Tx, 0) /\ Collected(hits, q, Tx, 0)
  BY <1>1, ReportedStart, CollectedStart
<1>8. Reported(hits, Tx, 0)' /\ Collected(hits, q, Tx, 0)'
  BY <1>1, <1>4, <1>7 DEF Reported, Collected, Matches, Occurs, EndOf, StartOf, Early
<1>9. Tested' = 0
  BY <1>1, <1>6 DEF Tested
<1>10. Found(hits, q, Tx, Tested)'
  BY <1>1, <1>8, <1>9 DEF Found
<1>11. IInv' /\ pc' = "done"
  BY <1>1, <1>2, NextInv DEF Compiled, vars
<1>12. Len(q') < AC_MAX_INQ
  BY <1>1, <1>6, SearchAssumption
<1>13. Longest(state, Tx, word, Top)'
  BY <1>1, <1>4, <1>5
<1> QED
  BY <1>1, <1>3, <1>4, <1>10, <1>11, <1>12, <1>13 DEF SearchInv

(* While the machine is compiled there is no search.                       *)
LEMMA CompileInv ==
    ASSUME SearchInv, Next, UNCHANGED searchVars
    PROVE  SearchInv'
<1>1. spc = "compile" /\ spc' = "compile"
  BY CompiledStops DEF SearchInv, searchVars
<1>2. IInv'
  BY NextInv DEF SearchInv
<1>3. acsmFSA' = acsmFSA
  BY DEF Next, AddPattern, BeginCompile, Compile, AddPatternStates, BeginNFA,
         NfaStep, EndNFA, BeginDFA, DfaStep, EndDFA
<1> QED
  BY <1>1, <1>2, <1>3 DEF SearchInv, searchVars

(* The machine selected is one of Machines.                                *)
LEMMA InitSearchInv ==
    ASSUME <<"NFA", Rows!ACF_BANDED>> \notin Machines
    PROVE  SearchInit => SearchInv
<1> SUFFICES ASSUME SearchInit PROVE SearchInv
  OBVIOUS
<1>1. PICK mc \in Machines : acsmFSA = mc[1] /\ acsmFormat = mc[2]
  BY DEF SearchInit
<1>2. acsmFormat \in Rows!Format /\ (acsmFSA = "NFA" => acsmFormat # Rows!ACF_BANDED)
  BY <1>1, SearchAssumption
<1>3. IInv
  BY InitInv DEF SearchInit
<1>4. Tx \in Seq(Input)
  BY DEF SearchInit
<1> QED
  BY <1>2, <1>3, <1>4 DEF SearchInit, SearchInv

(* Nor does a step that changes nothing.                                   *)
LEMMA UnchangedInv ==
    ASSUME SearchInv, UNCHANGED <<vars, searchVars>>
    PROVE  SearchInv'
<1>1. /\ UNCHANGED <<acsmFormat, NextState, spc, Tx, state, q, hits>>
      /\ acsmFSA' = acsmFSA /\ MatchList' = MatchList /\ word' = word
      /\ acsmNumStates' = acsmNumStates /\ acsmPatterns' = acsmPatterns
      /\ TransTable' = TransTable /\ pc' = pc
      /\ Top' = Top /\ States' = States
  BY DEF vars, compileVars, searchVars, Top, States
<1>2. IInv'
  BY NextInv DEF SearchInv
<1>3. Packed => Packed'
  <2> SUFFICES ASSUME Packed PROVE Packed'
    OBVIOUS
  <2>1. \A s : RowOf(s)' = RowOf(s)
    BY <1>1 DEF RowOf, GetNextState2
  <2>2. ASSUME NEW s \in States
        PROVE  /\ PackedRow(NextState[s], acsmFormat, s, RowOf(s))'
               /\ (NextState[s][1] = 1 <=> MatchList[s] # <<>>)'
    <3>1. PackedRow(NextState[s], acsmFormat, s, RowOf(s))
      BY DEF Packed
    <3>2. PackedRow(NextState[s], acsmFormat, s, RowOf(s))'
      BY <1>1, <2>1, <3>1 DEF PackedRow, F!Flagged
    <3>3. (NextState[s][1] = 1 <=> MatchList[s] # <<>>)'
      BY <1>1 DEF Packed
    <3> QED
      BY <3>2, <3>3
  <2> QED
    BY <1>1, <2>2 DEF Packed
<1>4. LateSearch' = LateSearch /\ QueuedSearch' = QueuedSearch
  BY <1>1 DEF LateSearch, QueuedSearch, Is
<1>5. Tested' = Tested
  BY <1>1, <1>4 DEF Tested
<1>6. /\ Reported(hits, Tx, Tested) => Reported(hits, Tx, Tested)'
      /\ Collected(hits, q, Tx, Tested) => Collected(hits, q, Tx, Tested)'
  BY <1>1, <1>5 DEF Reported, Collected, Matches, Occurs, EndOf, StartOf, Early
<1>7. Found(hits, q, Tx, Tested) => Found(hits, q, Tx, Tested)'
  BY <1>1, <1>4, <1>6 DEF Found
<1>8. Longest(state, Tx, word, Top) => Longest(state, Tx, word, Top)'
  BY <1>1
<1> QED
  BY <1>1, <1>2, <1>3, <1>7, <1>8 DEF SearchInv

(* Every step preserves the invariant.                                     *)
LEMMA StepSearchInv ==
    SearchInv /\ [SearchNext]_<<vars, searchVars>> => SearchInv'
<1> SUFFICES ASSUME SearchInv, [SearchNext]_<<vars, searchVars>>
             PROVE  SearchInv'
  OBVIOUS
<1>1. CASE Next /\ UNCHANGED searchVars
  BY <1>1, CompileInv
<1>2. CASE PackRows
  BY <1>2, PackRowsInv
<1>3. ASSUME NEW b \in Byte, Scan(b)
      PROVE  SearchInv'
  BY <1>3, ScanLateInv, ScanSparseInv, ScanFullQInv, ScanNFAInv, NullFailInv
     DEF Scan
<1>4. CASE EndOfText
  BY <1>4, EndOfTextInv
<1>5. CASE UNCHANGED <<vars, searchVars>>
  BY <1>5, UnchangedInv
<1> QED
  BY <1>1, <1>2, <1>3, <1>4, <1>5 DEF SearchNext

(* The places where a pattern ends, in the words of the properties.        *)
LEMMA EndPositionsAre ==
    ASSUME SearchInv, pc = "done"
    PROVE  EndPositions = {e \in 1 .. Len(Tx) : Occurs(Tx, e)}
<1>1. PatternsInv /\ Tx \in Seq(Input) /\ <<>> \in Seq(Input)
  BY CompiledFacts DEF SearchInv, Compiled
<1>2. \A p \in ToSet(acsmPatterns) : p.patrn \in Seq(Input)
  BY <1>1, PatternSet, PatternText
<1>3. Texts = {p.patrn : p \in ToSet(acsmPatterns)}
  BY DEF Texts, ToSet
<1>4. ASSUME NEW e \in 1 .. Len(Tx)
      PROVE  (\E t \in Texts : IsSuffix(t, SubSeq(Tx, 1, e))) <=> Occurs(Tx, e)
  <2>1. SubSeq(Tx, 1, e) \in Seq(Input)
    <3>1. e \in 0 .. Len(Tx)
      BY <1>1, LenProperties
    <3> QED
      BY <1>1, <3>1, PrefixStep
  <2>2. \A p \in ToSet(acsmPatterns) :
           IsSuffix(p.patrn, SubSeq(Tx, 1, e)) <=> Ends(p.patrn, SubSeq(Tx, 1, e))
    BY <1>2, <2>1, SuffixEnds
  <2> QED
    BY <1>3, <2>2 DEF Occurs
<1> QED
  BY <1>4 DEF EndPositions

(* The state of the machine, in the words of the property.                 *)
LEMMA StateTracksTextInv == SearchInv => StateTracksText
<1> SUFFICES ASSUME SearchInv, spc \in {"scan", "end"}
             PROVE  state = LongestSuffix(Tx)
  BY DEF StateTracksText
<1>1. TrieInv /\ Tx \in Seq(Input) /\ Longest(state, Tx, word, Top)
  BY CompiledFacts DEF SearchInv, Compiled
<1> QED
  BY <1>1, LongestSuffixIs

(* The reports of a search other than the queued one.                      *)
LEMMA ReportsAre ==
    ASSUME SearchInv, acsmFormat # Rows!ACF_FULLQ, spc # "compile"
    PROVE  /\ Reported(hits, Tx, Tested)
           /\ Tested \in 0 .. Len(Tx) /\ Compiled /\ Tx \in Seq(Input)
           /\ DOMAIN hits = 1 .. Len(hits)
<1>1. Compiled /\ Tx \in Seq(Input) /\ Reported(hits, Tx, Tested)
  BY DEF SearchInv, Found, QueuedSearch, Is, Compiled
<1>2. Len(Tx) \in Nat
  BY <1>1, LenProperties
<1>3. Tested \in 0 .. Len(Tx)
  BY <1>2 DEF Tested, Before
<1>4. DOMAIN hits = 1 .. Len(hits)
  BY <1>1, LenProperties DEF Reported
<1> QED
  BY <1>1, <1>3, <1>4

(* Reports are sound.                                                      *)
LEMMA HitsSoundInv == SearchInv => HitsSound
<1> SUFFICES ASSUME SearchInv, acsmFormat # Rows!ACF_FULLQ, NEW i \in DOMAIN hits
             PROVE  /\ StartOf(hits[i]) >= 0
                    /\ EndOf(hits[i]) <= Len(Tx)
                    /\ SubSeq(Tx, StartOf(hits[i]) + 1, EndOf(hits[i])) =
                          hits[i].entry.patrn
  BY DEF HitsSound
<1>1. spc # "compile"
  BY DEF SearchInv
<1> QED
  BY <1>1, ReportsAre, ReportedExact

(* There is one for each place, in order.                                  *)
LEMMA OneHitPerEndInv == SearchInv => OneHitPerEnd
<1> SUFFICES ASSUME SearchInv, spc = "end", acsmFormat # Rows!ACF_FULLQ
             PROVE  /\ {EndOf(hits[i]) : i \in DOMAIN hits} = EndPositions
                    /\ \A i, j \in DOMAIN hits : i < j => EndOf(hits[i]) < EndOf(hits[j])
  BY DEF OneHitPerEnd
<1>1. /\ Reported(hits, Tx, Len(Tx)) /\ Len(Tx) \in 0 .. Len(Tx)
      /\ Compiled /\ Tx \in Seq(Input) /\ DOMAIN hits = 1 .. Len(hits)
  BY ReportsAre DEF Tested
<1>2. {EndOf(hits[i]) : i \in 1 .. Len(hits)} = {e \in 1 .. Len(Tx) : Occurs(Tx, e)}
  BY <1>1, ReportedExact
<1>3. EndPositions = {e \in 1 .. Len(Tx) : Occurs(Tx, e)}
  BY <1>1, EndPositionsAre DEF Compiled
<1>4. \A i, j \in 1 .. Len(hits) : i < j => EndOf(hits[i]) < EndOf(hits[j])
  BY <1>1 DEF Reported
<1> QED
  BY <1>1, <1>2, <1>3, <1>4

(* The entries reported are the heads of the lists of the states reached.  *)
LEMMA EntriesAre ==
    ASSUME Compiled, NEW x \in Seq(Input), NEW m \in 0 .. Len(x), NEW h,
           h \in Seq(HitRecord),
           \A i \in 1 .. Len(h) : \E e \in 1 .. m, s \in States :
              Matches(x, e, s) /\ h[i].entry = Head(MatchList[s]),
           \A e \in 1 .. m : Occurs(x, e) => \E s \in States :
              /\ Matches(x, e, s)
              /\ \E i \in 1 .. Len(h) : h[i].entry = Head(MatchList[s])
    PROVE  {h[i].entry : i \in DOMAIN h} =
              {Head(MatchList[LongestSuffix(SubSeq(x, 1, e))]) :
                  e \in {d \in 1 .. m : Occurs(x, d)}}
<1>1. DOMAIN h = 1 .. Len(h) /\ TrieInv /\ Len(x) \in Nat
  BY LenProperties, CompiledFacts
<1>2. ASSUME NEW e \in 1 .. m, NEW s, Matches(x, e, s)
      PROVE  LongestSuffix(SubSeq(x, 1, e)) = s /\ Occurs(x, e)
  <2>1. Longest(s, SubSeq(x, 1, e), word, Top) /\ MatchList[s] # <<>>
    BY <1>2 DEF Matches
  <2>2. e \in 0 .. Len(x)
    BY <1>1
  <2>3. SubSeq(x, 1, e) \in Seq(Input)
    BY <2>2, PrefixStep
  <2> QED
    BY <1>1, <2>1, <2>2, <2>3, LongestSuffixIs, MatchFacts
<1> DEFINE Entry(e) == Head(MatchList[LongestSuffix(SubSeq(x, 1, e))])
           Places == {d \in 1 .. m : Occurs(x, d)}
<1>3. ASSUME NEW i \in 1 .. Len(h)
      PROVE  \E e \in Places : h[i].entry = Entry(e)
  <2>1. PICK e \in 1 .. m, s \in States :
           Matches(x, e, s) /\ h[i].entry = Head(MatchList[s])
    OBVIOUS
  <2> QED
    BY <1>2, <2>1
<1>4. ASSUME NEW e \in Places
      PROVE  \E i \in 1 .. Len(h) : h[i].entry = Entry(e)
  <2>1. PICK s \in States :
           /\ Matches(x, e, s)
           /\ \E i \in 1 .. Len(h) : h[i].entry = Head(MatchList[s])
    OBVIOUS
  <2> QED
    BY <1>2, <2>1
<1> HIDE DEF Entry, Places
<1> DEFINE Said == {h[i].entry : i \in 1 .. Len(h)}
           Wanted == {Entry(e) : e \in Places}
<1>5. Said = Wanted
  <2>1. ASSUME NEW v \in Said PROVE v \in Wanted
    BY <1>3
  <2>2. ASSUME NEW v \in Wanted PROVE v \in Said
    <3>1. PICK e \in Places : v = Entry(e)
      OBVIOUS
    <3>2. PICK i \in 1 .. Len(h) : h[i].entry = Entry(e)
      BY <1>4
    <3> QED
      BY <3>1, <3>2
  <2> HIDE DEF Said, Wanted
  <2> QED
    BY <2>1, <2>2
<1> QED
  BY <1>1, <1>5 DEF Entry, Places

(* The queue.                                                              *)
LEMMA QueueLosesNothingInv == SearchInv => QueueLosesNothing
<1> SUFFICES ASSUME SearchInv
             PROVE  QueueLosesNothing
  OBVIOUS
<1>1. AC_MAX_INQ \in Nat \ {0}
  BY SearchAssumption
<1>2. q = <<>> \/ (spc = "scan" /\ Collected(hits, q, Tx, Tested) /\ Len(q) < AC_MAX_INQ)
  BY DEF SearchInv, Found, QueuedSearch, Is
<1>3. Len(q) <= AC_MAX_INQ /\ IsInjective(q)
  <2>1. CASE q = <<>>
    <3> DEFINE none == <<>>
    <3>1. Len(none) = 0 /\ DOMAIN none = {}
      BY EmptySeq
    <3> HIDE DEF none
    <3>2. q = none
      BY <2>1 DEF none
    <3> QED
      BY <1>1, <3>1, <3>2 DEF IsInjective
  <2>2. CASE spc = "scan" /\ Collected(hits, q, Tx, Tested) /\ Len(q) < AC_MAX_INQ
    <3>1. DOMAIN q = 1 .. Len(q) /\ Len(q) \in Nat
      BY <2>2, LenProperties DEF Collected
    <3> QED
      BY <1>1, <2>2, <3>1 DEF Collected, IsInjective
  <2> QED
    BY <1>2, <2>1, <2>2
<1>4. ASSUME spc = "end", acsmFormat = Rows!ACF_FULLQ
      PROVE  {hits[i].entry : i \in DOMAIN hits} =
                {Head(MatchList[LongestSuffix(SubSeq(Tx, 1, e))]) : e \in EndPositions}
  <2>1. /\ Compiled /\ Tx \in Seq(Input) /\ q = <<>> /\ Tested = Len(Tx)
        /\ Found(hits, q, Tx, Len(Tx)) /\ pc = "done"
    BY <1>4 DEF SearchInv, Compiled, Tested
  <2>2. Len(Tx) \in 0 .. Len(Tx)
    BY <2>1, LenProperties
  <2>3. EndPositions = {e \in 1 .. Len(Tx) : Occurs(Tx, e)}
    BY <2>1, EndPositionsAre
  <2>4. /\ hits \in Seq(HitRecord)
        /\ \A i \in 1 .. Len(hits) : \E e \in 1 .. Len(Tx), s \in States :
              Matches(Tx, e, s) /\ hits[i].entry = Head(MatchList[s])
        /\ \A e \in 1 .. Len(Tx) : Occurs(Tx, e) => \E s \in States :
              /\ Matches(Tx, e, s)
              /\ \E i \in 1 .. Len(hits) : hits[i].entry = Head(MatchList[s])
    <3>1. CASE QueuedSearch
      <4>1. Collected(hits, q, Tx, Len(Tx)) /\ 1 .. Len(q) = {}
        BY <2>1, <3>1, EmptySeq DEF Found
      <4> QED
        BY <4>1 DEF Collected
    <3>2. CASE ~ QueuedSearch
      <4>1. Reported(hits, Tx, Len(Tx))
        BY <2>1, <3>2 DEF Found
      <4> QED
        BY <4>1 DEF Reported
    <3> QED
      BY <3>1, <3>2
  <2> QED
    BY <2>1, <2>2, <2>3, <2>4, EntriesAre
<1> QED
  BY <1>3, <1>4 DEF QueueLosesNothing

-----------------------------------------------------------------------------

(* The invariant of every search but the nondeterministic one of banded    *)
(* rows.                                                                   *)
THEOREM SearchInvariant ==
    ASSUME <<"NFA", Rows!ACF_BANDED>> \notin Machines
    PROVE  SearchSpec => []SearchInv
<1>1. SearchInit => SearchInv
  BY InitSearchInv
<1>2. SearchInv /\ [SearchNext]_<<vars, searchVars>> => SearchInv'
  BY StepSearchInv
<1> QED
  BY <1>1, <1>2, PTL DEF SearchSpec

(* The state of the machine is that of the longest suffix of the bytes     *)
(* read, whatever the machine type and the row format.                     *)
THEOREM StateTracksTextAlways ==
    ASSUME <<"NFA", Rows!ACF_BANDED>> \notin Machines
    PROVE  SearchSpec => []StateTracksText
BY SearchInvariant, StateTracksTextInv, PTL

(* Every match reported is in the payload, at the offset reported.         *)
THEOREM HitsSoundAlways ==
    ASSUME <<"NFA", Rows!ACF_BANDED>> \notin Machines
    PROVE  SearchSpec => []HitsSound
BY SearchInvariant, HitsSoundInv, PTL

(* Every place where a pattern ends is reported once, in order.            *)
THEOREM OneHitPerEndAlways ==
    ASSUME <<"NFA", Rows!ACF_BANDED>> \notin Machines
    PROVE  SearchSpec => []OneHitPerEnd
BY SearchInvariant, OneHitPerEndInv, PTL

(* The queue of the queued search never overflows nor loses a match,       *)
(* however small it is.                                                    *)
THEOREM QueueLosesNothingAlways ==
    ASSUME <<"NFA", Rows!ACF_BANDED>> \notin Machines
    PROVE  SearchSpec => []QueueLosesNothing
BY SearchInvariant, QueueLosesNothingInv, PTL
=============================================================================
