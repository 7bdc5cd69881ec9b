-------------------------- MODULE SigTablesProofs ---------------------------
(***************************************************************************)
(* What the loader makes of a configuration.  The tables                   *)
(* install_Application fills, for every list of applications, every number *)
(* of categories and whatever the memory held: which application has which *)
(* slot, and which entry each element.  Then the way from the file to      *)
(* them: for every text, what the parser puts together is of that text,    *)
(* both searches are given the same texts of the signatures, and the       *)
(* tables are built from what was read.                                    *)
(***************************************************************************)
EXTENDS SigConfig, DataLemmas, FiniteSetTheorems

-----------------------------------------------------------------------------
(* The numbering of signatures and elements.                               *)

Listed == config \in Seq(Application)

(* Signatures are numbered as they stand in the applications.              *)
LEMMA Numbering ==
    ASSUME Listed
    PROVE  /\ Len(config) \in Nat
           /\ AppSigs \in Seq(Seq(Seq(Class))) /\ Len(AppSigs) = Len(config)
           /\ AllSigs \in Seq(Seq(Class)) /\ Len(AllSigs) \in Nat
           /\ FirstEle(AppSigs, 0) = 0
           /\ FirstEle(AppSigs, Len(config)) = Len(AllSigs)
           /\ FirstEle(AllSigs, 0) = 0
<1>1. Len(config) \in Nat /\ DOMAIN config = 1 .. Len(config)
  BY LenProperties DEF Listed
<1>2. \A a \in 1 .. Len(config) :
         config[a] \in Application /\ config[a].sigs \in Seq(Seq(Class))
  <2>1. \A a \in 1 .. Len(config) : config[a] \in Application
    BY ElementOfSeq DEF Listed
  <2> QED
    BY <2>1 DEF Application
<1>3. AppSigs \in Seq(Seq(Seq(Class))) /\ Len(AppSigs) = Len(config)
  <2>1. AppSigs \in [1 .. Len(config) -> Seq(Seq(Class))]
    BY <1>1, <1>2 DEF AppSigs
  <2>2. Len(AppSigs) = Len(config)
    BY <1>1, <2>1
  <2> QED
    BY <1>1, <2>1, <2>2, SeqDef
<1>4. /\ AllSigs \in Seq(Seq(Class))
      /\ Len(AllSigs) = Firsts(AppSigs)[Len(AppSigs)]
  BY <1>3, Flattened DEF AllSigs
<1>5. Len(AllSigs) \in Nat
  BY <1>4, LenProperties
<1>6. Firsts(AppSigs)[0] = 0 /\ Firsts(AllSigs)[0] = 0
  BY <1>3, <1>4, SeqsEndToEnd DEF EndToEnd
<1>8. /\ FirstEle(AppSigs, 0) = 0
      /\ FirstEle(AppSigs, Len(config)) = Len(AllSigs)
      /\ FirstEle(AllSigs, 0) = 0
  BY <1>3, <1>4, <1>6 DEF FirstEle, FirstEles, Firsts
<1> QED
  BY <1>1, <1>3, <1>4, <1>5, <1>8

(* The signatures of an application, and their elements.                   *)
LEMMA AppNumbers ==
    ASSUME Listed, NEW a \in 1 .. Len(config)
    PROVE  /\ config[a] \in Application /\ config[a].category \in Category
           /\ Len(config[a].sigs) \in Nat
           /\ FirstEle(AppSigs, a - 1) \in Nat
           /\ FirstEle(AppSigs, a) =
                 FirstEle(AppSigs, a - 1) + Len(config[a].sigs)
           /\ FirstEle(AppSigs, a) <= Len(AllSigs)
           /\ \A j \in 1 .. Len(config[a].sigs) :
                 AllSigs[FirstEle(AppSigs, a - 1) + j] = config[a].sigs[j]
           /\ FirstEle(AllSigs, FirstEle(AppSigs, a)) =
                 FirstEle(AllSigs, FirstEle(AppSigs, a - 1))
                    + NumEles(config[a].sigs)
<1> DEFINE l == Len(config[a].sigs)
<1>1. /\ config[a] \in Application /\ config[a].category \in Category
      /\ config[a].sigs \in Seq(Seq(Class)) /\ l \in Nat
  <2>1. config[a] \in Application
    BY ElementOfSeq DEF Listed
  <2> QED
    BY <2>1, LenProperties DEF Application
<1>2. /\ AppSigs \in Seq(Seq(Seq(Class))) /\ Len(AppSigs) = Len(config)
      /\ AppSigs[a] = config[a].sigs /\ Len(config) \in Nat
      /\ FirstEle(AppSigs, Len(config)) = Len(AllSigs)
  <2>1. DOMAIN config = 1 .. Len(config)
    BY LenProperties DEF Listed
  <2> QED
    BY <2>1, Numbering DEF AppSigs
<1>3. \A b : FirstEle(AppSigs, b) = Firsts(AppSigs)[b]
  BY DEF FirstEle, FirstEles, Firsts
<1>4. /\ FirstEle(AppSigs, a - 1) \in Nat
      /\ FirstEle(AppSigs, a) = FirstEle(AppSigs, a - 1) + l
      /\ FirstEle(AppSigs, a) <= Len(AllSigs)
  <2>1. /\ Firsts(AppSigs)[a - 1] \in Nat
        /\ Firsts(AppSigs)[a] = Firsts(AppSigs)[a - 1] + l
        /\ Firsts(AppSigs)[a] <= Firsts(AppSigs)[Len(AppSigs)]
    BY <1>2, SeqBounds
  <2> QED
    BY <1>2, <1>3, <2>1
<1>5. \A j \in 1 .. l :
         AllSigs[FirstEle(AppSigs, a - 1) + j] = config[a].sigs[j]
  <2>1. AppSigs \in Seq(Seq(Seq(Class))) /\ a \in 1 .. Len(AppSigs)
    BY <1>2
  <2>2. \A k \in 1 .. Len(AppSigs) : \A j \in 1 .. Len(AppSigs[k]) :
           FlattenSeq(AppSigs)[Firsts(AppSigs)[k - 1] + j] = AppSigs[k][j]
    BY <2>1, Flattened
  <2>3. \A j \in 1 .. Len(AppSigs[a]) :
           FlattenSeq(AppSigs)[Firsts(AppSigs)[a - 1] + j] = AppSigs[a][j]
    BY <2>1, <2>2
  <2> QED
    BY <1>2, <1>3, <2>3 DEF AllSigs
<1>6. FirstEle(AllSigs, FirstEle(AppSigs, a)) =
         FirstEle(AllSigs, FirstEle(AppSigs, a - 1)) + NumEles(config[a].sigs)
  <2>1. /\ AppSigs \in Seq(Seq(Seq(Class))) /\ a \in 1 .. Len(AppSigs)
        /\ l \in 0 .. Len(AppSigs[a])
    BY <1>1, <1>2
  <2>2. Firsts(AllSigs)[FirstEle(AppSigs, a - 1) + l] =
           Firsts(AllSigs)[FirstEle(AppSigs, a - 1)] + Firsts(config[a].sigs)[l]
    <3>1. Firsts(FlattenSeq(AppSigs))[Firsts(AppSigs)[a - 1] + l] =
             Firsts(FlattenSeq(AppSigs))[Firsts(AppSigs)[a - 1]]
                + Firsts(AppSigs[a])[l]
      BY <2>1, FirstsFlattened
    <3> QED
      BY <1>2, <1>3, <3>1 DEF AllSigs
  <2> QED
    BY <1>4, <2>2 DEF FirstEle, FirstEles, Firsts, NumEles
<1> QED
  BY <1>1, <1>4, <1>5, <1>6

(* The elements of a signature, and which signature an element is of.      *)
LEMMA SigNumbers ==
    ASSUME Listed, NEW k \in 0 .. Len(AllSigs) - 1
    PROVE  /\ FirstEle(AllSigs, k) \in Nat
           /\ AllSigs[k + 1] \in Seq(Class) /\ Len(AllSigs[k + 1]) \in Nat
           /\ FirstEle(AllSigs, k + 1) =
                 FirstEle(AllSigs, k) + Len(AllSigs[k + 1])
           /\ FirstEle(AllSigs, k + 1) <= NumEles(AllSigs)
           /\ NumEles(AllSigs) \in Nat
           /\ \A o \in FirstEle(AllSigs, k) .. FirstEle(AllSigs, k + 1) - 1 :
                 SigOf(AllSigs, o) = k
<1> DEFINE f == Firsts(AllSigs)
           In(l, o) ==
              o \in FirstEle(AllSigs, l) .. FirstEle(AllSigs, l + 1) - 1
<1>1. /\ AllSigs \in Seq(Seq(Class)) /\ Len(AllSigs) \in Nat
      /\ Lengths(AllSigs) \in [1 .. Len(AllSigs) -> Nat]
      /\ EndToEnd(f, Len(AllSigs), Lengths(AllSigs))
  BY Numbering, SeqsEndToEnd
<1>2. k + 1 \in 1 .. Len(AllSigs) /\ (k + 1) - 1 = k
  BY <1>1
<1>3. \A l : FirstEle(AllSigs, l) = f[l]
  BY DEF FirstEle, FirstEles, Firsts
<1>4. ASSUME NEW o, In(k, o)
      PROVE  SigOf(AllSigs, o) = k
  <2>1. \A l \in 0 .. Len(AllSigs) - 1 : In(l, o) => l = k
    <3> SUFFICES ASSUME NEW l \in 0 .. Len(AllSigs) - 1, In(l, o)
                 PROVE  l = k
      OBVIOUS
    <3>1. o \in f[l] .. f[l + 1] - 1 /\ o \in f[k] .. f[k + 1] - 1
      BY <1>3, <1>4
    <3> HIDE DEF f, In
    <3> QED
      BY <1>1, <3>1, PartsApart
  <2> HIDE DEF In
  <2>2. (CHOOSE l \in 0 .. Len(AllSigs) - 1 : In(l, o)) = k
    BY <1>4, <2>1
  <2> QED
    BY <2>2 DEF SigOf, In
<1>5. /\ f[k] \in Nat
      /\ AllSigs[k + 1] \in Seq(Class)
      /\ Len(AllSigs[k + 1]) \in Nat
      /\ f[k + 1] = f[k] + Len(AllSigs[k + 1])
      /\ f[k + 1] <= f[Len(AllSigs)] /\ f[Len(AllSigs)] \in Nat
  BY <1>1, <1>2, SeqBounds
<1> HIDE DEF f
<1> QED
  BY <1>3, <1>4, <1>5 DEF NumEles

-----------------------------------------------------------------------------
(* The slots of the applications, sorted by category.                      *)

Below(list, c) == {b \in DOMAIN list : list[b].category < c}

(* Those of a category among the first n.                                  *)
Among(list, c, n) == {b \in 1 .. n : list[b].category = c}

(* The applications that are sorted before application a.                  *)
Sorted(list, a) == Below(list, list[a].category)
                      \cup Among(list, list[a].category, a - 1)

SlotOf(list, a) == Cardinality(Below(list, list[a].category))
                      + Cardinality(Among(list, list[a].category, a - 1))

LEMMA Finite ==
    ASSUME Listed
    PROVE  /\ IsFiniteSet(DOMAIN config)
           /\ Cardinality(DOMAIN config) = Len(config)
           /\ DOMAIN config = 1 .. Len(config)
           /\ \A T \in SUBSET (DOMAIN config) :
                 IsFiniteSet(T) /\ Cardinality(T) \in Nat
<1>1. Len(config) \in Nat /\ DOMAIN config = 1 .. Len(config)
  BY LenProperties DEF Listed
<1>2. IsFiniteSet(DOMAIN config) /\ Cardinality(DOMAIN config) = Len(config)
  <2> DEFINE n == Len(config)
  <2>1. /\ IsFiniteSet(1 .. n)
        /\ Cardinality(1 .. n) = IF 1 > n THEN 0 ELSE n - 1 + 1
    BY <1>1, FS_Interval
  <2> HIDE DEF n
  <2>2. n \in Nat
    BY <1>1 DEF n
  <2>3. Cardinality(1 .. n) = n
    BY <2>1, <2>2
  <2> QED
    BY <1>1, <2>1, <2>3 DEF n
<1> QED
  BY <1>1, <1>2, FS_Subset, FS_CardinalityType

(* Counting one application more.                                          *)
LEMMA CountOne ==
    ASSUME Listed, NEW c, NEW n \in 0 .. Len(config)
    PROVE  /\ Cardinality(Among(config, c, n)) \in Nat
           /\ n = 0 => Cardinality(Among(config, c, n)) = 0
           /\ n # 0 => Cardinality(Among(config, c, n)) =
                          IF config[n].category = c
                          THEN Cardinality(Among(config, c, n - 1)) + 1
                          ELSE Cardinality(Among(config, c, n - 1))
<1>1. /\ Len(config) \in Nat /\ DOMAIN config = 1 .. Len(config)
      /\ \A T \in SUBSET (DOMAIN config) :
            IsFiniteSet(T) /\ Cardinality(T) \in Nat
  BY Finite, Numbering
<1>2. \A m \in 0 .. Len(config) : Among(config, c, m) \subseteq DOMAIN config
  BY <1>1 DEF Among
<1>3. n = 0 => Among(config, c, n) = {}
  BY DEF Among
<1>4. ASSUME n # 0
      PROVE  Cardinality(Among(config, c, n)) =
                IF config[n].category = c
                THEN Cardinality(Among(config, c, n - 1)) + 1
                ELSE Cardinality(Among(config, c, n - 1))
  <2>1. n - 1 \in 0 .. Len(config)
    BY <1>1, <1>4
  <2>2. Among(config, c, n) =
           IF config[n].category = c THEN Among(config, c, n - 1) \cup {n}
                      ELSE Among(config, c, n - 1)
    BY <1>1, <1>4 DEF Among
  <2>3. n \notin Among(config, c, n - 1) /\ IsFiniteSet(Among(config, c, n - 1))
    BY <1>1, <1>2, <2>1 DEF Among
  <2> QED
    BY <2>2, <2>3, FS_AddElement
<1> QED
  BY <1>1, <1>2, <1>3, <1>4, FS_EmptySet

(* The categories one after another.                                       *)
LEMMA CountCategory ==
    ASSUME Listed, NEW c \in Nat
    PROVE  /\ Cardinality(Below(config, c)) \in Nat
           /\ c = 0 => Cardinality(Below(config, c)) = 0
           /\ Cardinality(Below(config, c + 1)) =
                 Cardinality(Below(config, c))
                    + Cardinality(Among(config, c, Len(config)))
<1>1. /\ DOMAIN config = 1 .. Len(config)
      /\ \A T \in SUBSET (DOMAIN config) :
            IsFiniteSet(T) /\ Cardinality(T) \in Nat
  BY Finite
<1>2. \A b \in DOMAIN config : config[b].category \in Nat
  BY <1>1, AppNumbers, ConfigAssumption DEF Category
<1>3. /\ Below(config, c) \subseteq DOMAIN config
      /\ Among(config, c, Len(config)) \subseteq DOMAIN config
  BY <1>1 DEF Below, Among
<1>4. c = 0 => Below(config, c) = {}
  BY <1>2 DEF Below
<1>5. /\ Below(config, c + 1) =
            Below(config, c) \cup Among(config, c, Len(config))
      /\ Below(config, c) \cap Among(config, c, Len(config)) = {}
  BY <1>1, <1>2 DEF Below, Among
<1> DEFINE below == Below(config, c)
           among == Among(config, c, Len(config))
<1>6. IsFiniteSet(below) /\ Cardinality(below) \in Nat
      /\ IsFiniteSet(among) /\ Cardinality(among) \in Nat
  BY <1>1, <1>3
<1> HIDE DEF below, among
<1>7. below \cap among = {} =>
         Cardinality(below \cup among) = Cardinality(below) + Cardinality(among)
  BY <1>6, FS_Union, FS_EmptySet
<1> QED
  BY <1>4, <1>5, <1>6, <1>7, FS_EmptySet DEF below, among

(* A slot is the number of applications sorted before.                     *)
LEMMA SlotCounts ==
    ASSUME Listed, NEW a \in 1 .. Len(config)
    PROVE  /\ Sorted(config, a) \subseteq DOMAIN config
           /\ a \notin Sorted(config, a)
           /\ SlotOf(config, a) = Cardinality(Sorted(config, a))
           /\ SlotOf(config, a) \in 0 .. Len(config) - 1
<1> DEFINE below == Below(config, config[a].category)
           among == Among(config, config[a].category, a - 1)
<1>1. /\ IsFiniteSet(DOMAIN config) /\ Cardinality(DOMAIN config) = Len(config)
      /\ DOMAIN config = 1 .. Len(config) /\ Len(config) \in Nat
      /\ \A T \in SUBSET (DOMAIN config) :
            IsFiniteSet(T) /\ Cardinality(T) \in Nat
  BY Finite, Numbering
<1>2. config[a].category \in Nat
  BY AppNumbers, ConfigAssumption DEF Category
<1>3. /\ below \subseteq DOMAIN config /\ among \subseteq DOMAIN config
      /\ below \cap among = {} /\ a \notin below /\ a \notin among
  BY <1>1, <1>2 DEF Below, Among
<1>4. /\ IsFiniteSet(below) /\ Cardinality(below) \in Nat
      /\ IsFiniteSet(among) /\ Cardinality(among) \in Nat
  BY <1>1, <1>3
<1>5. /\ Sorted(config, a) = below \cup among
      /\ SlotOf(config, a) = Cardinality(below) + Cardinality(among)
  BY DEF Sorted, SlotOf
<1> HIDE DEF below, among
<1>6. Cardinality(below \cup among) = Cardinality(below) + Cardinality(among)
  <2>1. Cardinality(below \cap among) = 0
    BY <1>3, FS_EmptySet
  <2>2. Cardinality(below \cup among) =
           Cardinality(below) + Cardinality(among)
              - Cardinality(below \cap among)
    BY <1>4, FS_Union
  <2> QED
    BY <1>4, <2>1, <2>2
<1>7. SlotOf(config, a) < Len(config)
  <2>1. /\ below \cup among \in SUBSET (DOMAIN config) /\ a \in DOMAIN config
        /\ a \notin below \cup among
    BY <1>1, <1>3
  <2>2. /\ Cardinality(below \cup among) <= Cardinality(DOMAIN config)
        /\ Cardinality(below \cup among) # Cardinality(DOMAIN config)
    BY <1>1, <2>1, FS_Subset
  <2> QED
    BY <1>1, <1>4, <1>5, <1>6, <2>2
<1> QED
  BY <1>1, <1>3, <1>4, <1>5, <1>6, <1>7

(* No two applications have one slot.                                      *)
LEMMA SlotsApart ==
    ASSUME Listed, NEW a \in 1 .. Len(config), NEW b \in 1 .. Len(config),
           SlotOf(config, a) = SlotOf(config, b)
    PROVE  a = b
<1>1. /\ DOMAIN config = 1 .. Len(config)
      /\ \A T \in SUBSET (DOMAIN config) :
            IsFiniteSet(T) /\ Cardinality(T) \in Nat
  BY Finite
<1>2. \A x \in 1 .. Len(config) : config[x].category \in Nat
  BY AppNumbers, ConfigAssumption DEF Category
<1>3. ASSUME NEW x \in 1 .. Len(config), NEW y \in 1 .. Len(config),
             Sorted(config, x) \subseteq Sorted(config, y),
             x \in Sorted(config, y)
      PROVE  SlotOf(config, x) # SlotOf(config, y)
  <2>1. /\ Sorted(config, x) \in SUBSET Sorted(config, y)
        /\ Sorted(config, x) # Sorted(config, y)
        /\ IsFiniteSet(Sorted(config, y))
    BY <1>1, <1>3, SlotCounts
  <2>2. Cardinality(Sorted(config, y)) # Cardinality(Sorted(config, x))
    BY <2>1, FS_Subset
  <2> QED
    BY <2>2, SlotCounts
<1>4. ASSUME NEW x \in 1 .. Len(config), NEW y \in 1 .. Len(config),
             \/ config[x].category < config[y].category
             \/ config[x].category = config[y].category /\ x < y
      PROVE  /\ Sorted(config, x) \subseteq Sorted(config, y)
             /\ x \in Sorted(config, y)
  BY <1>1, <1>2, <1>4 DEF Sorted, Below, Among
<1>5. \/ config[a].category < config[b].category
      \/ config[b].category < config[a].category
      \/ config[a].category = config[b].category /\ (a < b \/ b < a \/ a = b)
  BY <1>2
<1> QED
  BY <1>3, <1>4, <1>5

(* And every slot is some application's.                                   *)
LEMMA SlotsAll ==
    ASSUME Listed
    PROVE  {SlotOf(config, a) : a \in 1 .. Len(config)} = 0 .. Len(config) - 1
<1> DEFINE n == Len(config)
           f == [a \in 1 .. n |-> SlotOf(config, a)]
<1>1. n \in Nat
  BY Numbering
<1>2. f \in Injection(1 .. n, 0 .. n - 1)
  BY SlotCounts, SlotsApart DEF Injection, IsInjective
<1>3. /\ IsFiniteSet(0 .. n - 1) /\ Cardinality(0 .. n - 1) = n
      /\ Cardinality(1 .. n) = n
  <2>1. /\ IsFiniteSet(0 .. n - 1)
        /\ Cardinality(0 .. n - 1) = IF 0 > n - 1 THEN 0 ELSE (n - 1) - 0 + 1
        /\ Cardinality(1 .. n) = IF 1 > n THEN 0 ELSE n - 1 + 1
    BY <1>1, FS_Interval
  <2> QED
    BY <1>1, <2>1
<1>4. f \in Surjection(1 .. n, 0 .. n - 1)
  BY <1>2, <1>3, FS_Injection
<1>5. \A k \in 0 .. n - 1 : \E a \in 1 .. n : SlotOf(config, a) = k
  BY <1>4 DEF Surjection
<1> QED
  BY <1>5, SlotCounts

(* Index is where the slots of each category begin.                        *)
LEMMA IndexCounts ==
    ASSUME Listed, NEW num,
           num = [c \in Category |-> Cardinality(Among(config, c, Len(config)))]
    PROVE  Index(num) = [c \in Category |-> Cardinality(Below(config, c))]
<1> DEFINE n == MAX_CATEGORY_ID - 1
           len == [k \in 1 .. n |-> num[k - 1]]
           g == Index(num)
<1>1. /\ n \in Nat /\ Category = 0 .. n
      /\ \A k \in 1 .. n :
            k - 1 \in Category /\ k - 1 \in Nat /\ (k - 1) + 1 = k
  BY ConfigAssumption DEF Category
<1>2. \A c \in Category :
         num[c] = Cardinality(Among(config, c, Len(config))) /\ num[c] \in Nat
  BY Numbering, CountOne
<1>3. len \in [1 .. n -> Nat] /\ \A k \in 0 .. n : k # 0 => len[k] = num[k - 1]
  BY <1>1, <1>2
<1> HIDE DEF n, len
<1>4. PICK f : f = [k \in 0 .. n |-> IF k = 0 THEN 0 ELSE f[k - 1] + len[k]]
  BY <1>1, <1>3, RunningTotal
<1>5. f = [c \in Category |-> IF c = 0 THEN 0 ELSE f[c - 1] + num[c - 1]]
  BY <1>1, <1>3, <1>4
<1>6. g = [c \in Category |-> IF c = 0 THEN 0 ELSE g[c - 1] + num[c - 1]]
  BY <1>5 DEF Index
<1> HIDE DEF g
<1> DEFINE P == {c \in 0 .. n : g[c] = Cardinality(Below(config, c))}
<1>7. 0 \in P
  <2>1. 0 \in 0 .. n /\ Cardinality(Below(config, 0)) = 0
    BY <1>1, CountCategory
  <2> QED
    BY <1>1, <1>6, <2>1
<1>8. \A c \in 0 .. n : c \in P /\ c < n => c + 1 \in P
  <2> SUFFICES ASSUME NEW c \in 0 .. n, c < n,
                      g[c] = Cardinality(Below(config, c))
               PROVE  /\ g[c + 1] = Cardinality(Below(config, c + 1))
                      /\ c + 1 \in 0 .. n
    OBVIOUS
  <2>1. c + 1 \in 0 .. n /\ c + 1 # 0 /\ (c + 1) - 1 = c /\ c \in Nat
    BY <1>1
  <2>2. g[c + 1] = g[c] + num[c]
    BY <1>1, <1>6, <2>1
  <2>3. Cardinality(Below(config, c + 1)) =
           Cardinality(Below(config, c))
              + Cardinality(Among(config, c, Len(config)))
    BY <2>1, CountCategory
  <2> QED
    BY <1>1, <1>2, <2>1, <2>2, <2>3
<1>9. 0 .. n \subseteq P
  <2> HIDE DEF P
  <2> QED
    BY <1>1, <1>7, <1>8, RangeInduction
<1> QED
  BY <1>1, <1>6, <1>9 DEF g

-----------------------------------------------------------------------------
(* The inductive invariant.                                                *)

(* How many applications the loop at hand is past.                         *)
Done == Len(config) - Len(root)

Configured ==
    /\ Listed
    /\ root \in Seq(Application) /\ Len(root) <= Len(config)
    /\ \A j \in 1 .. Len(root) : root[j] = config[Done + j]

(* The first n applications are counted.                                   *)
Counting(n) ==
    /\ app_nums = n
    /\ cate_num = [c \in Category |-> Cardinality(Among(config, c, n))]
    /\ sig_nums = FirstEle(AppSigs, n)
    /\ ele_nums = FirstEle(AllSigs, sig_nums)

Counted ==
    /\ Counting(Len(config))
    /\ cate_index = [c \in Category |-> Cardinality(Below(config, c))]

Nothing ==
    /\ apps = Empty /\ sigs = Empty /\ eles = Empty
    /\ cate_offset = [c \in Category |-> 0]
    /\ sig_offset = 0 /\ ele_offset = 0

(* What the entry of an element is, whether the numbers fit or not.        *)
EntryOf(s, flags, o) ==
    LET k == SigOf(s, o)
    IN  [sigindex |-> Ushort(k),
         flag |-> flags[o] \cup FlagOf(o - FirstEle(s, k), Len(s[k + 1])),
         exp_ele_index |-> IF o = FirstEle(s, k + 1) - 1 THEN SENTINEL
                           ELSE Ushort(o + 1)]

PatternOf(s, o) == [class |-> ClassOf(s, o), low |-> o]

(* The signatures before sig_offset are installed, with all their elements.*)
Laid ==
    /\ sig_offset \in 0 .. Len(AllSigs)
    /\ ele_offset = FirstEle(AllSigs, sig_offset)
    /\ DOMAIN sigs = 0 .. sig_offset - 1
    /\ DOMAIN mem.flags = 0 .. ele_nums - 1
    /\ eles = [o \in 0 .. ele_offset - 1 |-> EntryOf(AllSigs, mem.flags, o)]
    /\ app_list \in Seq([class : Class, low : Nat])
    /\ Len(app_list) = Len(Headers) + ele_offset
    /\ \A o \in 0 .. ele_offset - 1 :
          app_list[Len(Headers) + o + 1] = PatternOf(AllSigs, o)

AppEntry(id, first, n) == [appid |-> id, sig_index |-> first, sig_num |-> n]

(* The first n applications are in their slots, the first m with all       *)
(* their signatures.                                                       *)
Filed(n, m) ==
    /\ DOMAIN apps = {SlotOf(config, a) : a \in 1 .. n}
    /\ \A a \in 1 .. m :
          apps[SlotOf(config, a)] =
             AppEntry(config[a].id, FirstEle(AppSigs, a - 1),
                      Len(config[a].sigs))
    /\ cate_offset = [c \in Category |-> Cardinality(Among(config, c, m))]

(* Application n + 1 is the next one.                                      *)
Between(n) == Filed(n, n) /\ sig_offset = FirstEle(AppSigs, n)

(* Application n is being installed.                                       *)
Within(n) ==
    /\ n \in 1 .. Len(config)
    /\ Filed(n, n - 1)
    /\ cur = SlotOf(config, n)
    /\ apps[cur] = AppEntry(config[n].id, FirstEle(AppSigs, n - 1), 0)
    /\ sig_offset \in FirstEle(AppSigs, n - 1) .. FirstEle(AppSigs, n)

TabInv ==
    /\ pc \in {"count", "alloc", "app", "sig", "dump", "done", "exit", "wild"}
    /\ Configured
    /\ pc \in {"count", "alloc"} => Nothing
    /\ pc = "count" => Counting(Done)
    /\ pc \notin {"count", "exit"} => Counted
    /\ pc \in {"app", "sig", "dump", "done", "wild"} => Laid
    /\ pc = "app" => Between(Done)
    /\ pc = "sig" => Within(Done + 1)
    /\ Loaded => Between(Len(config))

LEMMA SameConfig ==
    ASSUME config' = config
    PROVE  AppSigs' = AppSigs /\ AllSigs' = AllSigs /\ (Listed => Listed')
BY DEF AppSigs, AllSigs, Listed

(* The application the loop is at.                                         *)
LEMMA NextApp ==
    ASSUME Configured
    PROVE  /\ Done \in 0 .. Len(config) /\ Len(config) \in Nat
           /\ root = <<>> => Done = Len(config)
           /\ root # <<>> => /\ Done + 1 \in 1 .. Len(config)
                             /\ Head(root) = config[Done + 1]
<1>1. /\ root \in Seq(Application) /\ Len(root) <= Len(config)
      /\ Len(root) \in Nat /\ Len(config) \in Nat
      /\ \A j \in 1 .. Len(root) : root[j] = config[Done + j]
  BY LenProperties DEF Configured, Listed
<1>2. root = <<>> => Len(root) = 0
  BY EmptySeq
<1>3. root # <<>> => Len(root) # 0 /\ Head(root) = root[1]
  BY <1>1, EmptySeq, HeadTailProperties
<1> QED
  BY <1>1, <1>2, <1>3 DEF Done

(* One step of the loop.                                                   *)
LEMMA OneDone ==
    ASSUME Configured, root # <<>>, root' = Tail(root), config' = config
    PROVE  Configured' /\ Done' = Done + 1
<1>1. /\ root \in Seq(Application) /\ Len(root) <= Len(config)
      /\ Len(root) \in Nat /\ Len(config) \in Nat
      /\ \A j \in 1 .. Len(root) : root[j] = config[Done + j]
  BY LenProperties DEF Configured, Listed
<1>2. /\ root' \in Seq(Application) /\ Len(root') = Len(root) - 1
      /\ \A j \in 1 .. Len(root) - 1 : root'[j] = root[j + 1]
      /\ Len(root') \in Nat
  BY <1>1, HeadTailProperties, LenProperties
<1>3. Done' = Done + 1 /\ Len(root') <= Len(config')
  BY <1>1, <1>2 DEF Done
<1>4. ASSUME NEW j \in 1 .. Len(root')
      PROVE  root'[j] = config'[Done' + j]
  <2>1. j + 1 \in 1 .. Len(root) /\ j \in 1 .. Len(root) - 1
    BY <1>1, <1>2
  <2>2. Done \in Int
    BY <1>1 DEF Done
  <2>3. Done' + j = Done + (j + 1)
    BY <1>3, <2>1, <2>2
  <2> QED
    BY <1>1, <1>2, <2>1, <2>3
<1> QED
  BY <1>2, <1>3, <1>4, SameConfig DEF Configured

LEMMA NoneDone ==
    ASSUME Configured, root' = config, config' = config
    PROVE  Configured' /\ Done' = 0
<1>1. config \in Seq(Application) /\ Len(config) \in Nat
  BY LenProperties DEF Configured, Listed
<1>2. Done' = 0
  BY <1>1 DEF Done
<1>3. \A j \in 1 .. Len(root') : root'[j] = config'[Done' + j]
  BY <1>1, <1>2
<1> QED
  BY <1>1, <1>2, <1>3, SameConfig DEF Configured, Listed

LEMMA SameDone ==
    ASSUME Configured, root' = root, config' = config
    PROVE  Configured' /\ Done' = Done
BY SameConfig DEF Configured, Done

(* Where the tables start from, whatever the applications are.             *)
LEMMA StartTabInv ==
    pc = "count" /\ Listed /\ root = config /\ TablesInit => TabInv
<1> SUFFICES ASSUME pc = "count", Listed, root = config, TablesInit
             PROVE  TabInv
  OBVIOUS
<1>2. Configured /\ Done = 0
  <2>1. Len(config) \in Nat /\ Done = 0
    BY Numbering DEF Done
  <2> QED
    BY <2>1 DEF Configured, Listed
<1>3. Nothing
  BY DEF TablesInit, Nothing
<1>4. Counting(Done)
  <2>1. FirstEle(AppSigs, 0) = 0 /\ FirstEle(AllSigs, 0) = 0
    BY Numbering
  <2>2. \A c \in Category : Cardinality(Among(config, c, 0)) = 0
    BY Numbering, CountOne
  <2>3. cate_num = [c \in Category |-> Cardinality(Among(config, c, 0))]
    BY <2>2 DEF TablesInit
  <2> QED
    BY <1>2, <2>1, <2>3 DEF TablesInit, Counting
<1> QED
  BY <1>2, <1>3, <1>4 DEF TabInv, Loaded

LEMMA InitTabInv == Init => TabInv
BY StartTabInv, ConfigAssumption DEF Init, Listed

LEMMA CountTabs ==
    ASSUME TabInv, Count PROVE TabInv'
<1> DEFINE n == Done
           app == Head(root)
<1>1. /\ pc = "count" /\ pc' = pc /\ root # <<>> /\ root' = Tail(root)
      /\ config' = config /\ UNCHANGED tables
      /\ app_nums' = app_nums + 1
      /\ cate_num' = [cate_num EXCEPT ![app.category] = @ + 1]
      /\ sig_nums' = sig_nums + Len(app.sigs)
      /\ ele_nums' = ele_nums + NumEles(app.sigs)
  BY DEF Count
<1>2. Configured /\ Counting(n) /\ Nothing /\ Listed
  BY <1>1 DEF TabInv, Configured
<1>3. /\ n + 1 \in 1 .. Len(config) /\ n \in Nat /\ app = config[n + 1]
      /\ Configured' /\ Done' = n + 1
  BY <1>1, <1>2, NextApp, OneDone
<1> HIDE DEF n, app
<1>4. AppSigs' = AppSigs /\ AllSigs' = AllSigs
  BY <1>1, SameConfig
<1>5. (n + 1) - 1 = n /\ n + 1 \in 0 .. Len(config) /\ n + 1 # 0
  BY <1>3
<1>6. /\ FirstEle(AppSigs, n + 1) = FirstEle(AppSigs, n) + Len(app.sigs)
      /\ FirstEle(AllSigs, FirstEle(AppSigs, n + 1)) =
            FirstEle(AllSigs, FirstEle(AppSigs, n)) + NumEles(app.sigs)
      /\ app.category \in Category
  BY <1>2, <1>3, <1>5, AppNumbers
<1>7. cate_num' = [c \in Category |-> Cardinality(Among(config, c, n + 1))]
  <2>1. cate_num = [c \in Category |-> Cardinality(Among(config, c, n))]
    BY <1>2 DEF Counting
  <2>2. \A c \in Category :
           Cardinality(Among(config, c, n + 1)) =
              IF app.category = c THEN Cardinality(Among(config, c, n)) + 1
              ELSE Cardinality(Among(config, c, n))
    BY <1>2, <1>3, <1>5, CountOne
  <2> QED
    BY <1>1, <1>6, <2>1, <2>2
<1>8. /\ app_nums' = n + 1 /\ sig_nums' = FirstEle(AppSigs, n + 1)
      /\ ele_nums' = FirstEle(AllSigs, sig_nums')
  BY <1>1, <1>2, <1>6 DEF Counting
<1>9. Counting(Done)'
  BY <1>1, <1>3, <1>4, <1>7, <1>8 DEF Counting
<1>10. Nothing'
  BY <1>1, <1>2 DEF Nothing, tables
<1> QED
  BY <1>1, <1>3, <1>9, <1>10 DEF TabInv, Loaded

LEMMA EndCountTabs ==
    ASSUME TabInv, EndCount PROVE TabInv'
<1>1. /\ pc = "count" /\ pc' = "alloc" /\ root = <<>> /\ root' = root
      /\ config' = config /\ UNCHANGED tables
      /\ app_nums' = app_nums /\ cate_num' = cate_num
      /\ sig_nums' = sig_nums /\ ele_nums' = ele_nums
      /\ cate_index' = Index(cate_num)
  BY DEF EndCount
<1>2. Configured /\ Counting(Done) /\ Nothing /\ Listed /\ Done = Len(config)
  BY <1>1, NextApp DEF TabInv, Configured
<1>3. cate_index' = [c \in Category |-> Cardinality(Below(config, c))]
  BY <1>1, <1>2, IndexCounts DEF Counting
<1>4. AppSigs' = AppSigs /\ AllSigs' = AllSigs
  BY <1>1, SameConfig
<1>5. Counted'
  BY <1>1, <1>2, <1>3, <1>4 DEF Counted, Counting
<1>6. Nothing' /\ Configured'
  BY <1>1, <1>2, SameDone DEF Nothing, tables
<1> QED
  BY <1>1, <1>5, <1>6 DEF TabInv, Loaded

(* What was counted stays.                                                 *)
LEMMA StillCounted ==
    ASSUME Counted, config' = config, UNCHANGED summary
    PROVE  Counted'
<1>1. AppSigs' = AppSigs /\ AllSigs' = AllSigs
  BY SameConfig
<1> QED
  BY <1>1 DEF Counted, Counting, summary

LEMMA AllocTabs ==
    ASSUME TabInv, Alloc PROVE TabInv'
<1>1. /\ pc = "alloc" /\ pc' = "app" /\ config' = config /\ root' = config
      /\ UNCHANGED summary
      /\ apps' = apps /\ sigs' = sigs /\ eles' = eles
      /\ cate_offset' = cate_offset
      /\ sig_offset' = sig_offset /\ ele_offset' = ele_offset
      /\ app_list' =
            [j \in DOMAIN Headers |-> [class |-> 0, low |-> Headers[j]]]
  BY DEF Alloc
<1>2. Configured /\ Counted /\ Nothing /\ Listed
  BY <1>1 DEF TabInv, Configured
<1>3. Configured' /\ Done' = 0 /\ Counted'
  BY <1>1, <1>2, NoneDone, StillCounted
<1>4. AppSigs' = AppSigs /\ AllSigs' = AllSigs
  BY <1>1, SameConfig
<1>5. /\ FirstEle(AppSigs, 0) = 0 /\ FirstEle(AllSigs, 0) = 0
      /\ Len(AllSigs) \in Nat /\ Len(config) \in Nat
  BY <1>2, Numbering
<1>6. Filed(0, 0)'
  <2>1. \A c : Cardinality(Among(config, c, 0)) = 0
    BY <1>2, <1>5, CountOne
  <2>2. cate_offset' = [c \in Category |-> Cardinality(Among(config', c, 0))]
    BY <1>1, <1>2, <2>1 DEF Nothing
  <2>3. DOMAIN apps' = {SlotOf(config', a) : a \in 1 .. 0}
    BY <1>1, <1>2 DEF Nothing, Empty
  <2> QED
    BY <2>2, <2>3 DEF Filed
<1>7. Laid'
  <2>1. DOMAIN mem'.flags = 0 .. ele_nums' - 1
    BY <1>1 DEF Alloc, Repeated, summary
  <2>2. sigs' = [x \in {} |-> 0] /\ eles' = [x \in {} |-> 0]
    BY <1>1, <1>2 DEF Nothing, Empty
  <2>3. /\ DOMAIN sigs' = 0 .. sig_offset' - 1
        /\ sig_offset' = 0 /\ ele_offset' = 0
    BY <1>1, <1>2, <2>2 DEF Nothing
  <2>4. eles' = [o \in 0 .. ele_offset' - 1 |->
                    EntryOf(AllSigs', mem'.flags, o)]
    BY <2>2, <2>3
  <2>5. /\ app_list' \in Seq([class : Class, low : Nat])
        /\ Len(app_list') = Len(Headers) + ele_offset'
    <3>1. Headers \in Seq(Nat) /\ Len(Headers) = 5 /\ DOMAIN Headers = 1 .. 5
      BY DEF Headers
    <3>2. \A j \in 1 .. 5 : Headers[j] \in Nat
      BY <3>1, ElementOfSeq
    <3>3. app_list' \in [1 .. 5 -> [class : Class, low : Nat]]
      BY <1>1, <3>1, <3>2 DEF Class
    <3>4. 5 \in Nat
      OBVIOUS
    <3>5. app_list' \in Seq([class : Class, low : Nat])
      BY <3>3, <3>4, SeqDef
    <3>6. Len(app_list') = 5
      <4> DEFINE len == Len(app_list')
      <4>1. len \in Nat /\ 1 .. len = 1 .. 5
        BY <3>3, <3>5, LenProperties
      <4> HIDE DEF len
      <4>2. 5 \in 1 .. len /\ len + 1 \notin 1 .. len
        BY <4>1
      <4>3. len + 1 \notin 1 .. 5
        BY <4>1, <4>2
      <4>4. len = 5
        BY <4>1, <4>2, <4>3
      <4> QED
        BY <4>4 DEF len
    <3> QED
      BY <2>3, <3>1, <3>5, <3>6
  <2> QED
    BY <1>4, <1>5, <2>1, <2>3, <2>4, <2>5 DEF Laid
<1>8. Between(Done)'
  <2>1. sig_offset' = FirstEle(AppSigs', Done')
    BY <1>1, <1>2, <1>3, <1>4, <1>5 DEF Nothing
  <2> QED
    BY <1>3, <1>6, <2>1 DEF Between, Filed
<1> QED
  BY <1>1, <1>3, <1>7, <1>8 DEF TabInv, Loaded

LEMMA BeginAppTabs ==
    ASSUME TabInv, BeginApp PROVE TabInv'
<1> DEFINE n == Done + 1
           app == Head(root)
           entry == AppEntry(app.id, sig_offset, 0)
<1>1. /\ pc = "app" /\ pc' = "sig" /\ config' = config /\ root' = root
      /\ root # <<>> /\ UNCHANGED summary
      /\ sigs' = sigs /\ eles' = eles /\ mem' = mem /\ app_list' = app_list
      /\ cate_offset' = cate_offset
      /\ sig_offset' = sig_offset /\ ele_offset' = ele_offset
      /\ cur' = Slot(app.category)
      /\ apps' = Put(apps, cur', entry)
  BY DEF BeginApp, AppEntry
<1>2. Configured /\ Counted /\ Listed /\ Laid /\ Between(Done)
  BY <1>1 DEF TabInv, Configured
<1>3. /\ n \in 1 .. Len(config) /\ app = config[n] /\ n - 1 = Done
      /\ Configured' /\ Done' = Done /\ Counted' /\ Done \in Nat
      /\ Len(config) \in Nat
  BY <1>1, <1>2, NextApp, SameDone, StillCounted
<1>4. AppSigs' = AppSigs /\ AllSigs' = AllSigs
  BY <1>1, SameConfig
<1>5. Laid'
  BY <1>1, <1>2, <1>4 DEF Laid, summary
<1> HIDE DEF app, entry
<1>6. cur' = SlotOf(config, n)
  <2>1. app.category \in Category
    BY <1>2, <1>3, AppNumbers
  <2>2. /\ cate_index[app.category] = Cardinality(Below(config, app.category))
        /\ cate_offset[app.category] =
              Cardinality(Among(config, app.category, n - 1))
    BY <1>2, <1>3, <2>1 DEF Counted, Between, Filed
  <2> QED
    BY <1>1, <1>3, <2>2 DEF Slot, SlotOf
<1>7. \A a \in 1 .. n - 1 : a \in 1 .. Len(config) /\ SlotOf(config, a) # cur'
  <2>1. \A a \in 1 .. n - 1 : a \in 1 .. Len(config) /\ a # n
    BY <1>3
  <2> QED
    BY <1>2, <1>3, <1>6, <2>1, SlotsApart
<1> HIDE DEF n
<1>8. DOMAIN apps' = {SlotOf(config, a) : a \in 1 .. n}
  <2>1. DOMAIN apps = {SlotOf(config, a) : a \in 1 .. n - 1}
    BY <1>2, <1>3 DEF Between, Filed
  <2>2. 1 .. n = (1 .. n - 1) \cup {n}
    BY <1>3
  <2>3. DOMAIN apps' = DOMAIN apps \cup {SlotOf(config, n)}
    BY <1>1, <1>6 DEF Put
  <2> QED
    BY <2>1, <2>2, <2>3
<1>9. \A a \in 1 .. n - 1 :
         apps'[SlotOf(config, a)] =
            AppEntry(config[a].id, FirstEle(AppSigs, a - 1),
                     Len(config[a].sigs))
  <2>1. \A a \in 1 .. n - 1 : SlotOf(config, a) \in DOMAIN apps
    BY <1>2, <1>3 DEF Between, Filed
  <2>2. \A a \in 1 .. n - 1 : apps'[SlotOf(config, a)] = apps[SlotOf(config, a)]
    BY <1>1, <1>7, <2>1 DEF Put
  <2> QED
    BY <1>2, <1>3, <2>2 DEF Between, Filed
<1>10. apps'[cur'] = AppEntry(config[n].id, FirstEle(AppSigs, n - 1), 0)
  <2>1. apps'[cur'] = entry
    BY <1>1 DEF Put
  <2> QED
    BY <1>2, <1>3, <2>1 DEF Between, entry
<1>11. sig_offset \in FirstEle(AppSigs, n - 1) .. FirstEle(AppSigs, n)
  BY <1>2, <1>3, AppNumbers DEF Between
<1>12. cate_offset' = [c \in Category |-> Cardinality(Among(config, c, n - 1))]
  BY <1>1, <1>2, <1>3 DEF Between, Filed
<1>13. Within(Done + 1)'
  <2>1. (Done + 1)' = n
    BY <1>3 DEF n
  <2> QED
    BY <1>1, <1>3, <1>4, <1>6, <1>8, <1>9, <1>10, <1>11, <1>12, <2>1
    DEF Within, Filed
<1> QED
  BY <1>1, <1>3, <1>5, <1>13 DEF TabInv, Loaded

LEMMA AllocFailsTabs ==
    ASSUME TabInv, AllocFails PROVE TabInv'
<1>1. /\ pc = "alloc" /\ pc' = "exit" /\ config' = config /\ root' = root
      /\ UNCHANGED <<summary, tables>>
  BY DEF AllocFails
<1>2. Configured'
  BY <1>1, SameDone DEF TabInv
<1> QED
  BY <1>1, <1>2 DEF TabInv, Loaded

(* The signature at hand, in the numbering of all.                         *)
LEMMA SigAtHand ==
    ASSUME TabInv, InstallSig
    PROVE  /\ Head(root) = config[Done + 1]
           /\ sig_offset \in 0 .. Len(AllSigs) - 1
           /\ Head(root).sigs[Installed + 1] = AllSigs[sig_offset + 1]
           /\ sig_offset + 1 \in
                 FirstEle(AppSigs, Done) .. FirstEle(AppSigs, Done + 1)
<1> DEFINE n == Done + 1
           first == FirstEle(AppSigs, n - 1)
           next == FirstEle(AppSigs, n)
           list == config[n].sigs
           all == Len(AllSigs)
<1>1. /\ pc = "sig" /\ Installed < Len(Head(root).sigs)
      /\ Configured /\ Listed /\ Within(n)
  BY DEF InstallSig, TabInv, Configured
<1>2. n \in 1 .. Len(config) /\ n - 1 = Done
  BY <1>1, NextApp DEF Within
<1>3. Head(root) = config[n]
  <2>1. root # <<>>
    BY <1>1, <1>2, NextApp
  <2> QED
    BY <1>1, <2>1, NextApp
<1>4. /\ Len(list) \in Nat /\ first \in Nat /\ next = first + Len(list)
      /\ next <= all
      /\ \A j \in 1 .. Len(list) : AllSigs[first + j] = list[j]
  BY <1>1, <1>2, AppNumbers
<1>5. all \in Nat
  BY <1>1, Numbering
<1>6. Installed = sig_offset - first /\ sig_offset \in first .. next
  BY <1>1 DEF Within, Installed, AppEntry
<1>7. Installed < Len(list)
  BY <1>1, <1>3
<1> DEFINE j == Installed + 1
<1> HIDE DEF n, first, next, list, all
<1>8. /\ j \in 1 .. Len(list) /\ first + j = sig_offset + 1
      /\ sig_offset \in 0 .. all - 1 /\ sig_offset + 1 \in first .. next
  BY <1>4, <1>5, <1>6, <1>7
<1>9. list[j] = AllSigs[sig_offset + 1]
  BY <1>4, <1>8
<1> QED
  BY <1>2, <1>3, <1>8, <1>9 DEF n, first, next, list, all

(* The entries InstallSig writes.                                          *)
LEMMA NewEntries ==
    ASSUME Listed, sig_offset \in 0 .. Len(AllSigs) - 1,
           ele_offset = FirstEle(AllSigs, sig_offset),
           NEW o \in ele_offset .. ele_offset + Len(AllSigs[sig_offset + 1]) - 1
    PROVE  /\ EleEntry(o, Len(AllSigs[sig_offset + 1])) =
                 EntryOf(AllSigs, mem.flags, o)
           /\ PatternId(AllSigs[sig_offset + 1][o - ele_offset + 1], o) =
                 PatternOf(AllSigs, o)
<1> DEFINE k == sig_offset
           s == AllSigs[k + 1]
<1>1. /\ FirstEle(AllSigs, k) \in Nat /\ Len(s) \in Nat
      /\ FirstEle(AllSigs, k + 1) = FirstEle(AllSigs, k) + Len(s)
      /\ \A p \in FirstEle(AllSigs, k) .. FirstEle(AllSigs, k + 1) - 1 :
            SigOf(AllSigs, p) = k
  BY SigNumbers
<1>2. o \in FirstEle(AllSigs, k) .. FirstEle(AllSigs, k + 1) - 1
  BY <1>1
<1>3. SigOf(AllSigs, o) = k
  BY <1>1, <1>2
<1>4. o - ele_offset = Len(s) - 1 <=> o = FirstEle(AllSigs, k + 1) - 1
  BY <1>1, <1>2
<1>5. EleEntry(o, Len(s)) = EntryOf(AllSigs, mem.flags, o)
  BY <1>3, <1>4 DEF EleEntry, EntryOf
<1>6. PatternId(s[o - ele_offset + 1], o) = PatternOf(AllSigs, o)
  BY <1>3 DEF PatternId, PatternOf, ClassOf
<1> QED
  BY <1>5, <1>6

(* And the patterns it adds.                                               *)
LEMMA NewPatterns ==
    ASSUME Listed, Laid, sig_offset \in 0 .. Len(AllSigs) - 1,
           NEW s, s = AllSigs[sig_offset + 1], NEW list,
           list = app_list \o [i \in 1 .. Len(s) |->
                                  PatternId(s[i], ele_offset + i - 1)]
    PROVE  /\ list \in Seq([class : Class, low : Nat])
           /\ Len(list) = Len(Headers) + (ele_offset + Len(s))
           /\ \A o \in 0 .. ele_offset + Len(s) - 1 :
                 list[Len(Headers) + o + 1] = PatternOf(AllSigs, o)
<1> DEFINE Pattern == [class : Class, low : Nat]
           new == [i \in 1 .. Len(s) |-> PatternId(s[i], ele_offset + i - 1)]
           h == Len(Headers)
           n == Len(s)
<1>1. /\ s \in Seq(Class) /\ n \in Nat /\ ele_offset \in Nat
      /\ \A i \in 1 .. n : s[i] \in Class
  BY SigNumbers, LenProperties, ElementOfSeq DEF Laid
<1>2. h \in Nat
  BY DEF Headers
<1>3. new \in [1 .. n -> Pattern]
  BY <1>1 DEF PatternId
<1>4. new \in Seq(Pattern)
  <2> HIDE DEF new, Pattern, n
  <2> QED
    BY <1>1, <1>3, SeqDef
<1>5. Len(new) = n
  BY <1>1, <1>4, LenProperties
<1>6. app_list \in Seq(Pattern) /\ Len(app_list) = h + ele_offset
      /\ \A o \in 0 .. ele_offset - 1 :
            app_list[h + o + 1] = PatternOf(AllSigs, o)
  BY DEF Laid
<1>7. \A i \in 1 .. n : new[i] = PatternOf(AllSigs, ele_offset + i - 1)
  <2> SUFFICES ASSUME NEW i \in 1 .. n
               PROVE  new[i] = PatternOf(AllSigs, ele_offset + i - 1)
    OBVIOUS
  <2>1. /\ ele_offset + i - 1 \in ele_offset .. ele_offset + n - 1
        /\ (ele_offset + i - 1) - ele_offset + 1 = i
    BY <1>1
  <2>2. PatternId(s[i], ele_offset + i - 1) =
           PatternOf(AllSigs, ele_offset + i - 1)
    BY <2>1, NewEntries DEF Laid
  <2> QED
    BY <2>2
<1> HIDE DEF Pattern, new, h, n
<1>8. /\ list \in Seq(Pattern) /\ Len(list) = Len(app_list) + Len(new)
      /\ \A i \in 1 .. Len(app_list) + Len(new) :
            list[i] = IF i <= Len(app_list) THEN app_list[i]
                      ELSE new[i - Len(app_list)]
  <2>1. list = app_list \o new
    BY DEF new, n
  <2>2. new \in Seq(Pattern) /\ app_list \in Seq(Pattern)
    BY <1>4, <1>6
  <2>3. /\ app_list \o new \in Seq(Pattern)
        /\ Len(app_list \o new) = Len(app_list) + Len(new)
        /\ \A i \in 1 .. Len(app_list) + Len(new) :
              (app_list \o new)[i] = IF i <= Len(app_list) THEN app_list[i]
                                     ELSE new[i - Len(app_list)]
    BY <2>2, ConcatProperties
  <2> QED
    BY <2>1, <2>3
<1>9. ASSUME NEW o \in 0 .. ele_offset + n - 1
      PROVE  list[h + o + 1] = PatternOf(AllSigs, o)
  <2>1. h + o + 1 \in 1 .. (h + ele_offset) + n
    BY <1>1, <1>2
  <2>2. CASE o < ele_offset
    <3>1. h + o + 1 <= h + ele_offset /\ o \in 0 .. ele_offset - 1
      BY <1>1, <1>2, <2>2
    <3> QED
      BY <1>5, <1>6, <1>8, <2>1, <3>1
  <2>3. CASE ~ (o < ele_offset)
    <3> DEFINE i == o - ele_offset + 1
    <3>1. /\ ~ (h + o + 1 <= h + ele_offset) /\ i \in 1 .. n
          /\ (h + o + 1) - (h + ele_offset) = i /\ ele_offset + i - 1 = o
      BY <1>1, <1>2, <2>3
    <3> HIDE DEF i
    <3>2. list[h + o + 1] = new[i]
      BY <1>5, <1>6, <1>8, <2>1, <3>1
    <3> QED
      BY <1>7, <3>1, <3>2
  <2> QED
    BY <2>2, <2>3
<1>10. Len(list) = h + (ele_offset + n)
  BY <1>1, <1>2, <1>5, <1>6, <1>8
<1> QED
  BY <1>8, <1>9, <1>10 DEF Pattern, h, n

LEMMA InstallSigTabs ==
    ASSUME TabInv, InstallSig PROVE TabInv'
<1> DEFINE n == Done + 1
           k == sig_offset
           s == AllSigs[k + 1]
           new == ele_offset .. ele_offset + Len(s) - 1
           pattern ==
              [i \in 1 .. Len(s) |-> PatternId(s[i], ele_offset + i - 1)]
           end == ele_offset + Len(s)
<1>1. /\ Head(root).sigs[Installed + 1] = s /\ k \in 0 .. Len(AllSigs) - 1
      /\ k + 1 \in FirstEle(AppSigs, Done) .. FirstEle(AppSigs, n)
  BY SigAtHand
<1>2. /\ pc = "sig" /\ pc' = pc /\ config' = config /\ root' = root
      /\ UNCHANGED summary
      /\ mem' = mem /\ apps' = apps /\ cate_offset' = cate_offset /\ cur' = cur
      /\ sig_offset' = k + 1 /\ ele_offset' = ele_offset + Len(s)
      /\ DOMAIN sigs' = DOMAIN sigs \cup {k}
      /\ eles' = [o \in DOMAIN eles \cup new |->
                     IF o \in new THEN EleEntry(o, Len(s)) ELSE eles[o]]
      /\ app_list' = app_list \o pattern
  BY <1>1 DEF InstallSig, Put
<1>3. Configured /\ Counted /\ Listed /\ Laid /\ Within(n)
  BY <1>2 DEF TabInv, Configured
<1>4. Configured' /\ Done' = Done /\ Counted' /\ n - 1 = Done
  BY <1>2, <1>3, NextApp, SameDone, StillCounted
<1>5. AppSigs' = AppSigs /\ AllSigs' = AllSigs
  BY <1>2, SameConfig
<1>6. /\ Len(s) \in Nat /\ FirstEle(AllSigs, k) \in Nat
      /\ FirstEle(AllSigs, k + 1) = FirstEle(AllSigs, k) + Len(s)
      /\ Len(AllSigs) \in Nat
  BY <1>1, <1>3, SigNumbers, Numbering
<1>7. ele_offset = FirstEle(AllSigs, k)
  BY <1>3 DEF Laid
<1>8. ele_offset' = FirstEle(AllSigs, k + 1)
  BY <1>2, <1>6, <1>7
<1>9. DOMAIN sigs' = 0 .. (k + 1) - 1
  <2>1. DOMAIN sigs = 0 .. k - 1
    BY <1>3 DEF Laid
  <2>2. (0 .. k - 1) \cup {k} = 0 .. (k + 1) - 1
    BY <1>1, <1>6
  <2> QED
    BY <1>2, <2>1, <2>2
<1>10. eles' = [o \in 0 .. end - 1 |->
                  EntryOf(AllSigs, mem.flags, o)]
  <2>1. eles = [o \in 0 .. ele_offset - 1 |-> EntryOf(AllSigs, mem.flags, o)]
    BY <1>3 DEF Laid
  <2>2. (0 .. ele_offset - 1) \cup new = 0 .. end - 1
    BY <1>6, <1>7
  <2>3. \A o \in new : EleEntry(o, Len(s)) = EntryOf(AllSigs, mem.flags, o)
    BY <1>1, <1>3, <1>7, NewEntries
  <2> HIDE DEF new, s, end
  <2> QED
    BY <1>2, <2>1, <2>2, <2>3
<1>11. /\ app_list' \in Seq([class : Class, low : Nat])
       /\ Len(app_list') = Len(Headers) + end
       /\ \A o \in 0 .. end - 1 :
             app_list'[Len(Headers) + o + 1] = PatternOf(AllSigs, o)
  <2>1. ele_offset + Len(s) - 1 = end - 1
    BY <1>6, <1>7
  <2>2. /\ app_list' \in Seq([class : Class, low : Nat])
        /\ Len(app_list') = Len(Headers) + end
        /\ \A o \in 0 .. ele_offset + Len(s) - 1 :
              app_list'[Len(Headers) + o + 1] = PatternOf(AllSigs, o)
    BY <1>1, <1>2, <1>3, NewPatterns
  <2> HIDE DEF end
  <2> QED
    BY <2>1, <2>2
<1>12. k + 1 \in 0 .. Len(AllSigs)
  BY <1>1, <1>6
<1>13. Laid'
  <2>1. DOMAIN mem'.flags = 0 .. ele_nums' - 1
    BY <1>2, <1>3 DEF Laid, summary
  <2>2. /\ sig_offset' \in 0 .. Len(AllSigs')
        /\ DOMAIN sigs' = 0 .. sig_offset' - 1
    BY <1>2, <1>5, <1>9, <1>12
  <2>3. ele_offset' = FirstEle(AllSigs', sig_offset')
    BY <1>2, <1>5, <1>8
  <2>6. ele_offset' = end /\ mem' = mem /\ AllSigs' = AllSigs
    BY <1>2, <1>5
  <2> HIDE DEF end
  <2>4. eles' = [o \in 0 .. ele_offset' - 1 |->
                   EntryOf(AllSigs', mem'.flags, o)]
    BY <1>10, <2>6
  <2>5. /\ app_list' \in Seq([class : Class, low : Nat])
        /\ Len(app_list') = Len(Headers) + ele_offset'
        /\ \A o \in 0 .. ele_offset' - 1 :
              app_list'[Len(Headers) + o + 1] = PatternOf(AllSigs', o)
    BY <1>11, <2>6
  <2> QED
    BY <2>1, <2>2, <2>3, <2>4, <2>5 DEF Laid
<1>14. Within(Done + 1)'
  BY <1>1, <1>2, <1>3, <1>4, <1>5 DEF Within, Filed
<1> QED
  BY <1>2, <1>4, <1>13, <1>14 DEF TabInv, Loaded

LEMMA EndAppTabs ==
    ASSUME TabInv, EndApp PROVE TabInv'
<1> DEFINE n == Done + 1
           app == Head(root)
           entry == AppEntry(app.id, FirstEle(AppSigs, n - 1), Len(app.sigs))
<1>1. /\ pc = "sig" /\ pc' = "app" /\ config' = config /\ root' = Tail(root)
      /\ UNCHANGED summary
      /\ mem' = mem /\ sigs' = sigs /\ eles' = eles /\ app_list' = app_list
      /\ sig_offset' = sig_offset /\ ele_offset' = ele_offset /\ cur' = cur
      /\ Installed = Len(app.sigs)
      /\ apps' = [apps EXCEPT ![cur].sig_num = Installed]
      /\ cate_offset' = [cate_offset EXCEPT ![app.category] = @ + 1]
  BY DEF EndApp
<1>2. Configured /\ Counted /\ Listed /\ Laid /\ Within(n)
  BY <1>1 DEF TabInv, Configured
<1>3. n \in 1 .. Len(config) /\ n - 1 = Done /\ Done \in Nat
  BY <1>2, NextApp DEF Within
<1>4. root # <<>> /\ app = config[n]
  <2>1. root # <<>>
    BY <1>2, <1>3, NextApp
  <2> QED
    BY <1>2, <2>1, NextApp
<1>5. Configured' /\ Done' = n /\ Counted'
  BY <1>1, <1>2, <1>4, OneDone, StillCounted
<1>6. AppSigs' = AppSigs /\ AllSigs' = AllSigs
  BY <1>1, SameConfig
<1>7. Laid'
  BY <1>1, <1>2, <1>6 DEF Laid, summary
<1> HIDE DEF app, entry
<1>8. /\ app.category \in Category /\ Len(app.sigs) \in Nat
      /\ FirstEle(AppSigs, n - 1) \in Nat
      /\ FirstEle(AppSigs, n) = FirstEle(AppSigs, n - 1) + Len(app.sigs)
  BY <1>2, <1>3, <1>4, AppNumbers
<1>9. sig_offset' = FirstEle(AppSigs, n)
  <2>1. /\ sig_offset \in FirstEle(AppSigs, n - 1) .. FirstEle(AppSigs, n)
        /\ Installed = sig_offset - FirstEle(AppSigs, n - 1)
    BY <1>2 DEF Within, Installed, AppEntry
  <2> QED
    BY <1>1, <1>8, <2>1
<1> HIDE DEF n
<1>10. cur = SlotOf(config, n) /\ cur \in DOMAIN apps
       /\ DOMAIN apps = {SlotOf(config, a) : a \in 1 .. n}
  <2>1. n \in 1 .. n
    BY <1>3
  <2> QED
    BY <1>2, <2>1 DEF Within, Filed
<1>11. apps' = [apps EXCEPT ![cur] = entry]
  <2>1. apps[cur] = AppEntry(app.id, FirstEle(AppSigs, n - 1), 0)
    BY <1>2, <1>4 DEF Within
  <2>2. [apps[cur] EXCEPT !.sig_num = Installed] = entry
    BY <1>1, <2>1 DEF AppEntry, entry
  <2>3. apps' = [apps EXCEPT ![cur] = [apps[cur] EXCEPT !.sig_num = Installed]]
    BY <1>1
  <2> QED
    BY <2>2, <2>3
<1>12. ASSUME NEW a \in 1 .. n
       PROVE  apps'[SlotOf(config, a)] =
                 AppEntry(config[a].id, FirstEle(AppSigs, a - 1),
                          Len(config[a].sigs))
  <2>1. CASE a = n
    BY <1>4, <1>10, <1>11, <2>1 DEF entry
  <2>2. CASE a # n
    <3>1. a \in 1 .. n - 1 /\ a \in 1 .. Len(config)
      <4>1. Len(config) \in Nat
        BY <1>2, Numbering
      <4> QED
        BY <1>3, <2>2, <4>1
    <3>2. SlotOf(config, a) # cur /\ SlotOf(config, a) \in DOMAIN apps
      BY <1>2, <1>3, <1>10, <2>2, <3>1, SlotsApart
    <3>3. apps'[SlotOf(config, a)] = apps[SlotOf(config, a)]
      BY <1>11, <3>2
    <3> QED
      BY <1>2, <3>1, <3>3 DEF Within, Filed
  <2> QED
    BY <2>1, <2>2
<1>13. cate_offset' = [c \in Category |-> Cardinality(Among(config, c, n))]
  <2>1. cate_offset = [c \in Category |-> Cardinality(Among(config, c, n - 1))]
    BY <1>2 DEF Within, Filed
  <2>2. n \in 0 .. Len(config) /\ n # 0
    BY <1>3
  <2>3. \A c \in Category :
           Cardinality(Among(config, c, n)) =
              IF app.category = c THEN Cardinality(Among(config, c, n - 1)) + 1
              ELSE Cardinality(Among(config, c, n - 1))
    BY <1>2, <1>4, <2>2, CountOne
  <2> QED
    BY <1>1, <1>8, <2>1, <2>3
<1>14. Between(Done)'
  <2>1. DOMAIN apps' = {SlotOf(config', a) : a \in 1 .. n}
    BY <1>1, <1>10, <1>11
  <2>2. /\ sig_offset' = FirstEle(AppSigs', n)
        /\ cate_offset' = [c \in Category |-> Cardinality(Among(config', c, n))]
    BY <1>1, <1>6, <1>9, <1>13
  <2>3. \A a \in 1 .. n :
           apps'[SlotOf(config', a)] =
              AppEntry(config'[a].id, FirstEle(AppSigs', a - 1),
                       Len(config'[a].sigs))
    BY <1>1, <1>6, <1>12
  <2> QED
    BY <1>5, <2>1, <2>2, <2>3 DEF Between, Filed
<1> QED
  BY <1>1, <1>5, <1>7, <1>14 DEF TabInv, Loaded

LEMMA EndInstallTabs ==
    ASSUME TabInv, EndInstall PROVE TabInv'
<1>1. /\ pc = "app" /\ pc' = "dump" /\ root = <<>> /\ root' = root
      /\ config' = config /\ UNCHANGED <<summary, tables>>
  BY DEF EndInstall
<1>2. Configured /\ Counted /\ Laid /\ Between(Done) /\ Done = Len(config)
  BY <1>1, NextApp DEF TabInv
<1>3. Configured' /\ Counted'
  BY <1>1, <1>2, SameDone, StillCounted
<1>4. AppSigs' = AppSigs /\ AllSigs' = AllSigs
  BY <1>1, SameConfig
<1>5. Laid' /\ Between(Len(config))'
  BY <1>1, <1>2, <1>4 DEF Laid, Between, Filed, summary, tables
<1> QED
  BY <1>1, <1>3, <1>5 DEF TabInv, Loaded

(* Nothing the invariant speaks of changes once the tables are filled.     *)
LEMMA DumpTabs ==
    ASSUME TabInv, Dump PROVE TabInv'
<1>1. /\ pc = "dump" /\ pc' \in {"done", "wild"}
      /\ root' = root /\ config' = config /\ UNCHANGED <<summary, tables>>
  BY DEF Dump
<1>2. Configured /\ Counted /\ Laid /\ Between(Len(config))
  BY <1>1 DEF TabInv, Loaded
<1>3. Configured' /\ Counted'
  BY <1>1, <1>2, SameDone, StillCounted
<1>4. AppSigs' = AppSigs /\ AllSigs' = AllSigs
  BY <1>1, SameConfig
<1>5. Laid' /\ Between(Len(config))'
  BY <1>1, <1>2, <1>4 DEF Laid, Between, Filed, summary, tables
<1> QED
  BY <1>1, <1>3, <1>5 DEF TabInv, Loaded

LEMMA SameTabs ==
    ASSUME TabInv, UNCHANGED vars PROVE TabInv'
<1>1. /\ pc' = pc /\ root' = root /\ config' = config
      /\ UNCHANGED <<summary, tables>>
  BY DEF vars
<1>2. Configured' /\ Done' = Done /\ (Counted => Counted')
  BY <1>1, SameDone, StillCounted DEF TabInv
<1>3. AppSigs' = AppSigs /\ AllSigs' = AllSigs
  BY <1>1, SameConfig
<1>4. /\ Nothing => Nothing'
      /\ Laid => Laid'
      /\ Counting(Done) => Counting(Done)'
      /\ Between(Done) => Between(Done)'
      /\ Within(Done + 1) => Within(Done + 1)'
      /\ Between(Len(config)) => Between(Len(config))'
  BY <1>1, <1>2, <1>3
  DEF Nothing, Laid, Counting, Between, Within, Filed, summary, tables
<1> QED
  BY <1>1, <1>2, <1>4 DEF TabInv, Loaded

(* After every step of the loader the counters, the slots written and the  *)
(* patterns are those of the applications and signatures handled so far.   *)
THEOREM TablesInvariant == Spec => []TabInv
<1>1. Init => TabInv
  BY InitTabInv
<1>2. TabInv /\ [Next]_vars => TabInv'
  BY CountTabs, EndCountTabs, AllocTabs, AllocFailsTabs, BeginAppTabs,
     InstallSigTabs, EndAppTabs, EndInstallTabs, DumpTabs, SameTabs DEF Next
<1> QED
  BY <1>1, <1>2, PTL DEF Spec

-----------------------------------------------------------------------------
(* What the loaded tables hold.                                            *)

LEMMA SlotsFromTabs == TabInv => SlotsExact
<1>1. ASSUME TabInv, Loaded PROVE SlotsExact
  <2>1. /\ Listed /\ Counting(Len(config)) /\ Filed(Len(config), Len(config))
    BY <1>1 DEF TabInv, Loaded, Configured, Counted, Between
  <2>2. DOMAIN config = 1 .. Len(config)
    BY <2>1, LenProperties DEF Listed
  <2>3. DOMAIN apps = 0 .. app_nums - 1
    BY <2>1, SlotsAll DEF Filed, Counting
  <2>4. ASSUME NEW a \in DOMAIN config
        PROVE  /\ apps[SlotOf(config, a)] =
                     [appid |-> config[a].id, sig_index |-> SigsBefore(a),
                      sig_num |-> Len(config[a].sigs)]
               /\ Below(config, config[a].category) =
                     {b \in DOMAIN config :
                         config[b].category < config[a].category}
               /\ Among(config, config[a].category, a - 1) =
                     {b \in 1 .. a - 1 :
                         config[b].category = config[a].category}
    BY <2>1, <2>2 DEF Filed, AppEntry, SigsBefore, Below, Among
  <2> QED
    BY <2>3, <2>4 DEF SlotsExact, SlotOf
<1> QED
  BY <1>1 DEF SlotsExact

(* The slots of the applications: the file's order within a category,      *)
(* categories in turn, none overwritten.                                   *)
THEOREM SlotsExactAlways == Spec => []SlotsExact
BY SlotsFromTabs, TablesInvariant, PTL

(* The sizes of the loaded tables.                                         *)
LEMMA LoadedSizes ==
    ASSUME TabInv, Loaded
    PROVE  /\ Listed /\ Laid /\ Len(AllSigs) \in Nat /\ NumEles(AllSigs) \in Nat
           /\ sig_nums = Len(AllSigs) /\ ele_nums = NumEles(AllSigs)
           /\ DOMAIN sigs = 0 .. Len(AllSigs) - 1
           /\ ele_offset = NumEles(AllSigs)
           /\ DOMAIN eles = 0 .. NumEles(AllSigs) - 1
           /\ DOMAIN mem.flags = 0 .. NumEles(AllSigs) - 1
<1>1. /\ Listed /\ Laid /\ Counting(Len(config)) /\ Between(Len(config))
  BY DEF TabInv, Loaded, Configured, Counted
<1>2. /\ Len(AllSigs) \in Nat /\ AllSigs \in Seq(Seq(Class))
      /\ FirstEle(AppSigs, Len(config)) = Len(AllSigs)
  BY <1>1, Numbering
<1>3. NumEles(AllSigs) \in Nat
  <2>1. EndToEnd(Firsts(AllSigs), Len(AllSigs), Lengths(AllSigs))
    BY <1>2, SeqsEndToEnd
  <2>2. Firsts(AllSigs)[Len(AllSigs)] \in Nat
    BY <1>2, <2>1 DEF EndToEnd
  <2> QED
    BY <2>2 DEF NumEles, FirstEle, FirstEles, Firsts
<1>4. /\ sig_nums = Len(AllSigs) /\ ele_nums = NumEles(AllSigs)
      /\ sig_offset = Len(AllSigs) /\ ele_offset = NumEles(AllSigs)
  BY <1>1, <1>2 DEF Counting, Between, Laid, NumEles
<1> QED
  BY <1>1, <1>2, <1>3, <1>4 DEF Laid

(* Every element is of one signature.                                      *)
LEMMA SigOfEle ==
    ASSUME Listed, NEW o \in 0 .. NumEles(AllSigs) - 1
    PROVE  /\ SigOf(AllSigs, o) \in 0 .. Len(AllSigs) - 1
           /\ o \in FirstEle(AllSigs, SigOf(AllSigs, o)) ..
                       FirstEle(AllSigs, SigOf(AllSigs, o) + 1) - 1
<1>1. \A l : FirstEle(AllSigs, l) = Firsts(AllSigs)[l]
  BY DEF FirstEle, FirstEles, Firsts
<1>2. /\ AllSigs \in Seq(Seq(Class)) /\ Len(AllSigs) \in Nat
      /\ Lengths(AllSigs) \in [1 .. Len(AllSigs) -> Nat]
      /\ EndToEnd(Firsts(AllSigs), Len(AllSigs), Lengths(AllSigs))
  BY Numbering, SeqsEndToEnd
<1>3. o \in 0 .. Firsts(AllSigs)[Len(AllSigs)] - 1
  BY <1>1 DEF NumEles
<1>4. \E k \in 0 .. Len(AllSigs) - 1 :
         o \in Firsts(AllSigs)[k] .. Firsts(AllSigs)[k + 1] - 1
  BY <1>2, <1>3, PartsCover
<1>5. PICK k \in 0 .. Len(AllSigs) - 1 :
         o \in FirstEle(AllSigs, k) .. FirstEle(AllSigs, k + 1) - 1
  BY <1>1, <1>4
<1> QED
  BY <1>5, SigNumbers

(* Numbers below the end mark are not cut.                                 *)
LEMMA Uncut ==
    ASSUME NEW n \in 0 .. SENTINEL
    PROVE  Ushort(n) = n
<1>1. n \in 0 .. (SENTINEL + 1) - 1 /\ SENTINEL + 1 \in Nat
  BY SentinelAssumption
<1> QED
  BY <1>1, SentinelAssumption DEF Ushort

(* While the numbers fit, the entry of each element is the one the scanner *)
(* is written for, and what the memory held.                               *)
LEMMA LoadedEntries ==
    ASSUME TabInv, Loaded, NumbersFit, NEW o \in 0 .. NumEles(AllSigs) - 1
    PROVE  /\ eles[o] = [EleTable(AllSigs)[o]
                            EXCEPT !.flag = @ \cup mem.flags[o]]
           /\ eles[o].sigindex = SigOf(AllSigs, o)
           /\ eles[o].exp_ele_index =
                 IF o = FirstEle(AllSigs, SigOf(AllSigs, o) + 1) - 1
                 THEN SENTINEL ELSE o + 1
<1> DEFINE k == SigOf(AllSigs, o)
           end == FirstEle(AllSigs, k + 1) - 1
           held == mem.flags[o]
           flag == FlagOf(o - FirstEle(AllSigs, k), Len(AllSigs[k + 1]))
           next == IF o = end THEN SENTINEL ELSE o + 1
<1>1. /\ Len(AllSigs) \in Nat /\ NumEles(AllSigs) \in Nat
      /\ Len(AllSigs) <= SENTINEL + 1 /\ NumEles(AllSigs) < SENTINEL
      /\ ele_offset = NumEles(AllSigs) /\ Laid /\ Listed
  BY LoadedSizes DEF NumbersFit
<1>2. k \in 0 .. Len(AllSigs) - 1
  BY <1>1, SigOfEle
<1> HIDE DEF k
<1>3. Ushort(k) = k /\ Ushort(o + 1) = o + 1
  <2>1. k \in 0 .. SENTINEL /\ o + 1 \in 0 .. SENTINEL
    BY <1>1, <1>2, SentinelAssumption
  <2> QED
    BY <2>1, Uncut
<1>4. eles[o] = EntryOf(AllSigs, mem.flags, o)
  BY <1>1 DEF Laid
<1>5. EntryOf(AllSigs, mem.flags, o) =
         [sigindex |-> Ushort(k), flag |-> held \cup flag,
          exp_ele_index |-> IF o = end THEN SENTINEL ELSE Ushort(o + 1)]
  BY DEF EntryOf, k
<1>6. EleTable(AllSigs)[o] =
         [sigindex |-> k, flag |-> flag, exp_ele_index |-> next]
  BY DEF EleTable, k
<1> HIDE DEF held, flag, end
<1>7. eles[o] =
         [sigindex |-> k, flag |-> held \cup flag, exp_ele_index |-> next]
  BY <1>3, <1>4, <1>5
<1>10. eles[o].sigindex = k /\ eles[o].exp_ele_index = next
  BY <1>7
<1> HIDE DEF next
<1>8. held \cup flag = flag \cup held
  OBVIOUS
<1>9. [EleTable(AllSigs)[o] EXCEPT !.flag = @ \cup held] =
         [sigindex |-> k, flag |-> flag \cup held, exp_ele_index |-> next]
  <2> DEFINE e == EleTable(AllSigs)[o]
  <2>1. e = [sigindex |-> k, flag |-> flag, exp_ele_index |-> next]
    BY <1>6
  <2> HIDE DEF e
  <2>2. e.flag = flag
    BY <2>1
  <2>3. \A f : [e EXCEPT !.flag = f] =
                 [sigindex |-> k, flag |-> f, exp_ele_index |-> next]
    BY <2>1
  <2>4. [e EXCEPT !.flag = e.flag \cup held] =
           [sigindex |-> k, flag |-> flag \cup held, exp_ele_index |-> next]
    BY <2>2, <2>3
  <2> QED
    BY <2>4 DEF e
<1> QED
  BY <1>7, <1>8, <1>9, <1>10 DEF held, next, end, k

LEMMA LayoutFromTabs == TabInv => LayoutExact
<1>1. ASSUME TabInv, Loaded, NumbersFit
      PROVE  eles = [o \in DOMAIN mem.flags |->
                       [EleTable(AllSigs)[o]
                           EXCEPT !.flag = @ \cup mem.flags[o]]]
  <2>1. /\ DOMAIN eles = 0 .. NumEles(AllSigs) - 1
        /\ DOMAIN mem.flags = 0 .. NumEles(AllSigs) - 1
        /\ eles = [o \in 0 .. ele_offset - 1 |-> EntryOf(AllSigs, mem.flags, o)]
    BY <1>1, LoadedSizes DEF Laid
  <2>2. \A o \in 0 .. NumEles(AllSigs) - 1 :
           eles[o] = [EleTable(AllSigs)[o] EXCEPT !.flag = @ \cup mem.flags[o]]
    BY <1>1, LoadedEntries
  <2> QED
    BY <2>1, <2>2
<1> QED
  BY <1>1 DEF LayoutExact

(* The element table is the one the scanner is written for, but for the    *)
(* flags the memory held.                                                  *)
THEOREM LayoutExactAlways == Spec => []LayoutExact
BY LayoutFromTabs, TablesInvariant, PTL

LEMMA PatternsFromTabs == TabInv => PatternsDecode
<1>1. ASSUME TabInv, Loaded, NumbersFit
      PROVE  /\ Len(app_list) = Len(Headers) + ele_nums
             /\ \A o \in DOMAIN eles :
                   LET p == app_list[Len(Headers) + o + 1]
                   IN  /\ Ushort(p.low) = o
                       /\ p.class = ClassOf(AllSigs, o)
  <2>1. /\ Laid /\ NumEles(AllSigs) \in Nat /\ ele_nums = NumEles(AllSigs)
        /\ ele_offset = NumEles(AllSigs) /\ NumEles(AllSigs) < SENTINEL
        /\ DOMAIN eles = 0 .. NumEles(AllSigs) - 1
    BY <1>1, LoadedSizes DEF NumbersFit
  <2>2. Len(app_list) = Len(Headers) + ele_nums
    BY <2>1 DEF Laid
  <2>3. ASSUME NEW o \in DOMAIN eles
        PROVE  LET p == app_list[Len(Headers) + o + 1]
               IN  Ushort(p.low) = o /\ p.class = ClassOf(AllSigs, o)
    <3>1. o \in 0 .. ele_offset - 1 /\ o \in 0 .. SENTINEL
      BY <2>1, SentinelAssumption
    <3>2. /\ app_list[Len(Headers) + o + 1] = PatternOf(AllSigs, o)
          /\ Ushort(o) = o
      BY <2>1, <3>1, Uncut DEF Laid
    <3> QED
      BY <3>2 DEF PatternOf
  <2> QED
    BY <2>2, <2>3
<1> QED
  BY <1>1 DEF PatternsDecode

(* The low half of a pattern's id leads back to its element, and the class *)
(* is that of the element's buffer.                                        *)
THEOREM PatternsDecodeAlways == Spec => []PatternsDecode
BY PatternsFromTabs, TablesInvariant, PTL

(* Following the expected elements, unfolded.                              *)
LEMMA WalkUnfolds ==
    ASSUME NEW o \in Nat, NEW n \in Nat,
           \A p \in DOMAIN eles : eles[p].exp_ele_index \in Nat
    PROVE  /\ Walk(o, n)[0] = o
           /\ \A i \in 1 .. n :
                 Walk(o, n)[i] = IF Walk(o, n)[i - 1] \notin DOMAIN eles
                                 THEN Walk(o, n)[i - 1]
                                 ELSE eles[Walk(o, n)[i - 1]].exp_ele_index
<1> DEFINE next(p) == IF p \notin DOMAIN eles THEN p ELSE eles[p].exp_ele_index
           step == [x \in (1 .. n) \X Nat |-> next(x[2])]
           w == Walk(o, n)
<1>1. \A p \in Nat : next(p) \in Nat
  OBVIOUS
<1> HIDE DEF next
<1>2. step \in StepFcn(n, Nat)
  BY <1>1 DEF StepFcn
<1>3. PICK f : Unrolls(f, n, Nat, o, step)
  <2> HIDE DEF step
  <2> QED
    BY <1>2, PrimitiveRecursion
<1>4. \A i \in 1 .. n : f[i] = next(f[i - 1])
  <2> SUFFICES ASSUME NEW i \in 1 .. n
               PROVE  f[i] = next(f[i - 1])
    OBVIOUS
  <2>1. i - 1 \in 0 .. n
    OBVIOUS
  <2>2. f[i - 1] \in Nat
    BY <1>3, <2>1 DEF Unrolls
  <2>3. step[<<i, f[i - 1]>>] = next(f[i - 1])
    BY <2>2
  <2> QED
    BY <1>3, <2>3 DEF Unrolls
<1>5. f = [i \in 0 .. n |-> IF i = 0 THEN o
                           ELSE IF f[i - 1] \notin DOMAIN eles THEN f[i - 1]
                           ELSE eles[f[i - 1]].exp_ele_index]
  BY <1>3, <1>4 DEF Unrolls, next
<1>6. w = [i \in 0 .. n |-> IF i = 0 THEN o
                           ELSE IF w[i - 1] \notin DOMAIN eles THEN w[i - 1]
                           ELSE eles[w[i - 1]].exp_ele_index]
  BY <1>5 DEF Walk
<1> HIDE DEF w
<1>7. \A i \in 0 .. n : w[i] = IF i = 0 THEN o
                              ELSE IF w[i - 1] \notin DOMAIN eles THEN w[i - 1]
                              ELSE eles[w[i - 1]].exp_ele_index
  BY <1>6
<1>8. 0 \in 0 .. n /\ \A i \in 1 .. n : i \in 0 .. n /\ i # 0
  OBVIOUS
<1>9. w[0] = o
  BY <1>7, <1>8
<1>10. \A i \in 1 .. n : w[i] = IF w[i - 1] \notin DOMAIN eles THEN w[i - 1]
                               ELSE eles[w[i - 1]].exp_ele_index
  BY <1>7, <1>8
<1> QED
  BY <1>9, <1>10 DEF w

(* The elements of a signature are a run, each expecting the next.         *)
LEMMA Run ==
    ASSUME TabInv, Loaded, NumbersFit, NEW k \in DOMAIN sigs
    PROVE  /\ FirstEle(AllSigs, k) \in Nat /\ Len(AllSigs[k + 1]) \in Nat
           /\ {o \in DOMAIN eles : eles[o].sigindex = k} =
                 FirstEle(AllSigs, k) ..
                    FirstEle(AllSigs, k) + Len(AllSigs[k + 1]) - 1
           /\ \A o \in FirstEle(AllSigs, k) ..
                          FirstEle(AllSigs, k) + Len(AllSigs[k + 1]) - 1 :
                 /\ o \in DOMAIN eles
                 /\ eles[o].exp_ele_index =
                       IF o = FirstEle(AllSigs, k) + Len(AllSigs[k + 1]) - 1
                       THEN SENTINEL ELSE o + 1
           /\ \A o \in DOMAIN eles : eles[o].exp_ele_index \in Nat
<1> DEFINE f == FirstEle(AllSigs, k)
           m == Len(AllSigs[k + 1])
           e == FirstEle(AllSigs, k + 1)
           all == NumEles(AllSigs)
<1>1. /\ Listed /\ k \in 0 .. Len(AllSigs) - 1 /\ all \in Nat
      /\ DOMAIN eles = 0 .. all - 1
  BY LoadedSizes
<1>2. /\ f \in Nat /\ m \in Nat /\ e = f + m /\ e <= all
      /\ \A o \in f .. e - 1 : SigOf(AllSigs, o) = k
  BY <1>1, SigNumbers
<1>3. \A o \in 0 .. all - 1 :
         /\ eles[o].sigindex = SigOf(AllSigs, o)
         /\ eles[o].exp_ele_index =
               IF o = FirstEle(AllSigs, SigOf(AllSigs, o) + 1) - 1
               THEN SENTINEL ELSE o + 1
  BY LoadedEntries
<1>4. \A o \in 0 .. all - 1 :
         o \in FirstEle(AllSigs, SigOf(AllSigs, o)) ..
                  FirstEle(AllSigs, SigOf(AllSigs, o) + 1) - 1
  BY <1>1, SigOfEle
<1>5. \A o \in 0 .. all - 1 : eles[o].sigindex = k => o \in f .. e - 1
  BY <1>3, <1>4
<1> HIDE DEF f, m, e, all
<1>6. \A o \in f .. e - 1 : o \in 0 .. all - 1
  BY <1>1, <1>2
<1>7. {o \in DOMAIN eles : eles[o].sigindex = k} = f .. e - 1
  BY <1>1, <1>2, <1>3, <1>5, <1>6
<1>8. \A o \in f .. e - 1 :
         /\ o \in DOMAIN eles
         /\ eles[o].exp_ele_index = IF o = e - 1 THEN SENTINEL ELSE o + 1
  BY <1>1, <1>2, <1>3, <1>6 DEF e
<1>9. \A o \in DOMAIN eles : eles[o].exp_ele_index \in Nat
  <2>1. \A o \in DOMAIN eles : o + 1 \in Nat
    BY <1>1
  <2> QED
    BY <1>1, <1>3, <2>1, SentinelAssumption
<1>10. f + m - 1 = e - 1
  BY <1>2
<1> QED
  BY <1>2, <1>7, <1>8, <1>9, <1>10 DEF f, m

(* A walk over such a run.                                                 *)
LEMMA WalkRun ==
    ASSUME NEW f \in Nat, NEW m \in Nat \ {0},
           \A p \in DOMAIN eles : eles[p].exp_ele_index \in Nat,
           \A o \in f .. f + m - 1 :
              /\ o \in DOMAIN eles
              /\ eles[o].exp_ele_index =
                    IF o = f + m - 1 THEN SENTINEL ELSE o + 1
    PROVE  /\ \A i \in 0 .. m - 1 : Walk(f, m)[i] = f + i
           /\ Walk(f, m)[m] = SENTINEL
<1> DEFINE seen == Walk(f, m)
           P == {i \in 0 .. m - 1 : seen[i] = f + i}
<1>1. /\ seen[0] = f
      /\ \A i \in 1 .. m :
            seen[i] = IF seen[i - 1] \notin DOMAIN eles THEN seen[i - 1]
                                   ELSE eles[seen[i - 1]].exp_ele_index
  BY WalkUnfolds
<1> HIDE DEF seen
<1>2. 0 \in P /\ m - 1 \in Nat
  BY <1>1
<1>3. \A i \in 0 .. m - 1 : i \in P /\ i < m - 1 => i + 1 \in P
  <2> SUFFICES ASSUME NEW i \in 0 .. m - 1, seen[i] = f + i, i < m - 1
               PROVE  i + 1 \in 0 .. m - 1 /\ seen[i + 1] = f + (i + 1)
    OBVIOUS
  <2>1. /\ i + 1 \in 1 .. m /\ (i + 1) - 1 = i /\ i + 1 \in 0 .. m - 1
        /\ f + i \in f .. f + m - 1 /\ f + i # f + m - 1
        /\ (f + i) + 1 = f + (i + 1)
    OBVIOUS
  <2>2. f + i \in DOMAIN eles /\ eles[f + i].exp_ele_index = (f + i) + 1
    BY <2>1
  <2> QED
    BY <1>1, <2>1, <2>2
<1>4. 0 .. m - 1 \subseteq P
  <2> HIDE DEF P
  <2> QED
    BY <1>2, <1>3, RangeInduction
<1>5. seen[m - 1] = f + (m - 1)
  BY <1>2, <1>4
<1>6. seen[m] = SENTINEL
  <2>1. m \in 1 .. m /\ f + (m - 1) = f + m - 1 /\ f + m - 1 \in f .. f + m - 1
    OBVIOUS
  <2>2. f + m - 1 \in DOMAIN eles /\ eles[f + m - 1].exp_ele_index = SENTINEL
    BY <2>1
  <2> QED
    BY <1>1, <1>5, <2>1, <2>2
<1> QED
  BY <1>4, <1>6 DEF seen

LEMMA ChainsFromTabs == TabInv => ChainsExact
<1>1. ASSUME TabInv, Loaded, NumbersFit, NEW k \in DOMAIN sigs
      PROVE  LET mine == {o \in DOMAIN eles : eles[o].sigindex = k}
                 n == Cardinality(mine)
                 first == CHOOSE o \in mine : \A p \in mine : o <= p
                 seen == Walk(first, n)
             IN  /\ n = Len(AllSigs[k + 1])
                 /\ n > 0 => /\ {seen[i] : i \in 0 .. n - 1} = mine
                             /\ \A i \in 1 .. n - 1 : seen[i - 1] < seen[i]
                             /\ seen[n] = SENTINEL
  <2> DEFINE mine == {o \in DOMAIN eles : eles[o].sigindex = k}
             n == Cardinality(mine)
             first == CHOOSE o \in mine : \A p \in mine : o <= p
             seen == Walk(first, n)
             f == FirstEle(AllSigs, k)
             m == Len(AllSigs[k + 1])
  <2>1. /\ f \in Nat /\ m \in Nat /\ mine = f .. f + m - 1
        /\ \A p \in DOMAIN eles : eles[p].exp_ele_index \in Nat
        /\ \A o \in f .. f + m - 1 :
              /\ o \in DOMAIN eles
              /\ eles[o].exp_ele_index =
                    IF o = f + m - 1 THEN SENTINEL ELSE o + 1
    BY <1>1, Run
  <2> HIDE DEF mine, f, m
  <2>2. n = m
    <3>1. Cardinality(f .. f + m - 1) =
             IF f > f + m - 1 THEN 0 ELSE f + m - 1 - f + 1
      BY <2>1, FS_Interval
    <3> QED
      BY <2>1, <3>1
  <2>3. ASSUME m > 0
        PROVE  /\ {seen[i] : i \in 0 .. m - 1} = mine
               /\ \A i \in 1 .. m - 1 : seen[i - 1] < seen[i]
               /\ seen[m] = SENTINEL
    <3>1. f \in mine /\ \A p \in mine : f <= p
      BY <2>1, <2>3
    <3>2. first = f
      <4>1. \A o \in mine : (\A p \in mine : o <= p) => o = f
        BY <2>1, <3>1
      <4> QED
        BY <3>1, <4>1
    <3>3. m \in Nat \ {0}
      BY <2>1, <2>3
    <3>4. /\ \A i \in 0 .. m - 1 : seen[i] = f + i
          /\ seen[m] = SENTINEL
      <4>1. /\ \A i \in 0 .. m - 1 : Walk(f, m)[i] = f + i
            /\ Walk(f, m)[m] = SENTINEL
        BY <2>1, <3>3, WalkRun
      <4> HIDE DEF first, n
      <4> QED
        BY <2>2, <3>2, <4>1
    <3> HIDE DEF seen
    <3>5. {seen[i] : i \in 0 .. m - 1} = mine
      <4>1. \A i \in 0 .. m - 1 : f + i \in f .. f + m - 1
        BY <2>1
      <4>2. \A o \in f .. f + m - 1 : \E i \in 0 .. m - 1 : f + i = o
        <5> SUFFICES ASSUME NEW o \in f .. f + m - 1
                     PROVE  \E i \in 0 .. m - 1 : f + i = o
          OBVIOUS
        <5>1. o - f \in 0 .. m - 1 /\ f + (o - f) = o
          BY <2>1
        <5> QED
          BY <5>1
      <4>3. \A i \in 0 .. m - 1 : seen[i] \in mine
        BY <2>1, <3>4, <4>1
      <4>4. \A o \in mine : \E i \in 0 .. m - 1 : seen[i] = o
        BY <2>1, <3>4, <4>2
      <4> QED
        BY <4>3, <4>4
    <3>6. \A i \in 1 .. m - 1 : seen[i - 1] < seen[i]
      <4> SUFFICES ASSUME NEW i \in 1 .. m - 1
                   PROVE  seen[i - 1] < seen[i]
        OBVIOUS
      <4>1. i - 1 \in 0 .. m - 1 /\ i \in 0 .. m - 1 /\ f + (i - 1) < f + i
        BY <2>1
      <4> QED
        BY <3>4, <4>1
    <3> QED
      BY <3>4, <3>5, <3>6
  <2> QED
    BY <2>2, <2>3 DEF mine, m
<1> QED
  BY <1>1 DEF ChainsExact

(* The expected elements lead from the first element of a signature        *)
(* through all its elements, no others, in order, to the end mark.         *)
THEOREM ChainsExactAlways == Spec => []ChainsExact
BY ChainsFromTabs, TablesInvariant, PTL

-----------------------------------------------------------------------------
(* What dump_application_array shows.                                      *)

AppSlots == FlattenSeq([c \in 1 .. MAX_CATEGORY_ID |->
                           Visit(cate_index[c - 1], cate_num[c - 1])])

SigSlots(slots) ==
    FlattenSeq([j \in DOMAIN slots |->
                   Visit(apps[slots[j]].sig_index, apps[slots[j]].sig_num)])

(* Up to two entries the loop visits each once: the pointer is moved on by *)
(* 0, then by 1.                                                           *)
LEMMA VisitTwo ==
    ASSUME NEW first \in Nat, NEW n \in 0 .. 2
    PROVE  Lists(Visit(first, n), Nat, first .. first + n - 1)
<1> DEFINE v == Visit(first, n)
<1>1. \A j \in 1 .. n : v[j] = first + (j - 1)
  <2>1. \A j \in 1 .. n : j = 1 \/ j = 2
    OBVIOUS
  <2>2. (1 * (1 - 1)) \div 2 = 1 - 1 /\ (2 * (2 - 1)) \div 2 = 2 - 1
    OBVIOUS
  <2>3. \A j \in 1 .. n : (j * (j - 1)) \div 2 = j - 1
    BY <2>1, <2>2
  <2>4. \A j \in 1 .. n : v[j] = first + (j * (j - 1)) \div 2
    BY DEF Visit
  <2> QED
    BY <2>3, <2>4
<1>2. DOMAIN v = 1 .. n
  BY DEF Visit
<1>3. v = [j \in 1 .. n |-> first + (j - 1)]
  BY <1>1, <1>2 DEF Visit
<1> HIDE DEF v
<1>4. v \in [1 .. n -> Nat]
  BY <1>3
<1>5. v \in Seq(Nat)
  BY <1>4, SeqDef
<1>6. Len(v) = n
  BY <1>4, <1>5
<1>7. /\ \A i, j \in 1 .. Len(v) : v[i] = v[j] => i = j
      /\ \A i \in 1 .. Len(v) : v[i] \in first .. first + n - 1
  BY <1>1, <1>6
<1>8. \A c \in first .. first + n - 1 : \E i \in 1 .. Len(v) : v[i] = c
  <2> SUFFICES ASSUME NEW c \in first .. first + n - 1
               PROVE  \E i \in 1 .. n : v[i] = c
    BY <1>6
  <2>1. c - first + 1 \in 1 .. n /\ first + ((c - first + 1) - 1) = c
    OBVIOUS
  <2> QED
    BY <1>1, <2>1
<1>9. Lists(v, Nat, first .. first + n - 1)
  BY <1>5, <1>7, <1>8, ListsElements
<1> QED
  BY <1>9 DEF v

(* The categories lie end to end in the table of applications.             *)
LEMMA AppSlotsAll ==
    ASSUME TabInv, Loaded, \A c \in Category : cate_num[c] <= 2
    PROVE  Lists(AppSlots, Nat, DOMAIN apps)
<1> DEFINE m == MAX_CATEGORY_ID
           b == [c \in 0 .. m |-> Cardinality(Below(config, c))]
           len == [c \in 1 .. m |-> cate_num[c - 1]]
           s == [c \in 1 .. m |-> Visit(cate_index[c - 1], cate_num[c - 1])]
           C == [c \in 1 .. m |-> b[c - 1] .. b[c] - 1]
<1>1. /\ Listed /\ Counted /\ Filed(Len(config), Len(config))
  BY DEF TabInv, Loaded, Configured, Between
<1>2. m \in Nat /\ \A c \in 1 .. m : c - 1 \in Category /\ c - 1 \in 0 .. m
  BY ConfigAssumption DEF Category
<1>3. \A c \in Category : /\ cate_num[c] \in 0 .. 2
                         /\ cate_num[c] =
                               Cardinality(Among(config, c, Len(config)))
                         /\ cate_index[c] = Cardinality(Below(config, c))
  <2>1. \A c \in Category : Cardinality(Among(config, c, Len(config))) \in Nat
    BY <1>1, Numbering, CountOne
  <2> QED
    BY <1>1, <2>1 DEF Counted, Counting
<1>4. len \in [1 .. m -> Nat]
  BY <1>2, <1>3
<1>5. EndToEnd(b, m, len)
  <2>1. \A c \in 0 .. m : b[c] \in Nat
    BY <1>1, CountCategory
  <2>2. b[0] = 0
    BY <1>1, <1>2, CountCategory
  <2>3. ASSUME NEW c \in 1 .. m
        PROVE  b[c] = b[c - 1] + len[c]
    <3>1. c - 1 \in Nat /\ (c - 1) + 1 = c /\ c \in 0 .. m /\ c - 1 \in 0 .. m
      BY <1>2
    <3>2. Cardinality(Below(config, (c - 1) + 1)) =
             Cardinality(Below(config, c - 1))
                + Cardinality(Among(config, c - 1, Len(config)))
      BY <1>1, <3>1, CountCategory
    <3> QED
      BY <1>2, <1>3, <3>1, <3>2
  <2> HIDE DEF b, len, m
  <2>4. b \in [0 .. m -> Nat]
    BY <2>1 DEF b
  <2> QED
    BY <2>2, <2>3, <2>4 DEF EndToEnd
<1>6. b[m] = Len(config)
  <2>1. /\ DOMAIN config = 1 .. Len(config)
        /\ Cardinality(DOMAIN config) = Len(config)
    BY <1>1, Finite
  <2>2. Below(config, m) = DOMAIN config
    BY <1>1, <2>1, AppNumbers, ConfigAssumption DEF Below, Category
  <2> QED
    BY <1>2, <2>1, <2>2
<1>7. \A c \in 1 .. m : /\ cate_index[c - 1] = b[c - 1]
                       /\ cate_num[c - 1] \in 0 .. 2 /\ b[c - 1] \in Nat
                       /\ C[c] = b[c - 1] .. b[c - 1] + cate_num[c - 1] - 1
  <2> SUFFICES ASSUME NEW c \in 1 .. m
               PROVE  /\ cate_index[c - 1] = b[c - 1]
                      /\ cate_num[c - 1] \in 0 .. 2 /\ b[c - 1] \in Nat
                      /\ C[c] = b[c - 1] .. b[c - 1] + cate_num[c - 1] - 1
    OBVIOUS
  <2>1. c - 1 \in Category /\ c - 1 \in 0 .. m
    BY <1>2
  <2>2. /\ cate_index[c - 1] = b[c - 1] /\ cate_num[c - 1] = len[c]
        /\ cate_num[c - 1] \in 0 .. 2
    BY <1>3, <2>1
  <2>3. b[c - 1] \in Nat /\ b[c] = b[c - 1] + len[c]
    BY <1>5, <2>1 DEF EndToEnd
  <2> HIDE DEF b, len
  <2>4. b[c - 1] + len[c] - 1 = b[c] - 1
    BY <2>2, <2>3
  <2> QED
    BY <2>2, <2>3, <2>4
<1> HIDE DEF m, b, len
<1>8. /\ \A k, l \in 1 .. m : \A x : x \in C[k] /\ x \in C[l] => k = l
      /\ \A x : x \in 0 .. b[m] - 1 <=> \E k \in 1 .. m : x \in C[k]
  BY <1>2, <1>4, <1>5, PartsUnion
<1>9. \A c \in 1 .. m : Lists(s[c], Nat, C[c])
  BY <1>7, VisitTwo
<1>10. s \in [1 .. m -> Seq(Nat)]
  BY <1>9 DEF Lists
<1> HIDE DEF s, C
<1>11. s \in Seq(Seq(Nat))
  BY <1>2, <1>10, SeqDef
<1>12. Len(s) = m
  BY <1>2, <1>10, <1>11
<1>13. /\ \A k \in 1 .. Len(s) : Lists(s[k], Nat, C[k])
       /\ \A k, l \in 1 .. Len(s) : \A x : x \in C[k] /\ x \in C[l] => k = l
       /\ \A x : x \in 0 .. b[m] - 1 <=> \E k \in 1 .. Len(s) : x \in C[k]
  BY <1>9, <1>8, <1>12
<1>14. Lists(FlattenSeq(s), Nat, 0 .. b[m] - 1)
  BY <1>11, <1>13, ListsFlattened
<1>15. DOMAIN apps = 0 .. Len(config) - 1
  BY <1>1, SlotsAll DEF Filed
<1> QED
  BY <1>6, <1>15, <1>14 DEF AppSlots, s, m

(* The signatures of the application in a slot.                            *)
OwnSigs(t) == apps[t].sig_index .. apps[t].sig_index + apps[t].sig_num - 1

LEMMA OwnSigsRun ==
    ASSUME TabInv, Loaded, NEW a \in 1 .. Len(config), NEW t,
           t = SlotOf(config, a)
    PROVE  /\ apps[t].sig_index \in Nat
           /\ apps[t].sig_num = Len(config[a].sigs)
           /\ apps[t].sig_num \in Nat
           /\ OwnSigs(t) =
                 Firsts(AppSigs)[a - 1] .. Firsts(AppSigs)[a] - 1
<1> DEFINE f == FirstEle(AppSigs, a - 1)
           l == Len(config[a].sigs)
<1>1. Listed /\ Filed(Len(config), Len(config))
  BY DEF TabInv, Loaded, Configured, Between
<1>2. apps[t].sig_index = f /\ apps[t].sig_num = l
  <2>1. apps[t] = AppEntry(config[a].id, f, l)
    BY <1>1 DEF Filed
  <2> HIDE DEF f, l
  <2> QED
    BY <2>1 DEF AppEntry
<1>3. f \in Nat /\ l \in Nat /\ FirstEle(AppSigs, a) = f + l
  BY <1>1, AppNumbers
<1>4. f = Firsts(AppSigs)[a - 1] /\ FirstEle(AppSigs, a) = Firsts(AppSigs)[a]
  BY DEF FirstEle, FirstEles, Firsts
<1> HIDE DEF f, l
<1>5. f + l - 1 = Firsts(AppSigs)[a] - 1
  BY <1>3, <1>4
<1> QED
  BY <1>2, <1>3, <1>4, <1>5 DEF OwnSigs, l

(* Every signature is of one slot.                                         *)
LEMMA OwnSigsApart ==
    ASSUME TabInv, Loaded
    PROVE  /\ \A t, u \in DOMAIN apps :
                 \A x : x \in OwnSigs(t) /\ x \in OwnSigs(u) => t = u
           /\ \A x : x \in DOMAIN sigs <=>
                        \E t \in DOMAIN apps : x \in OwnSigs(t)
<1> DEFINE n == Len(config)
           f == Firsts(AppSigs)
           Part(a) == f[a - 1] .. f[a] - 1
<1>1. /\ Listed /\ n \in Nat
      /\ DOMAIN apps = {SlotOf(config, a) : a \in 1 .. n}
      /\ DOMAIN sigs = 0 .. Len(AllSigs) - 1
  BY LoadedSizes, Numbering DEF TabInv, Loaded, Between, Filed
<1>2. /\ Len(AppSigs) = n /\ Lengths(AppSigs) \in [1 .. n -> Nat]
      /\ EndToEnd(f, n, Lengths(AppSigs)) /\ f[n] = Len(AllSigs)
  BY <1>1, Numbering, SeqsEndToEnd DEF FirstEle, FirstEles, Firsts
<1>3. \A a \in 1 .. n : OwnSigs(SlotOf(config, a)) = Part(a)
  BY OwnSigsRun
<1>4. /\ \A k, l \in 1 .. n : \A x : x \in Part(k) /\ x \in Part(l) => k = l
      /\ \A x : x \in 0 .. f[n] - 1 <=> \E k \in 1 .. n : x \in Part(k)
  BY <1>1, <1>2, PartsUnion
<1> HIDE DEF n, f, Part
<1>5. ASSUME NEW t \in DOMAIN apps, NEW u \in DOMAIN apps, NEW x,
             x \in OwnSigs(t), x \in OwnSigs(u)
      PROVE  t = u
  <2>1. PICK a \in 1 .. n : t = SlotOf(config, a)
    BY <1>1
  <2>2. PICK b \in 1 .. n : u = SlotOf(config, b)
    BY <1>1
  <2>3. x \in Part(a) /\ x \in Part(b)
    BY <1>3, <1>5, <2>1, <2>2
  <2>4. a = b
    BY <1>4, <2>3
  <2> QED
    BY <2>1, <2>2, <2>4
<1>6. \A x : (\E t \in DOMAIN apps : x \in OwnSigs(t))
                <=> \E k \in 1 .. n : x \in Part(k)
  BY <1>1, <1>3
<1> QED
  BY <1>1, <1>2, <1>4, <1>5, <1>6

(* Slot after slot, every signature is visited once.                       *)
LEMMA SigSlotsAll ==
    ASSUME TabInv, Loaded, \A a \in DOMAIN config : Len(config[a].sigs) <= 2,
           NEW slots, Lists(slots, Nat, DOMAIN apps)
    PROVE  Lists(SigSlots(slots), Nat, DOMAIN sigs)
<1> DEFINE n == Len(slots)
           s == [j \in DOMAIN slots |->
                   Visit(apps[slots[j]].sig_index, apps[slots[j]].sig_num)]
           C == [j \in 1 .. n |-> OwnSigs(slots[j])]
<1>1. slots \in Seq(Nat) /\ DOMAIN slots = 1 .. n /\ n \in Nat
  BY LenProperties DEF Lists
<1>2. /\ \A i, j \in 1 .. n : slots[i] = slots[j] => i = j
      /\ \A i \in 1 .. n : slots[i] \in DOMAIN apps
      /\ \A t \in DOMAIN apps : \E i \in 1 .. n : slots[i] = t
  <2> DEFINE D == DOMAIN apps
  <2>1. Lists(slots, Nat, D)
    OBVIOUS
  <2> HIDE DEF D
  <2>2. /\ \A i, j \in 1 .. Len(slots) : slots[i] = slots[j] => i = j
        /\ \A i \in 1 .. Len(slots) : slots[i] \in D
        /\ \A t \in D : \E i \in 1 .. Len(slots) : slots[i] = t
    BY <1>1, <2>1, ListsElements
  <2> QED
    BY <2>2 DEF D
<1>3. ASSUME NEW t \in DOMAIN apps
      PROVE  apps[t].sig_index \in Nat /\ apps[t].sig_num \in 0 .. 2
  <2>1. DOMAIN apps = {SlotOf(config, a) : a \in 1 .. Len(config)}
    BY DEF TabInv, Loaded, Between, Filed
  <2>2. PICK a \in 1 .. Len(config) : t = SlotOf(config, a)
    BY <2>1
  <2>3. a \in DOMAIN config
    BY LenProperties DEF TabInv, Configured, Listed
  <2>4. /\ apps[t].sig_index \in Nat /\ apps[t].sig_num \in Nat
        /\ apps[t].sig_num <= 2
    BY <2>2, <2>3, OwnSigsRun
  <2> QED
    BY <2>4
<1>4. \A k, l \in 1 .. n : \A x : x \in C[k] /\ x \in C[l] => k = l
  BY <1>2, OwnSigsApart
<1>5. \A x : x \in DOMAIN sigs <=> \E k \in 1 .. n : x \in C[k]
  BY <1>2, OwnSigsApart
<1>6. \A j \in 1 .. n : Lists(s[j], Nat, C[j])
  <2> SUFFICES ASSUME NEW j \in 1 .. n
               PROVE  Lists(s[j], Nat, C[j])
    OBVIOUS
  <2> DEFINE t == slots[j]
  <2>1. /\ s[j] = Visit(apps[t].sig_index, apps[t].sig_num)
        /\ C[j] = OwnSigs(t) /\ t \in DOMAIN apps
    BY <1>1, <1>2
  <2> HIDE DEF t, s, C
  <2>2. apps[t].sig_index \in Nat /\ apps[t].sig_num \in 0 .. 2
    BY <1>3, <2>1
  <2>3. Lists(Visit(apps[t].sig_index, apps[t].sig_num), Nat, OwnSigs(t))
    BY <2>2, VisitTwo DEF OwnSigs
  <2> QED
    BY <2>1, <2>3
<1>7. s \in [1 .. n -> Seq(Nat)]
  BY <1>1, <1>6 DEF Lists
<1> HIDE DEF s, C, n
<1>8. s \in Seq(Seq(Nat))
  BY <1>1, <1>7, SeqDef
<1>9. Len(s) = n
  BY <1>1, <1>7, <1>8
<1>10. /\ \A k \in 1 .. Len(s) : Lists(s[k], Nat, C[k])
       /\ \A k, l \in 1 .. Len(s) : \A x : x \in C[k] /\ x \in C[l] => k = l
       /\ \A x : x \in DOMAIN sigs <=> \E k \in 1 .. Len(s) : x \in C[k]
  BY <1>6, <1>4, <1>5, <1>9
<1>11. Lists(FlattenSeq(s), Nat, DOMAIN sigs)
  BY <1>8, <1>10, ListsFlattened
<1> QED
  BY <1>11 DEF SigSlots, s

(* From any element on, what is shown are elements of its signature, up to *)
(* the last one.                                                           *)
LEMMA ShownRun ==
    ASSUME TabInv, Loaded, NumbersFit, NEW o \in DOMAIN eles
    PROVE  LET r == Shown(o)
               mine == eles[r[1]].sigindex
           IN  /\ \A p \in r[1] .. r[2] : eles[p].sigindex = mine
               /\ \A p \in DOMAIN eles : eles[p].sigindex = mine => p <= r[2]
<1> DEFINE k == SigOf(AllSigs, o)
           f == FirstEle(AllSigs, k)
           m == Len(AllSigs[k + 1])
           e == f + m - 1
           EndsAt(q) == /\ o <= q /\ eles[q].exp_ele_index = SENTINEL
                        /\ \A p \in o .. q - 1 : eles[p].exp_ele_index # SENTINEL
<1>1. /\ Listed /\ NumEles(AllSigs) \in Nat /\ NumEles(AllSigs) < SENTINEL
      /\ DOMAIN eles = 0 .. NumEles(AllSigs) - 1
      /\ DOMAIN sigs = 0 .. Len(AllSigs) - 1
  BY LoadedSizes DEF NumbersFit
<1>2. k \in DOMAIN sigs /\ eles[o].sigindex = k
  BY <1>1, SigOfEle, LoadedEntries
<1> HIDE DEF k
<1>3. /\ f \in Nat /\ m \in Nat
      /\ {p \in DOMAIN eles : eles[p].sigindex = k} = f .. e
      /\ \A p \in f .. e :
            /\ p \in DOMAIN eles
            /\ eles[p].exp_ele_index = IF p = e THEN SENTINEL ELSE p + 1
  BY <1>2, Run
<1> HIDE DEF f, m
<1>4. e \in Int
  BY <1>3
<1> HIDE DEF e
<1>5. o \in f .. e
  BY <1>2, <1>3
<1>6. \A p \in f .. e : p # e => eles[p].exp_ele_index # SENTINEL
  <2> SUFFICES ASSUME NEW p \in f .. e, p # e
               PROVE  p + 1 # SENTINEL
    BY <1>3
  <2>1. p \in 0 .. NumEles(AllSigs) - 1
    BY <1>1, <1>3
  <2> QED
    BY <1>1, <2>1, SentinelAssumption
<1>7. e \in DOMAIN eles /\ EndsAt(e)
  <2>1. e \in f .. e /\ \A p \in o .. e - 1 : p \in f .. e /\ p # e
    BY <1>3, <1>4, <1>5
  <2> QED
    BY <1>3, <1>5, <1>6, <2>1
<1>8. ASSUME NEW q \in DOMAIN eles, EndsAt(q)
      PROVE  q = e
  <2>1. q \in Int
    BY <1>1
  <2>2. CASE q < e
    <3>1. q \in f .. e /\ q # e
      BY <1>3, <1>4, <1>5, <1>8, <2>1, <2>2
    <3> QED
      BY <1>6, <1>8, <3>1
  <2>3. CASE e < q
    <3>1. e \in o .. q - 1
      BY <1>3, <1>4, <1>5, <2>1, <2>3
    <3> QED
      BY <1>7, <1>8, <3>1
  <2> QED
    BY <1>4, <2>1, <2>2, <2>3
<1>9. Shown(o) = <<o, e>>
  <2>1. (CHOOSE q \in DOMAIN eles : EndsAt(q)) = e
    <3> HIDE DEF EndsAt
    <3> QED
      BY <1>7, <1>8
  <2> QED
    BY <2>1 DEF Shown
<1>10. \A p \in o .. e : eles[p].sigindex = k
  <2>1. \A p \in o .. e : p \in f .. e
    BY <1>3, <1>4, <1>5
  <2> QED
    BY <1>3, <2>1
<1>11. \A p \in DOMAIN eles : eles[p].sigindex = k => p <= e
  BY <1>3, <1>4
<1>12. Shown(o)[1] = o /\ Shown(o)[2] = e
  BY <1>9
<1> HIDE DEF EndsAt
<1> QED
  BY <1>2, <1>10, <1>11, <1>12

(* The condition of DumpShowsAll, and what it promises.                    *)
Few ==
    /\ \A c \in Category : cate_num[c] <= 2
    /\ \A a \in DOMAIN config : Len(config[a].sigs) <= 2
    /\ \A k \in DOMAIN sigs : mem.index[k] \in DOMAIN eles

OneRun(r) ==
    LET mine == eles[r[1]].sigindex
    IN  /\ \A o \in r[1] .. r[2] : eles[o].sigindex = mine
        /\ \A o \in DOMAIN eles : eles[o].sigindex = mine => o <= r[2]

Promised(d) ==
    /\ IsInjective(d.apps) /\ ToSet(d.apps) = DOMAIN apps
    /\ IsInjective(d.sigs) /\ ToSet(d.sigs) = DOMAIN sigs
    /\ NumbersFit => \A r \in ToSet(d.eles) : OneRun(r)

LEMMA DumpPromised ==
    DumpShowsAll <=> (Few => pc # "wild" /\ (pc = "done" => Promised(dumped)))
BY DEF DumpShowsAll, Few, Promised, OneRun

(* The step of the dump.                                                   *)
LEMMA DumpKeeps ==
    ASSUME TabInv, Dump, Few
    PROVE  pc' = "done" /\ Promised(dumped')
<1> DEFINE a == AppSlots
           g == SigSlots(a)
           first == [k \in DOMAIN g |-> mem.index[g[k]]]
           shown == [k \in DOMAIN first |-> Shown(first[k])]
<1>1. pc = "dump" /\ Loaded
  BY DEF Dump, Loaded
<1>2. Lists(a, Nat, DOMAIN apps)
  BY <1>1, AppSlotsAll DEF Few
<1>3. Lists(g, Nat, DOMAIN sigs)
  <2> HIDE DEF a
  <2> QED
    BY <1>1, <1>2, SigSlotsAll DEF Few
<1>4. \/ /\ pc' = "done"
         /\ dumped' = [apps |-> a, sigs |-> g, eles |-> shown]
      \/ ~ /\ ToSet(a) \subseteq DOMAIN apps
           /\ ToSet(g) \subseteq DOMAIN sigs
           /\ ToSet(first) \subseteq DOMAIN eles
  BY DEF Dump, AppSlots, SigSlots
<1> HIDE DEF a, g
<1>5. /\ IsInjective(a) /\ ToSet(a) = DOMAIN apps
      /\ IsInjective(g) /\ ToSet(g) = DOMAIN sigs
  BY <1>2, <1>3 DEF Lists
<1>6. \A k \in DOMAIN g : first[k] \in DOMAIN eles
  <2>1. \A k \in DOMAIN g : g[k] \in DOMAIN sigs
    BY <1>5 DEF ToSet
  <2> QED
    BY <2>1 DEF Few
<1>7. DOMAIN first = DOMAIN g
  OBVIOUS
<1> HIDE DEF first
<1>8. ToSet(first) \subseteq DOMAIN eles
  BY <1>6, <1>7 DEF ToSet
<1>9. /\ pc' = "done"
      /\ dumped' = [apps |-> a, sigs |-> g, eles |-> shown]
  BY <1>4, <1>5, <1>8
<1>10. ASSUME NumbersFit, NEW r \in ToSet(shown)
       PROVE  OneRun(r)
  <2>1. PICK k \in DOMAIN first : r = Shown(first[k])
    BY <1>10 DEF ToSet
  <2>2. first[k] \in DOMAIN eles
    BY <1>6, <1>7
  <2> QED
    BY <1>1, <1>10, <2>1, <2>2, ShownRun DEF OneRun
<1> HIDE DEF shown
<1>11. dumped'.apps = a /\ dumped'.sigs = g /\ dumped'.eles = shown
  BY <1>9
<1> QED
  BY <1>5, <1>9, <1>10, <1>11 DEF Promised

LEMMA DumpStep ==
    ASSUME TabInv, DumpShowsAll, [Next]_vars
    PROVE  DumpShowsAll'
<1>1. CASE Dump
  <2>1. /\ Few' <=> Few
        /\ Promised(dumped)' <=> Promised(dumped')
    BY <1>1
    DEF Dump, Few, Promised, OneRun, NumbersFit, summary, tables
  <2>2. Few => pc' = "done" /\ Promised(dumped')
    BY <1>1, DumpKeeps
  <2>3. Few' => pc' # "wild" /\ (pc' = "done" => Promised(dumped)')
    BY <2>1, <2>2
  <2> QED
    BY <2>3 DEF DumpShowsAll, Few, Promised, OneRun
<1>2. CASE UNCHANGED vars
  BY <1>2
  DEF DumpShowsAll, vars, summary, tables, NumbersFit
<1>3. ASSUME pc' \in {"count", "alloc", "app", "sig", "dump", "exit"}
      PROVE  DumpShowsAll'
  BY <1>3 DEF DumpShowsAll
<1>4. CASE Count \/ EndCount \/ Alloc \/ AllocFails
  BY <1>3, <1>4 DEF Count, EndCount, Alloc, AllocFails
<1>5. CASE BeginApp \/ InstallSig \/ EndApp \/ EndInstall
  BY <1>3, <1>5 DEF BeginApp, InstallSig, EndApp, EndInstall
<1> QED
  BY <1>1, <1>2, <1>4, <1>5 DEF Next

(* While there are few of each kind, the dump shows every application and  *)
(* every signature once, and stays inside the tables.                      *)
THEOREM DumpShowsAllAlways == Spec => []DumpShowsAll
<1>1. Init => DumpShowsAll
  BY DumpPromised DEF Init
<1>2. TabInv /\ DumpShowsAll /\ [Next]_vars => DumpShowsAll'
  BY DumpStep
<1> QED
  BY <1>1, <1>2, TablesInvariant, PTL DEF Spec

-----------------------------------------------------------------------------
(* Reading the configuration: what every value in the lists is made of.    *)

(* The characters of the text read, as get_str_value_from_key copies them. *)
Atoms == ToSet(text)

(* The positions yylex can stand at, the end of the text included.         *)
Places == 1 .. Len(text) + 1

(* The text is a sequence of its characters.                               *)
Readable == text \in Seq(Atoms)

(* A run ends in the text or right behind it.                              *)
LEMMA RunEnds ==
    ASSUME Readable, NEW p \in 0 .. Len(text) + 1, NEW stops
    PROVE  RunEnd(p, stops) \in p .. Len(text) + 1
<1> DEFINE n == Len(text)
           S == {e \in p .. n + 1 : e > n \/ text[e] \in stops}
           IsEnd(e) == /\ e > n \/ text[e] \in stops
                       /\ \A i \in p .. e - 1 : text[i] \notin stops
<1>1. n \in Nat /\ p \in 0 .. n + 1
  BY LenProperties DEF Readable
<1>2. S \subseteq Nat /\ S # {}
  <2>1. n + 1 \in S
    BY <1>1
  <2> QED
    BY <1>1, <2>1
<1>3. PICK e \in S : \A j \in S : e <= j
  <2> HIDE DEF S
  <2> QED
    BY <1>2, LeastElement
<1>4. \A i \in p .. e - 1 : text[i] \notin stops
  <2> TAKE i \in p .. e - 1
  <2>1. i \in p .. n + 1 /\ ~ (e <= i)
    BY <1>1, <1>3
  <2>2. i \notin S
    BY <1>3, <2>1
  <2> QED
    BY <2>1, <2>2
<1>5. \E d \in p .. n + 1 : IsEnd(d)
  BY <1>3, <1>4
<1>6. RunEnd(p, stops) = CHOOSE d \in p .. n + 1 : IsEnd(d)
  BY DEF RunEnd
<1> HIDE DEF IsEnd
<1> QED
  BY <1>5, <1>6

(* What yylex skips, unfolded.                                             *)
Skip(f, p) == IF p > Len(text) THEN p
              ELSE IF text[p] \in Blank THEN f[p + 1]
              ELSE IF InComment(p) THEN f[RunEnd(p, {Newline}) + 1]
              ELSE p

(* What yylex skips ends behind where it begins.                           *)
LEMMA SkipsForward ==
    ASSUME Readable, NEW p \in 0 .. Len(text)
    PROVE  /\ p + 1 \in p + 1 .. Len(text) + 1
           /\ InComment(p) => RunEnd(p, {Newline}) + 1 \in p + 1 .. Len(text) + 1
<1> DEFINE e == RunEnd(p, {Newline})
           n == Len(text)
<1>1. n \in Nat /\ p \in 0 .. n
  BY LenProperties DEF Readable
<1>2. e \in p .. n + 1
  BY <1>1, RunEnds
<1>3. InComment(p) => e <= n
  BY DEF InComment
<1> HIDE DEF e, n
<1>4. p + 1 \in p + 1 .. n + 1
  BY <1>1
<1>5. e <= n => e + 1 \in p + 1 .. n + 1
  BY <1>1, <1>2
<1> QED
  BY <1>3, <1>4, <1>5 DEF e, n

(* Two functions that agree behind a place skip alike from it.             *)
LEMMA SkipAlike ==
    ASSUME Readable, NEW p \in Nat, NEW f, NEW g,
           \A q \in Nat : q > p => f[q] = g[q]
    PROVE  Skip(f, p) = Skip(g, p)
<1> DEFINE n == Len(text)
           e == RunEnd(p, {Newline})
<1>0. n \in Nat
  BY LenProperties DEF Readable
<1>1. CASE p > n
  BY <1>1 DEF Skip
<1>2. CASE p \in 0 .. n
  <2>1. /\ p + 1 \in p + 1 .. n + 1
        /\ InComment(p) => e + 1 \in p + 1 .. n + 1
    BY <1>2, SkipsForward
  <2> HIDE DEF e
  <2>2. f[p + 1] = g[p + 1]
    BY <1>0, <1>2, <2>1
  <2>3. InComment(p) => f[e + 1] = g[e + 1]
    <3>1. \A i \in p + 1 .. n + 1 : i \in Nat /\ i > p
      BY <1>0, <1>2
    <3> QED
      BY <2>1, <3>1
  <2>4. /\ Skip(f, p) = IF p > n THEN p
                        ELSE IF text[p] \in Blank THEN f[p + 1]
                        ELSE IF InComment(p) THEN f[e + 1]
                        ELSE p
        /\ Skip(g, p) = IF p > n THEN p
                        ELSE IF text[p] \in Blank THEN g[p + 1]
                        ELSE IF InComment(p) THEN g[e + 1]
                        ELSE p
    BY DEF Skip, e
  <2> QED
    BY <2>2, <2>3, <2>4
<1> QED
  BY <1>0, <1>1, <1>2

(* It is defined: each value depends on one further on, up to the end.     *)
LEMMA SkipDefined ==
    ASSUME Readable
    PROVE  \E f : f = [p \in Nat |-> Skip(f, p)]
<1> DEFINE n == Len(text)
           From(f, m) == /\ f = [p \in Nat |-> f[p]]
                         /\ \A p \in Nat : p > n - m => f[p] = Skip(f, p)
           P == {m \in 0 .. n + 1 : \E f : From(f, m)}
<1>1. n \in Nat
  BY LenProperties DEF Readable
<1>2. 0 \in P
  <2> DEFINE f == [p \in Nat |-> p]
  <2>1. \A p \in Nat : p > n - 0 => Skip(f, p) = p
    BY <1>1 DEF Skip
  <2>2. From(f, 0)
    BY <2>1
  <2> HIDE DEF f
  <2>3. \E h : From(h, 0)
    BY <2>2
  <2> HIDE DEF From
  <2> QED
    BY <1>1, <2>3
<1>3. ASSUME NEW m \in 0 .. n + 1, m \in P, m < n + 1
      PROVE  m + 1 \in P
  <2>1. PICK f : From(f, m)
    BY <1>3
  <2> DEFINE g == [p \in Nat |-> IF p = n - m THEN Skip(f, p) ELSE f[p]]
  <2>2. ASSUME NEW p \in Nat, p > n - (m + 1)
        PROVE  g[p] = Skip(g, p)
    <3>1. g[p] = Skip(f, p)
      <4>1. CASE p = n - m
        BY <4>1
      <4>2. CASE p # n - m
        <5>1. p > n - m
          BY <1>1, <1>3, <2>2, <4>2
        <5> QED
          BY <2>1, <4>2, <5>1
      <4> QED
        BY <4>1, <4>2
    <3>2. \A q \in Nat : q > p => q # n - m
      BY <1>1, <1>3, <2>2
    <3>3. \A q \in Nat : q > p => f[q] = g[q]
      BY <3>2
    <3> HIDE DEF g
    <3>4. Skip(f, p) = Skip(g, p)
      BY <3>3, SkipAlike
    <3> QED
      BY <3>1, <3>4
  <2>3. From(g, m + 1)
    <3>1. g = [p \in Nat |-> g[p]]
      OBVIOUS
    <3> HIDE DEF g
    <3> QED
      BY <2>2, <3>1
  <2>4. m + 1 \in 0 .. n + 1
    BY <1>1, <1>3
  <2> QED
    BY <2>3, <2>4
<1>4. n + 1 \in P
  <2>1. n + 1 \in Nat
    BY <1>1
  <2>2. 0 .. n + 1 \subseteq P
    <3> HIDE DEF P
    <3> QED
      BY <1>2, <1>3, <2>1, RangeInduction
  <2> QED
    BY <2>1, <2>2
<1>5. PICK f : From(f, n + 1)
  BY <1>4
<1>6. \A p \in Nat : f[p] = Skip(f, p)
  BY <1>1, <1>5
<1>7. f = [p \in Nat |-> Skip(f, p)]
  BY <1>5, <1>6
<1> QED
  BY <1>7

(* The next token begins no earlier than yylex goes on.                    *)
LEMMA TokenStarts ==
    ASSUME Readable, pos \in Places
    PROVE  TokenStart \in Places
<1> DEFINE n == Len(text)
           f == CHOOSE g : g = [p \in Nat |-> Skip(g, p)]
<1>1. n \in Nat /\ pos \in 1 .. n + 1
  BY LenProperties DEF Readable, Places
<1>2. f = [p \in Nat |-> Skip(f, p)]
  BY SkipDefined
<1>3. TokenStart = f[pos]
  BY DEF TokenStart, Skip
<1> HIDE DEF f
<1>4. \A p \in Nat : f[p] = Skip(f, p)
  BY <1>2
<1> DEFINE P == {m \in 0 .. n : \A p \in 1 .. n + 1 :
                                   p >= n + 1 - m => f[p] \in 1 .. n + 1}
<1>5. 0 \in P
  <2>1. f[n + 1] = n + 1
    BY <1>1, <1>4 DEF Skip
  <2>2. \A p \in 1 .. n + 1 : p >= n + 1 - 0 => p = n + 1
    BY <1>1
  <2> QED
    BY <1>1, <2>1, <2>2
<1>6. ASSUME NEW m \in 0 .. n, m \in P, m < n
      PROVE  m + 1 \in P
  <2>1. ASSUME NEW p \in 1 .. n + 1, p = n - m
        PROVE  f[p] \in 1 .. n + 1
    <3> DEFINE e == RunEnd(p, {Newline})
    <3>1. p \in 0 .. n /\ p \in Nat
      BY <1>1, <1>6, <2>1
    <3>2. /\ p + 1 \in p + 1 .. n + 1
          /\ InComment(p) => e + 1 \in p + 1 .. n + 1
      BY <3>1, SkipsForward
    <3>3. f[p] = IF p > n THEN p
                 ELSE IF text[p] \in Blank THEN f[p + 1]
                 ELSE IF InComment(p) THEN f[e + 1]
                 ELSE p
      BY <1>4, <3>1 DEF Skip
    <3> HIDE DEF e
    <3>4. \A i \in p + 1 .. n + 1 : f[i] \in 1 .. n + 1
      <4>1. \A i \in p + 1 .. n + 1 : i \in 1 .. n + 1 /\ i >= n + 1 - m
        BY <1>1, <1>6, <2>1
      <4> QED
        BY <1>6, <4>1
    <3>5. ~ (p > n)
      BY <3>1, <1>1
    <3>6. CASE text[p] \in Blank
      BY <3>2, <3>3, <3>4, <3>5, <3>6
    <3>7. CASE text[p] \notin Blank /\ InComment(p)
      BY <3>2, <3>3, <3>4, <3>5, <3>7
    <3>8. CASE text[p] \notin Blank /\ ~ InComment(p)
      BY <2>1, <3>3, <3>5, <3>8
    <3> QED
      BY <3>6, <3>7, <3>8
  <2>2. m + 1 \in 0 .. n
    BY <1>1, <1>6
  <2>3. \A p \in 1 .. n + 1 :
           p >= n + 1 - (m + 1) => p = n - m \/ p >= n + 1 - m
    BY <1>1, <1>6
  <2> QED
    BY <1>6, <2>1, <2>2, <2>3
<1>7. n \in P
  <2>1. 0 .. n \subseteq P
    <3> HIDE DEF P
    <3> QED
      BY <1>1, <1>5, <1>6, RangeInduction
  <2> QED
    BY <1>1, <2>1
<1>8. pos \in 1 .. n + 1 /\ pos >= n + 1 - n
  BY <1>1
<1>9. f[pos] \in 1 .. n + 1
  BY <1>7, <1>8
<1> QED
  BY <1>3, <1>9 DEF Places

(* A token leaves yylex in the text, and its word is of the text.          *)
LEMMA WordsRead ==
    ASSUME Readable, NEW p \in Places, NEW e \in 1 .. Len(text) + 1
    PROVE  SubSeq(text, p, e - 1) \in Seq(Atoms)
<1>1. Len(text) \in Nat /\ p \in Int /\ e - 1 \in Int
  BY LenProperties DEF Readable, Places
<1>2. \A i \in p .. e - 1 : i \in 1 .. Len(text)
  BY <1>1 DEF Places
<1>3. \A i \in p .. e - 1 : text[i] \in Atoms
  BY <1>2, ElementOfSeq DEF Readable
<1> QED
  BY <1>1, <1>3, SubSeqProperties

(* The single characters that are tokens are the two braces.               *)
LEMMA BraceTokens ==
    \A brace \in DOMAIN Braces : Braces[brace] \in {"LBRANCH", "RBRANCH"}
BY Zenon DEF Braces

(* The next token ends in the text, and a key or a value is a word of it.  *)
LEMMA TokensRead ==
    ASSUME Readable, NEW p \in Places
    PROVE  /\ TokenAt(p).next \in Places
           /\ TokenAt(p).type \in {"SYMBOL", "VALUE"} =>
                 TokenAt(p).word \in Seq(Atoms)
<1> DEFINE n == Len(text)
           braces == DOMAIN Braces
           plain == Blank \cup braces
           stops == Blank \cup braces \cup {";"}
           value == RunEnd(p, plain)
           symbol == RunEnd(p, stops)
           ended == text[value - 1] = ";"
           end == IF ended THEN value - 1 ELSE value
           alone == text[p] = ";" /\ value = p + 1
           Word(last) == SubSeq(text, p, last - 1)
           tok == TokenAt(p)
<1>1. n \in Nat /\ p \in 1 .. n + 1
  BY LenProperties DEF Readable, Places
<1>2. value \in p .. n + 1 /\ symbol \in p .. n + 1
  <2> HIDE DEF plain, stops
  <2> QED
    BY <1>1, RunEnds
<1>3. tok = IF p > n THEN [type |-> "EOF", next |-> p]
            ELSE IF text[p] \in braces
            THEN [type |-> Braces[text[p]], next |-> p + 1]
            ELSE IF alone
            THEN [type |-> "COMMA", next |-> p + 1]
            ELSE IF value > symbol
            THEN [type |-> "VALUE", next |-> end, word |-> Word(end)]
            ELSE [type |-> Keyword(Word(symbol)), next |-> symbol,
                  word |-> Word(symbol)]
  BY Zenon DEF TokenAt
<1>4. value > symbol => end \in p .. n + 1
  <2> HIDE DEF value, symbol, ended
  <2> QED
    BY <1>1, <1>2
<1>5. \A b \in braces : Braces[b] \in {"LBRANCH", "RBRANCH"}
  BY BraceTokens
<1> HIDE DEF plain, stops, value, symbol, ended, end, alone, Word, tok, braces
<1> SUFFICES /\ tok.next \in 1 .. n + 1
             /\ tok.type \in {"SYMBOL", "VALUE"} => tok.word \in Seq(Atoms)
  BY DEF tok, Places, n
<1>6. CASE p > n
  BY <1>1, <1>3, <1>6
<1>7. CASE ~ (p > n) /\ text[p] \in braces
  <2>1. tok = [type |-> Braces[text[p]], next |-> p + 1]
    BY <1>3, <1>7
  <2> QED
    BY <1>1, <1>5, <1>7, <2>1
<1>8. CASE ~ (p > n) /\ text[p] \notin braces /\ alone
  <2>1. tok = [type |-> "COMMA", next |-> p + 1]
    BY <1>3, <1>8
  <2> QED
    BY <1>1, <1>8, <2>1
<1>9. CASE ~ (p > n) /\ text[p] \notin braces /\ ~ alone
  <2>1. CASE value > symbol
    <3>1. tok = [type |-> "VALUE", next |-> end, word |-> Word(end)]
      BY <1>3, <1>9, <2>1
    <3>2. Word(end) \in Seq(Atoms)
      <4>1. end \in 1 .. n + 1
        BY <1>1, <1>4, <2>1
      <4> QED
        BY <4>1, WordsRead DEF Word, n
    <3>3. end \in 1 .. n + 1
      BY <1>1, <1>4, <2>1
    <3> QED
      BY <3>1, <3>2, <3>3
  <2>2. CASE ~ (value > symbol)
    <3>1. tok = [type |-> Keyword(Word(symbol)), next |-> symbol,
                 word |-> Word(symbol)]
      BY <1>3, <1>9, <2>2
    <3>2. Word(symbol) \in Seq(Atoms)
      <4>1. symbol \in 1 .. n + 1
        BY <1>1, <1>2
      <4> QED
        BY <4>1, WordsRead DEF Word, n
    <3>3. symbol \in 1 .. n + 1
      BY <1>1, <1>2
    <3> QED
      BY <3>1, <3>2, <3>3
  <2> QED
    BY <2>1, <2>2
<1> QED
  BY <1>6, <1>7, <1>8, <1>9

-----------------------------------------------------------------------------
(* The lists of keys and values.                                           *)

(* What key_value_pair puts into a list.                                   *)
Pair == [key : Seq(Atoms), value : Seq(Atoms)]

(* A set of numbers has a least one.                                       *)
LEMMA LeastOfNumbers ==
    ASSUME NEW S, S \subseteq Nat, S # {}
    PROVE  Min(S) \in S
<1>1. \E i \in S : \A j \in S : i <= j
  BY LeastElement
<1> QED
  BY <1>1 DEF Min

(* The value of a key is one of the list, or empty.                        *)
LEMMA ValuesRead ==
    ASSUME NEW list \in Seq(Pair), NEW key
    PROVE  /\ get_str_value_from_key(list, key) \in Seq(Atoms)
           /\ get_int_value_from_key(list, key) \in Nat
<1> DEFINE I == {i \in 1 .. Len(list) : list[i].key = <<key>>}
           found == IF I # {} THEN Min(I) ELSE 0
           word == get_str_value_from_key(list, key)
<1>1. word = IF found = 0 THEN NULL ELSE list[found].value
  BY DEF get_str_value_from_key, SelectInSeq
<1>2. NULL \in Seq(Atoms)
  BY EmptySeq DEF NULL
<1>3. I # {} => found \in 1 .. Len(list)
  <2>1. Len(list) \in Nat
    BY LenProperties
  <2>2. I \subseteq Nat /\ I \subseteq 1 .. Len(list)
    BY <2>1
  <2> HIDE DEF I
  <2> QED
    BY <2>2, LeastOfNumbers
<1>4. I = {} => found = 0
  OBVIOUS
<1>5. \A i \in 1 .. Len(list) : list[i].value \in Seq(Atoms)
  <2>1. \A i \in 1 .. Len(list) : list[i] \in Pair
    BY ElementOfSeq
  <2> QED
    BY <2>1 DEF Pair
<1> HIDE DEF I, found, word
<1>6. word \in Seq(Atoms)
  BY <1>1, <1>2, <1>3, <1>4, <1>5
<1>7. Number(word) \in Nat
  BY SourceAssumption DEF Number
<1> QED
  BY <1>6, <1>7 DEF word, get_int_value_from_key

(* Whatever a protocol or a match is called, its code fits the field.      *)
LEMMA CodesRead ==
    ASSUME NEW word
    PROVE  proto_to_value(word) \in 0 .. 3 /\ matchType_to_value(word) \in 0 .. 3
BY DEF proto_to_value, matchType_to_value

(* What the fold of Pieces runs through. *)
LEMMA PiecesUnfold ==
    ASSUME NEW n \in Nat, NEW s, DOMAIN s = 1 .. n
    PROVE  \E g : /\ g[0] = << <<>> >>
                  /\ \A k \in 1 .. n : g[k] = (IF s[k] = "&" THEN Append(g[k - 1], <<>>) ELSE Append(Front(g[k - 1]), Append(Last(g[k - 1]), s[k])))
                  /\ Pieces(s) = g[n]
<1> DEFINE Eq(f, k) == f = [T \in SUBSET (1 .. k) |->
                              IF T = {} THEN << <<>> >>
                              ELSE (IF s[Max(T)] = "&" THEN Append(f[T \ {Max(T)}], <<>>) ELSE Append(Front(f[T \ {Max(T)}]), Append(Last(f[T \ {Max(T)}]), s[Max(T)])))]
           P == {k \in 0 .. n : \E f : Eq(f, k)}
           f == CHOOSE f : Eq(f, n)
<1>1. 0 \in P
  <2> DEFINE h == [T \in SUBSET (1 .. 0) |-> << <<>> >>]
  <2>1. \A T \in SUBSET (1 .. 0) : T = {}
    OBVIOUS
  <2>2. Eq(h, 0)
    BY <2>1
  <2>3. \E e : Eq(e, 0)
    BY <2>2
  <2> HIDE DEF Eq
  <2> QED
    BY <2>3
<1>2. ASSUME NEW k \in 0 .. n, k \in P, k < n
      PROVE  k + 1 \in P
  <2>1. k \in Nat /\ k + 1 \in 0 .. n /\ k + 1 \in Nat
    BY <1>2
  <2>2. PICK h : Eq(h, k)
    BY <1>2
  <2> DEFINE m == k + 1
             new == [T \in SUBSET (1 .. m) |->
                       IF m \in T THEN (IF s[m] = "&" THEN Append(h[T \ {m}], <<>>) ELSE Append(Front(h[T \ {m}]), Append(Last(h[T \ {m}]), s[m]))) ELSE h[T]]
  <2>3. \A T \in SUBSET (1 .. m) :
           /\ m \in T => T # {} /\ T \ {m} \in SUBSET (1 .. k)
           /\ m \notin T => T \in SUBSET (1 .. k)
    BY <2>1
  <2>4. \A T \in SUBSET (1 .. m) : m \in T => Max(T) = m
    <3> TAKE T \in SUBSET (1 .. m)
    <3> HAVE m \in T
    <3>1. Max(T) \in T /\ \A i \in T : i <= Max(T)
      BY <2>1, MaxOfNumbers
    <3>2. Max(T) \in 1 .. m /\ m <= Max(T)
      BY <3>1
    <3> QED
      BY <2>1, <3>2
  <2>5. \A T \in SUBSET (1 .. k) : T # {} => Max(T) \in T
    BY <2>1, MaxOfNumbers
  <2>6. \A T \in SUBSET (1 .. k) : T \in SUBSET (1 .. m) /\ m \notin T
    BY <2>1
  <2> HIDE DEF m
  <2>7. \A T \in SUBSET (1 .. k) : new[T] = h[T]
    BY <2>6
  <2>8. \A T \in SUBSET (1 .. k) :
           h[T] = IF T = {} THEN << <<>> >> ELSE (IF s[Max(T)] = "&" THEN Append(h[T \ {Max(T)}], <<>>) ELSE Append(Front(h[T \ {Max(T)}]), Append(Last(h[T \ {Max(T)}]), s[Max(T)])))
    BY <2>2
  <2>9. \A T \in SUBSET (1 .. m) :
           new[T] = IF T = {} THEN << <<>> >> ELSE (IF s[Max(T)] = "&" THEN Append(new[T \ {Max(T)}], <<>>) ELSE Append(Front(new[T \ {Max(T)}]), Append(Last(new[T \ {Max(T)}]), s[Max(T)])))
    <3> TAKE T \in SUBSET (1 .. m)
    <3>1. CASE m \in T
      <4>1. new[T] = (IF s[m] = "&" THEN Append(h[T \ {m}], <<>>) ELSE Append(Front(h[T \ {m}]), Append(Last(h[T \ {m}]), s[m]))) /\ T # {} /\ Max(T) = m
        BY <2>3, <2>4, <3>1
      <4>2. new[T \ {m}] = h[T \ {m}]
        BY <2>3, <2>7, <3>1
      <4> HIDE DEF new
      <4> QED
        BY <4>1, <4>2
    <3>2. CASE m \notin T
      <4>1. T \in SUBSET (1 .. k) /\ new[T] = h[T]
        BY <2>3, <2>7, <3>2
      <4>2. T # {} => new[T \ {Max(T)}] = h[T \ {Max(T)}]
        BY <2>7, <4>1
      <4> HIDE DEF new
      <4> QED
        BY <2>8, <4>1, <4>2
    <3> QED
      BY <3>1, <3>2
  <2>10. Eq(new, m)
    <3>1. new = [T \in SUBSET (1 .. m) |-> new[T]]
      OBVIOUS
    <3> HIDE DEF new
    <3> QED
      BY <2>9, <3>1
  <2> QED
    BY <2>1, <2>10 DEF m
<1> HIDE DEF P
<1>3. n \in P
  <2>1. 0 .. n \subseteq P
    BY <1>1, <1>2, RangeInduction
  <2> QED
    BY <2>1
<1>4. Eq(f, n)
  <2>1. \E h : Eq(h, n)
    BY <1>3 DEF P
  <2> QED
    BY <2>1
<1> HIDE DEF f
<1> DEFINE g == [k \in 0 .. n |-> f[1 .. k]]
<1>5. g[0] = << <<>> >>
  <2>1. 1 .. 0 = {} /\ 1 .. 0 \in SUBSET (1 .. n)
    OBVIOUS
  <2> QED
    BY <1>4, <2>1
<1>6. \A k \in 1 .. n : g[k] = (IF s[k] = "&" THEN Append(g[k - 1], <<>>) ELSE Append(Front(g[k - 1]), Append(Last(g[k - 1]), s[k])))
  <2> TAKE k \in 1 .. n
  <2>1. /\ 1 .. k \in SUBSET (1 .. n) /\ 1 .. k # {}
        /\ Max(1 .. k) = k /\ (1 .. k) \ {k} = 1 .. k - 1
    BY MaxOfPrefix
  <2>2. f[1 .. k] = (IF s[Max(1 .. k)] = "&" THEN Append(f[(1 .. k) \ {Max(1 .. k)}], <<>>) ELSE Append(Front(f[(1 .. k) \ {Max(1 .. k)}]), Append(Last(f[(1 .. k) \ {Max(1 .. k)}]), s[Max(1 .. k)])))
    BY <1>4, <2>1
  <2>3. g[k] = f[1 .. k] /\ g[k - 1] = f[1 .. k - 1]
    OBVIOUS
  <2> QED
    BY <2>1, <2>2, <2>3
<1>7. Pieces(s) = g[n]
  <2>1. Pieces(s) = f[1 .. n]
    BY DEF Pieces, FoldLeft, MapThenFoldSet, f
  <2> QED
    BY <2>1
<1> QED
  BY <1>5, <1>6, <1>7


(* Every text is cut into pieces of it, one at least.                      *)
LEMMA PiecesRead ==
    ASSUME NEW S, NEW match \in Seq(S)
    PROVE  Pieces(match) \in Seq(Seq(S)) \ {<<>>}
<1> DEFINE n == Len(match)
           All == Seq(Seq(S)) \ {<<>>}
<1>1. n \in Nat /\ DOMAIN match = 1 .. n
  BY LenProperties
<1>2. PICK g : /\ g[0] = << <<>> >>
               /\ \A k \in 1 .. n : g[k] = (IF match[k] = "&" THEN Append(g[k - 1], <<>>) ELSE Append(Front(g[k - 1]), Append(Last(g[k - 1]), match[k])))
               /\ Pieces(match) = g[n]
  <2> HIDE DEF n
  <2> QED
    BY <1>1, PiecesUnfold, Zenon
<1> DEFINE P == {k \in 0 .. n : g[k] \in All}
<1>3. <<>> \in Seq(S)
  BY EmptySeq
<1>4. 0 \in P
  <2>1. << <<>> >> \in Seq(Seq(S))
    BY <1>3
  <2>2. << <<>> >> # <<>>
    OBVIOUS
  <2>3. g[0] \in All
    BY <1>2, <2>1, <2>2, Zenon
  <2> HIDE DEF All, n
  <2> QED
    BY <1>1, <2>3
<1>5. ASSUME NEW k \in 0 .. n, k \in P, k < n
      PROVE  k + 1 \in P
  <2> DEFINE old == g[k]
             atom == match[k + 1]
             new == g[k + 1]
             isAmp == atom = "&"
  <2>1. k + 1 \in 1 .. n /\ k + 1 \in 0 .. n /\ (k + 1) - 1 = k
    BY <1>1, <1>5
  <2>2. new = (IF isAmp THEN Append(old, <<>>)
               ELSE Append(Front(old), Append(Last(old), atom)))
    BY <1>2, <2>1, Zenon
  <2>3. old \in Seq(Seq(S)) /\ old # <<>> /\ atom \in S
    <3>1. atom \in S
      BY <2>1, ElementOfSeq
    <3> QED
      BY <1>5, <3>1
  <2> HIDE DEF old, atom, new, isAmp
  <2>4. Len(old) \in Nat \ {0}
    BY <2>3, EmptySeq
  <2>5. Append(old, <<>>) \in All
    BY <1>3, <2>3, AppendProperties
  <2>6. Append(Front(old), Append(Last(old), atom)) \in All
    <3>1. Last(old) \in Seq(S)
      BY <2>3, <2>4, ElementOfSeq DEF Last
    <3>2. Front(old) \in Seq(Seq(S))
      <4>1. \A i \in 1 .. Len(old) - 1 : i \in 1 .. Len(old)
        BY <2>4
      <4>2. \A i \in 1 .. Len(old) - 1 : old[i] \in Seq(S)
        BY <2>3, <4>1, ElementOfSeq
      <4>3. 1 \in Int /\ Len(old) - 1 \in Int
        BY <2>4
      <4> QED
        BY <4>2, <4>3, SubSeqProperties DEF Front
    <3>3. Append(Last(old), atom) \in Seq(S)
      BY <2>3, <3>1, AppendProperties
    <3> DEFINE T == Seq(S)
    <3> HIDE DEF T
    <3>4. \A a \in Seq(T), b \in T : Append(a, b) \in Seq(T) /\ Append(a, b) # <<>>
      BY AppendProperties
    <3> USE DEF T
    <3> QED
      BY <3>2, <3>3, <3>4
  <2>7. new \in All
    BY <2>2, <2>5, <2>6
  <2> QED
    BY <2>1, <2>7 DEF new
<1>6. n \in P
  <2>1. 0 .. n \subseteq P
    <3> HIDE DEF P, n
    <3> QED
      BY <1>1, <1>4, <1>5, RangeInduction
  <2> QED
    BY <1>1, <2>1
<1> QED
  BY <1>2, <1>6

(* strtok finds parts of the text.                                         *)
LEMMA PartsRead ==
    ASSUME NEW S, NEW match \in Seq(S)
    PROVE  Parts(match) \in Seq(Seq(S))
<1> DEFINE all == Pieces(match)
           lists == [i \in DOMAIN all |->
                        IF all[i] = <<>> THEN <<>> ELSE <<all[i]>>]
<1>1. all \in Seq(Seq(S)) /\ Len(all) \in Nat /\ DOMAIN all = 1 .. Len(all)
  <2>1. all \in Seq(Seq(S))
    BY PiecesRead
  <2> QED
    BY <2>1, LenProperties
<1>2. Parts(match) = FlattenSeq(lists)
  BY DEF Parts
<1> HIDE DEF all
<1>3. \A i \in 1 .. Len(all) : lists[i] \in Seq(Seq(S))
  <2> TAKE i \in 1 .. Len(all)
  <2>1. all[i] \in Seq(S)
    BY <1>1, ElementOfSeq
  <2>2. <<>> \in Seq(Seq(S)) /\ <<all[i]>> \in Seq(Seq(S))
    BY <2>1
  <2> QED
    BY <1>1, <2>2
<1>4. lists \in [1 .. Len(all) -> Seq(Seq(S))]
  BY <1>1, <1>3
<1>5. lists \in Seq(Seq(Seq(S)))
  <2> DEFINE T == Seq(Seq(S))
  <2>1. lists \in [1 .. Len(all) -> T]
    BY <1>4
  <2> HIDE DEF lists, T
  <2>2. lists \in Seq(T)
    BY <1>1, <2>1, SeqDef
  <2> QED
    BY <2>2 DEF T
<1> HIDE DEF lists
<1> QED
  BY <1>2, <1>5, Flattened

(* Joining the next list to those before it.                               *)
LEMMA FlattenedPrefix ==
    ASSUME NEW S, NEW s \in Seq(Seq(S)), NEW k \in 1 .. Len(s)
    PROVE  SubSeq(FlattenSeq(s), 1, Firsts(s)[k - 1]) \o s[k] =
               SubSeq(FlattenSeq(s), 1, Firsts(s)[k])
<1> DEFINE t == FlattenSeq(s)
           a == Firsts(s)[k - 1]
           b == Firsts(s)[k]
           u == s[k]
           left == SubSeq(t, 1, a)
           all == SubSeq(t, 1, b)
<1>1. /\ t \in Seq(S) /\ Len(t) = Firsts(s)[Len(s)]
      /\ \A j \in 1 .. Len(u) : t[a + j] = u[j]
  BY Flattened
<1>2. u \in Seq(S) /\ a \in Nat /\ Len(u) \in Nat /\ b = a + Len(u)
      /\ b <= Len(t)
  BY <1>1, SeqBounds
<1> HIDE DEF t, a, b, u
<1>3. Len(t) \in Nat
  BY <1>1, LenProperties
<1>4. /\ left \in Seq(S) /\ Len(left) = a
      /\ \A i \in 1 .. a : left[i] = t[i]
  <2>1. \A i \in 1 .. a : t[i] \in S
    <3>1. \A i \in 1 .. a : i \in 1 .. Len(t)
      BY <1>2, <1>3
    <3> QED
      BY <1>1, <3>1, ElementOfSeq
  <2>2. 1 \in Int /\ a \in Int
    BY <1>2
  <2>3. /\ left \in Seq(S)
        /\ Len(left) = (IF 1 <= a THEN a - 1 + 1 ELSE 0)
        /\ \A i \in 1 .. a - 1 + 1 : left[i] = t[1 + i - 1]
    BY <2>1, <2>2, SubSeqProperties
  <2> HIDE DEF left
  <2>4. \A i \in 1 .. a : i \in 1 .. a - 1 + 1 /\ 1 + i - 1 = i
    BY <1>2
  <2> QED
    BY <1>2, <2>3, <2>4
<1>5. /\ all \in Seq(S) /\ Len(all) = b
      /\ \A i \in 1 .. b : all[i] = t[i]
  <2>1. \A i \in 1 .. b : t[i] \in S
    <3>1. \A i \in 1 .. b : i \in 1 .. Len(t)
      BY <1>2, <1>3
    <3> QED
      BY <1>1, <3>1, ElementOfSeq
  <2>2. 1 \in Int /\ b \in Int /\ b \in Nat
    BY <1>2
  <2>3. /\ all \in Seq(S)
        /\ Len(all) = (IF 1 <= b THEN b - 1 + 1 ELSE 0)
        /\ \A i \in 1 .. b - 1 + 1 : all[i] = t[1 + i - 1]
    BY <2>1, <2>2, SubSeqProperties
  <2> HIDE DEF all
  <2>4. \A i \in 1 .. b : i \in 1 .. b - 1 + 1 /\ 1 + i - 1 = i
    BY <2>2
  <2> QED
    BY <2>2, <2>3, <2>4
<1> HIDE DEF left, all
<1>6. /\ left \o u \in Seq(S) /\ Len(left \o u) = b
      /\ \A i \in 1 .. b : (left \o u)[i] = IF i <= a THEN left[i] ELSE u[i - a]
  BY <1>2, <1>4, ConcatProperties
<1>7. \A i \in 1 .. b : (left \o u)[i] = all[i]
  <2> TAKE i \in 1 .. b
  <2>1. CASE i <= a
    <3>1. i \in 1 .. a
      BY <1>2, <2>1
    <3> QED
      BY <1>4, <1>5, <1>6, <2>1, <3>1
  <2>2. CASE ~ (i <= a)
    <3>1. i - a \in 1 .. Len(u) /\ a + (i - a) = i
      BY <1>2, <2>2
    <3>2. t[i] = u[i - a]
      BY <1>1, <3>1
    <3> QED
      BY <1>5, <1>6, <2>2, <3>2
  <2> QED
    BY <2>1, <2>2
<1>8. left \o u = all
  BY <1>5, <1>6, <1>7, SeqEqual
<1> QED
  BY <1>8 DEF left, all, u, t, a, b

-----------------------------------------------------------------------------
(* What the parser holds: a signature has the elements its text is split   *)
(* into, and the two values of a pair are there when it is put together.   *)

(* A signature holds the elements its text is split into.                  *)
SigForm ==
    {sig \in [id : Nat, proto : 0 .. 3, type : 0 .. 3, match : Seq(Atoms),
              elements : {Elements(m) : m \in Seq(Atoms)}] :
        sig.elements = Elements(sig.match)}

(* What application puts into the list.                                    *)
AppForm == [id : Nat, category : Nat, name : Seq(Atoms), sigs : Seq(SigForm)]

(* The text stays in view, every value held is a word of it, and the words *)
(* a key or a pair is made of are there.                                   *)
LoadInv ==
    /\ source \in Sources
    /\ pos \in Places
    /\ words \in Seq(Seq(Atoms))
    /\ at \in {"app_key", "sig_key"} => Len(words) >= 1
    /\ at \in {"app_pair", "sig_pair"} => Len(words) >= 2
    /\ pairs \in Seq(Pair) /\ app_pairs \in Seq(Pair)
    /\ app_sigs \in Seq(SigForm)
    /\ app_root \in Seq(AppForm)

(* Every source is a sequence of characters.                               *)
LEMMA SourceReadable ==
    ASSUME LoadInv
    PROVE  Readable
BY SourceAssumption DEF LoadInv, Readable, Atoms, text

(* While the source is the same, so is what is made of it.                 *)
LEMMA SameSource ==
    ASSUME source' = source
    PROVE  /\ text' = text /\ Atoms' = Atoms /\ Places' = Places
           /\ Pair' = Pair /\ SigForm' = SigForm /\ AppForm' = AppForm
<1>1. text' = text
  BY DEF text
<1>2. Atoms' = Atoms
  BY <1>1 DEF Atoms
<1> QED
  BY <1>1, <1>2 DEF Places, Pair, SigForm, AppForm

(* Nothing is read at first.                                               *)
LEMMA ReadInitially ==
    ASSUME LoadInit
    PROVE  LoadInv
<1>1. source \in Sources /\ text \in Seq(ToSet(text))
  BY SourceAssumption DEF LoadInit, text
<1>2. Len(text) \in Nat
  BY <1>1, LenProperties
<1>3. pos \in Places
  BY <1>2 DEF LoadInit, Places
<1>4. \A S : <<>> \in Seq(S)
  BY EmptySeq
<1>5. /\ words = <<>> /\ pairs = <<>> /\ app_pairs = <<>> /\ app_sigs = <<>>
      /\ app_root = <<>> /\ at = "applications"
  BY DEF LoadInit
<1>6. at \notin {"app_key", "sig_key", "app_pair", "sig_pair"}
  BY <1>5
<1> QED
  BY <1>1, <1>3, <1>4, <1>5, <1>6 DEF LoadInv

(* Steps behind the parser.                                                *)
LEMMA IdleReads ==
    ASSUME LoadInv, UNCHANGED parserVars
    PROVE  LoadInv'
<1>1. /\ source' = source /\ pos' = pos /\ at' = at /\ words' = words
      /\ pairs' = pairs /\ app_pairs' = app_pairs /\ app_sigs' = app_sigs
      /\ app_root' = app_root
  BY DEF parserVars
<1>2. /\ Atoms' = Atoms /\ Places' = Places /\ Pair' = Pair
      /\ SigForm' = SigForm /\ AppForm' = AppForm
  BY <1>1, SameSource
<1> QED
  BY <1>1, <1>2 DEF LoadInv

(* The token at hand. *)
LEMMA NextToken ==
    ASSUME LoadInv
    PROVE  /\ yylex.next \in Places
           /\ yylex.type \in {"SYMBOL", "VALUE"} => yylex.word \in Seq(Atoms)
<1>1. Readable /\ TokenStart \in Places
  BY SourceReadable, TokenStarts DEF LoadInv
<1> QED
  BY <1>1, TokensRead DEF yylex

(* The symbols and values a state has behind it.                           *)
LEMMA ShiftsCount ==
    ASSUME NEW s \in Shifts
    PROVE  /\ s[3] \in {"app_key", "sig_key"} => s[2] = "SYMBOL"
           /\ s[3] \in {"app_pair", "sig_pair"} =>
                 s[2] = "VALUE" /\ s[1] \in {"app_key", "sig_key"}
BY DEF Shifts

(* A token is shifted.                                                     *)
LEMMA ShiftReads ==
    ASSUME LoadInv, Shift
    PROVE  LoadInv'
<1> DEFINE tok == yylex
<1>1. PICK s \in Shifts : Taken(tok) = <<s[1], s[2]>> /\ at' = s[3]
  BY DEF Shift
<1>2. at = s[1] /\ tok.type = s[2]
  BY <1>1 DEF Taken
<1>3. /\ words' = IF tok.type \in {"SYMBOL", "VALUE"}
                  THEN Append(words, tok.word) ELSE words
      /\ app_pairs' = IF tok.type = "SIGNATURE" THEN pairs ELSE app_pairs
      /\ pairs' = IF tok.type = "SIGNATURE" THEN <<>> ELSE pairs
      /\ pos' = tok.next
      /\ source' = source /\ app_sigs' = app_sigs /\ app_root' = app_root
  BY DEF Shift
<1>4. /\ tok.next \in Places
      /\ tok.type \in {"SYMBOL", "VALUE"} => tok.word \in Seq(Atoms)
  BY NextToken
<1>5. /\ Atoms' = Atoms /\ Places' = Places /\ Pair' = Pair
      /\ SigForm' = SigForm /\ AppForm' = AppForm
  BY <1>3, SameSource
<1> HIDE DEF tok
<1>6. /\ words \in Seq(Seq(Atoms)) /\ Len(words) \in Nat
      /\ pairs \in Seq(Pair) /\ app_pairs \in Seq(Pair)
  BY LenProperties DEF LoadInv
<1>7. ASSUME tok.type \in {"SYMBOL", "VALUE"}
      PROVE  words' \in Seq(Seq(Atoms)) /\ Len(words') = Len(words) + 1
  <2>1. words' = Append(words, tok.word) /\ tok.word \in Seq(Atoms)
    BY <1>3, <1>4, <1>7
  <2> QED
    BY <1>6, <2>1, AppendProperties
<1>8. words' \in Seq(Seq(Atoms))
  <2>1. CASE tok.type \in {"SYMBOL", "VALUE"}
    BY <1>7, <2>1
  <2>2. CASE tok.type \notin {"SYMBOL", "VALUE"}
    BY <1>3, <1>6, <2>2
  <2> QED
    BY <2>1, <2>2
<1>9. at' \in {"app_key", "sig_key"} => Len(words') >= 1
  <2> SUFFICES ASSUME s[3] \in {"app_key", "sig_key"}
               PROVE  Len(words') >= 1
    BY <1>1
  <2>1. Len(words') = Len(words) + 1
    BY <1>2, <1>7, ShiftsCount
  <2> QED
    BY <1>6, <2>1
<1>10. at' \in {"app_pair", "sig_pair"} => Len(words') >= 2
  <2> SUFFICES ASSUME s[3] \in {"app_pair", "sig_pair"}
               PROVE  Len(words') >= 2
    BY <1>1
  <2>1. tok.type = "VALUE" /\ at \in {"app_key", "sig_key"}
    BY <1>2, ShiftsCount
  <2>2. Len(words') = Len(words) + 1 /\ Len(words) >= 1
    BY <1>7, <2>1 DEF LoadInv
  <2> QED
    BY <1>6, <2>2
<1>11. pairs' \in Seq(Pair) /\ app_pairs' \in Seq(Pair)
  BY <1>3, <1>6, EmptySeq
<1> QED
  BY <1>3, <1>4, <1>5, <1>8, <1>9, <1>10, <1>11 DEF LoadInv

(* What a reduction leaves as it was.                                      *)
LEMMA ReduceReads ==
    ASSUME LoadInv, NEW from, NEW type, Reduce(from, type)
    PROVE  /\ source' = source /\ source' \in Sources /\ pos' \in Places'
           /\ Atoms' = Atoms /\ Pair' = Pair /\ SigForm' = SigForm
           /\ AppForm' = AppForm
<1>1. source' = source /\ pos' = yylex.next
  BY DEF Reduce
<1> QED
  BY <1>1, NextToken, SameSource DEF LoadInv

(* A pair is put together from the last two words.                         *)
LEMMA PairReads ==
    ASSUME LoadInv, KeyValuePair
    PROVE  LoadInv'
<1>1. PICK from \in {"app_pair", "sig_pair"} :
         /\ Reduce(from, "COMMA") /\ at = from
         /\ at' \in {"app_pairs", "sig_pairs"}
  BY DEF KeyValuePair, Reduce
<1>2. /\ pairs' = Append(pairs, [key |-> words[Len(words) - 1],
                                 value |-> Last(words)])
      /\ words' = <<>> /\ app_pairs' = app_pairs /\ app_sigs' = app_sigs
      /\ app_root' = app_root
  BY DEF KeyValuePair
<1>3. /\ source' \in Sources /\ pos' \in Places' /\ Atoms' = Atoms
      /\ Pair' = Pair /\ SigForm' = SigForm /\ AppForm' = AppForm
  BY <1>1, ReduceReads
<1>4. Len(words) \in Nat /\ Len(words) >= 2 /\ words \in Seq(Seq(Atoms))
  BY <1>1, LenProperties DEF LoadInv
<1>5. Len(words) - 1 \in 1 .. Len(words) /\ Len(words) \in 1 .. Len(words)
  BY <1>4
<1>6. words[Len(words) - 1] \in Seq(Atoms) /\ Last(words) \in Seq(Atoms)
  BY <1>4, <1>5, ElementOfSeq DEF Last
<1>7. [key |-> words[Len(words) - 1], value |-> Last(words)] \in Pair
  BY <1>6 DEF Pair
<1>8. pairs' \in Seq(Pair)
  BY <1>2, <1>7, AppendProperties DEF LoadInv
<1>9. words' \in Seq(Seq(Atoms))
  BY <1>2, EmptySeq
<1>10. at' \notin {"app_key", "sig_key"} /\ at' \notin {"app_pair", "sig_pair"}
  BY <1>1
<1> QED
  BY <1>2, <1>3, <1>8, <1>9, <1>10 DEF LoadInv

(* A signature put together from its pairs has the form above.             *)
LEMMA SigFormed ==
    ASSUME NEW i \in Nat, NEW p \in 0 .. 3, NEW t \in 0 .. 3, NEW m \in Seq(Atoms)
    PROVE  [id |-> i, proto |-> p, type |-> t, match |-> m,
            elements |-> Elements(m)] \in SigForm
BY DEF SigForm

(* A signature is complete.                                                *)
LEMMA AppSigReads ==
    ASSUME LoadInv, AppSig
    PROVE  LoadInv'
<1> DEFINE match == get_str_value_from_key(pairs, "sig_match")
           word == get_str_value_from_key(pairs, "sig_type")
           type == matchType_to_value(word)
           sig == NewSig(match, type)
<1>1. /\ Reduce("sig_pairs", "RBRANCH")
      /\ app_sigs' \in {app_sigs, Append(app_sigs, sig)}
      /\ at' = "app_sigs" /\ pairs' = <<>> /\ words' = words
      /\ app_pairs' = app_pairs /\ app_root' = app_root
  BY DEF AppSig
<1>2. /\ source' \in Sources /\ pos' \in Places' /\ Atoms' = Atoms
      /\ Pair' = Pair /\ SigForm' = SigForm /\ AppForm' = AppForm
  BY <1>1, ReduceReads
<1>3. pairs \in Seq(Pair) /\ app_sigs \in Seq(SigForm)
  BY DEF LoadInv
<1>4. match \in Seq(Atoms) /\ type \in 0 .. 3
  BY <1>3, ValuesRead, CodesRead
<1>5. sig \in SigForm
  <2> DEFINE i == get_int_value_from_key(pairs, "sig_id")
             name == get_str_value_from_key(pairs, "sig_proto")
             p == proto_to_value(name)
  <2>1. i \in Nat /\ p \in 0 .. 3
    BY <1>3, ValuesRead, CodesRead
  <2>2. sig = [id |-> i, proto |-> p, type |-> type, match |-> match,
               elements |-> Elements(match)]
    BY DEF NewSig
  <2> HIDE DEF sig, i, p, type, match
  <2> QED
    BY <1>4, <2>1, <2>2, SigFormed
<1> HIDE DEF sig
<1>6. app_sigs' \in Seq(SigForm)
  BY <1>1, <1>3, <1>5, AppendProperties
<1>7. pairs' \in Seq(Pair)
  BY <1>1, EmptySeq
<1>8. at' \notin {"app_key", "sig_key"} /\ at' \notin {"app_pair", "sig_pair"}
  BY <1>1
<1> QED
  BY <1>1, <1>2, <1>6, <1>7, <1>8 DEF LoadInv

(* An application is complete.                                             *)
LEMMA AppEndReads ==
    ASSUME LoadInv, AppEnd
    PROVE  LoadInv'
<1> DEFINE name == get_str_value_from_key(app_pairs, "appname")
           i == get_int_value_from_key(app_pairs, "appid")
           c == get_int_value_from_key(app_pairs, "category")
           app == [id |-> i, category |-> c, name |-> name, sigs |-> app_sigs]
<1>1. /\ Reduce("application_end", "RBRANCH")
      /\ app_root' \in {app_root, Append(app_root, app)}
      /\ at' = "applications" /\ app_pairs' = <<>> /\ app_sigs' = <<>>
      /\ words' = <<>> /\ pairs' = pairs
  BY DEF AppEnd
<1>2. /\ source' \in Sources /\ pos' \in Places' /\ Atoms' = Atoms
      /\ Pair' = Pair /\ SigForm' = SigForm /\ AppForm' = AppForm
  BY <1>1, ReduceReads
<1>3. app_pairs \in Seq(Pair) /\ app_sigs \in Seq(SigForm)
      /\ app_root \in Seq(AppForm)
  BY DEF LoadInv
<1>4. name \in Seq(Atoms) /\ i \in Nat /\ c \in Nat
  BY <1>3, ValuesRead
<1> HIDE DEF name, i, c
<1>5. app \in AppForm
  BY <1>3, <1>4 DEF AppForm
<1> HIDE DEF app
<1>6. app_root' \in Seq(AppForm)
  BY <1>1, <1>3, <1>5, AppendProperties
<1>7. app_pairs' \in Seq(Pair) /\ app_sigs' \in Seq(SigForm)
      /\ words' \in Seq(Seq(Atoms))
  BY <1>1, EmptySeq
<1>8. at' \notin {"app_key", "sig_key"} /\ at' \notin {"app_pair", "sig_pair"}
  BY <1>1
<1> QED
  BY <1>1, <1>2, <1>6, <1>7, <1>8 DEF LoadInv

-----------------------------------------------------------------------------
(* The rules handed over.                                                  *)

(* The patterns BeginRegex begins the list with: the HTTP headers.         *)
HeaderPatterns == [i \in DOMAIN Headers |-> [class |-> 0, low |-> Headers[i]]]

(* The rules parse_http_sig makes, for each HTTP signature.                *)
AllRules == [s \in DOMAIN HttpSigs |->
                RegexEntries(HttpSigs[s].match, HttpSigs[s].id)]

(* One rule for an element: its class, its number and its text.            *)
Rule == [class : {get_element_id_from_sig(part) : part \in Seq(Atoms)},
         low : Nat,
         text : {get_key_from_sig(part) : part \in Seq(Atoms)}]

(* An entry of the list of rules, a header or a rule.                      *)
Patterns == Rule \cup [class : {0}, low : Nat]

(* While the signatures are split, the rules so far are those of the ones  *)
(* before the next.                                                        *)
RulesSoFar ==
    /\ pc \in {"regex", "loaded"} =>
          \E k \in 0 .. Len(HttpSigs) :
             /\ app_list = HeaderPatterns
                           \o SubSeq(FlattenSeq(AllRules), 1, Firsts(AllRules)[k])
             /\ unsplit = SubSeq(HttpSigs, k + 1, Len(HttpSigs))
    /\ pc = "loaded" => unsplit = <<>>

(* The fields of a signature. *)
LEMMA SigFields ==
    ASSUME NEW sig \in SigForm
    PROVE  sig.id \in Nat /\ sig.match \in Seq(Atoms)
           /\ sig.elements = Elements(sig.match)
BY DEF SigForm

(* The HTTP signatures of the list have the form above.                    *)
LEMMA HttpSigsRead ==
    ASSUME LoadInv
    PROVE  HttpSigs \in Seq(SigForm)
<1> DEFINE n == Len(app_root)
           parts == [a \in DOMAIN app_root |-> app_root[a].sigs]
           all == FlattenSeq(parts)
           lists == [s \in DOMAIN all |->
                        IF all[s].proto = PROTOCOL_HTTP THEN <<all[s]>> ELSE <<>>]
           T == Seq(SigForm)
<1>1. app_root \in Seq(AppForm) /\ n \in Nat /\ DOMAIN app_root = 1 .. n
  BY LenProperties DEF LoadInv
<1>2. \A a \in 1 .. n : app_root[a].sigs \in T
  <2>1. \A a \in 1 .. n : app_root[a] \in AppForm
    BY <1>1, ElementOfSeq
  <2> QED
    BY <2>1 DEF AppForm
<1>3. parts \in [1 .. n -> T]
  BY <1>1, <1>2
<1>4. HttpSigs = FlattenSeq(lists)
  BY DEF HttpSigs
<1> HIDE DEF parts, n
<1>5. parts \in Seq(T)
  <2> HIDE DEF T
  <2> QED
    BY <1>1, <1>3, SeqDef
<1>6. all \in Seq(SigForm)
  BY <1>5, Flattened
<1> HIDE DEF all
<1>7. Len(all) \in Nat /\ DOMAIN all = 1 .. Len(all)
  BY <1>6, LenProperties
<1>8. \A s \in 1 .. Len(all) : <<all[s]>> \in T /\ <<>> \in T
  <2>1. \A s \in 1 .. Len(all) : all[s] \in SigForm
    BY <1>6, ElementOfSeq
  <2> HIDE DEF SigForm
  <2> QED
    BY <2>1
<1>9. lists \in [1 .. Len(all) -> T]
  <2> HIDE DEF T
  <2> QED
    BY <1>7, <1>8
<1> HIDE DEF lists
<1>10. lists \in Seq(T)
  <2> HIDE DEF T
  <2> QED
    BY <1>7, <1>9, SeqDef
<1> QED
  BY <1>4, <1>10, Flattened

(* What parse_http_sig stores for a part is a rule.                        *)
LEMMA RuleMade ==
    ASSUME NEW part \in Seq(Atoms), NEW i \in Nat
    PROVE  [class |-> get_element_id_from_sig(part), low |-> i,
            text |-> get_key_from_sig(part)] \in Rule
BY DEF Rule

(* So is what it stores for a text.                                        *)
LEMMA RulesRead ==
    ASSUME NEW match \in Seq(Atoms), NEW i \in Nat
    PROVE  RegexEntries(match, i) \in Seq(Patterns)
<1> DEFINE parts == Parts(match)
           n == Len(parts)
           rules == RegexEntries(match, i)
           S == Patterns
<1>1. parts \in Seq(Seq(Atoms)) /\ n \in Nat /\ DOMAIN parts = 1 .. n
  <2>1. parts \in Seq(Seq(Atoms))
    BY PartsRead
  <2> HIDE DEF parts
  <2> QED
    BY <2>1, LenProperties
<1>2. rules = [e \in DOMAIN parts |->
                  [class |-> get_element_id_from_sig(parts[e]), low |-> i,
                   text |-> get_key_from_sig(parts[e])]]
  BY DEF RegexEntries
<1> HIDE DEF parts, rules, n
<1>3. \A e \in 1 .. n : [class |-> get_element_id_from_sig(parts[e]), low |-> i,
                         text |-> get_key_from_sig(parts[e])] \in S
  <2>1. \A e \in 1 .. n : parts[e] \in Seq(Atoms)
    BY <1>1, ElementOfSeq DEF n
  <2> QED
    BY <2>1, RuleMade DEF Patterns
<1>4. rules \in [1 .. n -> S]
  <2> HIDE DEF S
  <2> QED
    BY <1>1, <1>2, <1>3
<1>5. rules \in Seq(S)
  <2> HIDE DEF S
  <2> QED
    BY <1>1, <1>4, SeqDef
<1> QED
  BY <1>5 DEF rules

(* And for all texts: a list of rules for each signature.                  *)
LEMMA AllRulesRead ==
    ASSUME LoadInv
    PROVE  /\ Len(HttpSigs) \in Nat /\ DOMAIN HttpSigs = 1 .. Len(HttpSigs)
           /\ AllRules \in Seq(Seq(Patterns)) /\ Len(AllRules) = Len(HttpSigs)
           /\ \A s \in 1 .. Len(HttpSigs) :
                 AllRules[s] = RegexEntries(HttpSigs[s].match, HttpSigs[s].id)
<1> DEFINE n == Len(HttpSigs)
           S == Seq(Patterns)
<1>1. HttpSigs \in Seq(SigForm) /\ n \in Nat /\ DOMAIN HttpSigs = 1 .. n
  BY HttpSigsRead, LenProperties
<1>2. \A s \in 1 .. n : RegexEntries(HttpSigs[s].match, HttpSigs[s].id) \in S
  <2>1. \A s \in 1 .. n : HttpSigs[s].match \in Seq(Atoms) /\ HttpSigs[s].id \in Nat
    BY <1>1, ElementOfSeq, SigFields
  <2> QED
    BY <2>1, RulesRead
<1> HIDE DEF S
<1>3. AllRules \in [1 .. n -> S]
  BY <1>1, <1>2 DEF AllRules
<1>4. AllRules \in Seq(S) /\ Len(AllRules) = n
  BY <1>1, <1>3, SeqDef
<1>5. \A s \in 1 .. n :
         AllRules[s] = RegexEntries(HttpSigs[s].match, HttpSigs[s].id)
  BY <1>1 DEF AllRules
<1> QED
  BY <1>1, <1>4, <1>5 DEF S

(* There are as many patterns for headers as headers.                      *)
LEMMA HeadersRead ==
    HeaderPatterns \in Seq(Patterns) /\ Len(HeaderPatterns) = Len(Headers)
<1>1. Len(Headers) = 5 /\ DOMAIN Headers = 1 .. 5 /\ \A i \in 1 .. 5 : Headers[i] \in Nat
  BY DEF Headers
<1>2. HeaderPatterns \in [1 .. 5 -> Patterns]
  <2>1. \A i \in 1 .. 5 : [class |-> 0, low |-> Headers[i]] \in [class : {0}, low : Nat]
    BY <1>1
  <2>2. \A i \in 1 .. 5 : [class |-> 0, low |-> Headers[i]] \in Patterns
    BY <2>1 DEF Patterns
  <2> HIDE DEF Patterns
  <2> QED
    BY <1>1, <2>2 DEF HeaderPatterns
<1>3. HeaderPatterns \in Seq(Patterns)
  <2> HIDE DEF Patterns, HeaderPatterns
  <2>1. 5 \in Nat
    OBVIOUS
  <2> QED
    BY <1>2, <2>1, SeqDef
<1>4. Len(HeaderPatterns) = 5
  <2> HIDE DEF HeaderPatterns
  <2> QED
    BY <1>2, <1>3
<1> QED
  BY <1>1, <1>3, <1>4

(* The same applications have the same rules.                              *)
LEMMA SameSignatures ==
    ASSUME app_root' = app_root
    PROVE  HttpSigs' = HttpSigs /\ AllRules' = AllRules
<1>1. HttpSigs' = HttpSigs
  BY DEF HttpSigs
<1> QED
  BY <1>1 DEF AllRules

(* No step of the tables is a step of the rules.                           *)
LEMMA TablesElsewhere ==
    ASSUME Next
    PROVE  pc' \notin {"regex", "loaded"}
BY DEF Next, Count, EndCount, Alloc, AllocFails, BeginApp, InstallSig, EndApp,
       EndInstall, Dump

(* Nor is a step of the parser.                                            *)
LEMMA LoadElsewhere ==
    ASSUME Shift \/ KeyValuePair \/ AppSig \/ AppEnd \/ FileFails \/ EndLoad
    PROVE  pc' \notin {"regex", "loaded"}
<1>1. ASSUME Shift PROVE pc' = "load"
  BY <1>1 DEF Shift, vars
<1>2. ASSUME KeyValuePair PROVE pc' = "load"
  BY <1>2 DEF KeyValuePair, Reduce
<1>3. ASSUME AppSig PROVE pc' \in {"load", "crash"}
  BY <1>3 DEF AppSig, Reduce
<1>4. ASSUME AppEnd PROVE pc' \in {"load", "crash"}
  BY <1>4 DEF AppEnd, Reduce
<1>5. ASSUME FileFails PROVE pc' = "exit"
  BY <1>5 DEF FileFails
<1>6. ASSUME EndLoad PROVE pc' \in {"crash", "count"}
  BY <1>6 DEF EndLoad
<1> QED
  BY <1>1, <1>2, <1>3, <1>4, <1>5, <1>6

(* The rules joined up to signature k, and the first and the last of them. *)
LEMMA RulesUpTo ==
    ASSUME LoadInv, NEW k \in 0 .. Len(HttpSigs)
    PROVE  /\ SubSeq(FlattenSeq(AllRules), 1, Firsts(AllRules)[k]) \in Seq(Patterns)
           /\ k = 0 => SubSeq(FlattenSeq(AllRules), 1, Firsts(AllRules)[k]) = <<>>
           /\ k = Len(HttpSigs) =>
                 SubSeq(FlattenSeq(AllRules), 1, Firsts(AllRules)[k]) =
                     FlattenSeq(AllRules)
           /\ FlattenSeq(AllRules) \in Seq(Patterns)
<1> DEFINE t == FlattenSeq(AllRules)
           c == Firsts(AllRules)
           n == Len(AllRules)
<1>1. AllRules \in Seq(Seq(Patterns)) /\ n = Len(HttpSigs) /\ n \in Nat
  BY AllRulesRead
<1>2. t \in Seq(Patterns) /\ Len(t) = c[n]
  BY <1>1, Flattened
<1>3. c[0] = 0 /\ (k # 0 => c[k] \in Nat /\ c[k] <= c[n])
  <2>1. c[0] = 0
    BY <1>1, SeqsEndToEnd DEF EndToEnd
  <2>2. ASSUME k # 0
        PROVE  c[k] \in Nat /\ c[k] <= c[n]
    <3>1. k \in 1 .. n
      BY <1>1, <2>2
    <3> QED
      BY <1>1, <3>1, SeqBounds
  <2> QED
    BY <2>1, <2>2
<1> HIDE DEF t, c, n
<1>4. Len(t) \in Nat
  BY <1>2, LenProperties
<1>5. c[k] \in 0 .. Len(t)
  BY <1>2, <1>3, <1>4
<1>6. SubSeq(t, 1, c[k]) \in Seq(Patterns)
  <2>1. \A i \in 1 .. c[k] : t[i] \in Patterns
    <3>1. \A i \in 1 .. c[k] : i \in 1 .. Len(t)
      BY <1>4, <1>5
    <3> QED
      BY <1>2, <3>1, ElementOfSeq
  <2>2. 1 \in Int /\ c[k] \in Int
    BY <1>5
  <2> QED
    BY <2>1, <2>2, SubSeqProperties
<1>7. k = 0 => SubSeq(t, 1, c[k]) = <<>>
  <2>1. 1 \in Int /\ 0 \in Int /\ 0 < 1
    OBVIOUS
  <2>2. SubSeq(t, 1, 0) = <<>>
    BY <2>1, SubSeqEmpty
  <2> QED
    BY <1>3, <2>2
<1>8. k = n => SubSeq(t, 1, c[k]) = t
  BY <1>2, SubSeqFull
<1> QED
  BY <1>1, <1>2, <1>6, <1>7, <1>8 DEF t, c, n

(* The list begins with the headers.                                       *)
LEMMA RegexBegins ==
    ASSUME LoadInv, BeginRegex
    PROVE  RulesSoFar'
<1>1. /\ app_list' = HeaderPatterns /\ unsplit' = HttpSigs /\ pc' = "regex"
      /\ app_root' = app_root
  BY DEF BeginRegex, HeaderPatterns, parserVars
<1>2. HttpSigs' = HttpSigs /\ AllRules' = AllRules
  BY <1>1, SameSignatures
<1>3. /\ HttpSigs \in Seq(SigForm) /\ Len(HttpSigs) \in Nat
      /\ 0 \in 0 .. Len(HttpSigs)
  BY HttpSigsRead, AllRulesRead
<1>4. SubSeq(FlattenSeq(AllRules), 1, Firsts(AllRules)[0]) = <<>>
  BY <1>3, RulesUpTo
<1>5. HeaderPatterns = HeaderPatterns \o <<>>
  BY HeadersRead, ConcatEmptySeq
<1>6. HttpSigs = SubSeq(HttpSigs, 0 + 1, Len(HttpSigs))
  BY <1>3, SubSeqFull
<1>7. /\ app_list' = HeaderPatterns
                     \o SubSeq(FlattenSeq(AllRules), 1, Firsts(AllRules)[0])
      /\ unsplit' = SubSeq(HttpSigs, 0 + 1, Len(HttpSigs))
  BY <1>1, <1>4, <1>5, <1>6
<1> QED
  BY <1>1, <1>2, <1>3, <1>7 DEF RulesSoFar, HeaderPatterns

(* The next signature is split and its rules are added.                    *)
LEMMA RegexSplits ==
    ASSUME LoadInv, RulesSoFar, SplitSig
    PROVE  RulesSoFar'
<1> DEFINE n == Len(HttpSigs)
           sig == Head(unsplit)
           entries == RegexEntries(sig.match, sig.id)
           Upto(k) == SubSeq(FlattenSeq(AllRules), 1, Firsts(AllRules)[k])
<1>1. /\ pc = "regex" /\ unsplit # <<>> /\ unsplit' = Tail(unsplit)
      /\ app_root' = app_root
      /\ \/ pc' = "regex" /\ app_list' = app_list \o entries
         \/ pc' = "crash"
  BY DEF SplitSig, parserVars
<1>2. HttpSigs' = HttpSigs /\ AllRules' = AllRules
  BY <1>1, SameSignatures
<1>3. CASE pc' = "crash"
  BY <1>3 DEF RulesSoFar
<1>4. CASE pc' = "regex" /\ app_list' = app_list \o entries
  <2>1. PICK k \in 0 .. n : /\ app_list = HeaderPatterns \o Upto(k)
                            /\ unsplit = SubSeq(HttpSigs, k + 1, n)
    BY <1>1 DEF RulesSoFar
  <2>2. /\ HttpSigs \in Seq(SigForm) /\ n \in Nat
        /\ AllRules \in Seq(Seq(Patterns)) /\ Len(AllRules) = n
        /\ \A s \in 1 .. n :
              AllRules[s] = RegexEntries(HttpSigs[s].match, HttpSigs[s].id)
    BY HttpSigsRead, AllRulesRead
  <2>3. k < n
    <3> SUFFICES ASSUME k = n
                 PROVE  FALSE
      BY <2>2
    <3>1. k + 1 \in Int /\ n \in Int /\ n < k + 1
      BY <2>2
    <3> HIDE DEF n
    <3>2. SubSeq(HttpSigs, k + 1, n) = <<>>
      BY <3>1, SubSeqEmpty
    <3> QED
      BY <1>1, <2>1, <3>2
  <2>4. k + 1 \in 1 .. n /\ (k + 1) - 1 = k /\ k + 1 \in 0 .. n
        /\ n \in k + 1 .. n
    BY <2>2, <2>3
  <2>5. /\ sig = HttpSigs[k + 1]
        /\ unsplit' = SubSeq(HttpSigs, (k + 1) + 1, n)
    BY <1>1, <2>1, <2>2, <2>4, HeadTailOfSubSeq
  <2>6. entries = AllRules[k + 1]
    BY <2>2, <2>4, <2>5
  <2>7. Upto(k) \o AllRules[k + 1] = Upto(k + 1)
    BY <2>2, <2>4, FlattenedPrefix
  <2>8. Upto(k) \in Seq(Patterns) /\ AllRules[k + 1] \in Seq(Patterns)
    BY <2>2, <2>4, RulesUpTo, ElementOfSeq
  <2>9. app_list' = HeaderPatterns \o Upto(k + 1)
    <3> HIDE DEF Upto, entries
    <3>1. app_list' = (HeaderPatterns \o Upto(k)) \o AllRules[k + 1]
      BY <1>4, <2>1, <2>6
    <3>2. \A u, v \in Seq(Patterns) :
             (HeaderPatterns \o u) \o v = HeaderPatterns \o (u \o v)
      BY HeadersRead, ConcatAssociative
    <3> QED
      BY <2>7, <2>8, <3>1, <3>2
  <2>10. \E j \in 0 .. n : /\ app_list' = HeaderPatterns \o Upto(j)
                           /\ unsplit' = SubSeq(HttpSigs, j + 1, n)
    BY <2>4, <2>5, <2>9
  <2> QED
    BY <1>2, <1>4, <2>10 DEF RulesSoFar, HeaderPatterns
<1> QED
  BY <1>1, <1>3, <1>4

(* No signature is left.                                                   *)
LEMMA RegexEnds ==
    ASSUME RulesSoFar, EndRegex
    PROVE  RulesSoFar'
<1>1. /\ pc = "regex" /\ unsplit = <<>> /\ unsplit' = unsplit
      /\ app_list' = app_list /\ app_root' = app_root
  BY DEF EndRegex, parserVars, tables
<1>2. HttpSigs' = HttpSigs /\ AllRules' = AllRules
  BY <1>1, SameSignatures
<1>3. \E k \in 0 .. Len(HttpSigs) :
         /\ app_list = HeaderPatterns
                       \o SubSeq(FlattenSeq(AllRules), 1, Firsts(AllRules)[k])
         /\ unsplit = SubSeq(HttpSigs, k + 1, Len(HttpSigs))
  BY <1>1 DEF RulesSoFar
<1> QED
  BY <1>1, <1>2, <1>3 DEF RulesSoFar, HeaderPatterns

(* Nothing happens.                                                        *)
LEMMA RegexStutters ==
    ASSUME RulesSoFar, UNCHANGED loadVars
    PROVE  RulesSoFar'
<1>1. /\ pc' = pc /\ unsplit' = unsplit /\ app_list' = app_list
      /\ app_root' = app_root
  BY DEF loadVars, vars, parserVars, tables
<1>2. HttpSigs' = HttpSigs /\ AllRules' = AllRules
  BY <1>1, SameSignatures
<1> QED
  BY <1>1, <1>2 DEF RulesSoFar, HeaderPatterns

(* Every step of the loader keeps both invariants.                         *)
LEMMA LoadStep ==
    ASSUME LoadInv, RulesSoFar, [LoadNext]_loadVars
    PROVE  LoadInv' /\ RulesSoFar'
<1>0. pc' \notin {"regex", "loaded"} => RulesSoFar'
  BY DEF RulesSoFar
<1>1. ASSUME Shift PROVE LoadInv' /\ RulesSoFar'
  BY <1>0, <1>1, ShiftReads, LoadElsewhere
<1>2. ASSUME KeyValuePair PROVE LoadInv' /\ RulesSoFar'
  BY <1>0, <1>2, PairReads, LoadElsewhere
<1>3. ASSUME AppSig PROVE LoadInv' /\ RulesSoFar'
  BY <1>0, <1>3, AppSigReads, LoadElsewhere
<1>4. ASSUME AppEnd PROVE LoadInv' /\ RulesSoFar'
  BY <1>0, <1>4, AppEndReads, LoadElsewhere
<1>5. ASSUME FileFails \/ EndLoad PROVE LoadInv' /\ RulesSoFar'
  <2>1. UNCHANGED parserVars
    BY <1>5 DEF FileFails, EndLoad
  <2> QED
    BY <1>0, <1>5, <2>1, IdleReads, LoadElsewhere
<1>6. ASSUME Next, UNCHANGED <<parserVars, unsplit>>
      PROVE  LoadInv' /\ RulesSoFar'
  <2>1. UNCHANGED parserVars
    BY <1>6
  <2> QED
    BY <1>0, <1>6, <2>1, IdleReads, TablesElsewhere
<1>7. ASSUME BeginRegex PROVE LoadInv' /\ RulesSoFar'
  <2>1. UNCHANGED parserVars
    BY <1>7 DEF BeginRegex
  <2> QED
    BY <1>7, <2>1, IdleReads, RegexBegins
<1>8. ASSUME SplitSig PROVE LoadInv' /\ RulesSoFar'
  <2>1. UNCHANGED parserVars
    BY <1>8 DEF SplitSig
  <2> QED
    BY <1>8, <2>1, IdleReads, RegexSplits
<1>9. ASSUME EndRegex PROVE LoadInv' /\ RulesSoFar'
  <2>1. UNCHANGED parserVars
    BY <1>9 DEF EndRegex
  <2> QED
    BY <1>9, <2>1, IdleReads, RegexEnds
<1>10. ASSUME UNCHANGED loadVars PROVE LoadInv' /\ RulesSoFar'
  <2>1. UNCHANGED parserVars
    BY <1>10 DEF loadVars
  <2> QED
    BY <1>10, <2>1, IdleReads, RegexStutters
<1> QED
  BY <1>1, <1>2, <1>3, <1>4, <1>5, <1>6, <1>7, <1>8, <1>9, <1>10 DEF LoadNext

(* The elements of the signatures, with their ids, are the rules.          *)
LEMMA ElementsAreRules ==
    ASSUME LoadInv
    PROVE  AllRules =
              [s \in DOMAIN HttpSigs |->
                 [e \in DOMAIN HttpSigs[s].elements |->
                   [class |-> HttpSigs[s].elements[e].class,
                    low |-> HttpSigs[s].id,
                    text |-> HttpSigs[s].elements[e].text]]]
<1> DEFINE Made(s) == [e \in DOMAIN HttpSigs[s].elements |->
                         [class |-> HttpSigs[s].elements[e].class,
                          low |-> HttpSigs[s].id,
                          text |-> HttpSigs[s].elements[e].text]]
<1>1. ASSUME NEW s \in DOMAIN HttpSigs
      PROVE  RegexEntries(HttpSigs[s].match, HttpSigs[s].id) = Made(s)
  <2> DEFINE sig == HttpSigs[s]
             parts == Parts(sig.match)
  <2>1. sig.elements = Elements(sig.match)
    <3>1. HttpSigs[s] \in SigForm
      BY <1>1, HttpSigsRead, AllRulesRead, ElementOfSeq
    <3> QED
      BY <3>1, SigFields
  <2> HIDE DEF parts, sig
  <2>2. Elements(sig.match) =
            [i \in DOMAIN parts |->
                [class |-> get_element_id_from_sig(parts[i]),
                 text |-> get_key_from_sig(parts[i])]]
    BY DEF Elements, parts
  <2>3. /\ DOMAIN sig.elements = DOMAIN parts
        /\ \A i \in DOMAIN parts :
              /\ sig.elements[i].class = get_element_id_from_sig(parts[i])
              /\ sig.elements[i].text = get_key_from_sig(parts[i])
    BY <2>1, <2>2
  <2>4. RegexEntries(sig.match, sig.id) =
            [i \in DOMAIN parts |->
                [class |-> get_element_id_from_sig(parts[i]),
                 low |-> sig.id,
                 text |-> get_key_from_sig(parts[i])]]
    BY DEF RegexEntries, parts
  <2>5. RegexEntries(sig.match, sig.id) =
            [e \in DOMAIN sig.elements |->
                [class |-> sig.elements[e].class,
                 low |-> sig.id,
                 text |-> sig.elements[e].text]]
    BY <2>3, <2>4
  <2> QED
    BY <2>5 DEF sig
<1>2. AllRules = [s \in DOMAIN HttpSigs |-> Made(s)]
  <2> HIDE DEF Made
  <2> QED
    BY <1>1 DEF AllRules
<1> QED
  BY <1>2

(* When all signatures are split, the rules are those of all of them, and  *)
(* the rules of a signature say of each element what its elements say.     *)
LEMMA RulesAgree ==
    ASSUME LoadInv, RulesSoFar
    PROVE  SearchesAgree
<1> DEFINE n == Len(HttpSigs)
           all == FlattenSeq(AllRules)
           h == Len(Headers)
           r == Len(all)
<1> SUFFICES ASSUME pc = "loaded"
             PROVE  SubSeq(app_list, Len(Headers) + 1, Len(app_list)) = all
  BY ElementsAreRules DEF SearchesAgree
<1>1. PICK k \in 0 .. n :
         /\ app_list = HeaderPatterns
                       \o SubSeq(FlattenSeq(AllRules), 1, Firsts(AllRules)[k])
         /\ unsplit = SubSeq(HttpSigs, k + 1, n) /\ unsplit = <<>>
  BY DEF RulesSoFar
<1>2. HttpSigs \in Seq(SigForm) /\ n \in Nat
  BY HttpSigsRead, AllRulesRead
<1>3. k = n
  <2> SUFFICES ASSUME k < n
               PROVE  FALSE
    BY <1>2
  <2>1. /\ k + 1 \in Int /\ n \in Int /\ k + 1 <= n
        /\ n - (k + 1) + 1 # 0
        /\ \A i \in k + 1 .. n : i \in 1 .. n
    BY <1>2
  <2>2. \A i \in k + 1 .. n : HttpSigs[i] \in SigForm
    BY <1>2, <2>1, ElementOfSeq
  <2>3. Len(SubSeq(HttpSigs, k + 1, n)) = n - (k + 1) + 1
    <3> HIDE DEF n
    <3> QED
      BY <2>1, <2>2, SubSeqProperties
  <2>4. Len(<<>>) = 0
    OBVIOUS
  <2> QED
    BY <1>1, <2>1, <2>3, <2>4
<1>4. app_list = HeaderPatterns \o all /\ all \in Seq(Patterns)
  BY <1>1, <1>2, <1>3, RulesUpTo
<1>5. HeaderPatterns \in Seq(Patterns) /\ Len(HeaderPatterns) = h /\ h = 5
      /\ r \in Nat
  BY <1>4, HeadersRead, LenProperties DEF Headers
<1> HIDE DEF all, h, r
<1>6. /\ app_list \in Seq(Patterns) /\ Len(app_list) = h + Len(all)
      /\ \A i \in 1 .. h + Len(all) :
            app_list[i] = IF i <= h THEN HeaderPatterns[i] ELSE all[i - h]
  <2> DEFINE hp == HeaderPatterns
  <2>1. hp \in Seq(Patterns) /\ Len(hp) = h
    BY <1>5
  <2>2. app_list = hp \o all
    BY <1>4
  <2> HIDE DEF hp
  <2>3. /\ hp \o all \in Seq(Patterns) /\ Len(hp \o all) = Len(hp) + Len(all)
        /\ \A i \in 1 .. Len(hp) + Len(all) :
              (hp \o all)[i] = IF i <= Len(hp) THEN hp[i] ELSE all[i - Len(hp)]
    BY <1>4, <2>1, ConcatProperties
  <2> QED
    BY <2>1, <2>2, <2>3 DEF hp
<1> DEFINE rest == SubSeq(app_list, h + 1, Len(app_list))
<1>7. /\ rest \in Seq(Patterns) /\ Len(rest) = r
      /\ \A i \in 1 .. r : rest[i] = app_list[h + i]
  <2>1. /\ h + 1 \in Int /\ h + r \in Int
        /\ \A i \in h + 1 .. h + r : i \in 1 .. h + r
    BY <1>5
  <2>2. Len(app_list) = h + r
    BY <1>6 DEF r
  <2>3. \A i \in h + 1 .. h + r : app_list[i] \in Patterns
    BY <1>6, <2>1, <2>2, ElementOfSeq
  <2>4. /\ rest \in Seq(Patterns)
        /\ Len(rest) = (IF h + 1 <= h + r THEN (h + r) - (h + 1) + 1 ELSE 0)
        /\ \A i \in 1 .. (h + r) - (h + 1) + 1 : rest[i] = app_list[(h + 1) + i - 1]
    BY <2>1, <2>2, <2>3, SubSeqProperties
  <2> HIDE DEF rest
  <2>5. (h + r) - (h + 1) + 1 = r
    BY <1>5
  <2>6. \A i \in 1 .. r : (h + 1) + i - 1 = h + i
    BY <1>5
  <2>7. Len(rest) = r
    BY <1>5, <2>4
  <2> QED
    BY <2>4, <2>5, <2>6, <2>7
<1>8. \A i \in 1 .. r : app_list[h + i] = all[i]
  <2> TAKE i \in 1 .. r
  <2>1. h + i \in 1 .. h + r /\ ~ (h + i <= h) /\ (h + i) - h = i
    BY <1>5
  <2> QED
    BY <1>6, <2>1 DEF r
<1> HIDE DEF rest
<1>9. rest = all
  BY <1>4, <1>7, <1>8, SeqEqual DEF r
<1> QED
  BY <1>9 DEF rest, h

(* Both searches look for the same texts, for every configuration file:    *)
(* the rules handed to the regular expressions are the headers and, for    *)
(* each HTTP signature, one for each of its elements, in order, with its   *)
(* class and its text, though parse_http_sig splits the text anew.         *)
THEOREM SearchesLookForTheSame == LoadSpec => []SearchesAgree
<1>1. LoadInit => LoadInv /\ RulesSoFar
  <2>1. LoadInit => RulesSoFar
    BY DEF LoadInit, RulesSoFar
  <2> QED
    BY <2>1, ReadInitially
<1>2. LoadInv /\ RulesSoFar /\ [LoadNext]_loadVars => LoadInv' /\ RulesSoFar'
  BY LoadStep
<1>3. LoadInv /\ RulesSoFar => SearchesAgree
  BY RulesAgree
<1> QED
  BY <1>1, <1>2, <1>3, PTL DEF LoadSpec

-----------------------------------------------------------------------------
(* From the file to the tables.                                            *)

(* The categories of the applications read are numbers cate_num has. *)
InRange == \A a \in DOMAIN app_root : app_root[a].category \in Category

(* The steps of install_Application and of what follows it.                *)
Installing ==
    pc \in {"count", "alloc", "app", "sig", "dump", "done", "wild"}

(* The tables are untouched while the file is read; then they are built    *)
(* from what was read.                                                     *)
FromFile ==
    /\ pc = "load" => TablesInit
    /\ InRange /\ Installing => TabInv /\ DumpShowsAll

(* Every element is of a class.                                            *)
LEMMA ClassRead == \A part : get_element_id_from_sig(part) \in Class
BY DEF get_element_id_from_sig, Class

(* The elements of a text have classes.                                    *)
LEMMA ElementsRead ==
    ASSUME NEW match \in Seq(Atoms)
    PROVE  [e \in DOMAIN Elements(match) |-> Elements(match)[e].class] \in Seq(Class)
<1> DEFINE parts == Parts(match)
           n == Len(parts)
           classes == [e \in DOMAIN Elements(match) |-> Elements(match)[e].class]
<1>1. n \in Nat /\ DOMAIN parts = 1 .. n
  <2>1. parts \in Seq(Seq(Atoms))
    BY PartsRead
  <2> HIDE DEF parts
  <2> QED
    BY <2>1, LenProperties
<1>2. Elements(match) =
          [i \in DOMAIN parts |->
              [class |-> get_element_id_from_sig(parts[i]),
               text |-> get_key_from_sig(parts[i])]]
  BY DEF Elements
<1> HIDE DEF parts, n
<1>3. classes = [e \in 1 .. n |-> get_element_id_from_sig(parts[e])]
  BY <1>1, <1>2
<1>4. classes \in [1 .. n -> Class]
  <2> HIDE DEF classes
  <2> QED
    BY <1>3, ClassRead
<1> HIDE DEF classes
<1>5. classes \in Seq(Class)
  BY <1>1, <1>4, SeqDef
<1> QED
  BY <1>5 DEF classes

(* What was read is a list of applications the tables are built for.       *)
LEMMA ClassesListed ==
    ASSUME LoadInv, InRange
    PROVE  Classes(app_root) \in Seq(Application)
<1> DEFINE n == Len(app_root)
           One(a) == [id |-> app_root[a].id,
                      category |-> app_root[a].category,
                      sigs |-> [s \in DOMAIN app_root[a].sigs |->
                         [e \in DOMAIN app_root[a].sigs[s].elements |->
                             app_root[a].sigs[s].elements[e].class]]]
<1>1. app_root \in Seq(AppForm) /\ n \in Nat /\ DOMAIN app_root = 1 .. n
  BY LenProperties DEF LoadInv
<1>2. ASSUME NEW a \in 1 .. n
      PROVE  One(a) \in Application
  <2> DEFINE list == app_root[a].sigs
             Of(s) == [e \in DOMAIN list[s].elements |-> list[s].elements[e].class]
             out == [s \in DOMAIN list |-> Of(s)]
  <2>1. /\ app_root[a].id \in Nat /\ app_root[a].category \in Category
        /\ list \in Seq(SigForm)
    <3>1. app_root[a] \in AppForm
      BY <1>1, ElementOfSeq
    <3> QED
      BY <1>1, <3>1 DEF AppForm, InRange
  <2> HIDE DEF list
  <2>2. Len(list) \in Nat /\ DOMAIN list = 1 .. Len(list)
    BY <2>1, LenProperties
  <2>3. \A s \in 1 .. Len(list) : Of(s) \in Seq(Class)
    <3> TAKE s \in 1 .. Len(list)
    <3>1. list[s] \in SigForm
      BY <2>1, ElementOfSeq
    <3>2. list[s].match \in Seq(Atoms) /\ list[s].elements = Elements(list[s].match)
      BY <3>1, SigFields
    <3>3. [e \in DOMAIN Elements(list[s].match) |-> Elements(list[s].match)[e].class]
             \in Seq(Class)
      BY <3>2, ElementsRead
    <3> QED
      BY <3>2, <3>3
  <2> DEFINE T == Seq(Class)
  <2>4. out \in [1 .. Len(list) -> T]
    <3> HIDE DEF T, Of
    <3>1. \A s \in 1 .. Len(list) : Of(s) \in T
      BY <2>3 DEF T
    <3> QED
      BY <2>2, <3>1
  <2>5. out \in Seq(T)
    <3> HIDE DEF T, out
    <3> QED
      BY <2>2, <2>4, SeqDef
  <2>6. One(a) = [id |-> app_root[a].id, category |-> app_root[a].category,
                  sigs |-> out]
    BY DEF list
  <2> HIDE DEF out, One
  <2> QED
    BY <2>1, <2>5, <2>6 DEF Application
<1>3. Classes(app_root) = [a \in 1 .. n |-> One(a)]
  BY <1>1 DEF Classes
<1> HIDE DEF One, n
<1>4. Classes(app_root) \in [1 .. n -> Application]
  BY <1>2, <1>3
<1> QED
  BY <1>1, <1>4, SeqDef

(* The tables begin as StartTabInv has them.                               *)
LEMMA Resumed ==
    (pc = "count" /\ Listed /\ root = config /\ TablesInit)'
        => (TabInv /\ DumpShowsAll)'
<1>1. pc = "count" => DumpShowsAll
  BY DEF DumpShowsAll
<1> QED
  BY <1>1, StartTabInv, PTL

(* The tables are untouched by steps that are not theirs.                  *)
LEMMA SameTables ==
    ASSUME UNCHANGED <<summary, tables, dumped>>, TablesInit
    PROVE  TablesInit'
BY DEF summary, tables, TablesInit

(* The parser's steps; the last hands the applications to the tables.      *)
LEMMA FileRead ==
    ASSUME LoadInv, FromFile,
           Shift \/ KeyValuePair \/ AppSig \/ AppEnd \/ FileFails \/ EndLoad
    PROVE  FromFile'
<1>1. TablesInit' /\ UNCHANGED <<summary, tables, dumped>>
  <2>1. pc = "load" /\ UNCHANGED <<summary, tables, dumped>>
    BY DEF Shift, KeyValuePair, AppSig, AppEnd, FileFails, EndLoad, Reduce, vars
  <2> QED
    BY <2>1, SameTables DEF FromFile
<1>2. CASE EndLoad
  <2>1. /\ config' = Classes(app_root) /\ root' = config' /\ app_root' = app_root
        /\ pc' \in {"crash", "count"}
    BY <1>2 DEF EndLoad, parserVars
  <2>2. ASSUME InRange', pc' = "count"
        PROVE  (TabInv /\ DumpShowsAll)'
    <3>1. InRange
      BY <2>1, <2>2 DEF InRange
    <3>2. Listed'
      BY <2>1, <3>1, ClassesListed DEF Listed
    <3>3. (pc = "count" /\ Listed /\ root = config /\ TablesInit)'
      BY <1>1, <2>1, <2>2, <3>2
    <3> QED
      BY <3>3, Resumed
  <2> QED
    BY <1>1, <2>1, <2>2 DEF FromFile, Installing
<1>3. CASE Shift \/ KeyValuePair \/ AppSig \/ AppEnd \/ FileFails
  <2>1. pc' \in {"load", "crash", "exit"}
    BY <1>3 DEF Shift, KeyValuePair, AppSig, AppEnd, FileFails, Reduce, vars
  <2> QED
    BY <1>1, <2>1 DEF FromFile, Installing
<1> QED
  BY <1>2, <1>3

(* The steps of the tables.                                                *)
LEMMA TablesBuilt ==
    ASSUME FromFile, Next, UNCHANGED <<parserVars, unsplit>>
    PROVE  FromFile'
<1>1. Installing /\ pc' # "load"
  BY DEF Next, Count, EndCount, Alloc, AllocFails, BeginApp, InstallSig, EndApp,
         EndInstall, Dump, Installing
<1>2. InRange' <=> InRange
  BY DEF InRange, parserVars
<1>3. ASSUME InRange
      PROVE  TabInv' /\ DumpShowsAll'
  <2>1. TabInv /\ DumpShowsAll
    BY <1>1, <1>3 DEF FromFile
  <2>2. DumpShowsAll'
    BY <2>1, DumpStep
  <2>3. TabInv'
    BY <2>1, CountTabs, EndCountTabs, AllocTabs, AllocFailsTabs, BeginAppTabs,
       InstallSigTabs, EndAppTabs, EndInstallTabs, DumpTabs DEF Next
  <2> QED
    BY <2>2, <2>3
<1> QED
  BY <1>1, <1>2, <1>3 DEF FromFile

(* Every step of the loader.                                               *)
LEMMA FromFileStep ==
    ASSUME LoadInv, FromFile, [LoadNext]_loadVars
    PROVE  FromFile'
<1>1. CASE Shift \/ KeyValuePair \/ AppSig \/ AppEnd \/ FileFails \/ EndLoad
  BY <1>1, FileRead
<1>2. CASE Next /\ UNCHANGED <<parserVars, unsplit>>
  BY <1>2, TablesBuilt
<1>3. CASE BeginRegex \/ SplitSig \/ EndRegex
  <2>1. pc' \in {"regex", "crash", "loaded"}
    BY <1>3 DEF BeginRegex, SplitSig, EndRegex
  <2> QED
    BY <2>1 DEF FromFile, Installing
<1>4. CASE UNCHANGED loadVars
  <2>1. /\ UNCHANGED vars /\ app_root' = app_root
    BY <1>4 DEF loadVars, parserVars
  <2>2. pc' = pc /\ UNCHANGED <<summary, tables, dumped>>
    BY <2>1 DEF vars
  <2>3. TabInv /\ DumpShowsAll => TabInv' /\ DumpShowsAll'
    BY <2>1, SameTabs, DumpStep
  <2>4. pc = "load" => TablesInit'
    BY <2>2, SameTables DEF FromFile
  <2> QED
    BY <2>1, <2>2, <2>3, <2>4 DEF FromFile, InRange, Installing
<1> QED
  BY <1>1, <1>2, <1>3, <1>4 DEF LoadNext

(* The tables built from a file are exact, for every file whose categories *)
(* are below MAX_CATEGORY_ID, whatever else is in it and whatever the      *)
(* memory held.                                                            *)
THEOREM LoadedTablesExact ==
    LoadSpec => [](InRange => /\ SlotsExact /\ ChainsExact /\ LayoutExact
                              /\ PatternsDecode /\ DumpShowsAll)
<1> DEFINE Exact == /\ SlotsExact /\ ChainsExact /\ LayoutExact
                    /\ PatternsDecode /\ DumpShowsAll
<1>1. LoadInit => LoadInv /\ RulesSoFar /\ FromFile
  <2>1. LoadInit => RulesSoFar /\ FromFile
    BY DEF LoadInit, RulesSoFar, FromFile, Installing
  <2> QED
    BY <2>1, ReadInitially
<1>2. LoadInv /\ RulesSoFar /\ FromFile /\ [LoadNext]_loadVars
         => LoadInv' /\ RulesSoFar' /\ FromFile'
  BY LoadStep, FromFileStep
<1>3. FromFile => (InRange => Exact)
  <2>1. FromFile /\ InRange /\ Installing => Exact
    BY SlotsFromTabs, ChainsFromTabs, LayoutFromTabs, PatternsFromTabs
    DEF FromFile
  <2>2. ~ Installing => Exact
    BY DEF Installing, Loaded, SlotsExact, ChainsExact, LayoutExact,
           PatternsDecode, DumpShowsAll
  <2> QED
    BY <2>1, <2>2
<1> QED
  BY <1>1, <1>2, <1>3, PTL DEF LoadSpec
=============================================================================
