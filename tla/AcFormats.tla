----------------------------- MODULE AcFormats ------------------------------
(***************************************************************************)
(* The storage formats of a row of the Aho-Corasick transition table       *)
(* (app_identify/loader/acsmx2.c).  The list of transitions of a state is  *)
(* expanded to a full vector and then packed into an array of words ps     *)
(* (0-based, as in C); the searches unpack it, one input at a time.        *)
(*                                                                         *)
(* ps[0] is the format of the row and ps[1] its match flag.  A read past   *)
(* the allocated words is a function applied outside its domain, which TLC *)
(* reports.                                                                *)
(***************************************************************************)
EXTENDS Integers, SequencesExt

CONSTANTS
    AlphabetSize,   \* acsmAlphabetSize: 256 in the program
    States,         \* the state numbers a row may hold, 0 included
    MaxRowNodes,    \* acsmSparseMaxRowNodes: 256 in the program
    MaxZcnt,        \* acsmSparseMaxZcnt: 10 in the program
    FAIL            \* 0xffffffff: ACSM_FAIL_STATE2, and -1 stored in a word

Input == 0 .. AlphabetSize - 1

ASSUME AlphabetAssumption == AlphabetSize \in Nat \ {0}
ASSUME StatesAssumption == States \subseteq Nat /\ 0 \in States
ASSUME FailAssumption ==
    FAIL \in Nat /\ FAIL \notin States /\ FAIL >= AlphabetSize

ACF_FULL == 0
ACF_SPARSE == 1
ACF_BANDED == 2
ACF_SPARSEBANDS == 3
ACF_FULLQ == 4

Format == {ACF_FULL, ACF_SPARSE, ACF_BANDED, ACF_SPARSEBANDS, ACF_FULLQ}

(* A row in full format: the next state of every input. *)
FullRow == [Input -> States]

NonZero(full) == {i \in Input : full[i] # 0}

(* The inputs of a set in the order a loop over the alphabet meets them.   *)
Ascending(S) ==
    LET upTo[i \in 0 .. AlphabetSize] ==
            IF i = 0 THEN <<>>
            ELSE IF i - 1 \in S THEN Append(upTo[i - 1], i - 1)
            ELSE upTo[i - 1]
    IN  upTo[AlphabetSize]

(* A word array with the elements of a sequence. *)
Words(seq) == [i \in 0 .. Len(seq) - 1 |-> seq[i + 1]]

-----------------------------------------------------------------------------
(* Packing.                                                                *)

(* Conv_List_To_Full: the vector itself; a FULLQ row is tagged ACF_FULL.   *)
ToFull(full) ==
    [i \in 0 .. AlphabetSize + 1 |->
        IF i = 0 THEN ACF_FULL ELSE IF i = 1 THEN 0 ELSE full[i - 2]]

(* Faulty form of ToSparse: row 0 may be sparse, as any other row.         *)
ToSparse_RowZero(k, full) ==
    LET keys == Ascending(NonZero(full))
        cnt == Len(keys)
        Word(i) == IF i = 0 THEN ACF_SPARSE
                   ELSE IF i = 1 THEN 0
                   ELSE IF i = 2 THEN cnt
                   ELSE LET key == keys[(i - 3) \div 2 + 1]
                        IN  IF i % 2 = 1 THEN key ELSE full[key]
    IN  IF cnt > MaxRowNodes THEN ToFull(full)
        ELSE [i \in 0 .. 2 + 2 * cnt |-> Word(i)]

(* Conv_Full_DFA_To_Sparse: (input, next state) pairs in input order; row  *)
(* 0 and crowded rows stay full.                                           *)
ToSparse(k, full) ==
    LET keys == Ascending(NonZero(full))
        cnt == Len(keys)
        Word(i) == IF i = 0 THEN ACF_SPARSE
                   ELSE IF i = 1 THEN 0
                   ELSE IF i = 2 THEN cnt
                   ELSE LET key == keys[(i - 3) \div 2 + 1]
                        IN  IF i % 2 = 1 THEN key ELSE full[key]
    IN  IF k = 0 \/ cnt > MaxRowNodes THEN ToFull(full)
        ELSE [i \in 0 .. 2 + 2 * cnt |-> Word(i)]

FirstKey(full) == CHOOSE i \in NonZero(full) :
                  \A j \in NonZero(full) : i <= j

LastKey(full) == CHOOSE i \in NonZero(full) :
                  \A j \in NonZero(full) : i >= j

(* Faulty form of ToBanded: the band is one entry short.                   *)
ToBanded_Short(full) ==
    LET empty == NonZero(full) = {}
        first == IF empty THEN FAIL ELSE FirstKey(full)
        cnt == IF empty THEN 0 ELSE LastKey(full) - FirstKey(full)
    IN  [i \in 0 .. 3 + cnt |->
            IF i = 0 THEN ACF_BANDED
            ELSE IF i = 1 THEN 0
            ELSE IF i = 2 THEN cnt
            ELSE IF i = 3 THEN first
            ELSE full[first + i - 4]]

(* Conv_Full_DFA_To_Banded: the span from the first to the last non-zero   *)
(* entry.  A row with none has first = -1 and last = -2: an empty band     *)
(* that starts at the largest word.                                        *)
ToBanded(full) ==
    LET empty == NonZero(full) = {}
        first == IF empty THEN FAIL ELSE FirstKey(full)
        cnt == IF empty THEN 0 ELSE LastKey(full) - FirstKey(full) + 1
    IN  [i \in 0 .. 3 + cnt |->
            IF i = 0 THEN ACF_BANDED
            ELSE IF i = 1 THEN 0
            ELSE IF i = 2 THEN cnt
            ELSE IF i = 3 THEN first
            ELSE full[first + i - 4]]

(* calcSparseBands: a band runs on over at most MaxZcnt zeros in a row.    *)
BandBegins(full) ==
    {i \in NonZero(full) :
        \A j \in NonZero(full) : j < i => i - j - 1 > MaxZcnt}

BandEnd(full, b) ==
    CHOOSE e \in NonZero(full) :
        /\ e >= b
        /\ \A i \in BandBegins(full) : i > b => e < i
        /\ \A j \in NonZero(full) :
              (\A i \in BandBegins(full) : i > b => j < i) => j <= e

(* The words of a band: its length, its first input and its next states.   *)
BandWords(full, b) ==
    LET e == BandEnd(full, b)
    IN  <<e - b + 1, b>> \o [i \in 1 .. e - b + 1 |-> full[b + i - 1]]

(* The words written after the first n bands.                              *)
Filled(full, begins) ==
    LET words[n \in 0 .. Len(begins)] ==
            IF n = 0 THEN <<ACF_SPARSEBANDS, 0, Len(begins)>>
            ELSE words[n - 1] \o BandWords(full, begins[n])
    IN  words

(* Conv_Full_DFA_To_SparseBands: the bands one after the other.            *)
ToSparseBands(full) ==
    LET begins == Ascending(BandBegins(full))
    IN  Words(Filled(full, begins)[Len(begins)])

Pack(fmt, k, full) ==
    IF fmt = ACF_SPARSE THEN ToSparse(k, full)
    ELSE IF fmt = ACF_BANDED THEN ToBanded(full)
    ELSE IF fmt = ACF_SPARSEBANDS THEN ToSparseBands(full)
    ELSE ToFull(full)

-----------------------------------------------------------------------------
(* Unpacking, for a deterministic machine (SparseGetNextStateDFA and the   *)
(* inlined lookups of the full and banded searches).                       *)

NextFull(ps, input) == ps[2 + input]

NextBanded(ps, input) ==
    IF input < ps[3] THEN 0
    ELSE IF input >= ps[3] + ps[2] THEN 0
    ELSE ps[4 + input - ps[3]]

(* The first pair whose key is not below the input decides. *)
NextSparse(ps, input) ==
    LET stop == {j \in 0 .. ps[2] - 1 : ps[3 + 2 * j] >= input}
        j == CHOOSE j \in stop : \A i \in stop : j <= i
    IN  IF stop # {} /\ ps[3 + 2 * j] = input THEN ps[4 + 2 * j] ELSE 0

(* Where the words of the b-th band begin, counted from 0. *)
BandOffset(ps) ==
    LET off[b \in 0 .. ps[2]] ==
            IF b = 0 THEN 3 ELSE off[b - 1] + 2 + ps[off[b - 1]]
    IN  off

(* The first band that ends beyond the input decides. *)
NextSparseBands(ps, input) ==
    LET off == BandOffset(ps)
        stop == {b \in 0 .. ps[2] - 1 :
                    input < ps[off[b] + 1] + ps[off[b]]}
        p == off[CHOOSE b \in stop : \A i \in stop : b <= i]
    IN  IF stop = {} \/ input < ps[p + 1] THEN 0
        ELSE ps[p + 2 + input - ps[p + 1]]

GetNextStateDFA(ps, input) ==
    IF ps[0] = ACF_BANDED THEN NextBanded(ps, input)
    ELSE IF ps[0] = ACF_FULL THEN NextFull(ps, input)
    ELSE IF ps[0] = ACF_SPARSE THEN NextSparse(ps, input)
    ELSE IF ps[0] = ACF_SPARSEBANDS THEN NextSparseBands(ps, input)
    ELSE 0

(* Unpacking, for a nondeterministic machine (SparseGetNextStateNFA): no   *)
(* transition means FAIL, except from state 0, which stays.                *)
OrFail(state, next) == IF next = 0 /\ state # 0 THEN FAIL ELSE next

(* The pointer was advanced over two words only, so the band is read from  *)
(* its length word on.                                                     *)
NextBandedNFA(ps, state, input) ==
    IF input < ps[3] \/ input >= ps[3] + ps[2] THEN OrFail(state, 0)
    ELSE OrFail(state, ps[2 + input - ps[3]])

(* A key above the input ends the scan with FAIL, in state 0 as well: row  *)
(* 0 is never sparse.                                                      *)
NextSparseNFA(ps, state, input) ==
    LET stop == {j \in 0 .. ps[2] - 1 : ps[3 + 2 * j] >= input}
        j == CHOOSE j \in stop : \A i \in stop : j <= i
    IN  IF stop = {} THEN OrFail(state, 0)
        ELSE IF ps[3 + 2 * j] > input THEN FAIL
        ELSE ps[4 + 2 * j]

GetNextStateNFA(ps, state, input) ==
    IF ps[0] = ACF_BANDED THEN NextBandedNFA(ps, state, input)
    ELSE IF ps[0] = ACF_SPARSE THEN NextSparseNFA(ps, state, input)
    ELSE IF ps[0] = ACF_SPARSEBANDS THEN OrFail(state, NextSparseBands(ps, input))
    ELSE IF ps[0] = ACF_FULL THEN OrFail(state, NextFull(ps, input))
    ELSE 0
=============================================================================
