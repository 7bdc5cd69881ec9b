----------------------------- MODULE SigLayout ------------------------------
(***************************************************************************)
(* The tables the scanner reads (struct element_entry_s in                 *)
(* app_identify/loader/application.h), as a function of the signatures.    *)
(* Signatures are numbered from 0 in the order of the configuration file   *)
(* and each one is the sequence of the classes of its elements; elements   *)
(* are numbered from 0 across all signatures.                              *)
(***************************************************************************)
EXTENDS Integers, SequencesExt

CONSTANT SENTINEL     \* 0xFFFF, the last value of a ushort

ASSUME SentinelAssumption == SENTINEL \in Nat

(* get_element_id_from_sig: http_host, http_ua, http_re, http_url, or 0    *)
(* for any other name.                                                     *)
Class == 0 .. 4

START == "start"
MID == "mid"
END == "end"

Flags == {START, MID, END}

Ushort(n) == n % (SENTINEL + 1)

(* The number of the first element of each signature: k signatures are     *)
(* before signature k.                                                     *)
FirstEles(sigs) ==
    LET first[k \in 0 .. Len(sigs)] ==
            IF k = 0 THEN 0 ELSE first[k - 1] + Len(sigs[k])
    IN  first

FirstEle(sigs, k) == FirstEles(sigs)[k]

NumEles(sigs) == FirstEle(sigs, Len(sigs))

(* Which signature an element belongs to. *)
SigOf(sigs, o) ==
    CHOOSE k \in 0 .. Len(sigs) - 1 :
        o \in FirstEle(sigs, k) .. FirstEle(sigs, k + 1) - 1

ClassOf(sigs, o) ==
    sigs[SigOf(sigs, o) + 1][o - FirstEle(sigs, SigOf(sigs, o)) + 1]

(* The flags of the i-th of n elements, counted from 0. *)
FlagOf(i, n) == (IF i = 0 THEN {START} ELSE {MID}) \cup
                (IF i = n - 1 THEN {END} ELSE {})

(* The entry of an element: the signature, its place in it, and the number *)
(* of the element expected next.                                           *)
EleTable(sigs) ==
    [o \in 0 .. NumEles(sigs) - 1 |->
        LET k == SigOf(sigs, o)
            last == o = FirstEle(sigs, k + 1) - 1
        IN  [sigindex |-> k,
             flag |-> FlagOf(o - FirstEle(sigs, k), Len(sigs[k + 1])),
             exp_ele_index |-> IF last THEN SENTINEL ELSE o + 1]]
=============================================================================
