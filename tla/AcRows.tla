------------------------------- MODULE AcRows -------------------------------
(***************************************************************************)
(* One row of the transition table on its way through the compilation:     *)
(* packed into the selected format, then flagged if its state has matches. *)
(***************************************************************************)
EXTENDS AcFormats

VARIABLES
    fmt,      \* acsmFormat
    k,        \* the number of the row
    full,     \* its next states
    hasMatch, \* acsmMatchList[k] # NULL
    ps,       \* NextState[k]
    pc        \* "list", "packed" or "flagged"

vars == <<fmt, k, full, hasMatch, ps, pc>>

Init == /\ fmt \in Format
        /\ k \in {0, 1}
        /\ full \in FullRow
        /\ hasMatch \in BOOLEAN
        /\ ps = Words(<<>>)
        /\ pc = "list"

(* The conversion the format selects in _acsmCompile2. *)
Convert == /\ pc = "list"
           /\ ps' = Pack(fmt, k, full)
           /\ pc' = "packed"
           /\ UNCHANGED <<fmt, k, full, hasMatch>>

(* acsmUpdateMatchStates *)
UpdateMatchStates ==
    /\ pc = "packed"
    /\ ps' = IF hasMatch THEN [ps EXCEPT ![1] = 1] ELSE ps
    /\ pc' = "flagged"
    /\ UNCHANGED <<fmt, k, full, hasMatch>>

Next == Convert \/ UpdateMatchStates

Spec == Init /\ [][Next]_vars

(* Whatever the format, a deterministic search reads from the packed row   *)
(* the transitions of the list it was built from, with or without the      *)
(* match flag, and never outside the row.                                  *)
DFADecodes ==
    pc # "list" => \A input \in Input : GetNextStateDFA(ps, input) = full[input]

(* A nondeterministic search reads the same transitions, and FAIL exactly  *)
(* where the list has none, from rows that are not banded.                 *)
NFADecodes ==
    pc # "list" /\ fmt # ACF_BANDED =>
        \A input \in Input :
            GetNextStateNFA(ps, k, input) = OrFail(k, full[input])
=============================================================================
