----------------------------- MODULE MCAcSearch -----------------------------
(***************************************************************************)
(* Searches of payloads of up to five bytes of three values, two of which  *)
(* are the same letter in both cases.  The patterns overlap, one of them   *)
(* lies inside another and one is a suffix of another.                     *)
(***************************************************************************)
EXTENDS AcSearch

MCByte == {0, 1, 2}
MCxlatcase == [b \in MCByte |-> IF b = 2 THEN 1 ELSE b]
MCPool == {<<1>>, <<0, 1>>, <<1, 1>>, <<0, 1, 0>>, <<1, 0, 0, 1>>}

Dfa(fmt) == <<"DFA", fmt>>
Nfa(fmt) == <<"NFA", fmt>>

(* Every pair of machine type and format but the nondeterministic machine  *)
(* with banded rows, which are not read as they are written.               *)
MCMachines == {Dfa(fmt) : fmt \in Rows!Format} \cup
              {Nfa(Rows!ACF_SPARSE), Nfa(Rows!ACF_SPARSEBANDS),
               Nfa(Rows!ACF_FULL)}

(* What sig_parse_adapter_ac selects. *)
MCProgram == {Dfa(Rows!ACF_BANDED)}
=============================================================================
