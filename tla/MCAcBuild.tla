----------------------------- MODULE MCAcBuild ------------------------------
(***************************************************************************)
(* Every machine of up to three patterns of one to three bytes over two    *)
(* inputs: shared prefixes, patterns inside patterns, repeated patterns    *)
(* and fail chains of length two all occur.                                *)
(***************************************************************************)
EXTENDS AcBuild

MCPool == UNION {[1 .. n -> {0, 1}] : n \in 1 .. 3}
=============================================================================
