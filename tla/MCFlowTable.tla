---------------------------- MODULE MCFlowTable -----------------------------
(***************************************************************************)
(* A small session table: two hosts, two ports, one protocol.  The hash    *)
(* has two buckets and, like hash5tuple, is symmetric in the addresses and *)
(* not in the ports, so that the two directions of a conversation fall     *)
(* sometimes into one bucket and sometimes into two, and conversations     *)
(* collide.                                                                *)
(***************************************************************************)
EXTENDS FlowTable

MCIp == {1, 2}
MCPort == {0, 1}
MCBucket == {0, 1}
MCHash == [t \in Tuple |-> (t.sip + t.dip + t.sport) % 2]
=============================================================================
