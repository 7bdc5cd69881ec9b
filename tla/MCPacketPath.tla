---------------------------- MODULE MCPacketPath ----------------------------
(***************************************************************************)
(* Frames of two hosts, cut before, inside, at the end of and after the    *)
(* headers, with the shortest and the usual header lengths.                *)
(***************************************************************************)
EXTENDS PacketPath

MCIp == {1, 2}
MCPort == {0}
MCProto == {1, 6, 17}
MCBucket == {0, 1}
MCHash == [t \in Tuple |-> (t.sip + t.dip + t.proto) % 2]
MCCaplen == {14, 42, 43, 55}
MCWords == {0, 5}
=============================================================================
