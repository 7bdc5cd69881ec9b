----------------------------- MODULE SessionMap -----------------------------
(***************************************************************************)
(* What app_identify/session.c promises to packet_handler: a session per   *)
(* conversation, where the two directions of a 5-tuple are one             *)
(* conversation.  Nothing here speaks of buckets, lists or scans: the      *)
(* module FlowTable is shown to implement it.                              *)
(***************************************************************************)
EXTENDS Naturals

CONSTANTS
    Ip,        \* IPv4 addresses
    Port,      \* TCP/UDP port numbers
    Proto      \* values of the IP protocol field

VARIABLES
    session,   \* conversation -> the session that tracks it
    ret        \* what the last call of session_table_find returned

vars == <<session, ret>>

NULL == 0

Tuple == [sip : Ip, dip : Ip, sport : Port, dport : Port, proto : Proto]

Rev(t) == [sip |-> t.dip, dip |-> t.sip,
           sport |-> t.dport, dport |-> t.sport, proto |-> t.proto]

(* Both directions of a connection are the same conversation. *)
Conv(t) == {t, Rev(t)}

Conversation == {Conv(t) : t \in Tuple}

-----------------------------------------------------------------------------

Init == /\ session = [c \in {} |-> NULL]
        /\ ret = NULL

(* A tracked conversation always answers with its own session. *)
Known(t) == /\ Conv(t) \in DOMAIN session
            /\ ret' = session[Conv(t)]
            /\ UNCHANGED session

(* The first packet of a conversation opens a session no other one has. *)
Open(t) == /\ Conv(t) \notin DOMAIN session
           /\ ret' \in Nat \ {NULL}
           /\ \A c \in DOMAIN session : session[c] # ret'
           /\ session' = [c \in DOMAIN session \cup {Conv(t)} |->
                            IF c = Conv(t) THEN ret' ELSE session[c]]

(* With the heap exhausted a new conversation is refused, and only that. *)
Refuse(t) == /\ Conv(t) \notin DOMAIN session
             /\ ret' = NULL
             /\ UNCHANGED session

Find(t) == Known(t) \/ Open(t) \/ Refuse(t)

Next == \E t \in Tuple : Find(t)

Spec == Init /\ [][Next]_vars
=============================================================================
