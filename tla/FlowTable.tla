----------------------------- MODULE FlowTable ------------------------------
(***************************************************************************)
(* The session table of app_identify/session.c.                            *)
(*                                                                         *)
(* Sessions are never freed, so the i-th session calloc returned has the   *)
(* address i and session_table, the TAILQ every session is appended to, is *)
(* also the heap: session_table[i] is the session at address i.  A session *)
(* embeds two flow_t objects, flow0 (the direction of the packet that      *)
(* opened it) and flow1 (the reverse one); each is linked into the bucket  *)
(* of htable its own 5-tuple hashes to.                                    *)
(***************************************************************************)
EXTENDS Naturals, Sequences

CONSTANTS
    Ip,           \* IPv4 addresses
    Port,         \* TCP/UDP port numbers
    Proto,        \* values of the IP protocol field
    Bucket,       \* the indexes of htable: 0..5470 in the code
    Hash,         \* hash5tuple: any function into Bucket, collisions included
    MaxSessions   \* bound of the model: sessions the heap has room for

Tuple == [sip : Ip, dip : Ip, sport : Port, dport : Port, proto : Proto]

ASSUME HashAssumption == Hash \in [Tuple -> Bucket]
ASSUME MaxAssumption == MaxSessions \in Nat

VARIABLES
    htable,         \* flow_table.htable: Bucket -> list of flows
    session_table,  \* the list of all sessions
    g_next_sess_id, \* the last session id given out
    ret             \* what the last call of session_table_find returned

vars == <<htable, session_table, g_next_sess_id, ret>>

NULL == 0

(* The 5-tuple of the other direction. *)
Rev(t) == [sip |-> t.dip, dip |-> t.sip,
           sport |-> t.dport, dport |-> t.sport, proto |-> t.proto]

Conv(t) == {t, Rev(t)}

(* "side" tells the two flow_t objects embedded in a session apart. *)
Flow == [psess : Nat, side : {0, 1}, key : Tuple]

Session == [session_id : Nat, flow0 : Flow, flow1 : Flow]

(* Faulty form of NewSession: flow1 keeps the ports of the forward tuple. *)
NewSession_PortsKept(p, id, t) ==
    [session_id |-> id,
     flow0 |-> [psess |-> p, side |-> 0, key |-> t],
     flow1 |-> [psess |-> p, side |-> 1,
                key |-> [Rev(t) EXCEPT !.sport = t.sport, !.dport = t.dport]]]

(* The calloc'ed session at address p, once its fields are set. *)
NewSession(p, id, t) ==
    [session_id |-> id,
     flow0 |-> [psess |-> p, side |-> 0, key |-> t],
     flow1 |-> [psess |-> p, side |-> 1, key |-> Rev(t)]]

InsertHead(x, list) == <<x>> \o list

(* Faulty form of Matches: the destination port is not compared. *)
Matches_NoDport(list, t) ==
    {i \in DOMAIN list : [list[i].key EXCEPT !.dport = t.dport] = t}

(* One TAILQ_FOREACH of session_table_find: the session of the first flow  *)
(* of a bucket whose 5-tuple is t.                                         *)
Matches(list, t) == {i \in DOMAIN list : list[i].key = t}

Scan(list, t) ==
    IF Matches(list, t) = {} THEN NULL
    ELSE list[CHOOSE i \in Matches(list, t) :
                 \A j \in Matches(list, t) : i <= j].psess

(* Both loops compare the flow with the forward tuple; the second one only *)
(* changes the bucket.                                                     *)
Lookup(t) ==
    IF Scan(htable[Hash[t]], t) # NULL THEN Scan(htable[Hash[t]], t)
    ELSE Scan(htable[Hash[Rev(t)]], t)

-----------------------------------------------------------------------------

(* The state create_session_table leaves.  That it finds no memory for the *)
(* buckets is a case of PacketPath, where the first lookup runs into it.   *)
Init == /\ htable = [b \in Bucket |-> <<>>]
        /\ session_table = <<>>
        /\ g_next_sess_id = 0
        /\ ret = NULL

Found(t) == /\ Lookup(t) # NULL
            /\ ret' = Lookup(t)
            /\ UNCHANGED <<htable, session_table, g_next_sess_id>>

(* Faulty forms of File: flow1 is linked into the bucket of flow0, or is   *)
(* not linked at all.                                                      *)
File_SameBucket(tab, s) ==
    LET tab0 == [tab EXCEPT ![Hash[s.flow0.key]] = InsertHead(s.flow0, @)]
    IN  [tab0 EXCEPT ![Hash[s.flow0.key]] = InsertHead(s.flow1, @)]

File_ForwardOnly(tab, s) ==
    [tab EXCEPT ![Hash[s.flow0.key]] = InsertHead(s.flow0, @)]

(* flow0 goes first into its bucket, then flow1 into its own, which is the *)
(* same one when the two tuples collide.                                   *)
File(tab, s) ==
    LET tab0 == [tab EXCEPT ![Hash[s.flow0.key]] = InsertHead(s.flow0, @)]
    IN  [tab0 EXCEPT ![Hash[s.flow1.key]] = InsertHead(s.flow1, @)]

(* Faulty form of Create: a session is opened without looking for one. *)
Create_NoLookup(t) ==
    LET p == Len(session_table) + 1
        s == NewSession(p, g_next_sess_id + 1, t)
    IN  /\ Len(session_table) < MaxSessions
        /\ g_next_sess_id' = g_next_sess_id + 1
        /\ htable' = File(htable, s)
        /\ session_table' = Append(session_table, s)
        /\ ret' = p

Create(t) ==
    LET p == Len(session_table) + 1
        s == NewSession(p, g_next_sess_id + 1, t)
    IN  /\ Lookup(t) = NULL
        /\ Len(session_table) < MaxSessions
        /\ g_next_sess_id' = g_next_sess_id + 1
        /\ htable' = File(htable, s)
        /\ session_table' = Append(session_table, s)
        /\ ret' = p

(* Faulty form of AllocFails: the result of calloc is not tested. *)
AllocFails_Unchecked(t) ==
    /\ Lookup(t) = NULL
    /\ ret' = Len(session_table) + 1
    /\ UNCHANGED <<htable, session_table, g_next_sess_id>>

(* calloc may fail long before the model's own bound is reached. *)
AllocFails(t) == /\ Lookup(t) = NULL
                 /\ ret' = NULL
                 /\ UNCHANGED <<htable, session_table, g_next_sess_id>>

(* session_table_find *)
Find(t) == Found(t) \/ Create(t) \/ AllocFails(t)

Next == \E t \in Tuple : Find(t)

Spec == Init /\ [][Next]_vars

-----------------------------------------------------------------------------

TypeOK == /\ htable \in [Bucket -> Seq(Flow)]
          /\ session_table \in Seq(Session)
          /\ g_next_sess_id \in Nat
          /\ ret \in 0..Len(session_table)

Elems(list) == {list[i] : i \in DOMAIN list}

NoRepeat(list) == \A i, j \in DOMAIN list : list[i] = list[j] => i = j

(* The flow_t objects that exist. *)
LiveFlows == {session_table[p].flow0 : p \in DOMAIN session_table} \cup
             {session_table[p].flow1 : p \in DOMAIN session_table}

(* Every flow of every session is linked exactly once, into the bucket its *)
(* own tuple hashes to, and the buckets hold nothing else: a flow linked   *)
(* twice would corrupt the intrusive list, one linked elsewhere would      *)
(* never be found (session.c:78-79).                                       *)
FiledOnce ==
    \A b \in Bucket :
        /\ Elems(htable[b]) = {f \in LiveFlows : Hash[f.key] = b}
        /\ NoRepeat(htable[b])

(* No two sessions track the same conversation, whichever end spoke first. *)
OnePerConversation ==
    \A p, q \in DOMAIN session_table :
        Conv(session_table[p].flow0.key) = Conv(session_table[q].flow0.key)
            => p = q

(* A packet and its answer are looked up to the same session, although     *)
(* the lookup compares the forward tuple only and the two directions       *)
(* usually hash to different buckets.                                      *)
BothDirections == \A t \in Tuple : Lookup(t) = Lookup(Rev(t))

(* The loop "find on the reverse direction" (session.c:47-53) never        *)
(* changes an answer: what the first bucket does not hold, the second does *)
(* not hold either.                                                        *)
SecondScanIdle == \A t \in Tuple : Lookup(t) = Scan(htable[Hash[t]], t)

(* A conversation keeps its session for ever: no later insertion, into the *)
(* same bucket or another, hides or replaces it.                           *)
LookupStable ==
    [][\A t \in Tuple : Lookup(t) # NULL => Lookup(t)' = Lookup(t)]_vars

(* The table behaves as a map from conversations to sessions. *)
Tracked == {Conv(session_table[p].flow0.key) : p \in DOMAIN session_table}

Owner == [c \in Tracked |->
            CHOOSE p \in DOMAIN session_table :
                Conv(session_table[p].flow0.key) = c]

Abstract == INSTANCE SessionMap WITH session <- Owner

ImplementsSessionMap == Abstract!Spec

(* And it does so call by call: what session_table_find(t) answers is what *)
(* the map answers for t, not for some other tuple.                        *)
AnswersEachCall == [][\A t \in Tuple : Find(t) => Abstract!Find(t)]_vars
=============================================================================
