----------------------------- MODULE PacketPath -----------------------------
(***************************************************************************)
(* packet_handler (app_identify/packet_process.c): a captured frame is     *)
(* filtered, its session found or opened in the table of FlowTable, and    *)
(* its payload, if any was captured, scanned.  Only caplen is checked: the *)
(* fields of a frame cut short are whatever lies behind it.  The header    *)
(* length of TCP is any value as well: tcp_header declares seq and ack as  *)
(* u_long, so that a 64-bit build reads hlen from behind the real header.  *)
(***************************************************************************)
EXTENDS FlowTable

CONSTANTS
    Caplen,       \* lengths of captured frames
    HeaderWords   \* values of ihl and of the TCP header length, in words

IP_PROTO_TCP == 6
IP_PROTO_UDP == 17

ASSUME FrameAssumption ==
    /\ {IP_PROTO_TCP, IP_PROTO_UDP} \subseteq Proto
    /\ Caplen \subseteq Nat
    /\ HeaderWords \subseteq 0 .. 15

(* What packet_handler reads of a frame. *)
Frame == [ip : BOOLEAN, proto : Proto,
          sip : Ip, dip : Ip, sport : Port, dport : Port,
          caplen : Caplen, ihl : HeaderWords, hlen : HeaderWords]

VARIABLES
    pc,        \* "run", "noTable" or "crash"
    app_id,    \* the app_id of each session
    scan,      \* the bytes of the last frame scanned, and its length
    accepted   \* the conversations of the TCP and UDP packets captured

pathVars == <<pc, app_id, scan, accepted>>

TupleOf(f) == [sip |-> f.sip, dip |-> f.dip, sport |-> f.sport,
               dport |-> f.dport, proto |-> f.proto]

HeaderBytes(f) == IF f.proto = IP_PROTO_TCP THEN 4 * f.hlen ELSE 8

(* The offset of the payload in the frame. *)
Payload(f) == 14 + 4 * f.ihl + HeaderBytes(f)

(* payload_len, an int: not positive when the headers were cut short. *)
PayloadLen(f) == f.caplen - 14 - 4 * f.ihl - HeaderBytes(f)

(* Faulty form of Passes: any IP packet passes. *)
Passes_AnyProto(f) == f.ip

(* IPv4 without a VLAN tag, TCP or UDP. *)
Passes(f) == f.ip /\ f.proto \in {IP_PROTO_TCP, IP_PROTO_UDP}

-----------------------------------------------------------------------------

(* resource_init ignores that create_session_table found no memory for the *)
(* bucket array.                                                           *)
PathInit == /\ Init
            /\ pc \in {"run", "noTable"}
            /\ app_id = [p \in {} |-> 0]
            /\ scan = [from |-> 0, len |-> 0, caplen |-> 0]
            /\ accepted = {}

Drop(f) == /\ ~ Passes(f)
           /\ UNCHANGED <<vars, pc, app_id, scan>>

AppId(p) == IF p \in DOMAIN app_id THEN app_id[p] ELSE 0

(* httpParse2 and httpParse return 0, whatever they find. *)
ParseResult == 0

(* Faulty form of HasPayload: a negative length is a length. *)
HasPayload_NotZero(f) == PayloadLen(f) # 0

HasPayload(f) == PayloadLen(f) > 0

(* A session that has an app_id is not scanned again. *)
Scanned(f) ==
    IF AppId(ret') = 0 /\ HasPayload(f)
    THEN /\ app_id' = [p \in DOMAIN app_id \cup {ret'} |->
                         IF p = ret' THEN ParseResult ELSE app_id[p]]
         /\ scan' = [from |-> Payload(f), len |-> PayloadLen(f),
                     caplen |-> f.caplen]
    ELSE UNCHANGED <<app_id, scan>>

(* A session that could not be allocated is used all the same. *)
Handle(f) ==
    /\ Passes(f)
    /\ Find(TupleOf(f))
    /\ IF ret' = NULL
       THEN /\ pc' = "crash"
            /\ UNCHANGED <<app_id, scan>>
       ELSE /\ Scanned(f)
            /\ UNCHANGED pc

(* Without its array the table is looked up all the same.                  *)
NoTable(f) ==
    /\ Passes(f)
    /\ pc' = "crash"
    /\ UNCHANGED <<vars, app_id, scan>>

packet_handler(f) ==
    /\ \/ pc # "crash" /\ Drop(f)
       \/ pc = "run" /\ Handle(f)
       \/ pc = "noTable" /\ NoTable(f)
    /\ accepted' = IF f.ip /\ f.proto \in {IP_PROTO_TCP, IP_PROTO_UDP}
                   THEN accepted \cup {Conv(TupleOf(f))} ELSE accepted

PathNext == \E f \in Frame : packet_handler(f)

PathSpec == PathInit /\ [][PathNext]_<<vars, pathVars>>

-----------------------------------------------------------------------------

PathTypeOK ==
    /\ TypeOK
    /\ pc \in {"run", "noTable", "crash"}
    /\ DOMAIN app_id \subseteq DOMAIN session_table

(* The program has a session for each conversation of which it has seen a  *)
(* TCP or UDP packet, and for nothing else, as long as memory lasts.       *)
SessionsAreConversations ==
    pc = "run" => Tracked = accepted

(* The bytes scanned are bytes captured, whatever the length fields of the *)
(* headers say and however short the frame was cut.                        *)
ScanInsideCapture ==
    /\ scan.len >= 0
    /\ scan.from + scan.len <= scan.caplen
=============================================================================
