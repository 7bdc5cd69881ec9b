-------------------------- MODULE PacketPathProofs --------------------------
(***************************************************************************)
(* The session table is correct for every hash function, every set of      *)
(* addresses, ports and protocols, and every heap size; and the packet     *)
(* handler, which uses the table through session_table_find only, opens    *)
(* sessions for the right packets, whatever the frames.                    *)
(*                                                                         *)
(* The lists of the table matter only through their elements (Elems) and   *)
(* the absence of repetitions (NoRepeat); the first lemmas say what        *)
(* InsertHead and Scan do to these.  The inductive invariant IInv adds to  *)
(* the invariants TLC checks the shape of a session: its flows point back  *)
(* at it and carry the two directions of one tuple.                        *)
(***************************************************************************)
EXTENDS PacketPath, SequenceTheorems, WellFoundedInduction, TLAPS

(* Reversing a 5-tuple twice gives it back, so a tuple and its reverse     *)
(* name the same conversation.                                             *)
LEMMA RevTwice ==
    ASSUME NEW t \in Tuple
    PROVE  Rev(t) \in Tuple /\ Rev(Rev(t)) = t
BY DEF Tuple, Rev

LEMMA ConvEqual ==
    ASSUME NEW t \in Tuple, NEW u \in Tuple
    PROVE  /\ Conv(t) = Conv(u) <=> (t = u \/ t = Rev(u))
           /\ Conv(Rev(t)) = Conv(t)
BY RevTwice DEF Conv

(* TAILQ_INSERT_HEAD adds one element and shifts the others.               *)
LEMMA InsertHeadList ==
    ASSUME NEW S, NEW x \in S, NEW list \in Seq(S)
    PROVE  /\ InsertHead(x, list) \in Seq(S)
           /\ Len(InsertHead(x, list)) = Len(list) + 1
           /\ InsertHead(x, list)[1] = x
           /\ \A i \in 1..Len(list) : InsertHead(x, list)[i + 1] = list[i]
<1>1. /\ <<x>> \in Seq(S)
      /\ Len(<<x>>) = 1
      /\ <<x>>[1] = x
  OBVIOUS
<1>2. Len(list) \in Nat
  BY LenProperties
<1> QED
  BY <1>1, <1>2, ConcatProperties DEF InsertHead

LEMMA InsertHeadElems ==
    ASSUME NEW S, NEW x \in S, NEW list \in Seq(S)
    PROVE  /\ Elems(InsertHead(x, list)) = Elems(list) \cup {x}
           /\ NoRepeat(list) /\ x \notin Elems(list)
                => NoRepeat(InsertHead(x, list))
<1> DEFINE new == InsertHead(x, list)
<1>1. /\ Len(list) \in Nat
      /\ DOMAIN list = 1..Len(list)
      /\ DOMAIN new = 1..(Len(list) + 1)
  BY InsertHeadList, LenProperties
<1>2. /\ new[1] = x
      /\ \A i \in 1..Len(list) : new[i + 1] = list[i]
  BY InsertHeadList
<1>3. \A i \in DOMAIN new : i = 1 \/ (i - 1 \in DOMAIN list /\ new[i] = list[i - 1])
  <2> SUFFICES ASSUME NEW i \in DOMAIN new, i # 1
               PROVE  i - 1 \in DOMAIN list /\ new[i] = list[i - 1]
    OBVIOUS
  <2>1. i - 1 \in 1..Len(list) /\ (i - 1) + 1 = i
    BY <1>1
  <2> QED
    BY <2>1, <1>1, <1>2
<1>4. \A i \in DOMAIN list : i + 1 \in DOMAIN new /\ new[i + 1] = list[i]
  BY <1>1, <1>2
<1>5. 1 \in DOMAIN new
  BY <1>1
<1> HIDE DEF new
<1>6. Elems(new) = Elems(list) \cup {x}
  BY <1>2, <1>3, <1>4, <1>5 DEF Elems
<1>7. ASSUME NoRepeat(list), x \notin Elems(list)
      PROVE  NoRepeat(new)
  <2> SUFFICES ASSUME NEW i \in DOMAIN new, NEW j \in DOMAIN new, new[i] = new[j]
               PROVE  i = j
    BY DEF NoRepeat
  <2>1. CASE i = 1
    BY <2>1, <1>2, <1>3, <1>7 DEF Elems
  <2>2. CASE j = 1
    BY <2>2, <1>2, <1>3, <1>7 DEF Elems
  <2>3. CASE i # 1 /\ j # 1
    <3>1. i - 1 = j - 1
      BY <2>3, <1>3, <1>7 DEF NoRepeat
    <3> QED
      BY <3>1, <1>1
  <2> QED
    BY <2>1, <2>2, <2>3
<1> QED
  BY <1>6, <1>7 DEF new

(* A scan returns the session of some flow with the tuple it looks for,    *)
(* and NULL only when the bucket holds none.                               *)
LEMMA ScanFinds ==
    ASSUME NEW list \in Seq(Flow), NEW t \in Tuple
    PROVE  \/ /\ \A f \in Elems(list) : f.key # t
              /\ Scan(list, t) = NULL
           \/ \E f \in Elems(list) : f.key = t /\ Scan(list, t) = f.psess
<1>1. CASE Matches(list, t) = {}
  BY <1>1 DEF Matches, Scan, Elems
<1>2. CASE Matches(list, t) # {}
  <2> DEFINE M == Matches(list, t)
  <2>1. M \subseteq Nat
    BY LenProperties DEF Matches
  <2> DEFINE below == OpToRel(<, Nat)
  <2>2. \A i, j \in Nat : j < i => <<j, i>> \in below
    BY DEF OpToRel
  <2>3. IsWellFoundedOn(below, Nat)
    BY NatLessThanWellFounded
  <2> HIDE DEF below
  <2>4. \E i \in M : \A j \in M : ~ (<<j, i>> \in below)
    BY <2>1, <2>3, <1>2, WFMin
  <2>5. \E i \in M : \A j \in M : i <= j
    <3>1. PICK i \in M : \A j \in M : ~ (<<j, i>> \in below)
      BY <2>4
    <3>2. \A j \in M : ~ (j < i)
      BY <3>1, <2>1, <2>2
    <3>3. \A j \in M : i <= j
      BY <3>2, <2>1
    <3> QED
      BY <3>3
  <2>6. (CHOOSE i \in M : \A j \in M : i <= j) \in M
    BY <2>5
  <2> QED
    BY <2>6, <1>2 DEF Scan, Matches, Elems
<1> QED
  BY <1>1, <1>2

-----------------------------------------------------------------------------

(* A session as session_table_find builds it: its address is its place in  *)
(* the list, its flows point back at it, and flow1 is flow0 reversed.      *)
Shape ==
    /\ g_next_sess_id = Len(session_table)
    /\ \A p \in DOMAIN session_table :
          /\ session_table[p].flow0.key \in Tuple
          /\ session_table[p] = NewSession(p, p, session_table[p].flow0.key)

IInv == TypeOK /\ Shape /\ FiledOnce /\ OnePerConversation

(* Under the invariant the two scans compute the map from conversations to *)
(* sessions: the session whose flow0 is t or the reverse of t, if any.     *)
LEMMA LookupByConversation ==
    ASSUME IInv, NEW t \in Tuple
    PROVE  /\ \/ /\ \A p \in DOMAIN session_table :
                        Conv(session_table[p].flow0.key) # Conv(t)
                 /\ Lookup(t) = NULL
              \/ \E p \in DOMAIN session_table :
                    /\ Conv(session_table[p].flow0.key) = Conv(t)
                    /\ Lookup(t) = p
           /\ Lookup(t) = Scan(htable[Hash[t]], t)
<1> DEFINE Key(p) == session_table[p].flow0.key
<1>1. /\ Len(session_table) \in Nat
      /\ DOMAIN session_table = 1..Len(session_table)
  BY LenProperties DEF IInv, TypeOK
<1>2. /\ Hash[t] \in Bucket
      /\ Hash[Rev(t)] \in Bucket
      /\ htable[Hash[t]] \in Seq(Flow)
      /\ htable[Hash[Rev(t)]] \in Seq(Flow)
  BY RevTwice, HashAssumption DEF IInv, TypeOK
<1>3. \A f \in LiveFlows : \E p \in DOMAIN session_table :
          f.psess = p /\ (f.key = Key(p) \/ f.key = Rev(Key(p)))
  BY DEF LiveFlows, IInv, Shape, NewSession
<1>4. \A p \in DOMAIN session_table :
          /\ Key(p) \in Tuple
          /\ \E f \in LiveFlows : f.key = Key(p)
          /\ \E f \in LiveFlows : f.key = Rev(Key(p))
  BY DEF LiveFlows, IInv, Shape, NewSession
<1>5. \A f \in LiveFlows : f.key = t =>
          f.psess \in DOMAIN session_table /\ Conv(Key(f.psess)) = Conv(t)
  BY <1>3, <1>4, ConvEqual
<1>6. \A b \in Bucket : Elems(htable[b]) = {f \in LiveFlows : Hash[f.key] = b}
  BY DEF IInv, FiledOnce
<1>7. CASE \E p \in DOMAIN session_table : Conv(Key(p)) = Conv(t)
  <2>1. PICK p \in DOMAIN session_table : Conv(Key(p)) = Conv(t)
    BY <1>7
  <2>2. t = Key(p) \/ t = Rev(Key(p))
    BY <2>1, <1>4, ConvEqual, RevTwice
  <2>3. \E f \in LiveFlows : f.key = t
    BY <2>2, <1>4
  <2>4. \E f \in Elems(htable[Hash[t]]) : f.key = t
    BY <2>3, <1>2, <1>6
  <2>5. \E f \in Elems(htable[Hash[t]]) :
            f.key = t /\ Scan(htable[Hash[t]], t) = f.psess
    BY <2>4, <1>2, ScanFinds
  <2>6. \E q \in DOMAIN session_table :
            Conv(Key(q)) = Conv(t) /\ Scan(htable[Hash[t]], t) = q
    BY <2>5, <1>5, <1>6, <1>2
  <2>7. Scan(htable[Hash[t]], t) # NULL
    BY <2>6, <1>1 DEF NULL
  <2> QED
    BY <2>6, <2>7 DEF Lookup
<1>8. CASE \A p \in DOMAIN session_table : Conv(Key(p)) # Conv(t)
  <2>1. \A f \in LiveFlows : f.key # t
    BY <1>8, <1>5
  <2>2. \A b \in Bucket : \A f \in Elems(htable[b]) : f.key # t
    BY <2>1, <1>6
  <2>3. /\ Scan(htable[Hash[t]], t) = NULL
        /\ Scan(htable[Hash[Rev(t)]], t) = NULL
    BY <2>2, <1>2, ScanFinds
  <2> QED
    BY <2>3, <1>8 DEF Lookup
<1> QED
  BY <1>7, <1>8

(* The same fact as one state predicate, which can be primed.              *)
Answers ==
    \A t \in Tuple :
        \/ \A p \in DOMAIN session_table :
              Conv(session_table[p].flow0.key) # Conv(t)
        \/ \E p \in DOMAIN session_table :
              Conv(session_table[p].flow0.key) = Conv(t) /\ Lookup(t) = p

LEMMA IInvAnswers == IInv => Answers
BY LookupByConversation DEF Answers

(* Filing the two flows of a new session adds each to its own bucket, even *)
(* when that is the same bucket twice.                                     *)
LEMMA FileBoth ==
    ASSUME NEW tab \in [Bucket -> Seq(Flow)],
           NEW p \in Nat, NEW id \in Nat, NEW t \in Tuple,
           \A b \in Bucket : \A f \in Elems(tab[b]) : f.psess # p,
           \A b \in Bucket : NoRepeat(tab[b])
    PROVE  LET s == NewSession(p, id, t)
           IN  /\ s \in Session
               /\ File(tab, s) \in [Bucket -> Seq(Flow)]
               /\ \A b \in Bucket :
                     /\ Elems(File(tab, s)[b]) =
                           Elems(tab[b]) \cup
                           {f \in {s.flow0, s.flow1} : Hash[f.key] = b}
                     /\ NoRepeat(File(tab, s)[b])
<1> DEFINE s == NewSession(p, id, t)
           f0 == s.flow0
           f1 == s.flow1
           tab0 == [tab EXCEPT ![Hash[f0.key]] = InsertHead(f0, @)]
           tab1 == [tab0 EXCEPT ![Hash[f1.key]] = InsertHead(f1, @)]
<1>1. /\ s \in Session
      /\ f0 \in Flow /\ f1 \in Flow
      /\ f0.psess = p /\ f1.psess = p
      /\ f0 # f1
  <2>1. f0.side = 0 /\ f1.side = 1
    BY DEF NewSession
  <2> QED
    BY <2>1, RevTwice DEF NewSession, Session, Flow
<1>2. Hash[f0.key] \in Bucket /\ Hash[f1.key] \in Bucket
  BY <1>1, HashAssumption DEF Flow
<1>3. File(tab, s) = tab1
  BY DEF File
<1> HIDE DEF s, f0, f1
<1>4. /\ tab0 \in [Bucket -> Seq(Flow)]
      /\ \A b \in Bucket :
            /\ Elems(tab0[b]) = Elems(tab[b]) \cup {f \in {f0} : Hash[f.key] = b}
            /\ NoRepeat(tab0[b])
  <2>1. f0 \notin Elems(tab[Hash[f0.key]])
    BY <1>1, <1>2
  <2>2. /\ InsertHead(f0, tab[Hash[f0.key]]) \in Seq(Flow)
        /\ Elems(InsertHead(f0, tab[Hash[f0.key]])) =
              Elems(tab[Hash[f0.key]]) \cup {f0}
        /\ NoRepeat(InsertHead(f0, tab[Hash[f0.key]]))
    BY <2>1, <1>1, <1>2, InsertHeadList, InsertHeadElems
  <2> QED
    BY <2>2, <1>2
<1> HIDE DEF tab0
<1>5. /\ tab1 \in [Bucket -> Seq(Flow)]
      /\ \A b \in Bucket :
            /\ Elems(tab1[b]) = Elems(tab0[b]) \cup {f \in {f1} : Hash[f.key] = b}
            /\ NoRepeat(tab1[b])
  <2>1. f1 \notin Elems(tab0[Hash[f1.key]])
    BY <1>1, <1>2, <1>4
  <2>2. /\ InsertHead(f1, tab0[Hash[f1.key]]) \in Seq(Flow)
        /\ Elems(InsertHead(f1, tab0[Hash[f1.key]])) =
              Elems(tab0[Hash[f1.key]]) \cup {f1}
        /\ NoRepeat(InsertHead(f1, tab0[Hash[f1.key]]))
    BY <2>1, <1>1, <1>2, <1>4, InsertHeadList, InsertHeadElems
  <2> QED
    BY <2>2, <1>2, <1>4
<1> HIDE DEF tab1
<1>6. \A b \in Bucket :
          Elems(tab1[b]) = Elems(tab[b]) \cup {f \in {f0, f1} : Hash[f.key] = b}
  BY <1>4, <1>5
<1> QED
  BY <1>1, <1>3, <1>5, <1>6 DEF s, f0, f1

-----------------------------------------------------------------------------

LEMMA InitIInv == Init => IInv
<1> SUFFICES ASSUME Init PROVE IInv
  OBVIOUS
<1>1. /\ session_table = <<>>
      /\ DOMAIN session_table = {}
      /\ Len(session_table) = 0
  BY DEF Init
<1>2. \A b \in Bucket : htable[b] = <<>> /\ DOMAIN htable[b] = {}
  BY DEF Init
<1>3. TypeOK
  BY <1>1, <1>2 DEF Init, TypeOK, NULL
<1>4. Shape
  BY <1>1 DEF Init, Shape
<1>5. LiveFlows = {}
  BY <1>1 DEF LiveFlows
<1>6. FiledOnce
  BY <1>2, <1>5 DEF FiledOnce, Elems, NoRepeat
<1> QED
  BY <1>1, <1>3, <1>4, <1>6 DEF IInv, OnePerConversation

(* What a Create step does to the list of sessions.                        *)
LEMMA CreateAppends ==
    ASSUME IInv, NEW t \in Tuple, Create(t)
    PROVE  LET p == Len(session_table) + 1
               s == NewSession(p, p, t)
           IN  /\ p \in Nat
               /\ s \in Session
               /\ DOMAIN session_table' = DOMAIN session_table \cup {p}
               /\ p \notin DOMAIN session_table
               /\ session_table'[p] = s
               /\ \A q \in DOMAIN session_table :
                     session_table'[q] = session_table[q]
               /\ session_table' \in Seq(Session)
               /\ Len(session_table') = p
               /\ htable' = File(htable, s)
               /\ g_next_sess_id' = p
               /\ ret' = p
<1> DEFINE p == Len(session_table) + 1
           s == NewSession(p, p, t)
<1>1. /\ session_table \in Seq(Session)
      /\ Len(session_table) \in Nat
      /\ DOMAIN session_table = 1..Len(session_table)
      /\ g_next_sess_id = Len(session_table)
  BY LenProperties DEF IInv, TypeOK, Shape
<1>2. s \in Session
  BY <1>1, RevTwice DEF NewSession, Session, Flow
<1>3. session_table' = Append(session_table, s)
  BY <1>1 DEF Create
<1>4. /\ htable' = File(htable, s)
      /\ g_next_sess_id' = p
      /\ ret' = p
  BY <1>1 DEF Create
<1> HIDE DEF s
<1>5. /\ session_table' \in Seq(Session)
      /\ Len(session_table') = p
      /\ DOMAIN session_table' = 1..p
      /\ session_table'[p] = s
      /\ \A q \in 1..Len(session_table) : session_table'[q] = session_table[q]
  BY <1>1, <1>2, <1>3, AppendProperties, LenProperties
<1> QED
  BY <1>1, <1>2, <1>4, <1>5 DEF s

LEMMA CreateIInv ==
    ASSUME IInv, NEW t \in Tuple, Create(t)
    PROVE  IInv'
<1> DEFINE p == Len(session_table) + 1
           s == NewSession(p, p, t)
<1>1. /\ p \in Nat
      /\ s \in Session
      /\ DOMAIN session_table' = DOMAIN session_table \cup {p}
      /\ p \notin DOMAIN session_table
      /\ session_table'[p] = s
      /\ \A q \in DOMAIN session_table : session_table'[q] = session_table[q]
      /\ session_table' \in Seq(Session)
      /\ Len(session_table') = p
      /\ htable' = File(htable, s)
      /\ g_next_sess_id' = p
      /\ ret' = p
  BY CreateAppends
<1>2. /\ s.flow0.key = t
      /\ s = NewSession(p, p, s.flow0.key)
      /\ s.flow0.psess = p /\ s.flow1.psess = p
  BY DEF NewSession
<1>3. \A q \in DOMAIN session_table :
          /\ session_table[q].flow0.psess = q
          /\ session_table[q].flow1.psess = q
  BY DEF IInv, Shape, NewSession
<1>4. \A f \in LiveFlows : f.psess # p
  BY <1>1, <1>3 DEF LiveFlows
<1>5. /\ htable \in [Bucket -> Seq(Flow)]
      /\ \A b \in Bucket : \A f \in Elems(htable[b]) : f.psess # p
      /\ \A b \in Bucket : NoRepeat(htable[b])
  BY <1>4 DEF IInv, TypeOK, FiledOnce
<1>6. /\ File(htable, s) \in [Bucket -> Seq(Flow)]
      /\ \A b \in Bucket :
            /\ Elems(File(htable, s)[b]) =
                  Elems(htable[b]) \cup
                  {f \in {s.flow0, s.flow1} : Hash[f.key] = b}
            /\ NoRepeat(File(htable, s)[b])
  BY <1>1, <1>5, FileBoth
<1>7. LiveFlows' = LiveFlows \cup {s.flow0, s.flow1}
  <2> HIDE DEF s, p
  <2> QED
    BY <1>1 DEF LiveFlows
<1>8. \A q \in DOMAIN session_table :
          Conv(session_table[q].flow0.key) # Conv(t)
  <2>1. Len(session_table) \in Nat /\ DOMAIN session_table = 1..Len(session_table)
    BY LenProperties DEF IInv, TypeOK
  <2>2. Lookup(t) = NULL
    BY DEF Create
  <2> QED
    BY <2>1, <2>2, LookupByConversation DEF NULL
<1> HIDE DEF s, p
<1>9. TypeOK'
  BY <1>1, <1>6 DEF TypeOK
<1>10. Shape'
  BY <1>1, <1>2 DEF IInv, Shape
<1>11. FiledOnce'
  <2> SUFFICES ASSUME NEW b \in Bucket
               PROVE  /\ Elems(htable'[b]) = {f \in LiveFlows' : Hash[f.key] = b}
                      /\ NoRepeat(htable'[b])
    BY DEF FiledOnce, Elems, NoRepeat
  <2>1. Elems(htable[b]) = {f \in LiveFlows : Hash[f.key] = b}
    BY DEF IInv, FiledOnce
  <2> QED
    BY <2>1, <1>1, <1>6, <1>7
<1>12. OnePerConversation'
  BY <1>1, <1>2, <1>8 DEF IInv, OnePerConversation, Conv, Rev
<1> QED
  BY <1>9, <1>10, <1>11, <1>12 DEF IInv

(* A call that links nothing keeps the invariant if its answer is an       *)
(* address.                                                                *)
LEMMA ReadOnlyIInv ==
    ASSUME IInv, UNCHANGED <<htable, session_table, g_next_sess_id>>,
           ret' \in 0..Len(session_table)
    PROVE  IInv'
<1>1. TypeOK'
  BY DEF IInv, TypeOK
<1>2. Shape'
  BY DEF IInv, Shape
<1>3. FiledOnce'
  BY DEF IInv, FiledOnce, LiveFlows, Elems, NoRepeat
<1>4. OnePerConversation'
  BY DEF IInv, OnePerConversation
<1> QED
  BY <1>1, <1>2, <1>3, <1>4 DEF IInv

LEMMA StepIInv == IInv /\ [Next]_vars => IInv'
<1> SUFFICES ASSUME IInv, [Next]_vars PROVE IInv'
  OBVIOUS
<1>0. /\ Len(session_table) \in Nat
      /\ DOMAIN session_table = 1..Len(session_table)
      /\ ret \in 0..Len(session_table)
  BY LenProperties DEF IInv, TypeOK
<1>1. ASSUME NEW t \in Tuple, Found(t) PROVE IInv'
  <2>1. Lookup(t) \in 0..Len(session_table)
    BY <1>0, LookupByConversation DEF NULL
  <2> QED
    BY <2>1, <1>1, ReadOnlyIInv DEF Found
<1>2. ASSUME NEW t \in Tuple, Create(t) PROVE IInv'
  BY <1>2, CreateIInv
<1>3. ASSUME NEW t \in Tuple, AllocFails(t) PROVE IInv'
  <2>1. NULL \in 0..Len(session_table)
    BY <1>0 DEF NULL
  <2> QED
    BY <2>1, <1>3, ReadOnlyIInv DEF AllocFails
<1>4. CASE UNCHANGED vars
  BY <1>4, <1>0, ReadOnlyIInv DEF vars
<1> QED
  BY <1>1, <1>2, <1>3, <1>4 DEF Next, Find

(* The inductive invariant holds in every reachable state.                 *)
THEOREM Inductive == Spec => []IInv
<1> QED
  BY InitIInv, StepIInv, PTL DEF Spec

(* Every variable keeps its type, for every hash function and heap size.   *)
THEOREM TypeCorrect == Spec => []TypeOK
<1>1. IInv => TypeOK
  BY DEF IInv
<1> QED
  BY <1>1, Inductive, PTL

(* Each flow of each session is always linked exactly once, in the bucket  *)
(* its own tuple hashes to.                                                *)
THEOREM FiledOnceAlways == Spec => []FiledOnce
<1>1. IInv => FiledOnce
  BY DEF IInv
<1> QED
  BY <1>1, Inductive, PTL

(* There is never a second session for a conversation.                     *)
THEOREM OnePerConversationAlways == Spec => []OnePerConversation
<1>1. IInv => OnePerConversation
  BY DEF IInv
<1> QED
  BY <1>1, Inductive, PTL

(* Looking up a packet and looking up its answer give the same session.    *)
THEOREM BothDirectionsAlways == Spec => []BothDirections
<1>1. ASSUME IInv PROVE BothDirections
  <2> SUFFICES ASSUME NEW t \in Tuple PROVE Lookup(t) = Lookup(Rev(t))
    BY DEF BothDirections
  <2>1. Rev(t) \in Tuple /\ Conv(Rev(t)) = Conv(t)
    BY RevTwice, ConvEqual
  <2>2. \A p, q \in DOMAIN session_table :
            Conv(session_table[p].flow0.key) = Conv(session_table[q].flow0.key)
                => p = q
    BY <1>1 DEF IInv, OnePerConversation
  <2>3. \/ /\ \A p \in DOMAIN session_table :
                  Conv(session_table[p].flow0.key) # Conv(t)
           /\ Lookup(t) = NULL
        \/ \E p \in DOMAIN session_table :
              /\ Conv(session_table[p].flow0.key) = Conv(t)
              /\ Lookup(t) = p
    BY <1>1, LookupByConversation
  <2>4. \/ /\ \A p \in DOMAIN session_table :
                  Conv(session_table[p].flow0.key) # Conv(t)
           /\ Lookup(Rev(t)) = NULL
        \/ \E p \in DOMAIN session_table :
              /\ Conv(session_table[p].flow0.key) = Conv(t)
              /\ Lookup(Rev(t)) = p
    BY <1>1, <2>1, LookupByConversation
  <2> QED
    BY <2>2, <2>3, <2>4
<1> QED
  BY <1>1, Inductive, PTL

(* The loop "find on the reverse direction" never changes an answer.       *)
THEOREM SecondScanIdleAlways == Spec => []SecondScanIdle
<1>1. IInv => SecondScanIdle
  BY LookupByConversation DEF SecondScanIdle
<1> QED
  BY <1>1, Inductive, PTL

(* Once a conversation has a session it keeps it, whatever is inserted     *)
(* into its buckets later.                                                 *)
THEOREM LookupStableAlways == Spec => LookupStable
<1> DEFINE Keeps == \A t \in Tuple : Lookup(t) # NULL => Lookup(t)' = Lookup(t)
<1>0. IInv' => Answers'
  BY IInvAnswers, PTL
<1>1. ASSUME IInv, IInv', [Next]_vars PROVE [Keeps]_vars
  <2> SUFFICES ASSUME Next, NEW t \in Tuple, Lookup(t) # NULL
               PROVE  Lookup(t)' = Lookup(t)
    BY <1>1
  <2>1. PICK p \in DOMAIN session_table :
            /\ Conv(session_table[p].flow0.key) = Conv(t)
            /\ Lookup(t) = p
    BY <1>1, LookupByConversation
  <2>2. p \in DOMAIN session_table' /\ session_table'[p] = session_table[p]
    <3>1. ASSUME NEW u \in Tuple, Found(u) \/ AllocFails(u)
          PROVE  session_table' = session_table
      BY <3>1 DEF Found, AllocFails
    <3>2. ASSUME NEW u \in Tuple, Create(u)
          PROVE  p \in DOMAIN session_table' /\ session_table'[p] = session_table[p]
      BY <1>1, <3>2, CreateAppends
    <3> QED
      BY <3>1, <3>2 DEF Next, Find
  <2>3. \A q, r \in DOMAIN session_table' :
            Conv(session_table'[q].flow0.key) = Conv(session_table'[r].flow0.key)
                => q = r
    BY <1>1 DEF IInv, OnePerConversation
  <2>4. \/ \A q \in DOMAIN session_table' :
              Conv(session_table'[q].flow0.key) # Conv(t)
        \/ \E q \in DOMAIN session_table' :
              Conv(session_table'[q].flow0.key) = Conv(t) /\ Lookup(t)' = q
    BY <1>0, <1>1 DEF Answers
  <2> QED
    BY <1>1, <2>1, <2>2, <2>3, <2>4
<1> QED
  BY <1>1, Inductive, PTL DEF Spec, LookupStable

-----------------------------------------------------------------------------
(* The refinement: Owner is the map SessionMap keeps.                      *)

OwnerIsMap ==
    /\ DOMAIN Owner = Tracked
    /\ Owner = [c \in Tracked |-> Owner[c]]
    /\ \A p \in DOMAIN session_table :
          Owner[Conv(session_table[p].flow0.key)] = p

LEMMA OwnerMaps == IInv => OwnerIsMap
<1> SUFFICES ASSUME IInv PROVE OwnerIsMap
  OBVIOUS
<1>1. DOMAIN Owner = Tracked /\ Owner = [c \in Tracked |-> Owner[c]]
  BY DEF Owner
<1>2. ASSUME NEW p \in DOMAIN session_table
      PROVE  Owner[Conv(session_table[p].flow0.key)] = p
  <2> DEFINE c == Conv(session_table[p].flow0.key)
  <2>1. c \in Tracked
    BY DEF Tracked
  <2>2. Owner[c] = CHOOSE q \in DOMAIN session_table :
                       Conv(session_table[q].flow0.key) = c
    BY <2>1 DEF Owner
  <2>3. \A q \in DOMAIN session_table :
            Conv(session_table[q].flow0.key) = c => q = p
    BY DEF IInv, OnePerConversation
  <2> QED
    BY <2>2, <2>3
<1> QED
  BY <1>1, <1>2 DEF OwnerIsMap

LEMMA AbstractTuples ==
    /\ Abstract!Tuple = Tuple
    /\ \A t \in Tuple : Abstract!Conv(t) = Conv(t)
    /\ Abstract!NULL = NULL
BY DEF Abstract!Tuple, Tuple, Abstract!Conv, Conv, Abstract!Rev, Rev,
       Abstract!NULL, NULL

(* A call that finds a session, or that fails, is the abstract call: the   *)
(* map does not change.                                                    *)
LEMMA FoundRefines ==
    ASSUME IInv, NEW t \in Tuple, Found(t) PROVE Abstract!Known(t)
<1>1. Owner' = Owner
  BY DEF Found, Owner, Tracked
<1>2. PICK p \in DOMAIN session_table :
          Conv(session_table[p].flow0.key) = Conv(t) /\ ret' = p
  BY LookupByConversation DEF Found
<1>3. Conv(t) \in Tracked
  BY <1>2 DEF Tracked
<1>4. Conv(t) \in DOMAIN Owner /\ Owner[Conv(t)] = p
  BY <1>2, <1>3, OwnerMaps DEF OwnerIsMap
<1> QED
  BY <1>1, <1>2, <1>4, AbstractTuples DEF Abstract!Known

LEMMA NewConversation ==
    ASSUME IInv, NEW t \in Tuple, Lookup(t) = NULL
    PROVE  Conv(t) \notin DOMAIN Owner
<1>1. DOMAIN session_table = 1..Len(session_table) /\ Len(session_table) \in Nat
  BY LenProperties DEF IInv, TypeOK
<1>2. \A p \in DOMAIN session_table : Conv(session_table[p].flow0.key) # Conv(t)
  BY <1>1, LookupByConversation DEF NULL
<1> QED
  BY <1>2 DEF Owner, Tracked

LEMMA AllocFailsRefines ==
    ASSUME IInv, NEW t \in Tuple, AllocFails(t) PROVE Abstract!Refuse(t)
<1>1. Owner' = Owner
  BY DEF AllocFails, Owner, Tracked
<1>2. Conv(t) \notin DOMAIN Owner
  BY NewConversation DEF AllocFails
<1> QED
  BY <1>1, <1>2, AbstractTuples DEF Abstract!Refuse, AllocFails

(* Create adds exactly one conversation to the map, under an address no    *)
(* other conversation has.                                                 *)
LEMMA CreateRefines ==
    ASSUME IInv, NEW t \in Tuple, Create(t),
           OwnerIsMap'
    PROVE  Abstract!Open(t)
<1> DEFINE p == Len(session_table) + 1
           s == NewSession(p, p, t)
<1>1. /\ p \in Nat
      /\ DOMAIN session_table' = DOMAIN session_table \cup {p}
      /\ p \notin DOMAIN session_table
      /\ session_table'[p] = s
      /\ \A q \in DOMAIN session_table : session_table'[q] = session_table[q]
      /\ ret' = p
      /\ p # 0
      /\ s.flow0.key = t
  <2>1. s.flow0.key = t
    BY DEF NewSession
  <2>2. p # 0
    BY LenProperties DEF IInv, TypeOK
  <2>3. /\ p \in Nat
        /\ DOMAIN session_table' = DOMAIN session_table \cup {p}
        /\ p \notin DOMAIN session_table
        /\ session_table'[p] = s
        /\ \A q \in DOMAIN session_table : session_table'[q] = session_table[q]
        /\ ret' = p
    BY CreateAppends
  <2> QED
    BY <2>1, <2>2, <2>3
<1> HIDE DEF p, s
<1>2. Conv(t) \notin DOMAIN Owner
  BY NewConversation DEF Create
<1>3. /\ DOMAIN Owner = Tracked
      /\ \A q \in DOMAIN session_table :
            Owner[Conv(session_table[q].flow0.key)] = q
  BY OwnerMaps DEF OwnerIsMap
<1>4. Tracked' = Tracked \cup {Conv(t)}
  BY <1>1 DEF Tracked
<1>5. \A q \in DOMAIN session_table' :
          Owner'[Conv(session_table'[q].flow0.key)] = q
  BY DEF OwnerIsMap
<1>6. Owner'[Conv(t)] = p
  BY <1>1, <1>5
<1>7. \A c \in Tracked : Owner[c] # p /\ Owner'[c] = Owner[c]
  <2> SUFFICES ASSUME NEW q \in DOMAIN session_table
               PROVE  LET c == Conv(session_table[q].flow0.key)
                      IN  Owner[c] # p /\ Owner'[c] = Owner[c]
    BY DEF Tracked
  <2> QED
    BY <1>1, <1>3, <1>5
<1>8. Owner' = [c \in DOMAIN Owner \cup {Conv(t)} |->
                  IF c = Conv(t) THEN ret' ELSE Owner[c]]
  <2> DEFINE new == [c \in Tracked \cup {Conv(t)} |->
                      IF c = Conv(t) THEN p ELSE Owner[c]]
  <2>1. \A c \in Tracked' : Owner'[c] = new[c]
    BY <1>2, <1>3, <1>4, <1>6, <1>7
  <2>2. Owner' = [c \in Tracked \cup {Conv(t)} |-> new[c]]
    BY <2>1, <1>4 DEF OwnerIsMap
  <2> QED
    BY <2>2, <1>1, <1>3
<1>9. ret' \in Nat \ {NULL} /\ \A c \in DOMAIN Owner : Owner[c] # ret'
  BY <1>1, <1>3, <1>7 DEF NULL
<1>10. Abstract!Conv(t) = Conv(t) /\ Abstract!NULL = NULL
  BY AbstractTuples
<1> HIDE DEF Owner
<1> QED
  BY <1>2, <1>8, <1>9, <1>10 DEF Abstract!Open

LEMMA FindRefines ==
    IInv /\ IInv' => \A t \in Tuple : Find(t) => Abstract!Find(t)
<1>1. IInv' => OwnerIsMap'
  BY OwnerMaps, PTL
<1> QED
  BY <1>1, FoundRefines, AllocFailsRefines, CreateRefines
     DEF Find, Abstract!Find

(* What session_table_find answers for a tuple is what the map of          *)
(* conversations answers for that tuple.                                   *)
THEOREM EachCall == Spec => AnswersEachCall
<1>1. IInv /\ IInv' => [\A t \in Tuple : Find(t) => Abstract!Find(t)]_vars
  BY FindRefines
<1> QED
  BY <1>1, Inductive, PTL DEF Spec, AnswersEachCall

(* The session table implements the map from conversations to sessions.    *)
THEOREM Refinement == Spec => ImplementsSessionMap
<1>1. Init => Abstract!Init
  <2> SUFFICES ASSUME Init PROVE Abstract!Init
    OBVIOUS
  <2>1. DOMAIN session_table = {}
    BY DEF Init
  <2>2. Tracked = {}
    BY <2>1 DEF Tracked
  <2>3. Owner = [c \in {} |-> NULL]
    BY <2>2 DEF Owner
  <2> QED
    BY <2>3, AbstractTuples DEF Abstract!Init, Init
<1>2. ASSUME IInv, IInv', [Next]_vars PROVE [Abstract!Next]_(Abstract!vars)
  <2>1. ASSUME NEW t \in Tuple, Find(t) PROVE Abstract!Find(t)
    BY <1>2, <2>1, FindRefines
  <2>2. CASE UNCHANGED vars
    BY <2>2 DEF vars, Abstract!vars, Owner, Tracked
  <2> QED
    BY <1>2, <2>1, <2>2, AbstractTuples DEF Next, Abstract!Next
<1> QED
  BY <1>1, <1>2, Inductive, PTL DEF Spec, Abstract!Spec, ImplementsSessionMap

-----------------------------------------------------------------------------
(* The packet handler.                                                     *)

(* Every frame is a step of the table or leaves it alone.                  *)
LEMMA HandlerStep ==
    ASSUME [PathNext]_<<vars, pathVars>>
    PROVE  [Next]_vars
<1>1. ASSUME NEW f \in Frame, packet_handler(f)
      PROVE  [Next]_vars
  <2>1. TupleOf(f) \in Tuple
    BY DEF Frame, TupleOf, Tuple
  <2>2. CASE Drop(f)
    BY <2>2 DEF Drop
  <2>3. CASE Handle(f)
    BY <2>1, <2>3 DEF Handle, Next
  <2>4. CASE NoTable(f)
    BY <2>4 DEF NoTable
  <2> QED
    BY <1>1, <2>2, <2>3, <2>4 DEF packet_handler
<1>2. CASE UNCHANGED <<vars, pathVars>>
  BY <1>2
<1> QED
  BY <1>1, <1>2 DEF PathNext

(* The program runs the session table as its own specification allows.     *)
THEOREM PathUsesTable == PathSpec => Spec
<1>1. PathInit => Init
  BY DEF PathInit
<1> QED
  BY <1>1, HandlerStep, PTL DEF PathSpec, Spec

(* Hence the table answers the program as the map of conversations would.  *)
THEOREM PathImplementsSessionMap == PathSpec => ImplementsSessionMap
BY PathUsesTable, Refinement, PTL

-----------------------------------------------------------------------------

(* The inductive invariant: that of the table, and the two properties that *)
(* concern the handler's own variables.                                    *)
PathInv ==
    /\ IInv
    /\ PathTypeOK
    /\ SessionsAreConversations
    /\ ScanInsideCapture

(* A call of session_table_find answers with a session of the table or     *)
(* with NULL; sessions are only ever added.                                *)
LEMMA FindAnswers ==
    ASSUME IInv, NEW t \in Tuple, Find(t)
    PROVE  /\ ret' # NULL => ret' \in DOMAIN session_table'
           /\ DOMAIN session_table \subseteq DOMAIN session_table'
<1>1. DOMAIN session_table = 1..Len(session_table) /\ Len(session_table) \in Nat
  BY LenProperties DEF IInv, TypeOK
<1>2. CASE Found(t)
  BY <1>1, <1>2, LookupByConversation DEF Found
<1>3. CASE Create(t)
  BY <1>3, CreateAppends
<1>4. CASE AllocFails(t)
  BY <1>4 DEF AllocFails
<1> QED
  BY <1>2, <1>3, <1>4 DEF Find

(* Unless it fails, the conversation it was called for is tracked, and no  *)
(* other one is tracked that was not before.                               *)
LEMMA FindTracks ==
    ASSUME IInv, NEW t \in Tuple, Find(t), ret' # NULL
    PROVE  Tracked' = Tracked \cup {Conv(t)}
<1>1. CASE Found(t)
  <2>1. Conv(t) \in Tracked
    BY <1>1, LookupByConversation DEF Found, Tracked
  <2>2. Tracked' = Tracked
    BY <1>1 DEF Found, Tracked
  <2> QED
    BY <2>1, <2>2
<1>2. CASE Create(t)
  <2> DEFINE p == Len(session_table) + 1
  <2>1. /\ DOMAIN session_table' = DOMAIN session_table \cup {p}
        /\ session_table'[p] = NewSession(p, p, t)
        /\ \A q \in DOMAIN session_table : session_table'[q] = session_table[q]
        /\ p \notin DOMAIN session_table
    BY <1>2, CreateAppends
  <2>2. session_table'[p].flow0.key = t
    BY <2>1 DEF NewSession
  <2> HIDE DEF p
  <2> QED
    BY <2>1, <2>2 DEF Tracked
<1>3. CASE AllocFails(t)
  BY <1>3 DEF AllocFails
<1> QED
  BY <1>1, <1>2, <1>3 DEF Find

(* A payload of positive length lies inside the capture, wherever the      *)
(* header lengths put its beginning.                                       *)
LEMMA PayloadInside ==
    ASSUME NEW f \in Frame, HasPayload(f)
    PROVE  /\ PayloadLen(f) >= 0
           /\ Payload(f) + PayloadLen(f) <= f.caplen
<1>1. f.caplen \in Nat /\ f.ihl \in 0..15 /\ f.hlen \in 0..15
  BY FrameAssumption DEF Frame
<1>2. HeaderBytes(f) \in Nat
  BY <1>1 DEF HeaderBytes
<1> QED
  BY <1>1, <1>2 DEF HasPayload, PayloadLen, Payload

LEMMA InitPathInv == PathInit => PathInv
<1> SUFFICES ASSUME PathInit PROVE PathInv
  OBVIOUS
<1>1. IInv
  BY InitIInv DEF PathInit
<1>2. PathTypeOK
  BY <1>1 DEF PathInit, PathTypeOK, IInv
<1>3. SessionsAreConversations
  BY DEF PathInit, Init, SessionsAreConversations, Tracked
<1>4. ScanInsideCapture
  BY DEF PathInit, ScanInsideCapture
<1> QED
  BY <1>1, <1>2, <1>3, <1>4 DEF PathInv

LEMMA DropPathInv ==
    ASSUME PathInv, IInv', NEW f \in Frame, packet_handler(f), Drop(f)
    PROVE  PathInv'
<1>1. PathTypeOK'
  BY DEF PathInv, PathTypeOK, Drop, vars, IInv
<1>2. SessionsAreConversations'
  <2>1. accepted' = accepted
    BY DEF packet_handler, Drop, Passes
  <2> QED
    BY <2>1 DEF PathInv, SessionsAreConversations, Drop, vars, Tracked
<1>3. ScanInsideCapture'
  BY DEF PathInv, ScanInsideCapture, Drop
<1> QED
  BY <1>1, <1>2, <1>3 DEF PathInv

LEMMA NoTablePathInv ==
    ASSUME PathInv, IInv', NEW f \in Frame, packet_handler(f), NoTable(f)
    PROVE  PathInv'
<1>1. PathTypeOK'
  BY DEF PathInv, PathTypeOK, NoTable, vars, IInv
<1>2. SessionsAreConversations'
  BY DEF SessionsAreConversations, NoTable
<1>3. ScanInsideCapture'
  BY DEF PathInv, ScanInsideCapture, NoTable
<1> QED
  BY <1>1, <1>2, <1>3 DEF PathInv

LEMMA HandlePathInv ==
    ASSUME PathInv, IInv', NEW f \in Frame, packet_handler(f), pc = "run",
           Handle(f)
    PROVE  PathInv'
<1>1. TupleOf(f) \in Tuple
  BY DEF Frame, TupleOf, Tuple
<1>2. /\ ret' # NULL => ret' \in DOMAIN session_table'
      /\ DOMAIN session_table \subseteq DOMAIN session_table'
  BY <1>1, FindAnswers DEF PathInv, Handle
<1>3. PathTypeOK'
  <2>1. TypeOK'
    BY DEF IInv
  <2>2. pc' \in {"run", "noTable", "crash"}
    BY DEF PathInv, PathTypeOK, Handle
  <2>3. DOMAIN app_id' \subseteq DOMAIN session_table'
    BY <1>2 DEF PathInv, PathTypeOK, Handle, Scanned
  <2> QED
    BY <2>1, <2>2, <2>3 DEF PathTypeOK
<1>4. SessionsAreConversations'
  <2> SUFFICES ASSUME pc' = "run" PROVE Tracked' = accepted'
    BY DEF SessionsAreConversations
  <2>1. ret' # NULL
    BY DEF Handle
  <2>2. Tracked' = Tracked \cup {Conv(TupleOf(f))}
    BY <1>1, <2>1, FindTracks DEF PathInv, Handle
  <2>3. Tracked = accepted
    BY DEF PathInv, SessionsAreConversations, packet_handler
  <2>4. accepted' = accepted \cup {Conv(TupleOf(f))}
    BY DEF packet_handler, Handle, Passes
  <2> QED
    BY <2>2, <2>3, <2>4
<1>5. ScanInsideCapture'
  BY PayloadInside DEF PathInv, ScanInsideCapture, Handle, Scanned
<1> QED
  BY <1>3, <1>4, <1>5 DEF PathInv

LEMMA StepPathInv == PathInv /\ [PathNext]_<<vars, pathVars>> => PathInv'
<1> SUFFICES ASSUME PathInv, [PathNext]_<<vars, pathVars>> PROVE PathInv'
  OBVIOUS
<1>1. IInv'
  BY HandlerStep, StepIInv DEF PathInv
<1>2. ASSUME NEW f \in Frame, packet_handler(f) PROVE PathInv'
  BY <1>1, <1>2, DropPathInv, HandlePathInv, NoTablePathInv
     DEF packet_handler
<1>3. CASE UNCHANGED <<vars, pathVars>>
  BY <1>1, <1>3 DEF PathInv, PathTypeOK, SessionsAreConversations,
     ScanInsideCapture, pathVars, vars, Tracked, IInv
<1> QED
  BY <1>2, <1>3 DEF PathNext

(* The program has a session for each conversation of which it has seen a  *)
(* TCP or UDP packet, and for no other.                                    *)
THEOREM SessionsAreConversationsAlways == PathSpec => []SessionsAreConversations
<1>1. PathInv => SessionsAreConversations
  BY DEF PathInv
<1> QED
  BY <1>1, InitPathInv, StepPathInv, PTL DEF PathSpec

(* The scan never leaves the captured bytes, whatever the header fields.   *)
THEOREM ScanInsideCaptureAlways == PathSpec => []ScanInsideCapture
<1>1. PathInv => ScanInsideCapture
  BY DEF PathInv
<1> QED
  BY <1>1, InitPathInv, StepPathInv, PTL DEF PathSpec

(* Every variable of the handler and of the table keeps its type.          *)
THEOREM PathTypeCorrect == PathSpec => []PathTypeOK
<1>1. PathInv => PathTypeOK
  BY DEF PathInv
<1> QED
  BY <1>1, InitPathInv, StepPathInv, PTL DEF PathSpec
=============================================================================
