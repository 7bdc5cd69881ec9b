------------------------------ MODULE AcSearch ------------------------------
(***************************************************************************)
(* The search of one payload with a compiled Aho-Corasick machine          *)
(* (acsmSearch2 and the loops it selects).  The machine comes from         *)
(* AcBuild, its rows are packed by the operators of AcFormats, and the     *)
(* payload is chosen byte by byte as the search reads it.                  *)
(*                                                                         *)
(* A match is reported for the first entry of the match list of a state    *)
(* only.  The callback of the program, MatchFound, returns 0 always, so    *)
(* the searches never stop early.                                          *)
(***************************************************************************)
EXTENDS AcBuild

CONSTANTS
    Byte,           \* the bytes of a payload
    xlatcase,       \* the input each byte stands for: its upper case
    Machines,       \* the <<machine type, row format>> pairs to search with
    MaxRowNodes,    \* acsmSparseMaxRowNodes
    MaxZcnt,        \* acsmSparseMaxZcnt
    AC_MAX_INQ,     \* the size of the queue of the FULLQ search
    MaxText         \* bound of the model: bytes of a payload

(* A row holds states, of which there are fewer than FAIL. *)
Rows == INSTANCE AcFormats WITH States <- 0 .. FAIL - 1

ASSUME SearchAssumption ==
    /\ xlatcase \in [Byte -> Input]
    /\ Machines \subseteq FSAs \X Rows!Format
    /\ FAIL >= AlphabetSize
    /\ AC_MAX_INQ \in Nat \ {0}

FullFormats == {Rows!ACF_FULL, Rows!ACF_FULLQ}

VARIABLES
    acsmFormat,  \* the row format selected
    NextState,   \* the packed rows, match flag included
    failFreed,   \* the fail table has been released
    spc,         \* "compile", "scan", "end", or "crash"
    Tx,          \* the bytes read so far, in upper case
    state,       \* the state of the machine
    q,           \* the match lists waiting (FULLQ only)
    hits         \* the calls of Match, in order

searchVars == <<acsmFormat, NextState, failFreed, spc, Tx, state, q, hits>>

Is(fsa, fmts) == acsmFSA = fsa /\ acsmFormat \in fmts

-----------------------------------------------------------------------------

SearchInit == /\ Init
              /\ \E mc \in Machines : acsmFSA = mc[1] /\ acsmFormat = mc[2]
              /\ NextState = <<>>
              /\ failFreed = FALSE
              /\ spc = "compile"
              /\ Tx = <<>>
              /\ state = 0
              /\ q = <<>>
              /\ hits = <<>>

(* The end of _acsmCompile2: the lists are packed, the match flags set,    *)
(* and, with full rows, the fail table released.  The caller starts the    *)
(* search in state 0.                                                      *)
PackRows ==
    LET full(s) == [i \in Input |-> GetNextState2(TransTable, s, i)]
        flag(s) == IF MatchList[s] # <<>> THEN 1 ELSE 0
    IN  /\ pc = "done"
        /\ spc = "compile"
        /\ NextState' = [s \in States |->
              [Rows!Pack(acsmFormat, s, full(s)) EXCEPT ![1] = flag(s)]]
        /\ failFreed' = (acsmFormat \in FullFormats)
        /\ spc' = "scan"
        /\ UNCHANGED <<vars, acsmFormat, Tx, state, q, hits>>

(* Match(id, tree, index, ...) for the first entry of a match list.  id is *)
(* the signature id of the entry, or its udata pointer: the pattern's text *)
(* (acsmAddPattern2 ignores the id it is given).                           *)
Hit(s, id, end) ==
    [entry |-> Head(MatchList[s]),
     id |-> id,
     index |-> end - Len(Head(MatchList[s]).patrn)]

(* Faulty form of Report: the offset counts one byte too many. *)
Report_OffByOne(s, id, end) ==
    IF NextState[s][1] = 1 /\ MatchList[s] # <<>>
    THEN Append(hits, Hit(s, id, end + 1))
    ELSE hits

(* The hits after state s is tested, end bytes into the payload. *)
Report(s, id, end) ==
    IF NextState[s][1] = 1 /\ MatchList[s] # <<>>
    THEN Append(hits, Hit(s, id, end))
    ELSE hits

(* The same where the match list is looked at without the match flag: in   *)
(* the nondeterministic search, and behind the last byte.                  *)
ReportUnflagged(s, id, end) ==
    IF MatchList[s] # <<>> THEN Append(hits, Hit(s, id, end)) ELSE hits

Read(b) == /\ spc = "scan"
           /\ Len(Tx) < MaxText
           /\ Tx' = Append(Tx, xlatcase[b])
           /\ UNCHANGED <<vars, acsmFormat, NextState, failFreed>>

(* acsmSearchSparseDFA_Full: a state is tested before the byte after it is *)
(* taken.                                                                  *)
ScanFull(b) ==
    /\ Is("DFA", {Rows!ACF_FULL})
    /\ Read(b)
    /\ hits' = Report(state, "udata", Len(Tx))
    /\ state' = Rows!NextFull(NextState[state], xlatcase[b])
    /\ UNCHANGED <<spc, q>>

(* acsmSearchSparseDFA_Banded: the same, but the signature id is passed. *)
ScanBanded(b) ==
    /\ Is("DFA", {Rows!ACF_BANDED})
    /\ Read(b)
    /\ hits' = Report(state, "iid", Len(Tx))
    /\ state' = Rows!NextBanded(NextState[state], xlatcase[b])
    /\ UNCHANGED <<spc, q>>

(* acsmSearchSparseDFA: the state is tested after the byte that leads to   *)
(* it.                                                                     *)
ScanSparse(b) ==
    /\ Is("DFA", {Rows!ACF_SPARSE, Rows!ACF_SPARSEBANDS})
    /\ Read(b)
    /\ state' = Rows!GetNextStateDFA(NextState[state], xlatcase[b])
    /\ hits' = Report(state', "udata", Len(Tx) + 1)
    /\ UNCHANGED <<spc, q>>

(* Faulty form of AddQueue: a list that finds the queue at its last place  *)
(* is dropped.                                                             *)
AddQueue_Drops(s) ==
    IF s \in ToSet(q) \/ Len(q) + 1 >= AC_MAX_INQ THEN q ELSE Append(q, s)

(* _add_queue: a list already waiting is not added again. *)
AddQueue(s) ==
    IF s \in ToSet(q) \/ Len(q) = AC_MAX_INQ THEN q ELSE Append(q, s)

(* _process_queue: every waiting list is reported, at offset 0. *)
Process(lists) ==
    hits \o [i \in DOMAIN lists |->
               [entry |-> Head(MatchList[lists[i]]), id |-> "udata", index |-> 0]]

(* acsmSearchSparseDFA_Full_q: matching states wait in a queue that is     *)
(* emptied whenever it is full.                                            *)
ScanFullQ(b) ==
    LET match == NextState[state][1] = 1 /\ MatchList[state] # <<>>
        added == IF match THEN AddQueue(state) ELSE q
        full == match /\ state \notin ToSet(q) /\ Len(added) = AC_MAX_INQ
    IN  /\ Is("DFA", {Rows!ACF_FULLQ})
        /\ Read(b)
        /\ hits' = IF full THEN Process(added) ELSE hits
        /\ q' = IF full THEN <<>> ELSE added
        /\ state' = Rows!NextFull(NextState[state], xlatcase[b])
        /\ UNCHANGED spc

(* The state from which a nondeterministic machine takes an input: the     *)
(* first one on the way of the fail states whose row does not fail.        *)
TakesFrom(input) ==
    LET chain == FailChain(state)
        Takes(j) == Rows!GetNextStateNFA(NextState[chain[j]], chain[j], input)
                        # FAIL
    IN  chain[CHOOSE j \in 0 .. acsmNumStates :
                 Takes(j) /\ \A l \in 0 .. j - 1 : ~ Takes(l)]

FailsAtOnce(input) ==
    Rows!GetNextStateNFA(NextState[state], state, input) = FAIL

(* acsmSearchSparseNFA: the state is tested after the byte that leads to   *)
(* it, as in acsmSearchSparseDFA, but the offset is worked out before the  *)
(* search has stepped over that byte and nothing is added to it.           *)
ScanNFA(b) ==
    /\ acsmFSA = "NFA"
    /\ ~ (failFreed /\ FailsAtOnce(xlatcase[b]))
    /\ Read(b)
    /\ LET from == TakesFrom(xlatcase[b])
       IN  state' = Rows!GetNextStateNFA(NextState[from], from, xlatcase[b])
    /\ hits' = ReportUnflagged(state', "udata", Len(Tx))
    /\ UNCHANGED <<spc, q>>

(* With the fail table released, following a fail state reads through a    *)
(* null pointer.                                                           *)
NullFail(b) ==
    /\ acsmFSA = "NFA"
    /\ failFreed /\ FailsAtOnce(xlatcase[b])
    /\ Read(b)
    /\ spc' = "crash"
    /\ UNCHANGED <<state, q, hits>>

(* Faulty form of EndOfText: no search checks its last state. *)
EndOfText_Unchecked ==
    /\ spc = "scan"
    /\ Tx # <<>>
    /\ spc' = "end"
    /\ hits' = IF Is("DFA", {Rows!ACF_FULLQ}) THEN Process(q) ELSE hits
    /\ q' = <<>>
    /\ UNCHANGED <<vars, acsmFormat, NextState, failFreed, Tx, state>>

(* The payload is read to its end: the searches that test a state late     *)
(* check the last one, where the banded search passes the pattern's        *)
(* pointer as id.                                                          *)
EndOfText ==
    /\ spc = "scan"
    /\ Tx # <<>>
    /\ spc' = "end"
    /\ hits' = CASE Is("DFA", {Rows!ACF_FULL, Rows!ACF_BANDED}) ->
                      ReportUnflagged(state, "udata", Len(Tx))
                 [] Is("DFA", {Rows!ACF_FULLQ}) ->
                      Process(IF MatchList[state] # <<>> THEN AddQueue(state)
                              ELSE q)
                 [] OTHER -> hits
    /\ q' = <<>>
    /\ UNCHANGED <<vars, acsmFormat, NextState, failFreed, Tx, state>>

Scan(b) == \/ ScanFull(b) \/ ScanBanded(b) \/ ScanSparse(b) \/ ScanFullQ(b)
           \/ ScanNFA(b) \/ NullFail(b)

SearchNext == \/ Next /\ UNCHANGED searchVars
              \/ PackRows
              \/ \E b \in Byte : Scan(b)
              \/ EndOfText

SearchSpec == SearchInit /\ [][SearchNext]_<<vars, searchVars>>

-----------------------------------------------------------------------------

(* Whatever the machine type and the row format, the machine is in the     *)
(* state of the longest suffix of the bytes read, case ignored.            *)
StateTracksText == spc \in {"scan", "end"} => state = LongestSuffix(Tx)

(* How many bytes before its match an offset lies: the nondeterministic    *)
(* search counts one too few (acsmx2.c:2841 lacks the "+ 1" of :2414).     *)
Early == IF acsmFSA = "NFA" THEN 1 ELSE 0

StartOf(hit) == hit.index + Early

EndOf(hit) == StartOf(hit) + Len(hit.entry.patrn)

(* Every match reported is there: the pattern occurs in the payload at the *)
(* offset a deterministic search reports, and exactly one byte behind the  *)
(* one the nondeterministic search reports, which is -1 for a pattern at   *)
(* the start.  (The queued search reports no offset.)                      *)
HitsSound ==
    acsmFormat # Rows!ACF_FULLQ =>
        \A i \in DOMAIN hits :
            /\ StartOf(hits[i]) >= 0
            /\ EndOf(hits[i]) <= Len(Tx)
            /\ SubSeq(Tx, StartOf(hits[i]) + 1, EndOf(hits[i])) =
                  hits[i].entry.patrn

(* The places of the payload where some pattern ends. *)
EndPositions ==
    {e \in 1 .. Len(Tx) :
        \E t \in Texts : IsSuffix(t, SubSeq(Tx, 1, e))}

(* At the end of the payload there is one match, and only one, for every   *)
(* place where a pattern ends, in the order of the places; the             *)
(* nondeterministic search reports each one byte before its place.         *)
OneHitPerEnd ==
    spc = "end" /\ acsmFormat # Rows!ACF_FULLQ =>
        /\ {EndOf(hits[i]) : i \in DOMAIN hits} = EndPositions
        /\ \A i, j \in DOMAIN hits : i < j => EndOf(hits[i]) < EndOf(hits[j])

(* The queue never holds a list twice nor more than it has places, and the *)
(* queued search, which drops duplicates and empties its queue when it is  *)
(* full, loses no matching state.                                          *)
QueueLosesNothing ==
    /\ Len(q) <= AC_MAX_INQ /\ IsInjective(q)
    /\ spc = "end" /\ acsmFormat = Rows!ACF_FULLQ =>
        {hits[i].entry : i \in DOMAIN hits} =
            {Head(MatchList[LongestSuffix(SubSeq(Tx, 1, e))]) :
                e \in EndPositions}

(* "Finds all occurrences of all patterns within a text." (acsmx2.c:46)    *)
FindsAllOccurrences ==
    spc = "end" =>
        \A t \in Texts, e \in EndPositions :
            IsSuffix(t, SubSeq(Tx, 1, e)) =>
                \E h \in DOMAIN hits :
                    hits[h].entry.patrn = t /\ EndOf(hits[h]) = e

(* "Check the last state for a pattern match" (acsmx2.c:2776): a match at  *)
(* the end of the payload is reported under the id the scanner knows it    *)
(* by, as the others are.                                                  *)
LastMatchHasId ==
    Is("DFA", {Rows!ACF_BANDED}) =>
        \A i \in DOMAIN hits : hits[i].id = "iid"
=============================================================================
