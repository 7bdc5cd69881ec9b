------------------------------ MODULE AcBuild -------------------------------
(***************************************************************************)
(* The compilation of an Aho-Corasick machine (acsmx2.c): patterns are     *)
(* collected, laid out as a trie of numbered states, given fail states and *)
(* match lists, and turned into a deterministic machine.                   *)
(*                                                                         *)
(* A list of transition nodes is a function from inputs to states, since   *)
(* List_PutNextState keeps its keys distinct.  word is not in the code: it *)
(* records the string that leads to each state of the trie, which is what  *)
(* the state stands for.                                                   *)
(***************************************************************************)
EXTENDS Naturals, SequencesExt

CONSTANTS
    AlphabetSize,   \* acsmAlphabetSize: 256 in the program
    PatternPool,    \* the strings, in upper case, that may become patterns
    FAIL,           \* ACSM_FAIL_STATE2, the number of no state
    FSAs,           \* the machine types to build, of {"NFA", "DFA"}
    MaxPatterns     \* bound of the model: patterns per machine

Input == 0 .. AlphabetSize - 1

ASSUME BuildAssumption ==
    /\ AlphabetSize \in Nat \ {0}
    /\ PatternPool \subseteq Seq(Input) \ {<<>>}
    /\ MaxPatterns \in Nat
    /\ FAIL \in Nat \ {0}
    /\ FSAs \subseteq {"NFA", "DFA"}
    /\ \A t \in PatternPool : MaxPatterns * Len(t) < FAIL

VARIABLES
    pc,             \* "adding", "states", "nfa", "dfa" or "done"
    acsmFSA,        \* the type of machine selected
    acsmPatterns,   \* the patterns, the last one added first
    plist,          \* the patterns _acsmCompile2 has still to lay out
    acsmMaxStates,
    acsmNumStates,
    TransTable,     \* acsmTransTable: state -> input -> state, partial
    FailState,      \* acsmFailState
    MatchList,      \* acsmMatchList: state -> patterns reported there
    queue,          \* the states still to visit
    word            \* the string a state stands for

compileVars == <<acsmMaxStates, acsmNumStates, TransTable, FailState,
                 MatchList, queue, word>>
vars == <<pc, acsmFSA, acsmPatterns, plist, compileVars>>

States == 0 .. acsmNumStates - 1

-----------------------------------------------------------------------------
(* The transition lists.                                                   *)

(* List_GetNextState: state 0 stays where it has no transition. *)
GetNextState(table, state, input) ==
    IF input \in DOMAIN table[state] THEN table[state][input]
    ELSE IF state = 0 THEN 0 ELSE FAIL

(* List_GetNextState2 *)
GetNextState2(table, state, input) ==
    IF input \in DOMAIN table[state] THEN table[state][input] ELSE 0

(* List_PutNextState *)
PutNextState(table, state, input, next) ==
    [table EXCEPT ![state] =
        [i \in DOMAIN @ \cup {input} |-> IF i = input THEN next ELSE @[i]]]

(* queue_add: a state already waiting is not added again. *)
QueueAdd(q, state) == IF state \in ToSet(q) THEN q ELSE Append(q, state)

(* The successors of a state are queued in the order of their inputs. *)
QueueSuccessors(q, table, state) ==
    LET added[i \in 0 .. AlphabetSize] ==
            IF i = 0 THEN q
            ELSE LET s == GetNextState2(table, state, i - 1)
                 IN  IF s = 0 THEN added[i - 1] ELSE QueueAdd(added[i - 1], s)
    IN  added[AlphabetSize]

-----------------------------------------------------------------------------

Init == /\ pc = "adding"
        /\ acsmFSA \in FSAs
        /\ acsmPatterns = <<>>
        /\ plist = <<>>
        /\ acsmMaxStates = 0
        /\ acsmNumStates = 0
        /\ TransTable = <<>>
        /\ FailState = <<>>
        /\ MatchList = <<>>
        /\ queue = <<>>
        /\ word = <<>>

(* acsmAddPattern2: the newest pattern goes first; iid tells patterns with *)
(* the same text apart.                                                    *)
AddPattern(patrn) ==
    /\ pc = "adding"
    /\ Len(acsmPatterns) < MaxPatterns
    /\ acsmPatterns' =
          <<[patrn |-> patrn, iid |-> Len(acsmPatterns) + 1]>> \o acsmPatterns
    /\ UNCHANGED <<pc, acsmFSA, plist, compileVars>>

(* Faulty form of the count: the "one extra" state is forgotten. *)
CountStates_NoExtra(patterns) ==
    LET count[i \in 0 .. Len(patterns)] ==
            IF i = 0 THEN 0 ELSE count[i - 1] + Len(patterns[i].patrn)
    IN  count

(* The most states the first i patterns can need: one per byte and the     *)
(* "one extra", state 0.                                                   *)
CountStates(patterns) ==
    LET count[i \in 0 .. Len(patterns)] ==
            IF i = 0 THEN 1 ELSE count[i - 1] + Len(patterns[i].patrn)
    IN  count

(* _acsmCompile2 begins: the tables are sized for the worst case, zeroed. *)
BeginCompile ==
    /\ pc = "adding"
    /\ pc' = "states"
    /\ plist' = acsmPatterns
    /\ acsmMaxStates' = CountStates(acsmPatterns)[Len(acsmPatterns)]
    /\ acsmNumStates' = 0
    /\ TransTable' = [s \in 0 .. acsmMaxStates' - 1 |-> [i \in {} |-> 0]]
    /\ MatchList' = [s \in 0 .. acsmMaxStates' - 1 |-> <<>>]
    /\ word' = [s \in {0} |-> <<>>]
    /\ UNCHANGED <<acsmFSA, acsmPatterns, FailState, queue>>

(* The states a pattern finds in place, from state 0 on: path[i] is the    *)
(* one reached by its first i bytes, 0 once there is none.                 *)
Path(patrn) ==
    LET path[i \in 0 .. Len(patrn)] ==
            IF i = 0 THEN 0
            ELSE IF i > 1 /\ path[i - 1] = 0 THEN 0
            ELSE LET next == GetNextState(TransTable, path[i - 1], patrn[i])
                 IN  IF next = FAIL THEN 0 ELSE next
    IN  path

(* Faulty form of Shared: every pattern gets states of its own.            *)
Shared_None(patrn) == 0

(* How many bytes of a pattern the trie already holds. *)
Shared(patrn) ==
    CHOOSE m \in 0 .. Len(patrn) :
        /\ \A i \in 1 .. m : Path(patrn)[i] # 0
        /\ m < Len(patrn) => Path(patrn)[m + 1] = 0

(* The state reached by the first i bytes of a pattern, m of them shared:  *)
(* one in place, or one of those added behind the last.                    *)
StateAt(patrn, m, i) ==
    IF i <= m THEN Path(patrn)[i] ELSE acsmNumStates + i - m

(* The transition lists after the first j of the states added.             *)
Extended(patrn, m) ==
    LET lists[j \in 0 .. Len(patrn) - m] ==
            IF j = 0 THEN TransTable
            ELSE PutNextState(lists[j - 1], StateAt(patrn, m, m + j - 1),
                              patrn[m + j], StateAt(patrn, m, m + j))
    IN  lists

(* AddPatternStates: follow the trie as far as it goes, then add one state *)
(* per remaining byte, and enter the pattern at the last one.              *)
AddPatternStates ==
    /\ pc = "states"
    /\ plist # <<>>
    /\ LET p == Head(plist)
           n == Len(p.patrn)
           m == Shared(p.patrn)
           last == StateAt(p.patrn, m, n)
       IN  /\ acsmNumStates' = acsmNumStates + n - m
           /\ TransTable' = Extended(p.patrn, m)[n - m]
           /\ MatchList' = [MatchList EXCEPT ![last] = <<p>> \o @]
           /\ word' = [s \in 0 .. acsmNumStates' |->
                         IF s \in DOMAIN word THEN word[s]
                         ELSE SubSeq(p.patrn, 1, m + s - acsmNumStates)]
    /\ plist' = Tail(plist)
    /\ UNCHANGED <<pc, acsmFSA, acsmPatterns, acsmMaxStates, FailState, queue>>

(* State 0 is counted, the fail table allocated (zeroed), and Build_NFA    *)
(* queues the states at depth 1, which fail to state 0.                    *)
BeginNFA ==
    /\ pc = "states"
    /\ plist = <<>>
    /\ pc' = "nfa"
    /\ acsmNumStates' = acsmNumStates + 1
    /\ FailState' = [s \in 0 .. acsmNumStates |-> 0]
    /\ queue' = QueueSuccessors(<<>>, TransTable, 0)
    /\ UNCHANGED <<acsmFSA, acsmPatterns, plist, acsmMaxStates, TransTable,
                   MatchList, word>>

(* Faulty form of NextValid: only the first fail state is tried. *)
NextValid_OneLevel(fs, input) ==
    GetNextState2(TransTable, fs, input)

(* The states met by following the fail states from fs.                    *)
FailChain(fs) ==
    LET chain[j \in 0 .. acsmNumStates] ==
            IF j = 0 THEN fs ELSE FailState[chain[j - 1]]
    IN  chain

(* The first transition on input that one of them has.                     *)
NextValid(fs, input) ==
    LET chain == FailChain(fs)
        Takes(j) == GetNextState(TransTable, chain[j], input) # FAIL
        first == CHOOSE j \in 0 .. acsmNumStates :
                    Takes(j) /\ \A l \in 0 .. j - 1 : ~ Takes(l)
    IN  GetNextState(TransTable, chain[first], input)

Child(r, s) == \E i \in DOMAIN TransTable[r] : TransTable[r][i] = s

InputTo(r, s) == CHOOSE i \in DOMAIN TransTable[r] : TransTable[r][i] = s

(* Faulty form of CopyMatches: no list is handed down.                     *)
CopyMatches_None(from, to) == to

(* Copies are inserted in front, one after the other. *)
CopyMatches(from, to) == Reverse(from) \o to

(* Build_NFA, one state r of its queue: the fail state of each successor,  *)
(* which also hands its matches down.  A fail state is shallower than the  *)
(* successors of r, so their order does not matter.                        *)
NfaStep ==
    /\ pc = "nfa"
    /\ queue # <<>>
    /\ LET r == Head(queue)
           fail(s) == NextValid(FailState[r], InputTo(r, s))
       IN  /\ FailState' = [s \in DOMAIN FailState |->
                              IF Child(r, s) THEN fail(s) ELSE FailState[s]]
           /\ MatchList' = [s \in DOMAIN MatchList |->
                              IF Child(r, s)
                              THEN CopyMatches(MatchList[fail(s)], MatchList[s])
                              ELSE MatchList[s]]
           /\ queue' = QueueSuccessors(Tail(queue), TransTable, r)
    /\ UNCHANGED <<pc, acsmFSA, acsmPatterns, plist, acsmMaxStates,
                   acsmNumStates, TransTable, word>>

(* A nondeterministic machine is complete. *)
EndNFA == /\ pc = "nfa"
          /\ queue = <<>>
          /\ acsmFSA = "NFA"
          /\ pc' = "done"
          /\ UNCHANGED <<acsmFSA, acsmPatterns, plist, compileVars>>

(* Convert_NFA_To_DFA queues the states at depth 1. *)
BeginDFA ==
    /\ pc = "nfa"
    /\ queue = <<>>
    /\ acsmFSA = "DFA"
    /\ pc' = "dfa"
    /\ queue' = QueueSuccessors(<<>>, TransTable, 0)
    /\ UNCHANGED <<acsmFSA, acsmPatterns, plist, acsmMaxStates, acsmNumStates,
                   TransTable, FailState, MatchList, word>>

(* Faulty form of Completed: the transitions of state 0 are added, not     *)
(* those of the fail state.                                                *)
Completed_FromRoot(r) ==
    LET own == DOMAIN TransTable[r]
    IN  [i \in own \cup DOMAIN TransTable[0] |->
            IF i \in own THEN TransTable[r][i] ELSE TransTable[0][i]]

(* The row of r with the transitions of its fail state added where it has  *)
(* none of its own.                                                        *)
Completed(r) ==
    LET own == DOMAIN TransTable[r]
        Inherited(i) == GetNextState(TransTable, FailState[r], i)
        more == {i \in Input \ own : Inherited(i) \notin {0, FAIL}}
    IN  [i \in own \cup more |->
            IF i \in own THEN TransTable[r][i] ELSE Inherited(i)]

(* Faulty form of DfaStep: the successors are queued from the completed    *)
(* row.                                                                    *)
DfaStep_QueueAfter ==
    /\ pc = "dfa"
    /\ queue # <<>>
    /\ LET r == Head(queue)
           table == [TransTable EXCEPT ![r] = Completed(r)]
       IN  /\ TransTable' = table
           /\ queue' = QueueSuccessors(Tail(queue), table, r)
    /\ UNCHANGED <<pc, acsmFSA, acsmPatterns, plist, acsmMaxStates,
                   acsmNumStates, FailState, MatchList, word>>

(* Convert_NFA_To_DFA, one state r of its queue. *)
DfaStep ==
    /\ pc = "dfa"
    /\ queue # <<>>
    /\ LET r == Head(queue)
       IN  /\ TransTable' = [TransTable EXCEPT ![r] = Completed(r)]
           /\ queue' = QueueSuccessors(Tail(queue), TransTable, r)
    /\ UNCHANGED <<pc, acsmFSA, acsmPatterns, plist, acsmMaxStates,
                   acsmNumStates, FailState, MatchList, word>>

EndDFA == /\ pc = "dfa"
          /\ queue = <<>>
          /\ pc' = "done"
          /\ UNCHANGED <<acsmFSA, acsmPatterns, plist, compileVars>>

Compile == \/ AddPatternStates \/ BeginNFA \/ NfaStep \/ EndNFA
           \/ BeginDFA \/ DfaStep \/ EndDFA

Next == \/ \E patrn \in PatternPool : AddPattern(patrn)
        \/ BeginCompile
        \/ Compile

(* The compilation is sequential code: once begun it keeps running. *)
Spec == Init /\ [][Next]_vars /\ WF_vars(Compile)

-----------------------------------------------------------------------------

(* The tables sized by BeginCompile hold every state the patterns make,    *)
(* the fail table sized later by the other count has an entry for each of  *)
(* them, and every entry is a state: no write leaves its table.            *)
StatesFit ==
    pc # "adding" =>
        /\ acsmNumStates <= acsmMaxStates
        /\ pc = "states" => acsmNumStates < acsmMaxStates
        /\ DOMAIN TransTable = 0 .. acsmMaxStates - 1
        /\ DOMAIN MatchList = 0 .. acsmMaxStates - 1
        /\ pc # "states" => /\ DOMAIN FailState = States
                            /\ \A s \in States : FailState[s] \in States

TrieDone == pc \in {"nfa", "dfa", "done"}

Texts == {acsmPatterns[i].patrn : i \in DOMAIN acsmPatterns}

(* The states are the prefixes of the patterns, each one exactly once,     *)
(* and a transition of the trie adds one byte.                             *)
TrieExact ==
    TrieDone =>
        /\ DOMAIN word = States
        /\ {word[s] : s \in States} =
              {<<>>} \cup UNION {Prefixes(t) : t \in Texts}
        /\ \A s, t \in States : word[s] = word[t] => s = t
        /\ pc = "nfa" =>
              \A s \in States : \A i \in DOMAIN TransTable[s] :
                  word[TransTable[s][i]] = Append(word[s], i)

(* The state of the longest suffix of a string that is in the trie. *)
LongestSuffix(str) ==
    CHOOSE s \in States :
        /\ IsSuffix(word[s], str)
        /\ \A t \in States :
              IsSuffix(word[t], str) => Len(word[t]) <= Len(word[s])

(* When the fail states are done, each is the longest proper suffix of its *)
(* state that is a state.                                                  *)
FailLongest ==
    pc \in {"dfa", "done"} =>
        \A s \in States \ {0} : FailState[s] = LongestSuffix(Tail(word[s]))

(* The match list of a state then holds every pattern its string ends      *)
(* with, each one once.                                                    *)
MatchListExact ==
    pc \in {"dfa", "done"} =>
        \A s \in States :
            /\ ToSet(MatchList[s]) =
                  {p \in ToSet(acsmPatterns) : IsSuffix(p.patrn, word[s])}
            /\ IsInjective(MatchList[s])

(* Both machines go, from any state on any input, to the state of the      *)
(* longest suffix of what has been read: the deterministic one at once,    *)
(* the other through its fail states.                                      *)
MachineExact ==
    pc = "done" =>
        \A s \in States, i \in Input :
            LongestSuffix(Append(word[s], i)) =
                IF acsmFSA = "DFA" THEN GetNextState2(TransTable, s, i)
                ELSE NextValid(s, i)

(* A compilation that has begun ends: no queue is refilled for ever. *)
CompileEnds == (pc = "states") ~> (pc = "done")
=============================================================================
