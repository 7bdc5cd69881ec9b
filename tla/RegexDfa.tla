------------------------------ MODULE RegexDfa -------------------------------
(***************************************************************************)
(* From the trees of the rules to the table the payload scan walks:        *)
(* generator::build (generator.hpp, with partition/charset.hpp and         *)
(* partition/equivset.hpp) and reassemble, which was written for this      *)
(* program.  One set of characters, one state of the machine or one pass   *)
(* over the machine per step.                                              *)
(***************************************************************************)
EXTENDS RegexTrees

VARIABLES
    root,        \* root_: the tree of all the rules
    rhs_list,    \* the charsets still to be split, of partition_charsets
    classes,     \* charset_list_: the classes of characters, by index + 1
    dfa,         \* dfa_: the rows, that of state s at s + 1
    seen,        \* seen_vectors_: the nodes of every state but the first
    index,       \* index_: how many states have their transitions
    eol_set,     \* the states with a transition on the end of a line
    graph        \* what reassemble answers

dfaVars == <<root, rhs_list, classes, dfa, seen, index, eol_set, graph>>
allVars == <<pc, ruleVars, parserVars, dfaVars>>

NoGraph == [alphabetTable |-> <<>>, nextTable |-> <<>>]

DfaInit == /\ root = 0 /\ rhs_list = <<>> /\ classes = <<>>
           /\ dfa = <<>> /\ seen = <<>> /\ index = 0 /\ eol_set = {}
           /\ graph = NoGraph

(* The columns of a row. *)
end_state_index == 0
id_index == 1
user_id_index == 2
push_dfa_index == 3
next_dfa_index == 4
eol_index == 5
dead_state_index == 6
transitions_index == 7

-----------------------------------------------------------------------------
(* build_tree: the trees side by side, the rule pushed first on the left.  *)

SideBySide(st, tree_root) ==
    LET ns == SelectionNode(st.nodes, st.root, tree_root)
    IN  [nodes |-> ns, root |-> Len(ns)]

(* Ranges are compared as vectors of pairs are. *)
Smaller(s, t) ==
    \/ Len(s) < Len(t) /\ s = SubSeq(t, 1, Len(s))
    \/ \E k \in DOMAIN s \cap DOMAIN t :
          /\ SubSeq(s, 1, k - 1) = SubSeq(t, 1, k - 1)
          /\ \/ s[k][1] < t[k][1]
             \/ s[k][1] = t[k][1] /\ s[k][2] < t[k][2]

(* A set of characters with the ids of the tokens it is a part of.         *)
CharsetOf(str) == [token |-> str, index_set |-> {LookupId(str)}]

(* The sets as the map iterates over them. *)
InMapOrder(order) ==
    \A k, l \in DOMAIN charsets :
        k < l => Smaller(charsets[order[k]], charsets[order[l]])

JoinTrees ==
    LET joined == FoldLeft(SideBySide,
                           [nodes |-> node_ptr, root |-> Head(roots)],
                           Tail(roots))
    IN  /\ pc = "trees"
        /\ node_ptr' = joined.nodes
        /\ root' = joined.root
        /\ \E order \in Bijection(DOMAIN charsets, DOMAIN charsets) :
              /\ InMapOrder(order)
              /\ rhs_list' = [k \in DOMAIN charsets |->
                                 CharsetOf(charsets[order[k]])]
        /\ pc' = "partition"
        /\ UNCHANGED <<ruleVars, rule, token_stack, next_token, tree_stack,
                       charsets, nl_id, roots, classes, dfa, seen, index,
                       eol_set, graph>>

-----------------------------------------------------------------------------
(* The loop partition_charsets and build_equiv_list share: the elements of *)
(* a list and a new one r are split so that no two overlap.  Meet(l, r) is *)
(* what is left of l and of r, and their overlap.                          *)

Added(st, l) == [list |-> Append(st.list, l), r |-> st.r, last |-> st.last]

Placed(st, l, met) ==
    IF met.overlap = {} THEN Added(st, l)
    ELSE IF met.l = {}
    THEN [list |-> st.list \o SetToSeq(met.overlap), r |-> met.r,
          last |-> FALSE]
    ELSE IF met.r = {}
    THEN [list |-> st.list \o SetToSeq(met.l), r |-> met.overlap,
          last |-> TRUE]
    ELSE [list |-> st.list \o SetToSeq(met.l) \o SetToSeq(met.overlap),
          r |-> met.r, last |-> FALSE]

(* One element l of the list.  Parts are sets of at most one element: what *)
(* is empty is gone.  Once r is empty or the part to append, the other     *)
(* elements are left alone.                                                *)
Meeting(Meet(_, _), st, l) ==
    IF st.last \/ st.r = {} THEN Added(st, l)
    ELSE Placed(st, l, Meet(l, CHOOSE r \in st.r : TRUE))

Split(Meet(_, _), list, r0) ==
    LET end == FoldLeft(LAMBDA st, l : Meeting(Meet, st, l),
                        [list |-> <<>>, r |-> {r0}, last |-> FALSE], list)
    IN  end.list \o SetToSeq(end.r)

(* Faulty form of MeetCharsets: the overlap is only the left one's.        *)
MeetCharsets_Left(l, r) ==
    LET met == Intersect(l.token, r.token)
        Part(str, ids) == IF str = <<>> THEN {}
                          ELSE {[token |-> str, index_set |-> ids]}
    IN  [l |-> Part(met.lhs, l.index_set), r |-> Part(met.rhs, r.index_set),
         overlap |-> Part(met.overlap, l.index_set)]

(* charset.intersect *)
MeetCharsets(l, r) ==
    LET met == Intersect(l.token, r.token)
        Part(str, ids) == IF str = <<>> THEN {}
                          ELSE {[token |-> str, index_set |-> ids]}
    IN  [l |-> Part(met.lhs, l.index_set), r |-> Part(met.rhs, r.index_set),
         overlap |-> Part(met.overlap, l.index_set \cup r.index_set)]

PartitionCharset ==
    /\ pc = "partition"
    /\ rhs_list # <<>>
    /\ classes' = Split(MeetCharsets, classes, Head(rhs_list))
    /\ rhs_list' = Tail(rhs_list)
    /\ UNCHANGED <<pc, ruleVars, parserVars, root, dfa, seen, index, eol_set,
                   graph>>

(* build_set_mapping: the classes that make up a token's set, and the      *)
(* column of every character.                                              *)
set_mapping(token) == {k - 1 : k \in {k \in DOMAIN classes :
                                         token \in classes[k].index_set}}

lookup == [c \in Char |->
              IF \E k \in DOMAIN classes : c \in Chars(classes[k].token)
              THEN transitions_index - 1 +
                   CHOOSE k \in DOMAIN classes : c \in Chars(classes[k].token)
              ELSE dead_state_index]

nl_class == CHOOSE k \in set_mapping(nl_id) : TRUE

dfa_alphabet ==
    Len(classes) + transitions_index + IF nl_id = NPOS THEN 0 ELSE 1

-----------------------------------------------------------------------------
(* The states.                                                             *)

IsEnd(n) == node_ptr[n].kind = "END"

Distinct(ns) == FoldLeft(LAMBDA out, n : IF Contains(out, n) THEN out
                                         ELSE Append(out, n), <<>>, ns)

EmptyRow == [c \in 0 .. dfa_alphabet - 1 |-> 0]

(* Where the end nodes of a state are. *)
EndPlaces(nodes) == {k \in DOMAIN nodes : IsEnd(nodes[k])}

(* Faulty form of EndRow: the last rule wins.                              *)
EndRow_Last(nodes) ==
    [EmptyRow EXCEPT ![end_state_index] = 1,
                     ![id_index] = node_ptr[nodes[Max(EndPlaces(nodes))]].id,
                     ![user_id_index] = NPOS, ![push_dfa_index] = NPOS]

(* The first end node of a state gives it its id. *)
EndRow(nodes) ==
    [EmptyRow EXCEPT ![end_state_index] = 1,
                     ![id_index] = node_ptr[nodes[Min(EndPlaces(nodes))]].id,
                     ![user_id_index] = NPOS, ![push_dfa_index] = NPOS]

NewRow(nodes) == IF EndPlaces(nodes) = {} THEN EmptyRow ELSE EndRow(nodes)

(* The state of a set of nodes, 0 for a set not seen yet.                  *)
StateOf(st, nodes) ==
    LET same == {k \in DOMAIN st.seen : ToSet(st.seen[k]) = ToSet(nodes)}
    IN  IF same = {} THEN 0 ELSE CHOOSE k \in same : TRUE

(* closure: st with the state of the nodes, and st.at that state; nothing  *)
(* follows the nodes of an empty list.                                     *)
Closure(st, followpos) ==
    LET nodes == Distinct(followpos)
        known == StateOf(st, nodes)
    IN  CASE followpos = <<>> -> [st EXCEPT !.at = NPOS]
          [] followpos # <<>> /\ known # 0 -> [st EXCEPT !.at = known]
          [] OTHER -> [st EXCEPT !.seen = Append(@, nodes),
                                 !.dfa = Append(@, NewRow(nodes)),
                                 !.at = Len(st.seen) + 1]

Machine == [dfa |-> dfa, seen |-> seen, eol_set |-> eol_set, at |-> 0]

SetMachine(st) == dfa' = st.dfa /\ seen' = st.seen /\ eol_set' = st.eol_set

(* The 'jam' state, and the state of what may come first. *)
BeginStates ==
    /\ pc = "partition"
    /\ rhs_list = <<>>
    /\ SetMachine(Closure([Machine EXCEPT !.dfa = <<EmptyRow>>],
                          node_ptr[root].firstpos))
    /\ pc' = "closure"
    /\ UNCHANGED <<ruleVars, parserVars, root, rhs_list, classes, index, graph>>

(* fill_rhs_list: what the nodes of a state lead to. *)
EquivsetOf(n) ==
    LET node == node_ptr[n]
    IN  [indexes |-> IF node.token \in Anchors THEN {node.token}
                     ELSE set_mapping(node.token),
         greedy |-> node.greedy, followpos |-> node.followpos]

Leads(n) == node_ptr[n].kind = "LEAF" /\ node_ptr[n].token # NULL

(* equivset.intersect: what is left keeps what it leads to, and in the     *)
(* overlap l comes first.                                                  *)
MeetEquivsets(l, r) ==
    LET common == l.indexes \cap r.indexes
        Part(x, indexes) == IF indexes = {} THEN {}
                            ELSE {[x EXCEPT !.indexes = indexes]}
    IN  [l |-> Part(l, l.indexes \ common), r |-> Part(r, r.indexes \ common),
         overlap |-> Part([l EXCEPT !.followpos = Distinct(@ \o r.followpos)],
                          common)]

(* build_equiv_list *)
AddNode(list, n) == IF Leads(n) THEN Split(MeetEquivsets, list, EquivsetOf(n))
                    ELSE list

EquivList(nodes) == FoldLeft(AddNode, <<>>, nodes)

(* One transition of the state s: on the start of a line it is kept in the *)
(* first word of all.                                                      *)
SetTransition(st, s, i) ==
    CASE i = BOL_TOKEN -> [st EXCEPT !.dfa[1][0] = st.at]
      [] i = EOL_TOKEN -> [st EXCEPT !.dfa[s + 1][eol_index] = st.at,
                                     !.eol_set = @ \cup {s}]
      [] OTHER -> [st EXCEPT !.dfa[s + 1][i + transitions_index] = st.at]

(* "Prune abstemious transitions from end states."                         *)
Pruned(st, s, greedy) == st.dfa[s + 1][end_state_index] # 0 /\ ~ greedy

AddEquivset(st, s, set) ==
    LET closed == Closure(st, set.followpos)
    IN  IF closed.at = NPOS \/ Pruned(closed, s, set.greedy) THEN closed
        ELSE FoldLeft(LAMBDA x, i : SetTransition(x, s, i), closed,
                      SetToSeq(set.indexes))

BuildState ==
    /\ pc = "closure"
    /\ index < Len(seen)
    /\ SetMachine(FoldLeft(LAMBDA st, set : AddEquivset(st, index + 1, set),
                           Machine, EquivList(seen[index + 1])))
    /\ index' = index + 1
    /\ UNCHANGED <<pc, ruleVars, parserVars, root, rhs_list, classes, graph>>

(* fix_clashes: a newline is tried behind the end of the line. *)
FixClash(rows, s) ==
    LET eol == rows[s + 1][eol_index]
        nl == transitions_index + nl_class
        nl_state == rows[s + 1][nl]
        cleared == [rows EXCEPT ![s + 1][nl] = 0]
    IN  IF s \notin eol_set \/ nl_state = 0 THEN rows
        ELSE IF cleared[eol + 1][nl] # 0 THEN cleared
        ELSE [cleared EXCEPT ![eol + 1][nl] = nl_state]

FixClashes ==
    /\ pc = "closure"
    /\ index = Len(seen)
    /\ dfa' = FoldLeft(FixClash, dfa, [s \in DOMAIN seen |-> s])
    /\ pc' = "reassemble"
    /\ UNCHANGED <<ruleVars, parserVars, root, rhs_list, classes, seen, index,
                   eol_set, graph>>

-----------------------------------------------------------------------------
(* reassemble                                                              *)

Ushort(n) == n % 65536

(* Faulty form of TableWord: the id is cut to one word. *)
TableWord_ShortId(row, c) ==
    CASE c >= dead_state_index /\ row[c] > 0 -> Ushort(row[c] - 1)
      [] OTHER -> Ushort(row[c])

(* A transition counts from the row behind the jam state's, and the id is  *)
(* four bytes, in the words of the id and of the user id.                  *)
TableWord(row, c) ==
    CASE c >= dead_state_index /\ row[c] > 0 -> Ushort(row[c] - 1)
      [] c = id_index -> Ushort(row[id_index])
      [] c = user_id_index -> row[id_index] \div 65536
      [] OTHER -> Ushort(row[c])

(* A class is a uchar. *)
Reassembled ==
    [alphabetTable |-> [c \in Char |-> (lookup[c] - dead_state_index) % 256],
     nextTable |-> [s \in 1 .. Len(dfa) - 1 |->
                       [c \in DOMAIN EmptyRow |-> TableWord(dfa[s + 1], c)]]]

Reassemble ==
    /\ pc = "reassemble"
    /\ Len(dfa) < 65535
    /\ graph' = Reassembled
    /\ pc' = "done"
    /\ UNCHANGED <<ruleVars, parserVars, root, rhs_list, classes, dfa, seen,
                   index, eol_set>>

(* "DFA state too large!": or no memory for it. *)
ReassembleFails ==
    /\ pc = "reassemble"
    /\ pc' = "error"
    /\ UNCHANGED <<ruleVars, parserVars, dfaVars>>

DfaNext == \/ JoinTrees \/ PartitionCharset \/ BeginStates \/ BuildState
           \/ FixClashes \/ Reassemble \/ ReassembleFails

RegexInit == ParseInit /\ DfaInit

(* Nothing is left to do: being stuck anywhere else is a deadlock.         *)
Ended == pc \in {"done", "error", "abort"} /\ UNCHANGED allVars

RegexNext == \/ ParseStep /\ UNCHANGED dfaVars
             \/ DfaNext
             \/ Ended

RegexSpec == RegexInit /\ [][RegexNext]_allVars

-----------------------------------------------------------------------------
(* Walking the machine, and walking the table as httpParse does.           *)

(* The state behind s on a symbol, 0 when there is none. *)
Behind(s, c) ==
    CASE s = 0 -> 0
      [] s # 0 /\ c = EOL_TOKEN -> dfa[s + 1][eol_index]
      [] OTHER -> dfa[s + 1][lookup[c]]

(* The state the machine is in behind a word, from the start of a line if  *)
(* the word says so.                                                       *)
Reached(w) ==
    IF w # <<>> /\ w[1] = BOL_TOKEN
    THEN FoldLeft(Behind, dfa[1][0], Tail(w))
    ELSE FoldLeft(Behind, 1, w)

Verdict(s) == IF s = 0 \/ dfa[s + 1][end_state_index] = 0 THEN 0
              ELSE dfa[s + 1][id_index]

(* One turn of the loop of httpParse: the row behind a byte, and what is   *)
(* reported there.                                                         *)
WalkByte(st, c) ==
    LET row == graph.nextTable[st.row + 1]
        next == row[dead_state_index + graph.alphabetTable[c]]
        behind == graph.nextTable[next + 1]
    IN  [row |-> next,
         ids |-> Append(st.ids,
                        IF behind[end_state_index] = 0 THEN 0
                        ELSE behind[id_index] + 65536 * behind[user_id_index])]

Walk(t) == FoldLeft(WalkByte, [row |-> 0, ids |-> <<>>], t).ids

-----------------------------------------------------------------------------

(* No two classes share a character, and the set of every token is made up *)
(* of the classes that are mapped to it: a byte's one column speaks for    *)
(* every token at once.                                                    *)
PartitionExact ==
    pc = "closure" /\ index = 0 =>
        /\ \A k, l \in DOMAIN classes :
              k # l => Chars(classes[k].token) \cap Chars(classes[l].token) = {}
        /\ \A k \in DOMAIN classes :
              classes[k].token # <<>> /\ IsNormal(classes[k].token)
        /\ \A k \in DOMAIN charsets :
              Chars(charsets[k])
                = UNION {Chars(classes[n + 1].token) : n \in set_mapping(k - 1)}

(* The first rule whose tree accepts a word, by its id; 0 if none does.    *)
FirstRule(w) ==
    LET accepting == {k \in DOMAIN roots : Accepts(roots[k], w)}
    IN  IF accepting = {} THEN 0
        ELSE regexes[CHOOSE k \in accepting : \A l \in accepting : k <= l].id

(* The words the machine can be asked: the start of a line comes first and *)
(* its end last.                                                           *)
Asked == {w \in Words : /\ \A k \in DOMAIN w : w[k] = BOL_TOKEN => k = 1
                        /\ \A k \in DOMAIN w : w[k] = EOL_TOKEN => k = Len(w)}

Lazy == \E n \in DOMAIN node_ptr :
           node_ptr[n].kind = "LEAF" /\ ~ node_ptr[n].greedy

(* A repeat that takes as little as it can may stop the machine, and so    *)
(* may a newline where ends of lines are seen: fix_clashes moves it behind *)
(* the end of the line, which a walk over bytes never takes.               *)
Stops(w) == Lazy \/ (nl_id # NPOS /\ Contains(w, 10))

(* The machine has one state behind the start of a line: that of the last  *)
(* state built with a '^' in it.  One that is repeated, as in "^*a", comes *)
(* after itself, so that it is in two of them.                             *)
BolFollows == \E n \in DOMAIN node_ptr : \E p \in ToSet(node_ptr[n].followpos) :
                 node_ptr[p].kind = "LEAF" /\ node_ptr[p].token = BOL_TOKEN

(* The states a word can lead to by another symbol than an end of line.    *)
Reachable == {1, dfa[1][0]}
             \cup {dfa[s + 1][lookup[c]] : s \in DOMAIN seen, c \in Char}

(* A state behind an end of line is met elsewhere: there the newline moved *)
(* behind the end of the line leads on, as for "a\n|ab|a$" behind "ab".    *)
Rejoins == \E s \in eol_set : dfa[s + 1][eol_index] \in Reachable

(* What the machine may be wrong about. *)
Mistaken(w) == \/ BolFollows /\ Contains(w, BOL_TOKEN)
               \/ Rejoins /\ Contains(w, 10)

(* The numbers of sets, classes and states mean nothing else.              *)
Numbered == /\ Len(charsets) < EOL_TOKEN
            /\ Len(classes) < EOL_TOKEN
            /\ Len(seen) < NPOS

(* The machine answers for every word the id of the first rule that        *)
(* matches it.  Where it may stop it may answer for fewer words, never for *)
(* more or with another rule.                                              *)
DfaExact ==
    pc = "reassemble" /\ Numbered =>
        \A w \in Asked : \/ Verdict(Reached(w)) = FirstRule(w)
                         \/ Stops(w) /\ Reached(w) = 0
                         \/ Mistaken(w)

(* The scan restarts behind every byte no rule can go on with. *)
Restart(st, c) ==
    LET s == Behind(st.at, c)
    IN  [at |-> IF s = 0 THEN 1 ELSE s, ids |-> Append(st.ids, Verdict(s))]

(* Walking the table reports what the machine does, restarted after each   *)
(* byte that leads it nowhere; a byte that fails is never the first of a   *)
(* match.  It takes fewer than 256 classes.                                *)
TableExact ==
    pc = "done" /\ Numbered /\ Len(classes) < 256 =>
        \A w \in {w \in Words : ToSet(w) \subseteq Sample} :
            Walk(w) = FoldLeft(Restart, [at |-> 1, ids |-> <<>>], w).ids
=============================================================================
