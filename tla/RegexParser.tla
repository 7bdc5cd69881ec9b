---------------------------- MODULE RegexParser -----------------------------
(***************************************************************************)
(* The parser of lexertl (parser.hpp): an operator precedence parser over  *)
(* the tokens of a rule that builds the tree of the rule and, with it,     *)
(* which characters may come first, last and after one another (the nodes  *)
(* under parser/tree).                                                     *)
(***************************************************************************)
EXTENDS RegexRules

VARIABLES
    rule,       \* the rule being parsed, an index of regexes
    token_stack, \* _token_stack, the top last
    next_token, \* the index of rhs_token_
    node_ptr,   \* _node_ptr_vector: every node of every tree
    tree_stack, \* _tree_node_stack: nodes, the top last
    charsets,   \* _charset_map: the sets in the order of their ids
    nl_id,      \* the id of the set of the newline, NPOS if no rule needs it
    roots       \* the trees of the rules parsed, in order

treeVars == <<node_ptr, tree_stack, charsets, nl_id>>
parserVars == <<rule, token_stack, next_token, treeVars, roots>>

(* The characters of a leaf that are none: the null token and the anchors. *)
NULL == NPOS
BOL_TOKEN == NPOS - 1
EOL_TOKEN == NPOS - 2

ParserInit ==
    /\ rule = 1
    /\ token_stack = <<>> /\ next_token = 1
    /\ node_ptr = <<>> /\ tree_stack = <<>>
    /\ charsets = <<>> /\ nl_id = NPOS
    /\ roots = <<>>

-----------------------------------------------------------------------------
(* The nodes: constructors answer the vector with the new node last.       *)

NewId(ns) == Len(ns) + 1

BasicNode == [kind |-> "LEAF", left |-> 0, right |-> 0, nullable |-> FALSE,
              firstpos |-> <<>>, lastpos |-> <<>>, followpos |-> <<>>,
              token |-> NULL, greedy |-> TRUE, set_greedy |-> FALSE,
              id |-> 0]

Leaf(ns, token, greedy) ==
    LET pos == IF token = NULL THEN <<>> ELSE <<NewId(ns)>>
    IN  Append(ns, [BasicNode EXCEPT !.nullable = (token = NULL),
                                     !.firstpos = pos, !.lastpos = pos,
                                     !.token = token, !.greedy = greedy,
                                     !.set_greedy = ~ greedy])

EndNode(ns, id) ==
    Append(ns, [BasicNode EXCEPT !.kind = "END", !.id = id,
                                 !.firstpos = <<NewId(ns)>>,
                                 !.lastpos = <<NewId(ns)>>])

AppendFollowpos(ns, last, first) ==
    [n \in DOMAIN ns |-> IF Contains(last, n)
                         THEN [ns[n] EXCEPT !.followpos = @ \o first]
                         ELSE ns[n]]

(* A leaf keeps the first word on whether it is greedy. *)
SetGreedy(ns, first, greedy) ==
    [n \in DOMAIN ns |->
        IF Contains(first, n) /\ ns[n].kind = "LEAF" /\ ~ ns[n].set_greedy
        THEN [ns[n] EXCEPT !.greedy = greedy, !.set_greedy = TRUE]
        ELSE ns[n]]

(* Faulty form of SequenceNode: what may follow l is not extended by r.    *)
SequenceNode_Unlinked(ns, l, r) ==
    Append(ns,
           [BasicNode EXCEPT
               !.kind = "SEQUENCE", !.left = l, !.right = r,
               !.nullable = ns[l].nullable /\ ns[r].nullable,
               !.firstpos = ns[l].firstpos \o
                            IF ns[l].nullable THEN ns[r].firstpos ELSE <<>>,
               !.lastpos = ns[r].lastpos])

SequenceNode(ns, l, r) ==
    Append(AppendFollowpos(ns, ns[l].lastpos, ns[r].firstpos),
           [BasicNode EXCEPT
               !.kind = "SEQUENCE", !.left = l, !.right = r,
               !.nullable = ns[l].nullable /\ ns[r].nullable,
               !.firstpos = ns[l].firstpos \o
                            IF ns[l].nullable THEN ns[r].firstpos ELSE <<>>,
               !.lastpos = (IF ns[r].nullable THEN ns[l].lastpos ELSE <<>>)
                           \o ns[r].lastpos])

SelectionNode(ns, l, r) ==
    Append(ns, [BasicNode EXCEPT
                   !.kind = "SELECTION", !.left = l, !.right = r,
                   !.nullable = ns[l].nullable \/ ns[r].nullable,
                   !.firstpos = ns[l].firstpos \o ns[r].firstpos,
                   !.lastpos = ns[l].lastpos \o ns[r].lastpos])

IterationNode(ns, x, greedy) ==
    LET linked == AppendFollowpos(ns, ns[x].lastpos, ns[x].firstpos)
    IN  Append(SetGreedy(linked, ns[x].firstpos, greedy),
               [BasicNode EXCEPT !.kind = "ITERATION", !.left = x,
                                 !.nullable = TRUE, !.greedy = greedy,
                                 !.firstpos = ns[x].firstpos,
                                 !.lastpos = ns[x].lastpos])

-----------------------------------------------------------------------------
(* The trees on the stack: st is [nodes, stack].                           *)

Top(st) == Last(st.stack)

(* The new node takes the place of the k topmost trees. *)
Replace(st, k, ns) ==
    [nodes |-> ns,
     stack |-> Append(SubSeq(st.stack, 1, Len(st.stack) - k), Len(ns))]

Second(st) == st.stack[Len(st.stack) - 1]

Sequence(st) == Replace(st, 2, SequenceNode(st.nodes, Second(st), Top(st)))

PerformOr(st) == Replace(st, 2, SelectionNode(st.nodes, Second(st), Top(st)))

PushLeaf(st, token) == Replace(st, 0, Leaf(st.nodes, token, TRUE))

(* The nodes below x, every one behind its own. *)
PostOrder(ns, x) ==
    LET order[n \in 0 .. Len(ns)] ==
            IF n = 0 THEN <<>>
            ELSE order[ns[n].left] \o order[ns[n].right] \o <<n>>
    IN  order[x]

(* copy_node, one for each kind of node. *)
CopyNode(st, n) ==
    LET node == st.nodes[n]
    IN  CASE node.kind = "LEAF" ->
                Replace(st, 0, Leaf(st.nodes, node.token, node.greedy))
          [] node.kind = "ITERATION" ->
                Replace(st, 1, IterationNode(st.nodes, Top(st), node.greedy))
          [] node.kind = "SEQUENCE" -> Sequence(st)
          [] node.kind = "SELECTION" -> PerformOr(st)

(* copy: the nodes below x are made anew, over a stack of new nodes; the   *)
(* last of them is for x.                                                  *)
Copy(ns, x) ==
    FoldLeft(CopyNode, [nodes |-> ns, stack |-> <<>>], PostOrder(ns, x)).nodes

PushCopy(st) == Replace(st, 0, Copy(st.nodes, Top(st)))

Optional(st, greedy) ==
    LET x == Top(st)
        ns == Leaf(SetGreedy(st.nodes, st.nodes[x].firstpos, greedy),
                   NULL, greedy)
    IN  Replace(st, 1, SelectionNode(ns, x, Len(ns)))

ZeroOrMore(st, greedy) ==
    Replace(st, 1, IterationNode(st.nodes, Top(st), greedy))

(* x+ is x x*: the star is over a copy. *)
OneOrMore(st, greedy) == Sequence(ZeroOrMore(PushCopy(st), greedy))

(* The topmost tree is joined to the one below and a copy made of it, n    *)
(* times.                                                                  *)
JoinCopies(st, n) ==
    FoldLeft(LAMBDA s, k :
                LET copied == Replace(s, 0, Copy(s.nodes, Top(s)))
                    joined == Sequence([copied EXCEPT !.stack = Front(@)])
                IN  [joined EXCEPT !.stack = Append(@, Top(copied))],
             st, [k \in 1 .. n |-> k])

(* The topmost tree, a copy of the one below, stands for what comes after  *)
(* the minimum of {min,} or {min,max}.                                     *)
RestOf(st, greedy, n) ==
    LET joined == IF n.min > 1 THEN JoinCopies(st, 1) ELSE st
    IN  IF n.max > 0
        THEN JoinCopies(Optional(joined, greedy), n.max - n.min - 1)
        ELSE ZeroOrMore(joined, greedy)

(* How many copies of {min}, {min,} or {0,max} are joined before the last. *)
Joined(n) == (IF n.min > 0 THEN n.min ELSE n.max) - 2

(* repeatn *)
DoRepeat(st, greedy, n) ==
    LET copied == PushCopy(IF n.min = 0 THEN Optional(st, greedy) ELSE st)
        joined == JoinCopies(copied, Joined(n))
    IN  IF n.min = 1 /\ ~ n.comma THEN st
        ELSE Sequence(IF n.comma /\ n.min > 0 THEN RestOf(joined, greedy, n)
                      ELSE joined)

Duplicate(st, tok) ==
    LET greedy == tok.type \in Greedy
    IN  CASE tok.type \in {"OPT", "AOPT"} -> Optional(st, greedy)
          [] tok.type \in {"ZEROORMORE", "AZEROORMORE"} -> ZeroOrMore(st, greedy)
          [] tok.type \in {"ONEORMORE", "AONEORMORE"} -> OneOrMore(st, greedy)
          [] OTHER -> DoRepeat(st, greedy, tok.extra)

-----------------------------------------------------------------------------
(* parse                                                                   *)

rule_tokens == regexes[rule].tokens
rhs_token == rule_tokens[next_token]
action == Precedence(Last(token_stack).type, rhs_token.type)

tree == [nodes |-> node_ptr, stack |-> tree_stack]
SetTree(st) == node_ptr' = st.nodes /\ tree_stack' = st.stack

BeginRule ==
    /\ pc = "parse"
    /\ rule <= Len(regexes)
    /\ token_stack' = <<rule_tokens[1]>>
    /\ next_token' = 2
    /\ pc' = "shift"
    /\ UNCHANGED <<rule, treeVars, roots>>

Shift ==
    /\ pc = "shift"
    /\ token_stack # <<>>
    /\ action \in {"<", "="}
    /\ token_stack' = Append(token_stack, rhs_token)
    /\ next_token' = Lesser(next_token + 1, Len(rule_tokens))
    /\ UNCHANGED <<pc, rule, treeVars, roots>>

(* Two tokens that may not meet. *)
SyntaxError ==
    /\ pc = "shift"
    /\ token_stack # <<>>
    /\ action = " "
    /\ pc' = "error"
    /\ UNCHANGED parserVars

(* The handle: what is joined at the top of the stack. *)
Joint(k) == Precedence(token_stack[k - 1].type, token_stack[k].type)
HandleStart == CHOOSE k \in DOMAIN token_stack :
                   /\ k = 1 \/ Joint(k) # "="
                   /\ \A l \in k + 1 .. Len(token_stack) : Joint(l) = "="
handle == [k \in 1 .. Len(token_stack) - HandleStart + 1 |->
               token_stack[HandleStart + k - 1].type]
handle_token == token_stack[HandleStart]

(* assert(_token_stack->empty() || action_ == '<'); *)
HandleFound == HandleStart > 1 => Joint(HandleStart) = "<"

Reducing == /\ pc = "shift"
            /\ token_stack # <<>>
            /\ action = ">"

Handle(types) == Reducing /\ handle = types

(* The handle is replaced by tokens of these types. *)
ReduceTo(types) ==
    /\ HandleFound
    /\ token_stack' = SubSeq(token_stack, 1, HandleStart - 1)
                      \o [k \in DOMAIN types |-> Token(types[k])]
    /\ UNCHANGED <<pc, rule, next_token, roots>>

SameTree == UNCHANGED treeVars

(* The productions that leave the tree as it is. *)
Renamed ==
    {<< <<"BEGIN">>, <<>> >>, << <<"REGEX">>, <<>> >>,
     << <<"OREXP">>, <<"REGEX">> >>, << <<"SEQUENCE">>, <<"OREXP">> >>,
     << <<"SUB">>, <<"SEQUENCE">> >>, << <<"EXPRESSION">>, <<"SUB">> >>,
     << <<"REPEAT">>, <<"EXPRESSION">> >>,
     << <<"REPEAT", "DUP">>, <<"REPEAT">> >>,
     << <<"OPENPAREN", "REGEX", "CLOSEPAREN">>, <<"REPEAT">> >>}

Rename == \E production \in Renamed :
              Handle(production[1]) /\ ReduceTo(production[2]) /\ SameTree

(* orexp *)
ReduceOr == /\ Handle(<<"OREXP", "OR", "SEQUENCE">>)
            /\ ReduceTo(<<"OREXP">>)
            /\ SetTree(PerformOr(tree))
            /\ UNCHANGED <<charsets, nl_id>>

(* sub *)
ReduceSequence == /\ Handle(<<"SUB", "EXPRESSION">>)
                  /\ ReduceTo(<<"SUB">>)
                  /\ SetTree(Sequence(tree))
                  /\ UNCHANGED <<charsets, nl_id>>

(* lookup: the id of a set, which counts from 0, and the map with the set. *)
Looked(str) ==
    IF Contains(charsets, str) THEN charsets ELSE Append(charsets, str)
LookupId(str) == (CHOOSE k \in DOMAIN Looked(str) : Looked(str)[k] = str) - 1

ReduceCharset ==
    /\ Handle(<<"CHARSET">>)
    /\ ReduceTo(<<"REPEAT">>)
    /\ charsets' = Looked(handle_token.str)
    /\ SetTree(PushLeaf(tree, LookupId(handle_token.str)))
    /\ UNCHANGED nl_id

ReduceBol == /\ Handle(<<"BOL">>)
             /\ ReduceTo(<<"REPEAT">>)
             /\ SetTree(PushLeaf(tree, BOL_TOKEN))
             /\ UNCHANGED <<charsets, nl_id>>

(* The end of a line is seen by the newline: its set gets an id too. *)
ReduceEol == /\ Handle(<<"EOL">>)
             /\ ReduceTo(<<"REPEAT">>)
             /\ charsets' = Looked(Single(10))
             /\ nl_id' = LookupId(Single(10))
             /\ SetTree(PushLeaf(tree, EOL_TOKEN))

ReduceDuplicator ==
    /\ \E type \in Duplicators : Handle(<<type>>)
    /\ ReduceTo(<<"DUP">>)
    /\ SetTree(Duplicate(tree, handle_token))
    /\ UNCHANGED <<charsets, nl_id>>

Productions == {production[1] : production \in Renamed}
               \cup {<<"OREXP", "OR", "SEQUENCE">>, <<"SUB", "EXPRESSION">>}
               \cup {<<operand>> : operand \in {"CHARSET", "BOL", "EOL"}}
               \cup {<<duplicator>> : duplicator \in Duplicators}

(* An assertion of reduce fails, or its switch finds no production.        *)
ReduceFails == /\ Reducing
               /\ ~ HandleFound \/ handle \notin Productions
               /\ pc' = "abort"
               /\ UNCHANGED parserVars

-----------------------------------------------------------------------------
(* The end of a rule.                                                      *)

(* fixup_bol: once a rule begins with '^' every other may have an anchor   *)
(* before it.                                                              *)
FixupBol(ns) ==
    LET root == Len(ns)
        anchored == \E k \in DOMAIN ns[root].firstpos :
                        ns[ns[root].firstpos[k]].token = BOL_TOKEN
        leaves == Leaf(Leaf(ns, BOL_TOKEN, TRUE), NULL, TRUE)
        either == SelectionNode(leaves, root + 1, root + 2)
    IN  IF anchored THEN ns ELSE SequenceNode(either, root + 3, root)

seen_bol == \E k \in DOMAIN regexes : regexes[k].bol

(* The tree of the rule: the end node behind what was parsed. *)
Rooted ==
    LET ns == EndNode(node_ptr, regexes[rule].id)
        rooted == SequenceNode(ns, Last(tree_stack), Len(ns))
    IN  IF seen_bol THEN FixupBol(rooted) ELSE rooted

(* "Rules that match zero characters are not allowed" *)
MatchesNothing(ns) ==
    \E k \in DOMAIN Last(ns).firstpos : ns[Last(ns).firstpos[k]].kind = "END"

EndRule ==
    /\ pc = "shift"
    /\ token_stack = <<>>
    /\ node_ptr' = Rooted
    /\ IF MatchesNothing(Rooted) THEN pc' = "error" /\ UNCHANGED roots
       ELSE pc' = "parse" /\ roots' = Append(roots, Len(Rooted))
    /\ tree_stack' = <<>>
    /\ rule' = rule + 1
    /\ UNCHANGED <<token_stack, next_token, charsets, nl_id>>

EndParse == /\ pc = "parse"
            /\ rule > Len(regexes)
            /\ pc' = "trees"
            /\ UNCHANGED parserVars

ParserNext == \/ BeginRule \/ Shift \/ SyntaxError
              \/ Rename \/ ReduceOr \/ ReduceSequence \/ ReduceCharset
              \/ ReduceBol \/ ReduceEol \/ ReduceDuplicator \/ ReduceFails
              \/ EndRule \/ EndParse

ParseInit == RulesInit /\ ParserInit

ParseStep == \/ RulesNext /\ UNCHANGED parserVars
             \/ ParserNext /\ UNCHANGED ruleVars

(* Nothing is left to do: being stuck anywhere else is a deadlock.         *)
ParseEnded == /\ pc \in {"trees", "error", "abort"}
              /\ UNCHANGED <<pc, ruleVars, parserVars>>

ParseNext == ParseStep \/ ParseEnded

ParseSpec == ParseInit /\ [][ParseNext]_<<pc, ruleVars, parserVars>>

-----------------------------------------------------------------------------

(* The sets of characters that have an id are not empty, in normal form    *)
(* and, as sets, different: one set never gets two ids.                    *)
CharsetsDistinct ==
    /\ \A k \in DOMAIN charsets : charsets[k] # <<>> /\ IsNormal(charsets[k])
    /\ \A k, l \in DOMAIN charsets :
          Chars(charsets[k]) = Chars(charsets[l]) => k = l

(* A repeat made lazy by a '?' that does not stand right behind it: the    *)
(* tokens are legal side by side and have no production.                   *)
SplitLazy(toks) ==
    \E k \in 1 .. Len(toks) - 1 : /\ toks[k].type \in Greedy
                                  /\ toks[k + 1].type = "OPT"

(* The parser finds a production for every handle of every rule the        *)
(* tokeniser lets pass, SplitLazy rules aside: the assertions of reduce    *)
(* hold and it never meets two tokens that may not meet.                   *)
ParserAccepts ==
    /\ pc = "abort" => SplitLazy(rule_tokens)
    /\ ~ (pc = "error" /\ token_stack # <<>>)
=============================================================================
