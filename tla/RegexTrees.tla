----------------------------- MODULE RegexTrees -----------------------------
(***************************************************************************)
(* The words the trees of RegexParser match, by the positions that may     *)
(* come after one another.  RegexLanguage compares them with the meaning   *)
(* of expressions, RegexDfa with what the machine answers.                 *)
(***************************************************************************)
EXTENDS RegexParser

CONSTANTS
    Sample,     \* the codes the words compared are made of
    MaxWord     \* their greatest length

ASSUME WordAssumption == Sample \subseteq Char /\ NPOS \in Nat /\ NPOS > MAX_VAL + 3

(* A word is made of characters and of the two places of a line.           *)
Anchors == {BOL_TOKEN, EOL_TOKEN}
Words == UNION {[1 .. n -> Sample \cup Anchors] : n \in 0 .. MaxWord}

IsChar(c, node) ==
    /\ node.kind = "LEAF"
    /\ \/ c \in Anchors /\ node.token = c
       \/ c \notin Anchors /\ node.token \in 0 .. Len(charsets) - 1
          /\ c \in Chars(charsets[node.token + 1])

After(positions, c) ==
    UNION {ToSet(node_ptr[p].followpos) :
              p \in {q \in positions : IsChar(c, node_ptr[q])}}

Accepts(root, w) ==
    \E p \in FoldLeft(After, ToSet(node_ptr[root].firstpos), w) :
        node_ptr[p].kind = "END"
=============================================================================
