--------------------------- MODULE RegexTableProofs ---------------------------
(***************************************************************************)
(* The table of the compiler reports what its machine does.  First the     *)
(* trees the parser builds are shown to be well formed, operation by       *)
(* operation and step by step; then the tree of all the rules, the classes *)
(* of characters and the rows of the machine, state by state; last the     *)
(* walk over the table is compared with the walk over the machine.         *)
(***************************************************************************)
EXTENDS RegexSetsProofs

-----------------------------------------------------------------------------
(* Trees: lists of positions.                                              *)

(* Lists of nodes behind lo and up to hi: those of one rule.               *)
Positions(lo, hi) == Seq(lo + 1 .. hi)

(* No node, one, and two lists end to end; more nodes are no harm.         *)
LEMMA NoPositions == \A lo, hi : <<>> \in Positions(lo, hi)
BY DEF Positions

(* A list of one position. *)
LEMMA OnePosition ==
    \A lo \in Nat, hi \in Nat : \A n \in lo + 1 .. hi : <<n>> \in Positions(lo, hi)
BY DEF Positions

(* Two lists, one behind the other. *)
LEMMA JoinPositions ==
    ASSUME NEW lo, NEW hi, NEW s \in Positions(lo, hi), NEW t \in Positions(lo, hi)
    PROVE  s \o t \in Positions(lo, hi)
BY DEF Positions

(* The positions of more nodes. *)
LEMMA MorePositions ==
    ASSUME NEW lo \in Nat, NEW hi \in Nat, NEW top \in Nat, hi <= top,
           NEW s \in Positions(lo, hi)
    PROVE  s \in Positions(lo, top)
<1>1. lo + 1 .. hi \subseteq lo + 1 .. top
  OBVIOUS
<1> QED
  BY <1>1, SeqWider DEF Positions

(* A list, node by node. *)
LEMMA EachPosition ==
    ASSUME NEW lo \in Nat, NEW hi \in Nat, NEW s \in Positions(lo, hi)
    PROVE  /\ Len(s) \in Nat /\ DOMAIN s = 1 .. Len(s)
           /\ \A k \in 1 .. Len(s) : s[k] \in lo + 1 .. hi
           /\ s \in Seq(Nat)
<1>1. lo + 1 .. hi \subseteq Nat
  OBVIOUS
<1>2. s \in Seq(Nat)
  BY <1>1, SeqWider DEF Positions
<1> QED
  BY <1>2 DEF Positions

-----------------------------------------------------------------------------
(* Trees: the nodes.                                                       *)

(* The kinds of node that are not an end. *)
Inner == {"LEAF", "SEQUENCE", "SELECTION", "ITERATION"}

(* A node, whatever it is made of. *)
Node == [kind : Inner \cup {"END"}, left : Nat, right : Nat, nullable : BOOLEAN,
         firstpos : Seq(Nat), lastpos : Seq(Nat), followpos : Seq(Nat),
         token : Int, greedy : BOOLEAN, set_greedy : BOOLEAN, id : Nat]

(* The node n stands behind those it is made of, which are of its rule, and *)
(* something comes first in it if it is not nullable; an end node has one  *)
(* of the ids I, and a leaf one of the tokens T.                           *)
Stands(x, n, lo) ==
    /\ x.nullable \/ x.firstpos # <<>>
    /\ x.kind \in {"LEAF", "END"} => x.left = 0 /\ x.right = 0
    /\ x.kind = "ITERATION" => x.left \in lo + 1 .. n - 1 /\ x.right = 0
    /\ x.kind \in {"SEQUENCE", "SELECTION"} =>
          x.left \in lo + 1 .. n - 1 /\ x.right \in lo + 1 .. n - 1

(* Which ids the ends have and which tokens the leaves. *)
Marked(x, I, T) ==
    /\ x.kind = "END" => x.id \in I
    /\ x.kind = "LEAF" => x.token \in T

(* The lists of a node hold positions of the rule. *)
Linked(x, lo, hi) ==
    /\ x.firstpos \in Positions(lo, hi)
    /\ x.lastpos \in Positions(lo, hi)
    /\ x.followpos \in Positions(lo, hi)

(* The nodes behind lo are those of a rule. *)
Built(ns, lo, I, T) ==
    /\ ns \in Seq(Node)
    /\ lo \in Nat /\ lo <= Len(ns)
    /\ \A n \in 1 .. Len(ns) : ns[n].left < n /\ ns[n].right < n
    /\ \A n \in lo + 1 .. Len(ns) : /\ Stands(ns[n], n, lo)
                                    /\ Marked(ns[n], I, T)
                                    /\ Linked(ns[n], lo, Len(ns))

(* Nodes keep what they are, and those of earlier rules all they have.     *)
Alike(x, y) == /\ x.kind = y.kind /\ x.left = y.left /\ x.right = y.right
               /\ x.token = y.token /\ x.id = y.id /\ x.nullable = y.nullable
               /\ x.firstpos = y.firstpos /\ x.lastpos = y.lastpos

(* Nodes are added; those up to lo stay, the others change nothing but what*)
(* may follow them and how greedy they are.                                *)
Grows(ns, new, lo) ==
    /\ Len(ns) <= Len(new)
    /\ \A n \in 1 .. lo : new[n] = ns[n]
    /\ \A n \in 1 .. Len(ns) : Alike(ns[n], new[n])

(* The nodes, one by one. *)
LEMMA BuiltNodes ==
    ASSUME NEW ns, NEW lo, NEW I, NEW T, Built(ns, lo, I, T)
    PROVE  /\ ns \in Seq(Node) /\ Len(ns) \in Nat /\ DOMAIN ns = 1 .. Len(ns)
           /\ lo \in Nat /\ lo <= Len(ns)
           /\ \A n \in 1 .. Len(ns) : ns[n] \in Node
           /\ \A n \in lo + 1 .. Len(ns) :
                 /\ n \in 1 .. Len(ns)
                 /\ Stands(ns[n], n, lo) /\ Marked(ns[n], I, T)
                 /\ Linked(ns[n], lo, Len(ns))
BY DEF Built

(* What grows more, grows. *)
LEMMA GrowsMore ==
    ASSUME NEW a, NEW b, NEW c, NEW lo, NEW I, NEW T, NEW J, NEW U, NEW K, NEW V,
           Built(a, lo, I, T), Built(b, lo, J, U), Built(c, lo, K, V),
           Grows(a, b, lo), Grows(b, c, lo)
    PROVE  Grows(a, c, lo)
<1>1. /\ Len(a) \in Nat /\ Len(b) \in Nat /\ Len(c) \in Nat /\ lo \in Nat
      /\ lo <= Len(a)
  BY BuiltNodes
<1>2. Len(a) <= Len(b) /\ Len(b) <= Len(c)
  BY DEF Grows
<1>3. Len(a) <= Len(c) /\ \A n \in 1 .. Len(a) : n \in 1 .. Len(b)
  BY <1>1, <1>2
<1>4. \A x, y, z : Alike(x, y) /\ Alike(y, z) => Alike(x, z)
  BY DEF Alike
<1>5. \A n \in 1 .. Len(a) : Alike(a[n], b[n]) /\ Alike(b[n], c[n])
  BY <1>3 DEF Grows
<1>6. \A n \in 1 .. lo : c[n] = a[n]
  BY DEF Grows
<1> QED
  BY <1>3, <1>4, <1>5, <1>6 DEF Grows

(* What does not change, grows. *)
LEMMA GrowsSame ==
    ASSUME NEW a, NEW lo, NEW I, NEW T, Built(a, lo, I, T)
    PROVE  Grows(a, a, lo)
<1>1. Len(a) \in Nat
  BY BuiltNodes
<1> QED
  BY <1>1 DEF Grows, Alike

(* More ids and more tokens are no harm. *)
LEMMA BuiltWider ==
    ASSUME NEW ns, NEW lo, NEW I, NEW T, NEW J, NEW U, I \subseteq J, T \subseteq U,
           Built(ns, lo, I, T)
    PROVE  Built(ns, lo, J, U)
<1>1. \A x : Marked(x, I, T) => Marked(x, J, U)
  BY DEF Marked
<1> QED
  BY <1>1 DEF Built

(* A node behind the others. *)
LEMMA AppendBuilt ==
    ASSUME NEW ns, NEW lo, NEW I, NEW T, Built(ns, lo, I, T),
           NEW x \in Node, x.left <= Len(ns), x.right <= Len(ns),
           Stands(x, Len(ns) + 1, lo), Marked(x, I, T),
           Linked(x, lo, Len(ns) + 1)
    PROVE  /\ Built(Append(ns, x), lo, I, T)
           /\ Grows(ns, Append(ns, x), lo)
           /\ Len(Append(ns, x)) = Len(ns) + 1
           /\ Append(ns, x)[Len(ns) + 1] = x
<1> DEFINE new == Append(ns, x)
           m == Len(ns)
<1>1. /\ ns \in Seq(Node) /\ m \in Nat /\ lo \in Nat /\ lo <= m
  BY BuiltNodes
<1>2. /\ new \in Seq(Node) /\ Len(new) = m + 1 /\ new[m + 1] = x
      /\ \A n \in 1 .. m : new[n] = ns[n]
  BY <1>1
<1> HIDE DEF new, m
<1>3. \A n \in 1 .. m + 1 : n \in 1 .. m \/ n = m + 1
  BY <1>1
<1>4. \A n \in 1 .. m + 1 : new[n].left < n /\ new[n].right < n
  <2>1. \A n \in 1 .. m : ns[n].left < n /\ ns[n].right < n
    BY DEF Built, m
  <2>2. x.left \in Nat /\ x.right \in Nat
    BY DEF Node
  <2>3. x.left < m + 1 /\ x.right < m + 1
    BY <1>1, <2>2 DEF m
  <2> QED
    BY <1>2, <1>3, <2>1, <2>3
<1>5. \A y : Linked(y, lo, m) => Linked(y, lo, m + 1)
  <2>1. m + 1 \in Nat /\ m <= m + 1
    BY <1>1
  <2> QED
    BY <1>1, <2>1, MorePositions DEF Linked
<1>6. \A n \in lo + 1 .. m + 1 : n \in lo + 1 .. m \/ n = m + 1
  BY <1>1
<1>7. \A n \in lo + 1 .. m + 1 : /\ Stands(new[n], n, lo) /\ Marked(new[n], I, T)
                                 /\ Linked(new[n], lo, m + 1)
  <2>1. \A n \in lo + 1 .. m : /\ n \in 1 .. m /\ Stands(ns[n], n, lo)
                               /\ Marked(ns[n], I, T) /\ Linked(ns[n], lo, m)
    BY BuiltNodes DEF m
  <2>2. /\ Stands(x, m + 1, lo) /\ Marked(x, I, T) /\ Linked(x, lo, m + 1)
    BY DEF m
  <2> QED
    BY <1>2, <1>5, <1>6, <2>1, <2>2
<1>8. lo <= m + 1
  BY <1>1
<1>9. Built(new, lo, I, T)
  BY <1>1, <1>2, <1>4, <1>7, <1>8 DEF Built
<1>10. Grows(ns, new, lo)
  <2>1. m <= m + 1 /\ \A n \in 1 .. lo : n \in 1 .. m
    BY <1>1
  <2>2. \A y : Alike(y, y)
    BY DEF Alike
  <2> QED
    BY <1>2, <2>1, <2>2 DEF Grows, m
<1> QED
  BY <1>2, <1>9, <1>10 DEF new, m

(* Nodes that are changed in what follows them, or in how they repeat.     *)
LEMMA ChangedBuilt ==
    ASSUME NEW ns, NEW lo, NEW I, NEW T, Built(ns, lo, I, T), NEW new,
           new = [n \in 1 .. Len(ns) |-> new[n]],
           \A n \in 1 .. Len(ns) : new[n] \in Node /\ Alike(ns[n], new[n]),
           \A n \in 1 .. lo : new[n] = ns[n],
           \A n \in lo + 1 .. Len(ns) : new[n].followpos \in Positions(lo, Len(ns))
    PROVE  /\ Built(new, lo, I, T) /\ Grows(ns, new, lo) /\ Len(new) = Len(ns)
<1> DEFINE m == Len(ns)
<1>1. m \in Nat /\ lo \in Nat /\ lo <= m
  BY BuiltNodes
<1> HIDE DEF m
<1>2. new \in Seq(Node) /\ Len(new) = m
  <2>1. new = [n \in 1 .. m |-> new[n]] /\ \A n \in 1 .. m : new[n] \in Node
    BY DEF m
  <2>2. new \in [1 .. m -> Node]
    BY <2>1
  <2> QED
    BY <1>1, <2>2
<1>3. \A n \in 1 .. m : new[n].left < n /\ new[n].right < n
  BY DEF Built, Alike, m
<1>4. \A n \in lo + 1 .. m : /\ Stands(new[n], n, lo) /\ Marked(new[n], I, T)
                             /\ Linked(new[n], lo, m)
  <2> TAKE n \in lo + 1 .. m
  <2>1. /\ n \in 1 .. m /\ Stands(ns[n], n, lo)
        /\ Marked(ns[n], I, T) /\ Linked(ns[n], lo, m)
    BY BuiltNodes DEF m
  <2>2. Alike(ns[n], new[n]) /\ new[n].followpos \in Positions(lo, m)
    BY <2>1 DEF m
  <2>3. Stands(new[n], n, lo)
    BY <2>1, <2>2 DEF Stands, Alike
  <2>4. Marked(new[n], I, T)
    BY <2>1, <2>2 DEF Marked, Alike
  <2>5. Linked(new[n], lo, m)
    BY <2>1, <2>2 DEF Linked, Alike
  <2> QED
    BY <2>3, <2>4, <2>5
<1>5. Built(new, lo, I, T)
  BY <1>1, <1>2, <1>3, <1>4 DEF Built
<1>6. Grows(ns, new, lo)
  <2>1. m <= m
    BY <1>1
  <2> QED
    BY <1>2, <2>1 DEF Grows, m
<1> QED
  BY <1>2, <1>5, <1>6 DEF m

(* What follows the nodes of a list, *)
LEMMA AppendFollowposBuilt ==
    ASSUME NEW ns, NEW lo, NEW I, NEW T, Built(ns, lo, I, T),
           NEW last \in Positions(lo, Len(ns)), NEW first \in Positions(lo, Len(ns))
    PROVE  LET new == AppendFollowpos(ns, last, first)
           IN  Built(new, lo, I, T) /\ Grows(ns, new, lo) /\ Len(new) = Len(ns)
<1> DEFINE new == AppendFollowpos(ns, last, first)
           m == Len(ns)
<1>1. /\ m \in Nat /\ lo \in Nat /\ lo <= m /\ DOMAIN ns = 1 .. m
      /\ \A n \in 1 .. m : ns[n] \in Node
  BY BuiltNodes
<1>2. first \in Seq(Nat) /\ \A k \in 1 .. Len(last) : last[k] \in lo + 1 .. m
  BY <1>1, EachPosition
<1>3. new = [n \in 1 .. m |-> IF Contains(last, n)
                              THEN [ns[n] EXCEPT !.followpos = @ \o first]
                              ELSE ns[n]]
  BY <1>1 DEF AppendFollowpos
<1>4. \A x \in Node :
         LET y == [x EXCEPT !.followpos = @ \o first]
         IN  y \in Node /\ Alike(x, y) /\ y.followpos = x.followpos \o first
  <2> TAKE x \in Node
  <2> DEFINE f == x.followpos \o first
             y == [x EXCEPT !.followpos = @ \o first]
  <2>1. f \in Seq(Nat)
    <3>1. x.followpos \in Seq(Nat)
      BY DEF Node
    <3> QED
      BY <1>2, <3>1
  <2>2. y = [x EXCEPT !.followpos = f]
    OBVIOUS
  <2> HIDE DEF f
  <2>3. [x EXCEPT !.followpos = f] \in Node /\ [x EXCEPT !.followpos = f].followpos = f
    BY <2>1 DEF Node
  <2>4. Alike(x, [x EXCEPT !.followpos = f])
    BY DEF Node, Alike
  <2> QED
    BY <2>2, <2>3, <2>4 DEF f
<1> HIDE DEF new
<1>5. \A n \in 1 .. m : new[n] \in Node /\ Alike(ns[n], new[n])
  <2>1. \A x : Alike(x, x)
    BY DEF Alike
  <2> QED
    BY <1>1, <1>3, <1>4, <2>1
<1>6. \A n \in 1 .. lo : new[n] = ns[n]
  <2>1. \A n \in 1 .. lo : n \in 1 .. m /\ n \notin lo + 1 .. m
    BY <1>1
  <2>2. DOMAIN last = 1 .. Len(last)
    BY <1>1, EachPosition
  <2>3. \A n \in 1 .. lo : ~ Contains(last, n)
    BY <1>2, <2>1, <2>2 DEF Contains
  <2> QED
    BY <1>3, <2>1, <2>3
<1>7. \A n \in lo + 1 .. m : new[n].followpos \in Positions(lo, m)
  <2> TAKE n \in lo + 1 .. m
  <2>1. n \in 1 .. m /\ ns[n].followpos \in Positions(lo, m)
    BY BuiltNodes DEF m, Linked
  <2>2. ns[n].followpos \o first \in Positions(lo, m)
    BY <2>1, JoinPositions DEF m
  <2> QED
    BY <1>1, <1>3, <1>4, <2>1, <2>2
<1>8. new = [n \in 1 .. m |-> new[n]]
  BY <1>3
<1> QED
  BY <1>5, <1>6, <1>7, <1>8, ChangedBuilt DEF new, m

(* and whether they take all they can. *)
LEMMA SetGreedyBuilt ==
    ASSUME NEW ns, NEW lo, NEW I, NEW T, Built(ns, lo, I, T),
           NEW first \in Positions(lo, Len(ns)), NEW greedy \in BOOLEAN
    PROVE  LET new == SetGreedy(ns, first, greedy)
           IN  Built(new, lo, I, T) /\ Grows(ns, new, lo) /\ Len(new) = Len(ns)
<1> DEFINE new == SetGreedy(ns, first, greedy)
           m == Len(ns)
           Set(n) == Contains(first, n) /\ ns[n].kind = "LEAF" /\ ~ ns[n].set_greedy
<1>1. /\ m \in Nat /\ lo \in Nat /\ lo <= m /\ DOMAIN ns = 1 .. m
      /\ \A n \in 1 .. m : ns[n] \in Node
  BY BuiltNodes
<1>2. \A k \in 1 .. Len(first) : first[k] \in lo + 1 .. m
  BY <1>1, EachPosition
<1>3. new = [n \in 1 .. m |-> IF Set(n)
                              THEN [ns[n] EXCEPT !.greedy = greedy, !.set_greedy = TRUE]
                              ELSE ns[n]]
  BY <1>1 DEF SetGreedy
<1>4. \A x \in Node :
         LET y == [x EXCEPT !.greedy = greedy, !.set_greedy = TRUE]
         IN  y \in Node /\ Alike(x, y) /\ y.followpos = x.followpos
  BY DEF Node, Alike
<1>6. \A n \in 1 .. lo : new[n] = ns[n]
  <2>1. \A n \in 1 .. lo : n \in 1 .. m /\ n \notin lo + 1 .. m
    BY <1>1
  <2>2. DOMAIN first = 1 .. Len(first)
    BY <1>1, EachPosition
  <2>3. \A n \in 1 .. lo : ~ Set(n)
    BY <1>2, <2>1, <2>2 DEF Contains
  <2> HIDE DEF Set, new
  <2> QED
    BY <1>3, <2>1, <2>3
<1> HIDE DEF new, Set
<1>5. \A n \in 1 .. m : new[n] \in Node /\ Alike(ns[n], new[n])
  <2>1. \A x : Alike(x, x)
    BY DEF Alike
  <2> QED
    BY <1>1, <1>3, <1>4, <2>1
<1>7. \A n \in lo + 1 .. m : new[n].followpos \in Positions(lo, m)
  <2> TAKE n \in lo + 1 .. m
  <2>1. n \in 1 .. m /\ ns[n].followpos \in Positions(lo, m)
    BY BuiltNodes DEF m, Linked
  <2> QED
    BY <1>1, <1>3, <1>4, <2>1
<1>8. new = [n \in 1 .. m |-> new[n]]
  BY <1>3
<1> QED
  BY <1>5, <1>6, <1>7, <1>8, ChangedBuilt DEF new, m

-----------------------------------------------------------------------------
(* copy, node by node. *)
CopyAll(base, s) == FoldLeft(CopyNode, base, s)

(* It runs from the first node to the last. *)
LEMMA CopyNodeFold ==
    ASSUME NEW n \in Nat, NEW s, DOMAIN s = 1 .. n, NEW base
    PROVE  \E g : /\ g[0] = base
                  /\ \A k \in 1 .. n : g[k] = CopyNode(g[k - 1], s[k])
                  /\ CopyAll(base, s) = g[n]
<1> DEFINE Eq(f, k) == f = [T \in SUBSET (1 .. k) |->
                              IF T = {} THEN base
                              ELSE CopyNode(f[T \ {Max(T)}], s[Max(T)])]
           P == {k \in 0 .. n : \E f : Eq(f, k)}
           f == CHOOSE f : Eq(f, n)
<1>1. 0 \in P
  <2> DEFINE h == [T \in SUBSET (1 .. 0) |-> base]
  <2>1. \A T \in SUBSET (1 .. 0) : T = {}
    OBVIOUS
  <2>2. Eq(h, 0)
    BY <2>1
  <2> QED
    BY <2>2
<1>2. ASSUME NEW k \in 0 .. n, k \in P, k < n
      PROVE  k + 1 \in P
  <2>1. k \in Nat /\ k + 1 \in 0 .. n /\ k + 1 \in Nat
    BY <1>2
  <2>2. PICK h : Eq(h, k)
    BY <1>2
  <2> DEFINE m == k + 1
             new == [T \in SUBSET (1 .. m) |->
                       IF m \in T THEN CopyNode(h[T \ {m}], s[m]) ELSE h[T]]
  <2>3. \A T \in SUBSET (1 .. m) :
           /\ m \in T => T # {} /\ T \ {m} \in SUBSET (1 .. k)
           /\ m \notin T => T \in SUBSET (1 .. k)
    BY <2>1
  <2>4. \A T \in SUBSET (1 .. m) : m \in T => Max(T) = m
    <3> TAKE T \in SUBSET (1 .. m)
    <3> HAVE m \in T
    <3>1. Max(T) \in T /\ \A i \in T : i <= Max(T)
      BY <2>1, MaxOfNumbers
    <3>2. Max(T) \in 1 .. m /\ m <= Max(T)
      BY <3>1
    <3> QED
      BY <2>1, <3>2
  <2>5. \A T \in SUBSET (1 .. k) : T # {} => Max(T) \in T
    BY <2>1, MaxOfNumbers
  <2>6. \A T \in SUBSET (1 .. k) : T \in SUBSET (1 .. m) /\ m \notin T
    BY <2>1
  <2> HIDE DEF m
  <2>7. \A T \in SUBSET (1 .. k) : new[T] = h[T]
    BY <2>6
  <2>8. \A T \in SUBSET (1 .. k) :
           h[T] = IF T = {} THEN base ELSE CopyNode(h[T \ {Max(T)}], s[Max(T)])
    BY <2>2
  <2>9. \A T \in SUBSET (1 .. m) :
           new[T] = IF T = {} THEN base ELSE CopyNode(new[T \ {Max(T)}], s[Max(T)])
    <3> TAKE T \in SUBSET (1 .. m)
    <3>1. CASE m \in T
      <4>1. new[T] = CopyNode(h[T \ {m}], s[m]) /\ T # {} /\ Max(T) = m
        BY <2>3, <2>4, <3>1
      <4>2. new[T \ {m}] = h[T \ {m}]
        BY <2>3, <2>7, <3>1
      <4> HIDE DEF new
      <4> QED
        BY <4>1, <4>2
    <3>2. CASE m \notin T
      <4>1. T \in SUBSET (1 .. k) /\ new[T] = h[T]
        BY <2>3, <2>7, <3>2
      <4>2. T # {} => new[T \ {Max(T)}] = h[T \ {Max(T)}]
        BY <2>7, <4>1
      <4> HIDE DEF new
      <4> QED
        BY <2>8, <4>1, <4>2
    <3> QED
      BY <3>1, <3>2
  <2>10. Eq(new, m)
    <3>1. new = [T \in SUBSET (1 .. m) |-> new[T]]
      OBVIOUS
    <3> HIDE DEF new
    <3> QED
      BY <2>9, <3>1
  <2> QED
    BY <2>1, <2>10 DEF m
<1> HIDE DEF P
<1>3. n \in P
  <2>1. 0 .. n \subseteq P
    BY <1>1, <1>2, RangeInduction
  <2> QED
    BY <2>1
<1>4. Eq(f, n)
  <2>1. \E h : Eq(h, n)
    BY <1>3 DEF P
  <2> QED
    BY <2>1
<1> HIDE DEF f
<1> DEFINE g == [k \in 0 .. n |-> f[1 .. k]]
<1>5. g[0] = base
  <2>1. 1 .. 0 = {} /\ 1 .. 0 \in SUBSET (1 .. n)
    OBVIOUS
  <2> QED
    BY <1>4, <2>1
<1>6. \A k \in 1 .. n : g[k] = CopyNode(g[k - 1], s[k])
  <2> TAKE k \in 1 .. n
  <2>1. /\ 1 .. k \in SUBSET (1 .. n) /\ 1 .. k # {}
        /\ Max(1 .. k) = k /\ (1 .. k) \ {k} = 1 .. k - 1
    BY MaxOfPrefix
  <2>2. f[1 .. k] = CopyNode(f[(1 .. k) \ {Max(1 .. k)}], s[Max(1 .. k)])
    BY <1>4, <2>1
  <2>3. g[k] = f[1 .. k] /\ g[k - 1] = f[1 .. k - 1]
    OBVIOUS
  <2> QED
    BY <2>1, <2>2, <2>3
<1>7. CopyAll(base, s) = g[n]
  <2>1. CopyAll(base, s) = f[1 .. n]
    BY DEF CopyAll, FoldLeft, MapThenFoldSet, f
  <2> QED
    BY <2>1
<1> QED
  BY <1>5, <1>6, <1>7

(* One more copy joined to the tree below. *)
JoinCopy(s, k) ==
    LET copied == Replace(s, 0, Copy(s.nodes, Top(s)))
        joined == Sequence([copied EXCEPT !.stack = Front(@)])
    IN  [joined EXCEPT !.stack = Append(@, Top(copied))]

(* Joining copies, over a list of their numbers. *)
JoinAll(base, s) == FoldLeft(JoinCopy, base, s)

(* One copy after the other. *)
LEMMA JoinCopyFold ==
    ASSUME NEW n \in Nat, NEW s, DOMAIN s = 1 .. n, NEW base
    PROVE  \E g : /\ g[0] = base
                  /\ \A k \in 1 .. n : g[k] = JoinCopy(g[k - 1], s[k])
                  /\ JoinAll(base, s) = g[n]
<1> DEFINE Eq(f, k) == f = [T \in SUBSET (1 .. k) |->
                              IF T = {} THEN base
                              ELSE JoinCopy(f[T \ {Max(T)}], s[Max(T)])]
           P == {k \in 0 .. n : \E f : Eq(f, k)}
           f == CHOOSE f : Eq(f, n)
<1>1. 0 \in P
  <2> DEFINE h == [T \in SUBSET (1 .. 0) |-> base]
  <2>1. \A T \in SUBSET (1 .. 0) : T = {}
    OBVIOUS
  <2>2. Eq(h, 0)
    BY <2>1
  <2> QED
    BY <2>2
<1>2. ASSUME NEW k \in 0 .. n, k \in P, k < n
      PROVE  k + 1 \in P
  <2>1. k \in Nat /\ k + 1 \in 0 .. n /\ k + 1 \in Nat
    BY <1>2
  <2>2. PICK h : Eq(h, k)
    BY <1>2
  <2> DEFINE m == k + 1
             new == [T \in SUBSET (1 .. m) |->
                       IF m \in T THEN JoinCopy(h[T \ {m}], s[m]) ELSE h[T]]
  <2>3. \A T \in SUBSET (1 .. m) :
           /\ m \in T => T # {} /\ T \ {m} \in SUBSET (1 .. k)
           /\ m \notin T => T \in SUBSET (1 .. k)
    BY <2>1
  <2>4. \A T \in SUBSET (1 .. m) : m \in T => Max(T) = m
    <3> TAKE T \in SUBSET (1 .. m)
    <3> HAVE m \in T
    <3>1. Max(T) \in T /\ \A i \in T : i <= Max(T)
      BY <2>1, MaxOfNumbers
    <3>2. Max(T) \in 1 .. m /\ m <= Max(T)
      BY <3>1
    <3> QED
      BY <2>1, <3>2
  <2>5. \A T \in SUBSET (1 .. k) : T # {} => Max(T) \in T
    BY <2>1, MaxOfNumbers
  <2>6. \A T \in SUBSET (1 .. k) : T \in SUBSET (1 .. m) /\ m \notin T
    BY <2>1
  <2> HIDE DEF m
  <2>7. \A T \in SUBSET (1 .. k) : new[T] = h[T]
    BY <2>6
  <2>8. \A T \in SUBSET (1 .. k) :
           h[T] = IF T = {} THEN base ELSE JoinCopy(h[T \ {Max(T)}], s[Max(T)])
    BY <2>2
  <2>9. \A T \in SUBSET (1 .. m) :
           new[T] = IF T = {} THEN base ELSE JoinCopy(new[T \ {Max(T)}], s[Max(T)])
    <3> TAKE T \in SUBSET (1 .. m)
    <3>1. CASE m \in T
      <4>1. new[T] = JoinCopy(h[T \ {m}], s[m]) /\ T # {} /\ Max(T) = m
        BY <2>3, <2>4, <3>1
      <4>2. new[T \ {m}] = h[T \ {m}]
        BY <2>3, <2>7, <3>1
      <4> HIDE DEF new
      <4> QED
        BY <4>1, <4>2
    <3>2. CASE m \notin T
      <4>1. T \in SUBSET (1 .. k) /\ new[T] = h[T]
        BY <2>3, <2>7, <3>2
      <4>2. T # {} => new[T \ {Max(T)}] = h[T \ {Max(T)}]
        BY <2>7, <4>1
      <4> HIDE DEF new
      <4> QED
        BY <2>8, <4>1, <4>2
    <3> QED
      BY <3>1, <3>2
  <2>10. Eq(new, m)
    <3>1. new = [T \in SUBSET (1 .. m) |-> new[T]]
      OBVIOUS
    <3> HIDE DEF new
    <3> QED
      BY <2>9, <3>1
  <2> QED
    BY <2>1, <2>10 DEF m
<1> HIDE DEF P
<1>3. n \in P
  <2>1. 0 .. n \subseteq P
    BY <1>1, <1>2, RangeInduction
  <2> QED
    BY <2>1
<1>4. Eq(f, n)
  <2>1. \E h : Eq(h, n)
    BY <1>3 DEF P
  <2> QED
    BY <2>1
<1> HIDE DEF f
<1> DEFINE g == [k \in 0 .. n |-> f[1 .. k]]
<1>5. g[0] = base
  <2>1. 1 .. 0 = {} /\ 1 .. 0 \in SUBSET (1 .. n)
    OBVIOUS
  <2> QED
    BY <1>4, <2>1
<1>6. \A k \in 1 .. n : g[k] = JoinCopy(g[k - 1], s[k])
  <2> TAKE k \in 1 .. n
  <2>1. /\ 1 .. k \in SUBSET (1 .. n) /\ 1 .. k # {}
        /\ Max(1 .. k) = k /\ (1 .. k) \ {k} = 1 .. k - 1
    BY MaxOfPrefix
  <2>2. f[1 .. k] = JoinCopy(f[(1 .. k) \ {Max(1 .. k)}], s[Max(1 .. k)])
    BY <1>4, <2>1
  <2>3. g[k] = f[1 .. k] /\ g[k - 1] = f[1 .. k - 1]
    OBVIOUS
  <2> QED
    BY <2>1, <2>2, <2>3
<1>7. JoinAll(base, s) = g[n]
  <2>1. JoinAll(base, s) = f[1 .. n]
    BY DEF JoinAll, FoldLeft, MapThenFoldSet, f
  <2> QED
    BY <2>1
<1> QED
  BY <1>5, <1>6, <1>7

(* One tree after the other. *)
BesideAll(base, s) == FoldLeft(SideBySide, base, s)

(* It runs from the first tree to the last. *)
LEMMA SideBySideFold ==
    ASSUME NEW n \in Nat, NEW s, DOMAIN s = 1 .. n, NEW base
    PROVE  \E g : /\ g[0] = base
                  /\ \A k \in 1 .. n : g[k] = SideBySide(g[k - 1], s[k])
                  /\ BesideAll(base, s) = g[n]
<1> DEFINE Eq(f, k) == f = [T \in SUBSET (1 .. k) |->
                              IF T = {} THEN base
                              ELSE SideBySide(f[T \ {Max(T)}], s[Max(T)])]
           P == {k \in 0 .. n : \E f : Eq(f, k)}
           f == CHOOSE f : Eq(f, n)
<1>1. 0 \in P
  <2> DEFINE h == [T \in SUBSET (1 .. 0) |-> base]
  <2>1. \A T \in SUBSET (1 .. 0) : T = {}
    OBVIOUS
  <2>2. Eq(h, 0)
    BY <2>1
  <2> QED
    BY <2>2
<1>2. ASSUME NEW k \in 0 .. n, k \in P, k < n
      PROVE  k + 1 \in P
  <2>1. k \in Nat /\ k + 1 \in 0 .. n /\ k + 1 \in Nat
    BY <1>2
  <2>2. PICK h : Eq(h, k)
    BY <1>2
  <2> DEFINE m == k + 1
             new == [T \in SUBSET (1 .. m) |->
                       IF m \in T THEN SideBySide(h[T \ {m}], s[m]) ELSE h[T]]
  <2>3. \A T \in SUBSET (1 .. m) :
           /\ m \in T => T # {} /\ T \ {m} \in SUBSET (1 .. k)
           /\ m \notin T => T \in SUBSET (1 .. k)
    BY <2>1
  <2>4. \A T \in SUBSET (1 .. m) : m \in T => Max(T) = m
    <3> TAKE T \in SUBSET (1 .. m)
    <3> HAVE m \in T
    <3>1. Max(T) \in T /\ \A i \in T : i <= Max(T)
      BY <2>1, MaxOfNumbers
    <3>2. Max(T) \in 1 .. m /\ m <= Max(T)
      BY <3>1
    <3> QED
      BY <2>1, <3>2
  <2>5. \A T \in SUBSET (1 .. k) : T # {} => Max(T) \in T
    BY <2>1, MaxOfNumbers
  <2>6. \A T \in SUBSET (1 .. k) : T \in SUBSET (1 .. m) /\ m \notin T
    BY <2>1
  <2> HIDE DEF m
  <2>7. \A T \in SUBSET (1 .. k) : new[T] = h[T]
    BY <2>6
  <2>8. \A T \in SUBSET (1 .. k) :
           h[T] = IF T = {} THEN base ELSE SideBySide(h[T \ {Max(T)}], s[Max(T)])
    BY <2>2
  <2>9. \A T \in SUBSET (1 .. m) :
           new[T] = IF T = {} THEN base ELSE SideBySide(new[T \ {Max(T)}], s[Max(T)])
    <3> TAKE T \in SUBSET (1 .. m)
    <3>1. CASE m \in T
      <4>1. new[T] = SideBySide(h[T \ {m}], s[m]) /\ T # {} /\ Max(T) = m
        BY <2>3, <2>4, <3>1
      <4>2. new[T \ {m}] = h[T \ {m}]
        BY <2>3, <2>7, <3>1
      <4> HIDE DEF new
      <4> QED
        BY <4>1, <4>2
    <3>2. CASE m \notin T
      <4>1. T \in SUBSET (1 .. k) /\ new[T] = h[T]
        BY <2>3, <2>7, <3>2
      <4>2. T # {} => new[T \ {Max(T)}] = h[T \ {Max(T)}]
        BY <2>7, <4>1
      <4> HIDE DEF new
      <4> QED
        BY <2>8, <4>1, <4>2
    <3> QED
      BY <3>1, <3>2
  <2>10. Eq(new, m)
    <3>1. new = [T \in SUBSET (1 .. m) |-> new[T]]
      OBVIOUS
    <3> HIDE DEF new
    <3> QED
      BY <2>9, <3>1
  <2> QED
    BY <2>1, <2>10 DEF m
<1> HIDE DEF P
<1>3. n \in P
  <2>1. 0 .. n \subseteq P
    BY <1>1, <1>2, RangeInduction
  <2> QED
    BY <2>1
<1>4. Eq(f, n)
  <2>1. \E h : Eq(h, n)
    BY <1>3 DEF P
  <2> QED
    BY <2>1
<1> HIDE DEF f
<1> DEFINE g == [k \in 0 .. n |-> f[1 .. k]]
<1>5. g[0] = base
  <2>1. 1 .. 0 = {} /\ 1 .. 0 \in SUBSET (1 .. n)
    OBVIOUS
  <2> QED
    BY <1>4, <2>1
<1>6. \A k \in 1 .. n : g[k] = SideBySide(g[k - 1], s[k])
  <2> TAKE k \in 1 .. n
  <2>1. /\ 1 .. k \in SUBSET (1 .. n) /\ 1 .. k # {}
        /\ Max(1 .. k) = k /\ (1 .. k) \ {k} = 1 .. k - 1
    BY MaxOfPrefix
  <2>2. f[1 .. k] = SideBySide(f[(1 .. k) \ {Max(1 .. k)}], s[Max(1 .. k)])
    BY <1>4, <2>1
  <2>3. g[k] = f[1 .. k] /\ g[k - 1] = f[1 .. k - 1]
    OBVIOUS
  <2> QED
    BY <2>1, <2>2, <2>3
<1>7. BesideAll(base, s) = g[n]
  <2>1. BesideAll(base, s) = f[1 .. n]
    BY DEF BesideAll, FoldLeft, MapThenFoldSet, f
  <2> QED
    BY <2>1
<1> QED
  BY <1>5, <1>6, <1>7

-----------------------------------------------------------------------------
(* The constructors.                                                       *)

(* What a constructor makes of the nodes ns: x behind them. *)
Makes(ns, new, x, lo, I, T) ==
    /\ Built(new, lo, I, T) /\ Grows(ns, new, lo)
    /\ Len(new) = Len(ns) + 1 /\ new[Len(ns) + 1] = x

(* Nodes made of the basic one. *)
LEMMA BasicTyped ==
    ASSUME NPOS \in Nat
    PROVE  /\ BasicNode \in Node
           /\ BasicNode.kind = "LEAF" /\ BasicNode.left = 0 /\ BasicNode.right = 0
           /\ BasicNode.followpos = <<>> /\ BasicNode.firstpos = <<>>
           /\ BasicNode.lastpos = <<>> /\ BasicNode.id = 0 /\ BasicNode.greedy
           /\ ~ BasicNode.nullable /\ BasicNode.token = NULL
BY DEF BasicNode, Node, Inner, NULL

(* A leaf, *)
LEMMA LeafBuilt ==
    ASSUME NEW ns, NEW lo, NEW I, NEW T, Built(ns, lo, I, T),
           NEW token \in T, token \in Int, NEW greedy \in BOOLEAN, NPOS \in Nat
    PROVE  \E x : /\ Makes(ns, Leaf(ns, token, greedy), x, lo, I, T)
                  /\ x.kind = "LEAF" /\ x.token = token
                  /\ x.nullable = (token = NULL) /\ x.greedy = greedy
                  /\ x.firstpos = IF token = NULL THEN <<>> ELSE <<Len(ns) + 1>>
<1> DEFINE m == Len(ns)
           null == (token = NULL)
           lazy == (~ greedy)
           pos == IF token = NULL THEN <<>> ELSE <<m + 1>>
           x == [BasicNode EXCEPT !.nullable = null, !.firstpos = pos,
                                  !.lastpos = pos, !.token = token,
                                  !.greedy = greedy, !.set_greedy = lazy]
<1>1. m \in Nat /\ lo \in Nat /\ lo <= m
  BY BuiltNodes
<1>2. Leaf(ns, token, greedy) = Append(ns, x)
  BY DEF Leaf, NewId
<1>3. pos \in Positions(lo, m + 1) /\ <<>> \in Positions(lo, m + 1)
  <2>1. m + 1 \in lo + 1 .. m + 1 /\ m + 1 \in Nat
    BY <1>1
  <2> QED
    BY <1>1, <2>1, NoPositions, OnePosition
<1>4. pos \in Seq(Nat) /\ <<>> \in Seq(Nat)
  BY <1>1
<1>5. null \in BOOLEAN /\ lazy \in BOOLEAN
  OBVIOUS
<1>6. null \/ pos # <<>>
  OBVIOUS
<1> HIDE DEF pos, null, lazy
<1>7. /\ x \in Node /\ x.left = 0 /\ x.right = 0 /\ x.kind = "LEAF"
      /\ x.token = token /\ x.nullable = null /\ x.greedy = greedy
      /\ x.firstpos = pos /\ x.lastpos = pos /\ x.followpos = <<>>
  BY <1>4, <1>5, BasicTyped DEF Node
<1> HIDE DEF x
<1>8. Stands(x, m + 1, lo)
  BY <1>6, <1>7 DEF Stands
<1>9. Marked(x, I, T)
  BY <1>7 DEF Marked
<1>10. Linked(x, lo, m + 1)
  BY <1>3, <1>7 DEF Linked
<1>11. x.left <= m /\ x.right <= m
  BY <1>1, <1>7
<1>12. Makes(ns, Append(ns, x), x, lo, I, T)
  BY <1>7, <1>8, <1>9, <1>10, <1>11, AppendBuilt DEF Makes, m
<1> QED
  BY <1>2, <1>7, <1>12 DEF m, null, pos

(* an end, *)
LEMMA EndBuilt ==
    ASSUME NEW ns, NEW lo, NEW I, NEW T, Built(ns, lo, I, T),
           NEW id \in I, id \in Nat, NPOS \in Nat
    PROVE  \E x : /\ Makes(ns, EndNode(ns, id), x, lo, I, T)
                  /\ x.kind = "END" /\ x.id = id /\ ~ x.nullable
                  /\ x.firstpos = <<Len(ns) + 1>>
<1> DEFINE m == Len(ns)
           pos == <<m + 1>>
           x == [BasicNode EXCEPT !.kind = "END", !.id = id, !.firstpos = pos,
                                  !.lastpos = pos]
<1>1. m \in Nat /\ lo \in Nat /\ lo <= m
  BY BuiltNodes
<1>2. EndNode(ns, id) = Append(ns, x)
  BY DEF EndNode, NewId
<1>3. pos \in Positions(lo, m + 1) /\ <<>> \in Positions(lo, m + 1)
  <2>1. m + 1 \in lo + 1 .. m + 1 /\ m + 1 \in Nat
    BY <1>1
  <2> QED
    BY <1>1, <2>1, NoPositions, OnePosition
<1>4. pos \in Seq(Nat) /\ <<>> \in Seq(Nat)
  BY <1>1
<1>6. pos # <<>>
  OBVIOUS
<1> HIDE DEF pos
<1>7. /\ x \in Node /\ x.left = 0 /\ x.right = 0 /\ x.kind = "END"
      /\ x.id = id /\ ~ x.nullable
      /\ x.firstpos = pos /\ x.lastpos = pos /\ x.followpos = <<>>
  BY <1>4, BasicTyped DEF Node
<1> HIDE DEF x
<1>8. Stands(x, m + 1, lo)
  BY <1>6, <1>7 DEF Stands
<1>9. Marked(x, I, T)
  BY <1>7 DEF Marked
<1>10. Linked(x, lo, m + 1)
  BY <1>3, <1>7 DEF Linked
<1>11. x.left <= m /\ x.right <= m
  BY <1>1, <1>7
<1>12. Makes(ns, Append(ns, x), x, lo, I, T)
  BY <1>7, <1>8, <1>9, <1>10, <1>11, AppendBuilt DEF Makes, m
<1> QED
  BY <1>2, <1>7, <1>12 DEF m, pos

(* What a node of a rule has. *)
LEMMA NodeOf ==
    ASSUME NEW ns, NEW lo, NEW I, NEW T, Built(ns, lo, I, T),
           NEW n \in lo + 1 .. Len(ns)
    PROVE  /\ n \in Nat /\ n \in 1 .. Len(ns) /\ ns[n] \in Node
           /\ ns[n].nullable \in BOOLEAN /\ ns[n].greedy \in BOOLEAN
           /\ ns[n].firstpos \in Positions(lo, Len(ns))
           /\ ns[n].lastpos \in Positions(lo, Len(ns))
           /\ ns[n].followpos \in Positions(lo, Len(ns))
           /\ ns[n].nullable \/ ns[n].firstpos # <<>>
<1>1. Len(ns) \in Nat /\ lo \in Nat /\ n \in 1 .. Len(ns) /\ n \in Nat
  BY BuiltNodes
<1>2. ns[n] \in Node /\ Stands(ns[n], n, lo) /\ Linked(ns[n], lo, Len(ns))
  BY <1>1, BuiltNodes
<1>3. ns[n].nullable \in BOOLEAN /\ ns[n].greedy \in BOOLEAN
  BY <1>2 DEF Node
<1> QED
  BY <1>1, <1>2, <1>3 DEF Stands, Linked

(* a choice, *)
LEMMA SelectionBuilt ==
    ASSUME NEW ns, NEW lo, NEW I, NEW T, Built(ns, lo, I, T), NPOS \in Nat,
           NEW l \in lo + 1 .. Len(ns), NEW r \in lo + 1 .. Len(ns)
    PROVE  \E x : /\ Makes(ns, SelectionNode(ns, l, r), x, lo, I, T)
                  /\ x.kind = "SELECTION"
                  /\ (x.nullable <=> (ns[l].nullable \/ ns[r].nullable))
                  /\ x.firstpos = ns[l].firstpos \o ns[r].firstpos
                  /\ x.followpos = <<>>
<1> DEFINE m == Len(ns)
           null == (ns[l].nullable \/ ns[r].nullable)
           fst == ns[l].firstpos \o ns[r].firstpos
           lst == ns[l].lastpos \o ns[r].lastpos
           x == [BasicNode EXCEPT !.kind = "SELECTION", !.left = l, !.right = r,
                                  !.nullable = null, !.firstpos = fst,
                                  !.lastpos = lst]
<1>1. m \in Nat /\ lo \in Nat /\ lo <= m
  BY BuiltNodes
<1>2. SelectionNode(ns, l, r) = Append(ns, x)
  BY DEF SelectionNode
<1>a. /\ ns[l].firstpos \in Positions(lo, m) /\ ns[r].firstpos \in Positions(lo, m)
      /\ ns[l].lastpos \in Positions(lo, m) /\ ns[r].lastpos \in Positions(lo, m)
      /\ ns[l].nullable \in BOOLEAN /\ ns[r].nullable \in BOOLEAN
      /\ ns[l].nullable \/ ns[l].firstpos # <<>>
      /\ l \in Nat /\ r \in Nat
  BY NodeOf DEF m
<1>b. fst \in Positions(lo, m) /\ lst \in Positions(lo, m)
  BY <1>a, JoinPositions
<1>c. m + 1 \in Nat /\ m <= m + 1
  BY <1>1
<1>3. /\ fst \in Positions(lo, m + 1) /\ lst \in Positions(lo, m + 1)
      /\ <<>> \in Positions(lo, m + 1)
  <2> HIDE DEF fst, lst, m
  <2> QED
    BY <1>1, <1>b, <1>c, NoPositions, MorePositions
<1>4. fst \in Seq(Nat) /\ lst \in Seq(Nat) /\ <<>> \in Seq(Nat)
  <2> HIDE DEF fst, lst, m
  <2> QED
    BY <1>1, <1>b, EachPosition
<1>5. null \in BOOLEAN
  OBVIOUS
<1>6. null \/ fst # <<>>
  <2>1. ns[l].firstpos \in Seq(Nat) /\ ns[r].firstpos \in Seq(Nat)
    BY <1>1, <1>a, EachPosition
  <2>2. ns[l].firstpos # <<>> => fst # <<>>
    BY <2>1
  <2> QED
    BY <1>a, <2>2
<1>d. l \in lo + 1 .. (m + 1) - 1 /\ r \in lo + 1 .. (m + 1) - 1 /\ l <= m /\ r <= m
  BY <1>1
<1> HIDE DEF fst, lst, null, m
<1>7. /\ x \in Node /\ x.left = l /\ x.right = r /\ x.kind = "SELECTION"
      /\ x.nullable = null
      /\ x.firstpos = fst /\ x.lastpos = lst /\ x.followpos = <<>>
  BY <1>a, <1>4, <1>5, BasicTyped DEF Node, Inner
<1> HIDE DEF x
<1>8. Stands(x, m + 1, lo)
  BY <1>6, <1>7, <1>d DEF Stands
<1>9. Marked(x, I, T)
  BY <1>7 DEF Marked
<1>10. Linked(x, lo, m + 1)
  BY <1>3, <1>7 DEF Linked
<1>11. x.left <= m /\ x.right <= m
  BY <1>7, <1>d
<1>12. Makes(ns, Append(ns, x), x, lo, I, T)
  BY <1>7, <1>8, <1>9, <1>10, <1>11, AppendBuilt DEF Makes, m
<1> QED
  BY <1>2, <1>12, <1>7 DEF m, null, fst

(* What changed in between is as it was. *)
LEMMA AlikeNode ==
    ASSUME NEW ns, NEW mid, NEW lo, NEW I, NEW T, Built(ns, lo, I, T),
           Grows(ns, mid, lo), NEW n \in lo + 1 .. Len(ns)
    PROVE  Alike(ns[n], mid[n])
BY NodeOf DEF Grows

(* a sequence, *)
LEMMA SequenceBuilt ==
    ASSUME NEW ns, NEW lo, NEW I, NEW T, Built(ns, lo, I, T), NPOS \in Nat,
           NEW l \in lo + 1 .. Len(ns), NEW r \in lo + 1 .. Len(ns)
    PROVE  \E x : /\ Makes(ns, SequenceNode(ns, l, r), x, lo, I, T)
                  /\ x.kind = "SEQUENCE"
                  /\ (x.nullable <=> (ns[l].nullable /\ ns[r].nullable))
                  /\ x.firstpos = ns[l].firstpos \o
                                  IF ns[l].nullable THEN ns[r].firstpos ELSE <<>>
<1> DEFINE m == Len(ns)
           mid == AppendFollowpos(ns, ns[l].lastpos, ns[r].firstpos)
           null == (ns[l].nullable /\ ns[r].nullable)
           second == IF ns[l].nullable THEN ns[r].firstpos ELSE <<>>
           before == IF ns[r].nullable THEN ns[l].lastpos ELSE <<>>
           fst == ns[l].firstpos \o second
           lst == before \o ns[r].lastpos
           x == [BasicNode EXCEPT !.kind = "SEQUENCE", !.left = l, !.right = r,
                                  !.nullable = null, !.firstpos = fst,
                                  !.lastpos = lst]
<1>1. m \in Nat /\ lo \in Nat /\ lo <= m
  BY BuiltNodes
<1>2. SequenceNode(ns, l, r) = Append(mid, x)
  BY DEF SequenceNode
<1>a. /\ ns[l].firstpos \in Positions(lo, m) /\ ns[r].firstpos \in Positions(lo, m)
      /\ ns[l].lastpos \in Positions(lo, m) /\ ns[r].lastpos \in Positions(lo, m)
      /\ ns[l].nullable \in BOOLEAN /\ ns[r].nullable \in BOOLEAN
      /\ ns[l].nullable \/ ns[l].firstpos # <<>>
      /\ ns[r].nullable \/ ns[r].firstpos # <<>>
      /\ l \in Nat /\ r \in Nat
  BY NodeOf DEF m
<1>e. second \in Positions(lo, m) /\ before \in Positions(lo, m)
  BY <1>a, NoPositions
<1>b. fst \in Positions(lo, m) /\ lst \in Positions(lo, m)
  <2> HIDE DEF second, before
  <2> QED
    BY <1>a, <1>e, JoinPositions
<1>c. m + 1 \in Nat /\ m <= m + 1
  BY <1>1
<1>3. /\ fst \in Positions(lo, m + 1) /\ lst \in Positions(lo, m + 1)
      /\ <<>> \in Positions(lo, m + 1)
  <2> HIDE DEF fst, lst, m
  <2> QED
    BY <1>1, <1>b, <1>c, NoPositions, MorePositions
<1>4. fst \in Seq(Nat) /\ lst \in Seq(Nat) /\ <<>> \in Seq(Nat)
  <2> HIDE DEF fst, lst, m
  <2> QED
    BY <1>1, <1>b, EachPosition
<1>5. null \in BOOLEAN
  OBVIOUS
<1>6. null \/ fst # <<>>
  <2>1. ns[l].firstpos \in Seq(Nat) /\ ns[r].firstpos \in Seq(Nat)
        /\ second \in Seq(Nat)
    BY <1>1, <1>a, <1>e, EachPosition
  <2>2. ns[l].firstpos # <<>> \/ second # <<>> => fst # <<>>
    <3> HIDE DEF second
    <3> QED
      BY <2>1
  <2>3. ~ null => ns[l].firstpos # <<>> \/ second # <<>>
    BY <1>a
  <2> QED
    BY <2>2, <2>3
<1>d. l \in lo + 1 .. (m + 1) - 1 /\ r \in lo + 1 .. (m + 1) - 1 /\ l <= m /\ r <= m
  BY <1>1
<1>f. Built(mid, lo, I, T) /\ Grows(ns, mid, lo) /\ Len(mid) = m
  BY <1>a, AppendFollowposBuilt DEF m
<1> HIDE DEF fst, lst, null, m, mid, second, before
<1>7. /\ x \in Node /\ x.left = l /\ x.right = r /\ x.kind = "SEQUENCE"
      /\ x.nullable = null
      /\ x.firstpos = fst /\ x.lastpos = lst /\ x.followpos = <<>>
  BY <1>a, <1>4, <1>5, BasicTyped DEF Node, Inner
<1> HIDE DEF x
<1>8. Stands(x, m + 1, lo)
  BY <1>6, <1>7, <1>d DEF Stands
<1>9. Marked(x, I, T)
  BY <1>7 DEF Marked
<1>10. Linked(x, lo, m + 1)
  BY <1>3, <1>7 DEF Linked
<1>11. x.left <= m /\ x.right <= m
  BY <1>7, <1>d
<1>12. Makes(mid, Append(mid, x), x, lo, I, T)
  BY <1>7, <1>8, <1>9, <1>10, <1>11, <1>f, AppendBuilt DEF Makes
<1>14. Makes(ns, Append(mid, x), x, lo, I, T)
  BY <1>12, <1>f, GrowsMore DEF Makes, m
<1> QED
  BY <1>2, <1>14, <1>7 DEF null, fst, second

(* and a repeat. *)
LEMMA IterationBuilt ==
    ASSUME NEW ns, NEW lo, NEW I, NEW T, Built(ns, lo, I, T), NPOS \in Nat,
           NEW l \in lo + 1 .. Len(ns), NEW greedy \in BOOLEAN
    PROVE  \E x : /\ Makes(ns, IterationNode(ns, l, greedy), x, lo, I, T)
                  /\ x.kind = "ITERATION"
<1> DEFINE m == Len(ns)
           fst == ns[l].firstpos
           lst == ns[l].lastpos
           mid == AppendFollowpos(ns, lst, fst)
           set == SetGreedy(mid, fst, greedy)
           x == [BasicNode EXCEPT !.kind = "ITERATION", !.left = l,
                                  !.nullable = TRUE, !.greedy = greedy,
                                  !.firstpos = fst, !.lastpos = lst]
<1>1. m \in Nat /\ lo \in Nat /\ lo <= m
  BY BuiltNodes
<1>2. IterationNode(ns, l, greedy) = Append(set, x)
  BY DEF IterationNode
<1>b. fst \in Positions(lo, m) /\ lst \in Positions(lo, m) /\ l \in Nat
  BY NodeOf DEF m
<1>c. m + 1 \in Nat /\ m <= m + 1
  BY <1>1
<1>d. l \in lo + 1 .. (m + 1) - 1 /\ l <= m /\ 0 <= m
  BY <1>1
<1>e. Built(mid, lo, I, T) /\ Grows(ns, mid, lo) /\ Len(mid) = m
  <2> HIDE DEF fst, lst
  <2> QED
    BY <1>b, AppendFollowposBuilt DEF m
<1>f. Built(set, lo, I, T) /\ Grows(mid, set, lo) /\ Len(set) = m
  <2> HIDE DEF fst, lst, mid
  <2> QED
    BY <1>b, <1>e, SetGreedyBuilt DEF m
<1> HIDE DEF fst, lst, m, mid, set
<1>3. /\ fst \in Positions(lo, m + 1) /\ lst \in Positions(lo, m + 1)
      /\ <<>> \in Positions(lo, m + 1)
  BY <1>1, <1>b, <1>c, NoPositions, MorePositions
<1>4. fst \in Seq(Nat) /\ lst \in Seq(Nat) /\ <<>> \in Seq(Nat)
  BY <1>1, <1>b, EachPosition
<1>7. /\ x \in Node /\ x.left = l /\ x.right = 0 /\ x.kind = "ITERATION"
      /\ x.nullable
      /\ x.firstpos = fst /\ x.lastpos = lst /\ x.followpos = <<>>
  BY <1>b, <1>4, BasicTyped DEF Node, Inner
<1> HIDE DEF x
<1>8. Stands(x, m + 1, lo)
  BY <1>7, <1>d DEF Stands
<1>9. Marked(x, I, T)
  BY <1>7 DEF Marked
<1>10. Linked(x, lo, m + 1)
  BY <1>3, <1>7 DEF Linked
<1>11. x.left <= m /\ x.right <= m
  BY <1>7, <1>d
<1>12. Makes(set, Append(set, x), x, lo, I, T)
  BY <1>7, <1>8, <1>9, <1>10, <1>11, <1>f, AppendBuilt DEF Makes
<1>15. Grows(ns, set, lo)
  BY <1>e, <1>f, GrowsMore
<1>14. Makes(ns, Append(set, x), x, lo, I, T)
  BY <1>12, <1>15, <1>f, GrowsMore DEF Makes, m
<1> QED
  BY <1>2, <1>14, <1>7

-----------------------------------------------------------------------------
(* The trees on the stack.                                                 *)

(* A stack of trees of the rule behind lo. *)
StOk(st, lo, I, T) ==
    /\ st = [nodes |-> st.nodes, stack |-> st.stack]
    /\ Built(st.nodes, lo, I, T)
    /\ st.stack \in Positions(lo, Len(st.nodes))

(* One step of the parser: the nodes grow, and n trees are on the stack.   *)
Becomes(a, b, n, lo, I, T) ==
    StOk(b, lo, I, T) /\ Grows(a.nodes, b.nodes, lo) /\ Len(b.stack) = n

(* The stack and its two topmost trees. *)
LEMMA Tops ==
    ASSUME NEW lo, NEW I, NEW T, NEW st, StOk(st, lo, I, T)
    PROVE  /\ Len(st.stack) \in Nat /\ st.stack \in Seq(Nat)
           /\ Len(st.nodes) \in Nat /\ lo \in Nat /\ lo <= Len(st.nodes)
           /\ Built(st.nodes, lo, I, T)
           /\ Len(st.stack) >= 1 => Top(st) \in lo + 1 .. Len(st.nodes)
           /\ Len(st.stack) >= 2 => Second(st) \in lo + 1 .. Len(st.nodes)
<1>1. Built(st.nodes, lo, I, T) /\ st.stack \in Positions(lo, Len(st.nodes))
  BY DEF StOk
<1>2. Len(st.nodes) \in Nat /\ lo \in Nat /\ lo <= Len(st.nodes)
  BY <1>1, BuiltNodes
<1>3. /\ Len(st.stack) \in Nat /\ st.stack \in Seq(Nat)
      /\ \A k \in 1 .. Len(st.stack) : st.stack[k] \in lo + 1 .. Len(st.nodes)
  BY <1>1, <1>2, EachPosition
<1>4. Len(st.stack) >= 1 => Top(st) \in lo + 1 .. Len(st.nodes)
  BY <1>3 DEF Top, Last
<1>5. Len(st.stack) >= 2 => Second(st) \in lo + 1 .. Len(st.nodes)
  BY <1>3 DEF Second
<1> QED
  BY <1>1, <1>2, <1>3, <1>4, <1>5

(* What comes after what comes after. *)
LEMMA Further ==
    ASSUME NEW lo, NEW I, NEW T, NEW a, NEW b, NEW c, NEW m, NEW n,
           StOk(a, lo, I, T), Becomes(a, b, m, lo, I, T), Becomes(b, c, n, lo, I, T)
    PROVE  Becomes(a, c, n, lo, I, T)
BY GrowsMore DEF Becomes, StOk

(* Nothing happens. *)
LEMMA Staying ==
    ASSUME NEW lo, NEW I, NEW T, NEW a, StOk(a, lo, I, T)
    PROVE  Becomes(a, a, Len(a.stack), lo, I, T)
BY GrowsSame DEF Becomes, StOk

(* A node in the place of k trees. *)
LEMMA ReplaceOk ==
    ASSUME NEW lo, NEW I, NEW T, NEW st, StOk(st, lo, I, T),
           NEW k \in Nat, k <= Len(st.stack),
           NEW ns, Built(ns, lo, I, T), Grows(st.nodes, ns, lo), Len(ns) > lo
    PROVE  /\ Becomes(st, Replace(st, k, ns), Len(st.stack) - k + 1, lo, I, T)
           /\ Top(Replace(st, k, ns)) = Len(ns)
<1> DEFINE m == Len(st.nodes)
           h == Len(ns)
           d == Len(st.stack) - k
           rest == SubSeq(st.stack, 1, d)
           stack == Append(rest, h)
<1>1. m \in Nat /\ lo \in Nat /\ h \in Nat /\ h > lo /\ Len(st.stack) \in Nat
  BY Tops, BuiltNodes
<1>2. m <= h
  BY DEF Grows
<1>3. d \in Nat /\ d <= Len(st.stack)
  BY <1>1
<1>4. st.stack \in Positions(lo, m)
  BY DEF StOk
<1> HIDE DEF m, h, d
<1>5. st.stack \in Positions(lo, h)
  BY <1>1, <1>2, <1>4, MorePositions
<1>6. rest \in Seq(lo + 1 .. h) /\ Len(rest) = d
  BY <1>1, <1>3, <1>5 DEF Positions
<1>7. h \in lo + 1 .. h
  BY <1>1
<1> HIDE DEF rest
<1>8. stack \in Seq(lo + 1 .. h) /\ Len(stack) = d + 1 /\ stack[d + 1] = h
  BY <1>3, <1>6, <1>7
<1>9. Replace(st, k, ns) = [nodes |-> ns, stack |-> stack]
  BY DEF Replace, rest, d, h
<1> HIDE DEF stack
<1>10. Replace(st, k, ns).nodes = ns /\ Replace(st, k, ns).stack = stack
  BY <1>9
<1>11. StOk(Replace(st, k, ns), lo, I, T)
  <2>1. Replace(st, k, ns) = [nodes |-> Replace(st, k, ns).nodes,
                              stack |-> Replace(st, k, ns).stack]
    BY <1>9, <1>10
  <2>2. stack \in Positions(lo, h)
    BY <1>8 DEF Positions
  <2> QED
    BY <1>10, <2>1, <2>2 DEF StOk, h
<1>12. Top(Replace(st, k, ns)) = h
  BY <1>8, <1>10, <1>3 DEF Top, Last
<1> QED
  BY <1>8, <1>10, <1>11, <1>12 DEF Becomes, d, h

(* The new node of a constructor in the place of k trees. *)
LEMMA MakesOk ==
    ASSUME NEW lo, NEW I, NEW T, NEW st, StOk(st, lo, I, T),
           NEW k \in Nat, k <= Len(st.stack),
           NEW ns, NEW x, Makes(st.nodes, ns, x, lo, I, T)
    PROVE  /\ Becomes(st, Replace(st, k, ns), Len(st.stack) - k + 1, lo, I, T)
           /\ Top(Replace(st, k, ns)) = Len(ns)
<1>1. Len(st.nodes) \in Nat /\ lo \in Nat /\ lo <= Len(st.nodes)
  BY Tops
<1>2. Built(ns, lo, I, T) /\ Grows(st.nodes, ns, lo) /\ Len(ns) = Len(st.nodes) + 1
  BY DEF Makes
<1>3. Len(ns) > lo
  BY <1>1, <1>2
<1> QED
  BY <1>2, <1>3, ReplaceOk

(* Two trees become their sequence, *)
LEMMA SequenceOk ==
    ASSUME NEW lo, NEW I, NEW T, NEW st, StOk(st, lo, I, T), NPOS \in Nat,
           Len(st.stack) >= 2
    PROVE  Becomes(st, Sequence(st), Len(st.stack) - 1, lo, I, T)
<1>1. /\ Built(st.nodes, lo, I, T) /\ Len(st.stack) \in Nat
      /\ Top(st) \in lo + 1 .. Len(st.nodes)
      /\ Second(st) \in lo + 1 .. Len(st.nodes)
  BY Tops
<1>2. \E x : Makes(st.nodes, SequenceNode(st.nodes, Second(st), Top(st)), x, lo, I, T)
  BY <1>1, SequenceBuilt
<1>3. 2 <= Len(st.stack) /\ Len(st.stack) - 2 + 1 = Len(st.stack) - 1
  BY <1>1
<1> QED
  BY <1>2, <1>3, MakesOk DEF Sequence

(* or a choice of the two. *)
LEMMA PerformOrOk ==
    ASSUME NEW lo, NEW I, NEW T, NEW st, StOk(st, lo, I, T), NPOS \in Nat,
           Len(st.stack) >= 2
    PROVE  Becomes(st, PerformOr(st), Len(st.stack) - 1, lo, I, T)
<1>1. /\ Built(st.nodes, lo, I, T) /\ Len(st.stack) \in Nat
      /\ Top(st) \in lo + 1 .. Len(st.nodes)
      /\ Second(st) \in lo + 1 .. Len(st.nodes)
  BY Tops
<1>2. \E x : Makes(st.nodes, SelectionNode(st.nodes, Second(st), Top(st)), x, lo, I, T)
  BY <1>1, SelectionBuilt
<1>3. 2 <= Len(st.stack) /\ Len(st.stack) - 2 + 1 = Len(st.stack) - 1
  BY <1>1
<1> QED
  BY <1>2, <1>3, MakesOk DEF PerformOr

(* A leaf is pushed. *)
LEMMA LeafOk ==
    ASSUME NEW lo, NEW I, NEW T, NEW st, StOk(st, lo, I, T), NPOS \in Nat,
           NEW token \in T, token \in Int, NEW greedy \in BOOLEAN
    PROVE  Becomes(st, Replace(st, 0, Leaf(st.nodes, token, greedy)),
                   Len(st.stack) + 1, lo, I, T)
<1>1. Built(st.nodes, lo, I, T) /\ Len(st.stack) \in Nat
  BY Tops
<1>2. \E x : Makes(st.nodes, Leaf(st.nodes, token, greedy), x, lo, I, T)
  BY <1>1, LeafBuilt
<1>3. 0 <= Len(st.stack) /\ Len(st.stack) - 0 + 1 = Len(st.stack) + 1
  BY <1>1
<1> QED
  BY <1>2, <1>3, MakesOk

(* A tree becomes its repetition, *)
LEMMA ZeroOrMoreOk ==
    ASSUME NEW lo, NEW I, NEW T, NEW st, StOk(st, lo, I, T), NPOS \in Nat,
           NEW greedy \in BOOLEAN, Len(st.stack) >= 1
    PROVE  Becomes(st, ZeroOrMore(st, greedy), Len(st.stack), lo, I, T)
<1>1. /\ Built(st.nodes, lo, I, T) /\ Len(st.stack) \in Nat
      /\ Top(st) \in lo + 1 .. Len(st.nodes)
  BY Tops
<1>2. \E x : Makes(st.nodes, IterationNode(st.nodes, Top(st), greedy), x, lo, I, T)
  BY <1>1, IterationBuilt
<1>3. 1 <= Len(st.stack) /\ Len(st.stack) - 1 + 1 = Len(st.stack)
  BY <1>1
<1> QED
  BY <1>2, <1>3, MakesOk DEF ZeroOrMore

(* or a choice of itself and nothing. *)
LEMMA OptionalOk ==
    ASSUME NEW lo, NEW I, NEW T, NEW st, StOk(st, lo, I, T), NPOS \in Nat,
           NULL \in T, NEW greedy \in BOOLEAN, Len(st.stack) >= 1
    PROVE  Becomes(st, Optional(st, greedy), Len(st.stack), lo, I, T)
<1> DEFINE x == Top(st)
           set == SetGreedy(st.nodes, st.nodes[x].firstpos, greedy)
           ns == Leaf(set, NULL, greedy)
           new == SelectionNode(ns, x, Len(ns))
<1>1. /\ Built(st.nodes, lo, I, T) /\ Len(st.stack) \in Nat
      /\ x \in lo + 1 .. Len(st.nodes) /\ Len(st.nodes) \in Nat
      /\ lo \in Nat /\ lo <= Len(st.nodes)
  BY Tops
<1> HIDE DEF x
<1>2. st.nodes[x].firstpos \in Positions(lo, Len(st.nodes))
  BY <1>1, NodeOf
<1>3. /\ Built(set, lo, I, T) /\ Grows(st.nodes, set, lo)
      /\ Len(set) = Len(st.nodes)
  BY <1>1, <1>2, SetGreedyBuilt
<1> HIDE DEF set
<1>4. \E y : Makes(set, ns, y, lo, I, T)
  <2>1. NULL \in Int
    BY DEF NULL
  <2> QED
    BY <1>3, <2>1, LeafBuilt
<1>5. /\ Built(ns, lo, I, T) /\ Grows(set, ns, lo)
      /\ Len(ns) = Len(st.nodes) + 1
  BY <1>3, <1>4 DEF Makes
<1> HIDE DEF ns
<1>6. x \in lo + 1 .. Len(ns) /\ Len(ns) \in lo + 1 .. Len(ns)
  BY <1>1, <1>5
<1>7. \E y : Makes(ns, new, y, lo, I, T)
  BY <1>5, <1>6, SelectionBuilt
<1>8. Built(new, lo, I, T) /\ Grows(ns, new, lo) /\ Len(new) = Len(ns) + 1
  BY <1>7 DEF Makes
<1> HIDE DEF new
<1>9. Grows(st.nodes, ns, lo)
  BY <1>1, <1>3, <1>5, GrowsMore
<1>10. Grows(st.nodes, new, lo)
  BY <1>1, <1>5, <1>8, <1>9, GrowsMore
<1>11. Len(new) > lo /\ 1 <= Len(st.stack) /\ Len(st.stack) - 1 + 1 = Len(st.stack)
  BY <1>1, <1>5, <1>8
<1>12. Becomes(st, Replace(st, 1, new), Len(st.stack), lo, I, T)
  BY <1>8, <1>10, <1>11, ReplaceOk
<1>13. Optional(st, greedy) = Replace(st, 1, new)
  BY DEF Optional, new, ns, set, x
<1> QED
  BY <1>12, <1>13

-----------------------------------------------------------------------------
(* Copies.                                                                 *)

(* A copied list is copied part by part. *)
LEMMA CopyConcat ==
    ASSUME NEW base, NEW s \in Seq(Nat), NEW t \in Seq(Nat)
    PROVE  CopyAll(base, s \o t)
             = CopyAll(CopyAll(base, s), t)
<1> DEFINE m == Len(s)
           n == Len(t)
           u == s \o t
           mid == CopyAll(base, s)
<1>1. /\ m \in Nat /\ n \in Nat /\ DOMAIN s = 1 .. m /\ DOMAIN t = 1 .. n
      /\ m + n \in Nat /\ DOMAIN u = 1 .. m + n
      /\ \A k \in 1 .. m : u[k] = s[k]
      /\ \A k \in 1 .. n : u[m + k] = t[k]
  OBVIOUS
<1> HIDE DEF m, n, u
<1>2. PICK f : /\ f[0] = base
               /\ \A k \in 1 .. m : f[k] = CopyNode(f[k - 1], s[k])
               /\ mid = f[m]
  BY <1>1, CopyNodeFold
<1> HIDE DEF mid
<1>3. PICK g : /\ g[0] = mid
               /\ \A k \in 1 .. n : g[k] = CopyNode(g[k - 1], t[k])
               /\ CopyAll(mid, t) = g[n]
  <2> DEFINE v == t
  <2>1. n \in Nat /\ DOMAIN v = 1 .. n
    BY <1>1
  <2> HIDE DEF v
  <2>2. \E g : /\ g[0] = mid
               /\ \A k \in 1 .. n : g[k] = CopyNode(g[k - 1], v[k])
               /\ CopyAll(mid, v) = g[n]
    BY <2>1, CopyNodeFold
  <2> QED
    BY <2>2 DEF v
<1>4. PICK h : /\ h[0] = base
               /\ \A k \in 1 .. m + n : h[k] = CopyNode(h[k - 1], u[k])
               /\ CopyAll(base, u) = h[m + n]
  <2> DEFINE w == m + n
  <2>1. w \in Nat /\ DOMAIN u = 1 .. w
    BY <1>1
  <2>2. \A x \in Nat : \A v :
           DOMAIN v = 1 .. x =>
              \E h : /\ h[0] = base
                     /\ \A k \in 1 .. x : h[k] = CopyNode(h[k - 1], v[k])
                     /\ CopyAll(base, v) = h[x]
    BY CopyNodeFold
  <2> HIDE DEF w
  <2> QED
    BY <2>1, <2>2 DEF w
<1> DEFINE P == {k \in 0 .. m : h[k] = f[k]}
           Q == {k \in 0 .. n : h[m + k] = g[k]}
<1>5. 0 .. m \subseteq P
  <2>1. 0 \in P
    BY <1>1, <1>2, <1>4
  <2>2. ASSUME NEW k \in 0 .. m, k \in P, k < m
        PROVE  k + 1 \in P
    <3>1. k + 1 \in 1 .. m /\ k + 1 \in 1 .. m + n /\ k + 1 - 1 = k /\ k + 1 \in 0 .. m
      BY <1>1, <2>2
    <3>2. h[k + 1] = CopyNode(h[k], u[k + 1])
      BY <1>4, <3>1
    <3>3. f[k + 1] = CopyNode(f[k], s[k + 1])
      BY <1>2, <3>1
    <3> QED
      BY <1>1, <2>2, <3>1, <3>2, <3>3
  <2> HIDE DEF P
  <2> QED
    BY <1>1, <2>1, <2>2, RangeInduction
<1>6. h[m] = mid
  <2>1. m \in P
    BY <1>1, <1>5
  <2> QED
    BY <1>2, <2>1
<1>7. 0 .. n \subseteq Q
  <2>1. 0 \in Q
    <3>1. m + 0 = m /\ 0 \in 0 .. n
      BY <1>1
    <3> QED
      BY <1>3, <1>6, <3>1
  <2>2. ASSUME NEW k \in 0 .. n, k \in Q, k < n
        PROVE  k + 1 \in Q
    <3>1. /\ k + 1 \in 1 .. n /\ m + (k + 1) \in 1 .. m + n /\ k + 1 - 1 = k
          /\ (m + (k + 1)) - 1 = m + k /\ k + 1 \in 0 .. n
      BY <1>1, <2>2
    <3>2. h[m + (k + 1)] = CopyNode(h[m + k], u[m + (k + 1)])
      BY <1>4, <3>1
    <3>3. g[k + 1] = CopyNode(g[k], t[k + 1])
      BY <1>3, <3>1
    <3> QED
      BY <1>1, <2>2, <3>1, <3>2, <3>3
  <2> HIDE DEF Q
  <2> QED
    BY <1>1, <2>1, <2>2, RangeInduction
<1>8. h[m + n] = g[n]
  <2>1. n \in Q
    BY <1>1, <1>7
  <2> QED
    BY <2>1
<1> QED
  BY <1>3, <1>4, <1>8 DEF mid, u

(* Copying nothing, and copying one node. *)
LEMMA CopyOne ==
    ASSUME NEW base, NEW n \in Nat
    PROVE  /\ CopyAll(base, <<>>) = base
           /\ CopyAll(base, <<n>>) = CopyNode(base, n)
<1>1. CopyAll(base, <<>>) = base
  <2>1. DOMAIN <<>> = 1 .. 0
    OBVIOUS
  <2> QED
    BY <2>1, CopyNodeFold
<1>2. CopyAll(base, <<n>>) = CopyNode(base, n)
  <2> DEFINE s == <<n>>
           one == 1
  <2>1. DOMAIN s = 1 .. one /\ s[1] = n /\ one \in Nat
    OBVIOUS
  <2> HIDE DEF s, one
  <2>4. \E g : /\ g[0] = base
               /\ \A k \in 1 .. one : g[k] = CopyNode(g[k - 1], s[k])
               /\ CopyAll(base, s) = g[one]
    BY <2>1, CopyNodeFold
  <2>2. PICK g : /\ g[0] = base
                 /\ \A k \in 1 .. 1 : g[k] = CopyNode(g[k - 1], s[k])
                 /\ CopyAll(base, s) = g[1]
    BY <2>4 DEF one
  <2>3. 1 \in 1 .. 1 /\ 1 - 1 = 0
    OBVIOUS
  <2> QED
    BY <2>1, <2>2, <2>3 DEF s
<1> QED
  BY <1>1, <1>2

(* The nodes below one, as PostOrder lists them. *)
Ordered(order, ns) ==
    /\ order[0] = <<>>
    /\ \A n \in 1 .. Len(ns) :
          order[n] = order[ns[n].left] \o order[ns[n].right] \o <<n>>

(* The order a tree is copied in exists: every node is behind what it is   *)
(* made of.                                                                *)
LEMMA PostOrdered ==
    ASSUME NEW ns, NEW lo, NEW I, NEW T, Built(ns, lo, I, T)
    PROVE  \E order : /\ Ordered(order, ns)
                      /\ \A x : PostOrder(ns, x) = order[x]
<1> DEFINE m == Len(ns)
           Eq(f, k) == f = [n \in 0 .. k |->
                              IF n = 0 THEN <<>>
                              ELSE f[ns[n].left] \o f[ns[n].right] \o <<n>>]
           P == {k \in 0 .. m : \E f : Eq(f, k)}
           f == CHOOSE f : Eq(f, m)
<1>1. /\ m \in Nat
      /\ \A n \in 1 .. m : ns[n].left \in 0 .. n - 1 /\ ns[n].right \in 0 .. n - 1
  <2>1. m \in Nat /\ \A n \in 1 .. m : ns[n] \in Node
    BY BuiltNodes
  <2>2. \A n \in 1 .. m : ns[n].left \in Nat /\ ns[n].right \in Nat
    BY <2>1 DEF Node
  <2>3. \A n \in 1 .. m : ns[n].left < n /\ ns[n].right < n
    BY DEF Built
  <2> QED
    BY <2>1, <2>2, <2>3
<1> HIDE DEF m
<1>2. 0 \in P
  <2> DEFINE h == [n \in 0 .. 0 |-> <<>>]
  <2>1. Eq(h, 0)
    <3>1. \A n \in 0 .. 0 : n = 0
      OBVIOUS
    <3>2. \A n \in 0 .. 0 : h[n] = IF n = 0 THEN <<>>
                                   ELSE h[ns[n].left] \o h[ns[n].right] \o <<n>>
      BY <3>1
    <3>3. h = [n \in 0 .. 0 |-> h[n]]
      OBVIOUS
    <3> HIDE DEF h
    <3> QED
      BY <3>2, <3>3
  <2>2. 0 \in 0 .. m
    BY <1>1
  <2> QED
    BY <2>1, <2>2
<1>3. ASSUME NEW k \in 0 .. m, k \in P, k < m
      PROVE  k + 1 \in P
  <2>1. k \in Nat /\ k + 1 \in 0 .. m /\ k + 1 \in 1 .. m
    BY <1>1, <1>3
  <2>2. PICK h : Eq(h, k)
    BY <1>3
  <2> DEFINE j == k + 1
             new == [n \in 0 .. j |->
                       IF n = j THEN h[ns[n].left] \o h[ns[n].right] \o <<n>>
                       ELSE h[n]]
  <2>3. \A n \in 1 .. j : /\ n \in 1 .. m
                          /\ ns[n].left \in 0 .. k /\ ns[n].right \in 0 .. k
    <3> TAKE n \in 1 .. j
    <3>1. n \in 1 .. m /\ n - 1 <= k /\ n \in Nat
      BY <1>1, <2>1
    <3> QED
      BY <1>1, <2>1, <3>1
  <2>4. \A n \in 0 .. k : n \in 0 .. j /\ n # j /\ new[n] = h[n]
    BY <2>1
  <2>5. \A n \in 0 .. k : h[n] = IF n = 0 THEN <<>>
                                 ELSE h[ns[n].left] \o h[ns[n].right] \o <<n>>
    BY <2>2
  <2>6. /\ new[j] = h[ns[j].left] \o h[ns[j].right] \o <<j>>
        /\ j \in 1 .. j /\ j # 0
    <3>1. j \in 0 .. j /\ j \in 1 .. j /\ j # 0
      BY <2>1
    <3> HIDE DEF j
    <3> QED
      BY <3>1
  <2>7. \A n \in 0 .. j : n \in 0 .. k \/ n = j
    BY <2>1
  <2>8. new = [n \in 0 .. j |-> new[n]]
    OBVIOUS
  <2>9. \A n \in 0 .. k : n = 0 \/ n \in 1 .. j
    BY <2>1
  <2> HIDE DEF new, j
  <2>10. \A n \in 0 .. j : new[n] = IF n = 0 THEN <<>>
                                    ELSE new[ns[n].left] \o new[ns[n].right] \o <<n>>
    <3> TAKE n \in 0 .. j
    <3>1. CASE n \in 0 .. k
      <4>1. n # 0 => /\ new[ns[n].left] = h[ns[n].left]
                     /\ new[ns[n].right] = h[ns[n].right]
        BY <2>3, <2>4, <2>9, <3>1
      <4> QED
        BY <2>4, <2>5, <3>1, <4>1
    <3>2. CASE n = j
      <4>1. new[ns[j].left] = h[ns[j].left] /\ new[ns[j].right] = h[ns[j].right]
        BY <2>3, <2>4, <2>6
      <4> QED
        BY <2>6, <3>2, <4>1
    <3> QED
      BY <2>7, <3>1, <3>2
  <2>11. Eq(new, j)
    BY <2>8, <2>10
  <2> QED
    BY <2>1, <2>11 DEF j
<1> HIDE DEF P
<1>4. m \in P
  <2>1. 0 .. m \subseteq P
    BY <1>1, <1>2, <1>3, RangeInduction
  <2> QED
    BY <1>1, <2>1
<1>5. Eq(f, m)
  <2>1. \E h : Eq(h, m)
    BY <1>4 DEF P
  <2> QED
    BY <2>1
<1>6. \A x : PostOrder(ns, x) = f[x]
  BY DEF PostOrder, f, m
<1> HIDE DEF f
<1>7. Ordered(f, ns)
  <2>1. 0 \in 0 .. m /\ \A n \in 1 .. m : n \in 0 .. m /\ n # 0
    BY <1>1
  <2> QED
    BY <1>5, <2>1 DEF Ordered, m
<1> QED
  BY <1>6, <1>7

(* A node is copied onto the copies of those below it. *)
LEMMA CopyNodeOk ==
    ASSUME NEW lo, NEW T, NEW st, StOk(st, lo, {}, T), NPOS \in Nat, T \subseteq Int,
           NEW n \in lo + 1 .. Len(st.nodes),
           st.nodes[n].kind \in {"SEQUENCE", "SELECTION"} => Len(st.stack) >= 2,
           st.nodes[n].kind = "ITERATION" => Len(st.stack) >= 1
    PROVE  Becomes(st, CopyNode(st, n),
                   Len(st.stack) + (CASE st.nodes[n].kind = "LEAF" -> 1
                                      [] st.nodes[n].kind = "ITERATION" -> 0
                                      [] OTHER -> -1), lo, {}, T)
<1> DEFINE node == st.nodes[n]
           d == Len(st.stack)
<1>1. /\ Built(st.nodes, lo, {}, T) /\ d \in Nat
  BY Tops
<1>2. node \in Node /\ n \in 1 .. Len(st.nodes)
  BY <1>1, NodeOf
<1>3. Marked(node, {}, T)
  BY <1>1, BuiltNodes
<1>4. /\ node.kind \in {"LEAF", "ITERATION", "SEQUENCE", "SELECTION"}
      /\ node.greedy \in BOOLEAN
      /\ node.kind = "LEAF" => node.token \in T
  BY <1>2, <1>3 DEF Marked, Node, Inner
<1> HIDE DEF node
<1>5. CASE node.kind = "LEAF"
  <2>1. CopyNode(st, n) = Replace(st, 0, Leaf(st.nodes, node.token, node.greedy))
    BY <1>5 DEF CopyNode, node
  <2>2. node.token \in T /\ node.token \in Int
    BY <1>4, <1>5
  <2>3. Becomes(st, CopyNode(st, n), d + 1, lo, {}, T)
    BY <1>4, <2>1, <2>2, LeafOk
  <2> QED
    BY <1>5, <2>3 DEF node
<1>6. CASE node.kind = "ITERATION"
  <2>1. CopyNode(st, n) = ZeroOrMore(st, node.greedy)
    BY <1>6 DEF CopyNode, node, ZeroOrMore
  <2>2. Len(st.stack) >= 1
    BY <1>6 DEF node
  <2>3. Becomes(st, CopyNode(st, n), d, lo, {}, T)
    BY <1>4, <2>1, <2>2, ZeroOrMoreOk
  <2>4. d + 0 = d
    BY <1>1
  <2> QED
    BY <1>6, <2>3, <2>4 DEF node
<1>7. CASE node.kind \in {"SEQUENCE", "SELECTION"}
  <2>1. CopyNode(st, n) = Sequence(st) \/ CopyNode(st, n) = PerformOr(st)
    BY <1>7 DEF CopyNode, node
  <2>2. Len(st.stack) >= 2
    BY <1>7 DEF node
  <2>3. Becomes(st, CopyNode(st, n), d - 1, lo, {}, T)
    BY <2>1, <2>2, SequenceOk, PerformOrOk
  <2>4. d + (-1) = d - 1
    BY <1>1
  <2> QED
    BY <1>7, <2>3, <2>4 DEF node
<1> QED
  BY <1>4, <1>5, <1>6, <1>7

(* What the nodes of a list become, over any stack. *)
Copied(list, ns, lo, T, d) ==
    /\ list \in Seq(Nat)
    /\ \A st : StOk(st, lo, {}, T) /\ Grows(ns, st.nodes, lo) =>
                  Becomes(st, CopyAll(st, list), Len(st.stack) + d, lo, {}, T)

(* The nodes below one become one tree. *)
LEMMA BelowCopied ==
    ASSUME NEW ns, NEW lo, NEW T, Built(ns, lo, {}, T), NPOS \in Nat, T \subseteq Int,
           NEW order, Ordered(order, ns), NEW x \in lo + 1 .. Len(ns)
    PROVE  Copied(order[x], ns, lo, T, 1)
<1> DEFINE m == Len(ns)
           P == {k \in 0 .. m : \A n \in lo + 1 .. k : Copied(order[n], ns, lo, T, 1)}
<1>1. m \in Nat /\ lo \in Nat /\ lo <= m
  BY BuiltNodes
<1>2. 0 \in P
  <2>1. lo + 1 .. 0 = {} /\ 0 \in 0 .. m
    BY <1>1
  <2> QED
    BY <2>1
<1>3. ASSUME NEW k \in 0 .. m, k \in P, k < m
      PROVE  k + 1 \in P
  <2> DEFINE n == k + 1
             node == ns[n]
  <2>1. n \in Nat /\ n \in 1 .. m /\ n \in 0 .. m /\ n - 1 = k
        /\ \A j \in lo + 1 .. n : j \in lo + 1 .. k \/ j = n
    BY <1>1, <1>3
  <2>2. \A j \in lo + 1 .. k : Copied(order[j], ns, lo, T, 1)
    BY <1>3
  <2> HIDE DEF P
  <2>3. ASSUME n \in lo + 1 .. m
        PROVE  Copied(order[n], ns, lo, T, 1)
    <3> HIDE DEF n
    <3>1. /\ node \in Node /\ Stands(node, n, lo) /\ Marked(node, {}, T)
      BY <2>3, BuiltNodes DEF m
    <3>2. /\ node.kind \in {"LEAF", "ITERATION", "SEQUENCE", "SELECTION"}
      BY <3>1 DEF Marked, Node, Inner
    <3>3. order[n] = order[node.left] \o order[node.right] \o <<n>> /\ order[0] = <<>>
      BY <2>1 DEF Ordered, m
    <3> DEFINE A == order[node.left]
               B == order[node.right]
    <3> HIDE DEF node
    <3>4. Copied(<<>>, ns, lo, T, 0)
      <4>1. ASSUME NEW st, StOk(st, lo, {}, T)
            PROVE  Becomes(st, CopyAll(st, <<>>), Len(st.stack) + 0, lo, {}, T)
        <5>1. CopyAll(st, <<>>) = st
          BY <2>1, CopyOne
        <5>2. Len(st.stack) + 0 = Len(st.stack)
          BY <4>1, Tops
        <5> QED
          BY <4>1, <5>1, <5>2, Staying
      <4>2. <<>> \in Seq(Nat)
        OBVIOUS
      <4> QED
        BY <4>1, <4>2 DEF Copied
    <3>5. PICK a, b \in 0 .. 1 :
              /\ Copied(A, ns, lo, T, a) /\ Copied(B, ns, lo, T, b)
              /\ node.kind = "LEAF" => a = 0 /\ b = 0
              /\ node.kind = "ITERATION" => a = 1 /\ b = 0
              /\ node.kind \in {"SEQUENCE", "SELECTION"} => a = 1 /\ b = 1
      <4>1. CASE node.kind = "LEAF"
        <5>1. A = <<>> /\ B = <<>>
          BY <3>1, <3>3, <4>1 DEF Stands
        <5> HIDE DEF A, B
        <5> QED
          BY <3>4, <4>1, <5>1
      <4>2. CASE node.kind = "ITERATION"
        <5>1. B = <<>> /\ node.left \in lo + 1 .. k
          BY <2>1, <3>1, <3>3, <4>2 DEF Stands
        <5>2. Copied(A, ns, lo, T, 1)
          BY <2>2, <5>1
        <5> HIDE DEF A, B
        <5> QED
          BY <3>4, <4>2, <5>1, <5>2
      <4>3. CASE node.kind \in {"SEQUENCE", "SELECTION"}
        <5>1. node.left \in lo + 1 .. k /\ node.right \in lo + 1 .. k
          BY <2>1, <3>1, <4>3 DEF Stands
        <5>2. Copied(A, ns, lo, T, 1) /\ Copied(B, ns, lo, T, 1)
          BY <2>2, <5>1
        <5> HIDE DEF A, B
        <5> QED
          BY <4>3, <5>2
      <4> QED
        BY <3>2, <4>1, <4>2, <4>3
    <3>6. A \in Seq(Nat) /\ B \in Seq(Nat) /\ <<n>> \in Seq(Nat)
      BY <2>1, <3>5 DEF Copied
    <3>7. order[n] = A \o (B \o <<n>>) /\ B \o <<n>> \in Seq(Nat) /\ order[n] \in Seq(Nat)
      <4>1. order[n] = (A \o B) \o <<n>>
        BY <3>3
      <4> HIDE DEF A, B
      <4>2. (A \o B) \o <<n>> = A \o (B \o <<n>>) /\ (A \o B) \o <<n>> \in Seq(Nat)
            /\ B \o <<n>> \in Seq(Nat)
        BY <3>6
      <4> QED
        BY <4>1, <4>2
    <3> HIDE DEF A, B
    <3>8. ASSUME NEW st, StOk(st, lo, {}, T), Grows(ns, st.nodes, lo)
          PROVE  Becomes(st, CopyAll(st, order[n]), Len(st.stack) + 1, lo, {}, T)
      <4> DEFINE s1 == CopyAll(st, A)
                 s2 == CopyAll(s1, B)
                 s3 == CopyNode(s2, n)
                 d == Len(st.stack)
      <4>1. CopyAll(st, order[n]) = s3
        <5>1. CopyAll(st, A \o (B \o <<n>>)) = CopyAll(s1, B \o <<n>>)
          BY <3>6, <3>7, CopyConcat
        <5> HIDE DEF s1
        <5>2. CopyAll(s1, B \o <<n>>) = CopyAll(s2, <<n>>)
          BY <3>6, CopyConcat
        <5> HIDE DEF s2
        <5>3. CopyAll(s2, <<n>>) = s3
          BY <2>1, CopyOne
        <5> QED
          BY <3>7, <5>1, <5>2, <5>3
      <4>2. d \in Nat
        BY <3>8, Tops
      <4>3. Becomes(st, s1, d + a, lo, {}, T)
        BY <3>5, <3>8 DEF Copied
      <4>4. StOk(s1, lo, {}, T) /\ Grows(st.nodes, s1.nodes, lo) /\ Len(s1.stack) = d + a
        BY <4>3 DEF Becomes
      <4>5. Built(st.nodes, lo, {}, T) /\ Built(s1.nodes, lo, {}, T)
        BY <3>8, <4>4, Tops
      <4> HIDE DEF s1
      <4>6. Grows(ns, s1.nodes, lo)
        BY <3>8, <4>4, <4>5, GrowsMore
      <4>7. Becomes(s1, s2, (d + a) + b, lo, {}, T)
        BY <3>5, <4>4, <4>6 DEF Copied
      <4>8. StOk(s2, lo, {}, T) /\ Grows(s1.nodes, s2.nodes, lo) /\ Len(s2.stack) = (d + a) + b
        BY <4>7 DEF Becomes
      <4>9. Built(s2.nodes, lo, {}, T)
        BY <4>8, Tops
      <4> HIDE DEF s2
      <4>10. Grows(ns, s2.nodes, lo)
        BY <4>5, <4>6, <4>8, <4>9, GrowsMore
      <4>11. s2.nodes[n].kind = node.kind /\ n \in lo + 1 .. Len(s2.nodes)
        <5>1. Alike(ns[n], s2.nodes[n]) /\ Len(ns) <= Len(s2.nodes)
          BY <2>1, <4>10 DEF Grows, m
        <5>2. Len(s2.nodes) \in Nat
          BY <4>9, BuiltNodes
        <5> QED
          BY <1>1, <2>1, <2>3, <5>1, <5>2 DEF Alike, node, m
      <4>12. /\ node.kind \in {"SEQUENCE", "SELECTION"} => Len(s2.stack) >= 2
             /\ node.kind = "ITERATION" => Len(s2.stack) >= 1
        BY <3>5, <4>2, <4>8
      <4> DEFINE c == CASE node.kind = "LEAF" -> 1
                        [] node.kind = "ITERATION" -> 0
                        [] OTHER -> -1
      <4>13. Becomes(s2, s3, Len(s2.stack) + c, lo, {}, T)
        BY <4>8, <4>11, <4>12, CopyNodeOk
      <4>14. Len(s2.stack) + c = d + 1
        <5>1. CASE node.kind = "LEAF"
          BY <3>5, <4>2, <4>8, <5>1
        <5>2. CASE node.kind = "ITERATION"
          BY <3>5, <4>2, <4>8, <5>2
        <5>3. CASE node.kind \in {"SEQUENCE", "SELECTION"}
          BY <3>5, <4>2, <4>8, <5>3
        <5> QED
          BY <3>2, <5>1, <5>2, <5>3
      <4> HIDE DEF s3, c
      <4>15. Becomes(s2, s3, d + 1, lo, {}, T)
        BY <4>13, <4>14
      <4>16. Becomes(s1, s3, d + 1, lo, {}, T)
        BY <4>4, <4>7, <4>15, Further
      <4>17. Becomes(st, s3, d + 1, lo, {}, T)
        BY <3>8, <4>3, <4>16, Further
      <4> QED
        BY <4>1, <4>17
    <3> QED
      BY <3>7, <3>8 DEF Copied
  <2>4. \A j \in lo + 1 .. n : Copied(order[j], ns, lo, T, 1)
    <3>1. n \in lo + 1 .. n => n \in lo + 1 .. m
      BY <1>1, <2>1
    <3> QED
      BY <2>1, <2>2, <2>3, <3>1
  <2> QED
    BY <2>1, <2>4 DEF P
<1> HIDE DEF P
<1>4. m \in P
  <2>1. 0 .. m \subseteq P
    BY <1>1, <1>2, <1>3, RangeInduction
  <2> QED
    BY <1>1, <2>1
<1> QED
  BY <1>4 DEF P, m

(* copy: the nodes with those of a copy behind them. *)
LEMMA CopyBuilt ==
    ASSUME NEW lo, NEW T, NEW ns, Built(ns, lo, {}, T), NPOS \in Nat, T \subseteq Int,
           NEW x \in lo + 1 .. Len(ns)
    PROVE  /\ Built(Copy(ns, x), lo, {}, T) /\ Grows(ns, Copy(ns, x), lo)
           /\ Len(Copy(ns, x)) > lo
<1> DEFINE st == [nodes |-> ns, stack |-> <<>>]
<1>1. PICK order : /\ Ordered(order, ns)
                   /\ \A y : PostOrder(ns, y) = order[y]
  BY PostOrdered
<1>2. Copied(order[x], ns, lo, T, 1)
  BY <1>1, BelowCopied
<1>3. Copy(ns, x) = CopyAll(st, order[x]).nodes
  <2>1. Copy(ns, x) = CopyAll(st, PostOrder(ns, x)).nodes
    BY DEF Copy, CopyAll
  <2> QED
    BY <1>1, <2>1
<1>4. StOk(st, lo, {}, T) /\ st.nodes = ns
  BY NoPositions DEF StOk
<1>5. Grows(ns, st.nodes, lo)
  BY <1>4, GrowsSame
<1>6. Becomes(st, CopyAll(st, order[x]), Len(st.stack) + 1, lo, {}, T)
  BY <1>2, <1>4, <1>5 DEF Copied
<1> HIDE DEF st
<1>7. Built(Copy(ns, x), lo, {}, T) /\ Grows(ns, Copy(ns, x), lo)
  BY <1>3, <1>4, <1>6 DEF Becomes, StOk
<1>8. Len(Copy(ns, x)) > lo
  <2>1. /\ Len(ns) \in Nat /\ lo \in Nat /\ Len(Copy(ns, x)) \in Nat
    BY <1>7, BuiltNodes
  <2>2. Len(ns) <= Len(Copy(ns, x))
    BY <1>7 DEF Grows
  <2> QED
    BY <2>1, <2>2
<1> QED
  BY <1>7, <1>8

(* A copy of the topmost tree is pushed. *)
LEMMA PushCopyOk ==
    ASSUME NEW lo, NEW T, NEW st, StOk(st, lo, {}, T), NPOS \in Nat, T \subseteq Int,
           Len(st.stack) >= 1
    PROVE  Becomes(st, PushCopy(st), Len(st.stack) + 1, lo, {}, T)
<1>1. /\ Built(st.nodes, lo, {}, T) /\ Top(st) \in lo + 1 .. Len(st.nodes)
      /\ Len(st.stack) \in Nat
  BY Tops
<1> DEFINE ns == Copy(st.nodes, Top(st))
<1>2. Built(ns, lo, {}, T) /\ Grows(st.nodes, ns, lo) /\ Len(ns) > lo
  BY <1>1, CopyBuilt
<1>3. 0 <= Len(st.stack) /\ Len(st.stack) - 0 + 1 = Len(st.stack) + 1
  BY <1>1
<1> HIDE DEF ns
<1>4. Becomes(st, Replace(st, 0, ns), Len(st.stack) + 1, lo, {}, T)
  BY <1>2, <1>3, ReplaceOk
<1> QED
  BY <1>4 DEF PushCopy, ns

(* A tree becomes itself with its repetition behind it. *)
LEMMA OneOrMoreOk ==
    ASSUME NEW lo, NEW T, NEW st, StOk(st, lo, {}, T), NPOS \in Nat, T \subseteq Int,
           NEW greedy \in BOOLEAN, Len(st.stack) >= 1
    PROVE  Becomes(st, OneOrMore(st, greedy), Len(st.stack), lo, {}, T)
<1> DEFINE a == PushCopy(st)
           b == ZeroOrMore(a, greedy)
           c == Sequence(b)
           d == Len(st.stack)
<1>1. d \in Nat /\ d >= 1
  BY Tops
<1>2. Becomes(st, a, d + 1, lo, {}, T)
  BY PushCopyOk
<1> HIDE DEF a
<1>3. StOk(a, lo, {}, T) /\ Len(a.stack) = d + 1 /\ Len(a.stack) >= 1
  BY <1>1, <1>2 DEF Becomes
<1>4. Becomes(a, b, d + 1, lo, {}, T)
  BY <1>3, ZeroOrMoreOk
<1> HIDE DEF b
<1>5. StOk(b, lo, {}, T) /\ Len(b.stack) = d + 1 /\ Len(b.stack) >= 2
  BY <1>1, <1>4 DEF Becomes
<1>6. Becomes(b, c, d, lo, {}, T)
  <2>1. Len(b.stack) - 1 = d
    BY <1>1, <1>5
  <2> QED
    BY <1>5, <2>1, SequenceOk
<1> HIDE DEF c
<1>7. Becomes(a, c, d, lo, {}, T)
  BY <1>3, <1>4, <1>6, Further
<1>8. Becomes(st, c, d, lo, {}, T)
  BY <1>2, <1>7, Further
<1> QED
  BY <1>8 DEF OneOrMore, a, b, c, d

(* One more copy joined. *)
LEMMA JoinCopyOk ==
    ASSUME NEW lo, NEW T, NEW s, StOk(s, lo, {}, T), NPOS \in Nat, T \subseteq Int,
           Len(s.stack) >= 2, NEW k
    PROVE  Becomes(s, JoinCopy(s, k), Len(s.stack), lo, {}, T)
<1> DEFINE copied == Replace(s, 0, Copy(s.nodes, Top(s)))
           front == [copied EXCEPT !.stack = Front(@)]
           joined == Sequence(front)
           new == [joined EXCEPT !.stack = Append(@, Top(copied))]
           d == Len(s.stack)
<1>1. d \in Nat /\ d >= 2 /\ d >= 1
  BY Tops
<1>2. Becomes(s, copied, d + 1, lo, {}, T)
  BY <1>1, PushCopyOk DEF PushCopy
<1> HIDE DEF copied
<1>3. /\ StOk(copied, lo, {}, T) /\ Len(copied.stack) = d + 1
      /\ copied.stack \in Positions(lo, Len(copied.nodes))
      /\ Built(copied.nodes, lo, {}, T) /\ Top(copied) \in lo + 1 .. Len(copied.nodes)
      /\ copied = [nodes |-> copied.nodes, stack |-> copied.stack]
      /\ Len(copied.nodes) \in Nat /\ lo \in Nat
  <2>1. StOk(copied, lo, {}, T) /\ Len(copied.stack) = d + 1
    BY <1>2 DEF Becomes
  <2>2. Len(copied.stack) >= 1
    BY <1>1, <2>1
  <2> QED
    BY <2>1, <2>2, Tops DEF StOk
<1>4. /\ front = [nodes |-> copied.nodes, stack |-> Front(copied.stack)]
      /\ Front(copied.stack) \in Positions(lo, Len(copied.nodes))
      /\ Len(Front(copied.stack)) = d
  <2>1. front = [nodes |-> copied.nodes, stack |-> Front(copied.stack)]
    BY <1>3
  <2>2. /\ Front(copied.stack) \in Seq(lo + 1 .. Len(copied.nodes))
        /\ Len(Front(copied.stack)) = d
    BY <1>1, <1>3 DEF Front, Positions
  <2> QED
    BY <2>1, <2>2 DEF Positions
<1> HIDE DEF front
<1>5. /\ StOk(front, lo, {}, T) /\ Len(front.stack) = d /\ front.nodes = copied.nodes
  <2>1. front.nodes = copied.nodes /\ front.stack = Front(copied.stack)
    BY <1>4
  <2> QED
    BY <1>3, <1>4, <2>1 DEF StOk
<1>6. Becomes(front, joined, d - 1, lo, {}, T)
  <2>1. Len(front.stack) >= 2
    BY <1>1, <1>5
  <2> QED
    BY <1>5, <2>1, SequenceOk
<1> HIDE DEF joined
<1>7. /\ StOk(joined, lo, {}, T) /\ Len(joined.stack) = d - 1
      /\ joined = [nodes |-> joined.nodes, stack |-> joined.stack]
      /\ Built(joined.nodes, lo, {}, T) /\ Grows(copied.nodes, joined.nodes, lo)
      /\ joined.stack \in Positions(lo, Len(joined.nodes))
      /\ Len(joined.nodes) \in Nat
  <2>1. StOk(joined, lo, {}, T) /\ Len(joined.stack) = d - 1
        /\ Grows(copied.nodes, joined.nodes, lo)
    BY <1>5, <1>6 DEF Becomes
  <2> QED
    BY <2>1, Tops DEF StOk
<1> DEFINE top == Top(copied)
           stack == Append(joined.stack, top)
<1>8. new = [nodes |-> joined.nodes, stack |-> stack]
  <2>1. new = [joined EXCEPT !.stack = stack]
    OBVIOUS
  <2>2. joined = [nodes |-> joined.nodes, stack |-> joined.stack]
    BY <1>7
  <2> HIDE DEF stack, new
  <2> QED
    BY <2>1, <2>2
<1> HIDE DEF new, top
<1>9. top \in lo + 1 .. Len(joined.nodes)
  <2>1. Len(copied.nodes) <= Len(joined.nodes)
    BY <1>7 DEF Grows
  <2> QED
    BY <1>3, <1>7, <2>1 DEF top
<1>10. stack \in Positions(lo, Len(joined.nodes)) /\ Len(stack) = d
  <2>1. joined.stack \in Seq(lo + 1 .. Len(joined.nodes))
    BY <1>7 DEF Positions
  <2> HIDE DEF d
  <2>2. stack \in Seq(lo + 1 .. Len(joined.nodes)) /\ Len(stack) = (d - 1) + 1
    BY <1>7, <1>9, <2>1
  <2> QED
    BY <1>1, <2>2 DEF Positions
<1> HIDE DEF stack
<1>11. StOk(new, lo, {}, T) /\ new.nodes = joined.nodes /\ Len(new.stack) = d
  <2>1. new.nodes = joined.nodes /\ new.stack = stack
    BY <1>8
  <2> QED
    BY <1>7, <1>8, <1>10, <2>1 DEF StOk
<1>12. Becomes(copied, new, d, lo, {}, T)
  BY <1>7, <1>11 DEF Becomes
<1>13. Becomes(s, new, d, lo, {}, T)
  BY <1>2, <1>12, Further
<1> QED
  BY <1>13 DEF JoinCopy, new, top, stack, joined, front, copied, d

(* Copies are joined, however many. *)
LEMMA JoinCopiesOk ==
    ASSUME NEW lo, NEW T, NEW st, StOk(st, lo, {}, T), NPOS \in Nat, T \subseteq Int,
           Len(st.stack) >= 2, NEW n \in Int
    PROVE  Becomes(st, JoinCopies(st, n), Len(st.stack), lo, {}, T)
<1> DEFINE s == [k \in 1 .. n |-> k]
           d == Len(st.stack)
<1>1. JoinCopies(st, n) = JoinAll(st, s)
  BY DEF JoinCopies, JoinAll, JoinCopy
<1>2. PICK m \in Nat : DOMAIN s = 1 .. m
  <2>1. CASE n >= 0
    BY <2>1
  <2>2. CASE n < 0
    <3>1. 1 .. n = 1 .. 0
      BY <2>2
    <3> QED
      BY <3>1
  <2> QED
    BY <2>1, <2>2
<1> HIDE DEF s
<1>3. PICK g : /\ g[0] = st
               /\ \A k \in 1 .. m : g[k] = JoinCopy(g[k - 1], s[k])
               /\ JoinAll(st, s) = g[m]
  BY <1>2, JoinCopyFold
<1> DEFINE P == {k \in 0 .. m : Becomes(st, g[k], d, lo, {}, T)}
<1>4. 0 \in P
  BY <1>3, Staying
<1>5. ASSUME NEW k \in 0 .. m, k \in P, k < m
      PROVE  k + 1 \in P
  <2>1. k + 1 \in 1 .. m /\ k + 1 - 1 = k /\ k + 1 \in 0 .. m
    BY <1>5
  <2>2. g[k + 1] = JoinCopy(g[k], s[k + 1])
    BY <1>3, <2>1
  <2>3. Becomes(st, g[k], d, lo, {}, T)
    BY <1>5
  <2>4. StOk(g[k], lo, {}, T) /\ Len(g[k].stack) = d /\ Len(g[k].stack) >= 2
    BY <2>3 DEF Becomes
  <2>5. Becomes(g[k], g[k + 1], d, lo, {}, T)
    BY <2>2, <2>4, JoinCopyOk
  <2>6. Becomes(st, g[k + 1], d, lo, {}, T)
    BY <2>3, <2>5, Further
  <2> QED
    BY <2>1, <2>6
<1> HIDE DEF P
<1>6. m \in P
  <2>1. 0 .. m \subseteq P
    BY <1>4, <1>5, RangeInduction
  <2> QED
    BY <2>1
<1> QED
  BY <1>1, <1>3, <1>6 DEF P

(* What a repeat with a comma adds behind its first times. *)
LEMMA RestOfOk ==
    ASSUME NEW lo, NEW T, NEW st, StOk(st, lo, {}, T), NPOS \in Nat, T \subseteq Int,
           NULL \in T, Len(st.stack) >= 2, NEW greedy \in BOOLEAN, NEW n \in Times
    PROVE  Becomes(st, RestOf(st, greedy, n), Len(st.stack), lo, {}, T)
<1> DEFINE joined == IF n.min > 1 THEN JoinCopies(st, 1) ELSE st
           d == Len(st.stack)
           j == n.max - n.min - 1
<1>1. j \in Int /\ d \in Nat /\ d >= 2 /\ d >= 1
  BY Tops DEF Times
<1>2. Becomes(st, joined, d, lo, {}, T)
  <2> DEFINE one == 1
  <2>1. one \in Int
    OBVIOUS
  <2> HIDE DEF one
  <2>2. Becomes(st, JoinCopies(st, one), d, lo, {}, T)
    BY <2>1, JoinCopiesOk
  <2>3. Becomes(st, st, d, lo, {}, T)
    BY Staying
  <2> QED
    BY <2>2, <2>3 DEF one
<1> HIDE DEF joined
<1>3. StOk(joined, lo, {}, T) /\ Len(joined.stack) = d
  BY <1>2 DEF Becomes
<1>4. Becomes(joined, ZeroOrMore(joined, greedy), d, lo, {}, T)
  BY <1>1, <1>3, ZeroOrMoreOk
<1>5. Becomes(joined, Optional(joined, greedy), d, lo, {}, T)
  BY <1>1, <1>3, OptionalOk
<1>6. Becomes(Optional(joined, greedy), JoinCopies(Optional(joined, greedy), j), d, lo, {}, T)
  <2> DEFINE o == Optional(joined, greedy)
  <2> HIDE DEF o
  <2>1. StOk(o, lo, {}, T) /\ Len(o.stack) = d
    BY <1>5 DEF Becomes, o
  <2>2. Len(o.stack) >= 2
    BY <1>1, <2>1
  <2> HIDE DEF j
  <2>3. Becomes(o, JoinCopies(o, j), Len(o.stack), lo, {}, T)
    BY <1>1, <2>1, <2>2, JoinCopiesOk
  <2> QED
    BY <2>1, <2>3 DEF o
<1>7. Becomes(joined, JoinCopies(Optional(joined, greedy), j), d, lo, {}, T)
  BY <1>3, <1>5, <1>6, Further
<1> HIDE DEF j
<1>8. /\ Becomes(st, ZeroOrMore(joined, greedy), d, lo, {}, T)
      /\ Becomes(st, JoinCopies(Optional(joined, greedy), j), d, lo, {}, T)
  BY <1>2, <1>4, <1>7, Further
<1>9. RestOf(st, greedy, n) = IF n.max > 0 THEN JoinCopies(Optional(joined, greedy), j)
                              ELSE ZeroOrMore(joined, greedy)
  BY DEF RestOf, joined, j
<1> QED
  BY <1>8, <1>9

(* A tree becomes its repeat between two numbers. *)
LEMMA DoRepeatOk ==
    ASSUME NEW lo, NEW T, NEW st, StOk(st, lo, {}, T), NPOS \in Nat, T \subseteq Int,
           NULL \in T, Len(st.stack) >= 1, NEW greedy \in BOOLEAN, NEW n \in Times
    PROVE  Becomes(st, DoRepeat(st, greedy, n), Len(st.stack), lo, {}, T)
<1> DEFINE first == IF n.min = 0 THEN Optional(st, greedy) ELSE st
           copied == PushCopy(first)
           joined == JoinCopies(copied, Joined(n))
           rest == RestOf(joined, greedy, n)
           last == IF n.comma /\ n.min > 0 THEN rest ELSE joined
           new == Sequence(last)
           d == Len(st.stack)
<1>1. Joined(n) \in Int /\ d \in Nat /\ d >= 1 /\ d + 1 >= 2 /\ d + 1 - 1 = d
  BY Tops DEF Times, Joined
<1>2. Becomes(st, first, d, lo, {}, T)
  BY Staying, OptionalOk
<1>3. DoRepeat(st, greedy, n) = IF n.min = 1 /\ ~ n.comma THEN st ELSE new
  BY DEF DoRepeat
<1> HIDE DEF first
<1>4. StOk(first, lo, {}, T) /\ Len(first.stack) = d
  BY <1>2 DEF Becomes
<1>5. Becomes(first, copied, d + 1, lo, {}, T)
  <2>1. Len(first.stack) >= 1
    BY <1>1, <1>4
  <2> QED
    BY <1>4, <2>1, PushCopyOk
<1> HIDE DEF copied, d
<1>6. StOk(copied, lo, {}, T) /\ Len(copied.stack) = d + 1
  BY <1>5 DEF Becomes
<1>7. Becomes(copied, joined, d + 1, lo, {}, T)
  <2>1. Len(copied.stack) >= 2
    BY <1>1, <1>6
  <2> QED
    BY <1>1, <1>6, <2>1, JoinCopiesOk
<1> HIDE DEF joined
<1>8. StOk(joined, lo, {}, T) /\ Len(joined.stack) = d + 1
  BY <1>7 DEF Becomes
<1>9. Becomes(joined, rest, d + 1, lo, {}, T)
  <2>1. Len(joined.stack) >= 2
    BY <1>1, <1>8
  <2> QED
    BY <1>8, <2>1, RestOfOk
<1> HIDE DEF rest
<1>10. Becomes(joined, last, d + 1, lo, {}, T)
  <2>1. Becomes(joined, joined, d + 1, lo, {}, T)
    BY <1>8, Staying
  <2> QED
    BY <1>9, <2>1
<1> HIDE DEF last
<1>11. StOk(last, lo, {}, T) /\ Len(last.stack) = d + 1
  BY <1>10 DEF Becomes
<1>12. Becomes(last, new, d, lo, {}, T)
  <2>1. Len(last.stack) >= 2 /\ Len(last.stack) - 1 = d
    BY <1>1, <1>11
  <2> QED
    BY <1>11, <2>1, SequenceOk
<1> HIDE DEF new
<1>13. Becomes(joined, new, d, lo, {}, T)
  BY <1>8, <1>10, <1>12, Further
<1>14. Becomes(copied, new, d, lo, {}, T)
  BY <1>6, <1>7, <1>13, Further
<1>15. Becomes(first, new, d, lo, {}, T)
  BY <1>4, <1>5, <1>14, Further
<1>16. Becomes(st, new, d, lo, {}, T)
  BY <1>2, <1>15, Further
<1>17. Becomes(st, st, d, lo, {}, T)
  BY Staying DEF d
<1> QED
  BY <1>3, <1>16, <1>17 DEF d

(* A repeat takes the place of the topmost tree. *)
LEMMA DuplicateOk ==
    ASSUME NEW lo, NEW T, NEW st, StOk(st, lo, {}, T), NPOS \in Nat, T \subseteq Int,
           NULL \in T, Len(st.stack) >= 1,
           NEW tok, tok.type \in Duplicators, TokenOk(tok)
    PROVE  Becomes(st, Duplicate(st, tok), Len(st.stack), lo, {}, T)
<1> DEFINE greedy == tok.type \in Greedy
<1>1. greedy \in BOOLEAN
  OBVIOUS
<1> HIDE DEF greedy
<1>2. /\ Becomes(st, Optional(st, greedy), Len(st.stack), lo, {}, T)
      /\ Becomes(st, ZeroOrMore(st, greedy), Len(st.stack), lo, {}, T)
      /\ Becomes(st, OneOrMore(st, greedy), Len(st.stack), lo, {}, T)
  BY <1>1, OptionalOk, ZeroOrMoreOk, OneOrMoreOk
<1>3. tok.type \in Repeats =>
         Becomes(st, DoRepeat(st, greedy, tok.extra), Len(st.stack), lo, {}, T)
  <2>1. tok.type \in Repeats => tok.extra \in Times
    BY DEF TokenOk
  <2> QED
    BY <1>1, <2>1, DoRepeatOk
<1>4. tok.type \in {"OPT", "AOPT", "ZEROORMORE", "AZEROORMORE", "ONEORMORE", "AONEORMORE"}
      \/ tok.type \in Repeats
  BY DEF Duplicators, Repeats, Greedy
<1>5. CASE tok.type \in {"OPT", "AOPT"}
  <2>1. Duplicate(st, tok) = Optional(st, greedy)
    BY <1>5 DEF Duplicate, greedy
  <2> QED
    BY <1>2, <2>1
<1>6. CASE tok.type \in {"ZEROORMORE", "AZEROORMORE"}
  <2>1. Duplicate(st, tok) = ZeroOrMore(st, greedy)
    BY <1>6 DEF Duplicate, greedy
  <2> QED
    BY <1>2, <2>1
<1>7. CASE tok.type \in {"ONEORMORE", "AONEORMORE"}
  <2>1. Duplicate(st, tok) = OneOrMore(st, greedy)
    BY <1>7 DEF Duplicate, greedy
  <2> QED
    BY <1>2, <2>1
<1>8. CASE tok.type \in Repeats
  <2>1. Duplicate(st, tok) = DoRepeat(st, greedy, tok.extra)
    BY <1>8 DEF Duplicate, greedy, Repeats
  <2> QED
    BY <1>3, <1>8, <2>1
<1> QED
  BY <1>4, <1>5, <1>6, <1>7, <1>8

-----------------------------------------------------------------------------
(* The tree of a rule.                                                     *)

(* A tree whose root is the last node and does not match nothing.          *)
RootOk(ns, lo, I, T) ==
    /\ Built(ns, lo, I, T) /\ Len(ns) \in lo + 1 .. Len(ns)
    /\ ~ ns[Len(ns)].nullable

(* Such a root: something comes first. *)
LEMMA RootFirst ==
    ASSUME NEW ns, NEW lo, NEW I, NEW T, RootOk(ns, lo, I, T)
    PROVE  /\ ns[Len(ns)].firstpos \in Positions(lo, Len(ns))
           /\ ns[Len(ns)].firstpos # <<>>
<1>1. Built(ns, lo, I, T) /\ Len(ns) \in lo + 1 .. Len(ns) /\ ~ ns[Len(ns)].nullable
  BY DEF RootOk
<1> DEFINE n == Len(ns)
<1> HIDE DEF n
<1>2. n \in lo + 1 .. Len(ns) /\ ~ ns[n].nullable
  BY <1>1 DEF n
<1>3. /\ ns[n].firstpos \in Positions(lo, Len(ns))
      /\ ns[n].nullable \/ ns[n].firstpos # <<>>
  BY <1>1, <1>2, NodeOf
<1> QED
  BY <1>2, <1>3 DEF n

(* A sequence is not matched by nothing if its right part is not. *)
LEMMA SequenceRoot ==
    ASSUME NEW ns, NEW lo, NEW I, NEW T, Built(ns, lo, I, T), NPOS \in Nat,
           NEW l \in lo + 1 .. Len(ns), NEW r \in lo + 1 .. Len(ns),
           ~ ns[r].nullable
    PROVE  /\ RootOk(SequenceNode(ns, l, r), lo, I, T)
           /\ Grows(ns, SequenceNode(ns, l, r), lo)
<1> DEFINE new == SequenceNode(ns, l, r)
<1>a. \E x : Makes(ns, SequenceNode(ns, l, r), x, lo, I, T) /\ ~ x.nullable
  BY SequenceBuilt, Zenon
<1>1. PICK x : Makes(ns, new, x, lo, I, T) /\ ~ x.nullable
  BY <1>a
<1> HIDE DEF new
<1>2. /\ Built(new, lo, I, T) /\ Grows(ns, new, lo)
      /\ Len(new) = Len(ns) + 1 /\ new[Len(ns) + 1] = x
  BY <1>1 DEF Makes
<1>3. Len(ns) \in Nat /\ lo \in Nat /\ lo <= Len(ns)
  BY BuiltNodes
<1>4. Len(new) \in lo + 1 .. Len(new)
  BY <1>2, <1>3
<1>5. ~ x.nullable
  BY <1>1
<1>6. new[Len(new)] = x
  BY <1>2
<1> QED
  BY <1>2, <1>4, <1>5, <1>6 DEF RootOk, new

(* fixup_bol keeps it so. *)
LEMMA FixupBolOk ==
    ASSUME NEW ns, NEW lo, NEW I, NEW T, RootOk(ns, lo, I, T), NPOS \in Nat,
           NULL \in T, BOL_TOKEN \in T
    PROVE  RootOk(FixupBol(ns), lo, I, T) /\ Grows(ns, FixupBol(ns), lo)
<1> DEFINE top == Len(ns)
           one == Leaf(ns, BOL_TOKEN, TRUE)
           leaves == Leaf(one, NULL, TRUE)
           either == SelectionNode(leaves, top + 1, top + 2)
           new == SequenceNode(either, top + 3, top)
<1>1. Built(ns, lo, I, T) /\ top \in lo + 1 .. top /\ ~ ns[top].nullable
  BY DEF RootOk
<1>2. top \in Nat /\ lo \in Nat /\ lo < top
  BY <1>1, BuiltNodes
<1>3. NULL \in Int /\ BOL_TOKEN \in Int
  BY DEF NULL, BOL_TOKEN
<1>4. \E x : Makes(ns, one, x, lo, I, T)
  BY <1>1, <1>3, LeafBuilt
<1>5. Built(one, lo, I, T) /\ Grows(ns, one, lo) /\ Len(one) = top + 1
  BY <1>4 DEF Makes
<1> HIDE DEF one
<1>6. \E x : Makes(one, leaves, x, lo, I, T)
  BY <1>5, <1>3, LeafBuilt
<1>b. /\ Built(leaves, lo, I, T) /\ Grows(one, leaves, lo)
      /\ Len(leaves) = Len(one) + 1
  BY <1>6 DEF Makes
<1> HIDE DEF leaves
<1>7. Built(leaves, lo, I, T) /\ Grows(one, leaves, lo) /\ Len(leaves) = top + 2
  BY <1>5, <1>b, <1>2
<1>8. Grows(ns, leaves, lo)
  BY <1>1, <1>5, <1>7, GrowsMore
<1>9. top + 1 \in lo + 1 .. Len(leaves) /\ top + 2 \in lo + 1 .. Len(leaves)
  BY <1>2, <1>7
<1>10. \E x : Makes(leaves, either, x, lo, I, T)
  BY <1>7, <1>9, SelectionBuilt
<1>c. /\ Built(either, lo, I, T) /\ Grows(leaves, either, lo)
      /\ Len(either) = Len(leaves) + 1
  BY <1>10 DEF Makes
<1> HIDE DEF either
<1>11. Built(either, lo, I, T) /\ Grows(leaves, either, lo) /\ Len(either) = top + 3
  BY <1>7, <1>c, <1>2
<1>12. Grows(ns, either, lo)
  BY <1>1, <1>7, <1>8, <1>11, GrowsMore
<1>13. top + 3 \in lo + 1 .. Len(either) /\ top \in lo + 1 .. Len(either)
  BY <1>2, <1>11
<1>14. ~ either[top].nullable
  <2>1. Alike(ns[top], either[top])
    BY <1>1, <1>12, AlikeNode
  <2> QED
    BY <1>1, <2>1 DEF Alike
<1> HIDE DEF top
<1>15. RootOk(new, lo, I, T) /\ Grows(either, new, lo)
  BY <1>11, <1>13, <1>14, SequenceRoot
<1>16. Grows(ns, new, lo)
  BY <1>1, <1>11, <1>12, <1>15, GrowsMore DEF RootOk
<1>17. Grows(ns, ns, lo)
  BY <1>1, GrowsSame
<1>18. FixupBol(ns) = ns \/ FixupBol(ns) = new
  BY DEF FixupBol, new, either, leaves, one, top
<1> QED
  BY <1>15, <1>16, <1>17, <1>18

(* The tree of the rule read is such a tree, with the id of the rule. *)
LEMMA RootedOk ==
    ASSUME NEW lo, NEW T, StOk(tree, lo, {}, T), NPOS \in Nat, NULL \in T,
           BOL_TOKEN \in T, Len(tree_stack) = 1, regexes[rule].id \in Nat
    PROVE  /\ RootOk(Rooted, lo, {regexes[rule].id}, T)
           /\ Grows(node_ptr, Rooted, lo)
<1> DEFINE id == regexes[rule].id
           ns == EndNode(node_ptr, id)
           rooted == SequenceNode(ns, Last(tree_stack), Len(ns))
<1> HIDE DEF id
<1>1. tree.nodes = node_ptr /\ tree.stack = tree_stack
  BY DEF tree
<1>d. Len(tree.stack) = 1
  BY <1>1, Len(tree_stack) = 1
<1>e. Top(tree) = Last(tree_stack)
  BY <1>1 DEF Top
<1> DEFINE st == tree
<1>f. StOk(st, lo, {}, T) /\ Len(st.stack) = 1
  BY <1>d
<1>g. st.nodes = node_ptr /\ Top(st) = Last(tree_stack)
  BY <1>1, <1>e
<1> HIDE DEF st
<1>h. /\ Built(st.nodes, lo, {}, T) /\ Len(st.nodes) \in Nat
      /\ lo \in Nat /\ lo <= Len(st.nodes)
      /\ Len(st.stack) >= 1 => Top(st) \in lo + 1 .. Len(st.nodes)
  BY <1>f, Tops
<1>i. Len(st.stack) >= 1
  BY <1>f
<1>2. /\ Built(node_ptr, lo, {}, T) /\ Len(node_ptr) \in Nat
      /\ lo \in Nat /\ lo <= Len(node_ptr)
      /\ Last(tree_stack) \in lo + 1 .. Len(node_ptr)
  BY <1>g, <1>h, <1>i
<1>3. Built(node_ptr, lo, {id}, T)
  BY <1>2, BuiltWider
<1>4. \E x : /\ Makes(node_ptr, ns, x, lo, {id}, T) /\ ~ x.nullable
  BY <1>3, EndBuilt DEF id
<1>5. /\ Built(ns, lo, {id}, T) /\ Grows(node_ptr, ns, lo)
      /\ Len(ns) = Len(node_ptr) + 1 /\ ~ ns[Len(ns)].nullable
  BY <1>4 DEF Makes
<1> HIDE DEF ns
<1>6. Last(tree_stack) \in lo + 1 .. Len(ns) /\ Len(ns) \in lo + 1 .. Len(ns)
  BY <1>2, <1>5
<1>7. RootOk(rooted, lo, {id}, T) /\ Grows(ns, rooted, lo)
  BY <1>5, <1>6, SequenceRoot
<1> HIDE DEF rooted
<1>8. Grows(node_ptr, rooted, lo) /\ Built(rooted, lo, {id}, T)
  BY <1>3, <1>5, <1>7, GrowsMore DEF RootOk
<1>9. RootOk(FixupBol(rooted), lo, {id}, T) /\ Grows(rooted, FixupBol(rooted), lo)
  BY <1>7, FixupBolOk
<1>10. Grows(node_ptr, FixupBol(rooted), lo)
  BY <1>3, <1>8, <1>9, GrowsMore DEF RootOk
<1>11. Rooted = FixupBol(rooted) \/ Rooted = rooted
  BY DEF Rooted, rooted, ns, id
<1> QED
  BY <1>7, <1>8, <1>9, <1>10, <1>11 DEF id

-----------------------------------------------------------------------------
(* The stack of tokens says how many trees there are.                      *)

(* The types a tree stands for, and how many of the first n tokens are of  *)
(* one.                                                                    *)
TreeTypes == {"REGEX", "OREXP", "SEQUENCE", "SUB", "EXPRESSION", "REPEAT"}

(* How many of the first n tokens of the stack stand for a tree. *)
Trees(s, n) == Cardinality({k \in 1 .. n : s[k].type \in TreeTypes})

(* Token by token. *)
LEMMA TreeCount ==
    ASSUME NEW s
    PROVE  /\ Trees(s, 0) = 0
           /\ \A n \in Nat : Trees(s, n) \in Nat
           /\ \A n \in Nat \ {0} :
                 Trees(s, n) = Trees(s, n - 1)
                               + IF s[n].type \in TreeTypes THEN 1 ELSE 0
<1> DEFINE K(n) == {k \in 1 .. n : s[k].type \in TreeTypes}
<1>1. \A n \in Nat : IsFiniteSet(K(n))
  <2> SUFFICES ASSUME NEW n \in Nat PROVE IsFiniteSet(K(n))
    OBVIOUS
  <2>1. IsFiniteSet(1 .. n)
    BY FS_Interval
  <2>2. K(n) \subseteq 1 .. n
    OBVIOUS
  <2> HIDE DEF K
  <2> QED
    BY <2>1, <2>2, FS_Subset
<1>2. K(0) = {}
  OBVIOUS
<1>3. ASSUME NEW n \in Nat \ {0}
      PROVE  /\ s[n].type \in TreeTypes => K(n) = K(n - 1) \cup {n} /\ n \notin K(n - 1)
             /\ s[n].type \notin TreeTypes => K(n) = K(n - 1)
  <2>1. \A k : k \in 1 .. n <=> k \in 1 .. n - 1 \/ k = n
    OBVIOUS
  <2>2. n \notin 1 .. n - 1
    OBVIOUS
  <2> QED
    BY <2>1, <2>2
<1>4. \A n \in Nat : Trees(s, n) = Cardinality(K(n))
  BY DEF Trees
<1> HIDE DEF K
<1>5. \A n \in Nat : Trees(s, n) \in Nat
  BY <1>1, <1>4, FS_CardinalityType
<1>6. Trees(s, 0) = 0
  BY <1>2, <1>4, FS_EmptySet
<1>7. ASSUME NEW n \in Nat \ {0}
      PROVE  Trees(s, n) = Trees(s, n - 1)
                           + IF s[n].type \in TreeTypes THEN 1 ELSE 0
  <2>1. n - 1 \in Nat
    OBVIOUS
  <2>2. s[n].type \in TreeTypes => Cardinality(K(n)) = Cardinality(K(n - 1)) + 1
    BY <1>1, <1>3, <2>1, FS_AddElement
  <2>3. s[n].type \notin TreeTypes => Cardinality(K(n)) = Cardinality(K(n - 1))
    BY <1>3
  <2>4. Trees(s, n) = Cardinality(K(n)) /\ Trees(s, n - 1) = Cardinality(K(n - 1))
    BY <1>4, <2>1
  <2>5. Trees(s, n - 1) \in Nat
    BY <1>5, <2>1
  <2> QED
    BY <2>2, <2>3, <2>4, <2>5
<1> QED
  BY <1>5, <1>6, <1>7

(* Only the tokens count. *)
LEMMA SameTrees ==
    ASSUME NEW s, NEW t, NEW n \in Nat, \A k \in 1 .. n : s[k] = t[k]
    PROVE  Trees(s, n) = Trees(t, n)
<1>1. {k \in 1 .. n : s[k].type \in TreeTypes} = {k \in 1 .. n : t[k].type \in TreeTypes}
  OBVIOUS
<1> QED
  BY <1>1 DEF Trees

(* Types a token is not read with, and types that may not come behind      *)
(* another.                                                                *)
LEMMA Types ==
    /\ \A x : TokenOk(x) => x.type \in Lexed
    /\ \A type \in Lexed : type \notin TreeTypes
    /\ \A type \in Reduced : type # "BEGIN" /\ type \notin Duplicators
    /\ \A l, r : Precedence(l, r) \in {"<", "="} => r \in Yields(l) \cup Joins(l)
    /\ \A l, r : Precedence(l, r) = "<" => r \in Yields(l)
    /\ \A l, r : Precedence(l, r) = ">" => r \in Takes(l)
<1>1. \A x : TokenOk(x) => x.type \in Lexed
  BY DEF TokenOk
<1>2. \A type \in Lexed : type \notin TreeTypes
  BY DEF Lexed, TreeTypes, Duplicators
<1>3. \A type \in Reduced : type # "BEGIN" /\ type \notin Duplicators
  BY DEF Reduced, Duplicators
<1>4. \A l, r : Precedence(l, r) \in {"<", "="} => r \in Yields(l) \cup Joins(l)
  BY DEF Precedence
<1>5. \A l, r : Precedence(l, r) = "<" => r \in Yields(l)
  BY DEF Precedence
<1>6. \A l, r : Precedence(l, r) = ">" => r \in Takes(l)
  BY DEF Precedence
<1> QED
  BY <1>1, <1>2, <1>3, <1>4, <1>5, <1>6

(* What the productions let stand beside what, as far as counting the trees*)
(* needs it.                                                               *)
LEMMA BesideWhat ==
    /\ \A l : "BEGIN" \notin Yields(l) \cup Joins(l)
    /\ "END" \notin Yields("BEGIN") \cup Joins("BEGIN")
    /\ \A l : "REGEX" \in Yields(l) => l = "BEGIN"
    /\ \A l : \A r \in Duplicators :
          r \in Yields(l) \cup Joins(l) => l = "REPEAT" \/ l \in Duplicators
    /\ Takes("BEGIN") = {"END"} /\ Takes("REGEX") = {"END"}
<1>1. \A l : "BEGIN" \notin Yields(l) \cup Joins(l)
  BY DEF Yields, Joins, Starts, Operands, Duplicators
<1>2. "END" \notin Yields("BEGIN") \cup Joins("BEGIN")
  BY DEF Yields, Joins, Starts, Operands
<1>3. \A l : "REGEX" \in Yields(l) => l = "BEGIN"
  BY DEF Yields, Starts, Operands, Duplicators
<1>4. \A l : \A r \in Duplicators :
          r \in Yields(l) \cup Joins(l) => l = "REPEAT" \/ l \in Duplicators
  BY DEF Yields, Joins, Starts, Operands, Duplicators, Greedy
<1>5. Takes("BEGIN") = {"END"} /\ Takes("REGEX") = {"END"}
  <2>1. /\ "BEGIN" \notin {"EXPRESSION", "REPEAT", "DUP"} \cup Duplicators
        /\ "BEGIN" \notin Operands \cup {"CLOSEPAREN"}
        /\ "REGEX" \notin {"EXPRESSION", "REPEAT", "DUP"} \cup Duplicators
        /\ "REGEX" \notin Operands \cup {"CLOSEPAREN"}
    BY DEF Operands, Duplicators
  <2> QED
    BY <2>1 DEF Takes
<1> QED
  BY <1>1, <1>2, <1>3, <1>4, <1>5

(* What holds of the tokens and the trees while a rule is parsed.          *)
Ready == \/ token_stack = <<>>
         \/ Len(token_stack) = 1 /\ rhs_token.type = "END"

(* As many trees as tokens that stand for one; BEGIN is only at the bottom *)
(* and a repeat before its duplicators.                                    *)
DepthInv ==
    LET n == Len(token_stack)
    IN  /\ n >= 1 => token_stack[1].type = "BEGIN"
        /\ \A k \in 2 .. n : token_stack[k].type # "BEGIN"
        /\ \A k \in 1 .. n : token_stack[k].type \in Duplicators =>
              \E j \in 1 .. k - 1 : token_stack[j].type = "REPEAT"
        /\ Len(tree_stack) = IF Ready THEN 1 ELSE Trees(token_stack, n)

(* A rule begins: no tree yet. *)
LEMMA BeginRuleDepth ==
    ASSUME CompileInv, BeginRule, tree_stack = <<>>, UNCHANGED ruleVars
    PROVE  DepthInv'
<1> DEFINE b == rule_tokens[1]
<1>1. /\ rule \in Nat \ {0} /\ rule <= Len(regexes) /\ RegexesOk
      /\ token_stack' = <<rule_tokens[1]>> /\ next_token' = 2
      /\ rule' = rule /\ tree_stack' = tree_stack /\ regexes' = regexes
  BY DEF BeginRule, CompileInv, RulesInv, ParserInv, treeVars, ruleVars, rules
<1>2. rule \in 1 .. Len(regexes)
  <2>1. Len(regexes) \in Nat
    BY <1>1 DEF RegexesOk
  <2> QED
    BY <1>1, <2>1
<1>3. rule_tokens[1].type = "BEGIN" /\ rule_tokens[2].type # "END"
  BY <1>1, <1>2, StoredRule DEF rule_tokens, Opened
<1>4. rhs_token' = rule_tokens[2]
  BY <1>1 DEF rhs_token, rule_tokens
<1>5. b.type = "BEGIN" /\ token_stack' = <<b>>
  BY <1>1, <1>3
<1> HIDE DEF b
<1>6. Len(token_stack') = 1 /\ token_stack'[1] = b /\ token_stack' # <<>>
  BY <1>5
<1>7. ~ Ready'
  BY <1>3, <1>4, <1>6 DEF Ready
<1>8. Trees(token_stack', 1) = 0
  <2>1. "BEGIN" \notin TreeTypes
    BY DEF TreeTypes
  <2> DEFINE s == token_stack'
  <2>2. s[1].type \notin TreeTypes
    BY <1>5, <1>6, <2>1
  <2> HIDE DEF s
  <2>3. 1 \in Nat \ {0} /\ 1 - 1 = 0
    OBVIOUS
  <2>4. Trees(s, 1) = Trees(s, 1 - 1) + IF s[1].type \in TreeTypes THEN 1 ELSE 0
    BY <2>3, TreeCount
  <2>5. Trees(s, 0) = 0
    BY TreeCount
  <2>6. Trees(s, 1) = 0
    BY <2>2, <2>3, <2>4, <2>5
  <2> QED
    BY <2>6 DEF s
<1>9. Len(tree_stack') = 0
  BY <1>1
<1>10. "BEGIN" \notin Duplicators
  BY DEF Duplicators
<1>11. \A k : k \in 1 .. 1 <=> k = 1
  OBVIOUS
<1>12. 2 .. 1 = {} /\ 1 >= 1
  OBVIOUS
<1> QED
  BY <1>5, <1>6, <1>7, <1>8, <1>9, <1>10, <1>11, <1>12 DEF DepthInv

(* A token is shifted: none stands for a tree. *)
LEMMA ShiftDepth ==
    ASSUME CompileInv, DepthInv, Shift, UNCHANGED ruleVars
    PROVE  DepthInv'
<1> DEFINE n == Len(token_stack)
           s == token_stack'
           x == rhs_token
<1>1. /\ rule \in 1 .. Len(regexes) /\ RegexesOk /\ StackOk(token_stack)
      /\ next_token \in 1 .. Len(rule_tokens)
      /\ token_stack # <<>>
      /\ s = Append(token_stack, x)
      /\ action \in {"<", "="} /\ tree_stack' = tree_stack
  BY DEF Shift, CompileInv, RulesInv, ParserInv, treeVars
<1>2. /\ n \in Nat /\ n >= 1 /\ \A k \in 1 .. n : StackToken(token_stack[k])
  BY <1>1, StackTokens
<1>3. TokenOk(x)
  <2>1. SeqOk(rule_tokens)
    BY <1>1, StoredRule DEF rule_tokens
  <2> QED
    BY <1>1, <2>1, SeqTokens DEF rhs_token
<1>4. x.type \notin TreeTypes
  BY <1>3, Types
<1>5. /\ Len(s) = n + 1 /\ s[n + 1] = x /\ \A k \in 1 .. n : s[k] = token_stack[k]
  BY <1>1, <1>3, StackAppend DEF StackToken
<1>6. x.type \in Yields(token_stack[n].type) \cup Joins(token_stack[n].type)
  <2>1. Last(token_stack) = token_stack[n]
    BY DEF Last
  <2> QED
    BY <1>1, <2>1, Types DEF action
<1>7. /\ token_stack[1].type = "BEGIN"
      /\ \A k \in 2 .. n : token_stack[k].type # "BEGIN"
      /\ \A k \in 1 .. n : token_stack[k].type \in Duplicators =>
            \E j \in 1 .. k - 1 : token_stack[j].type = "REPEAT"
      /\ Len(tree_stack) = IF Ready THEN 1 ELSE Trees(token_stack, n)
  BY <1>2 DEF DepthInv
<1>8. ~ Ready
  <2>1. ASSUME n = 1, x.type = "END"
        PROVE  FALSE
    BY <1>6, <1>7, <2>1, BesideWhat
  <2> QED
    BY <1>1, <2>1 DEF Ready
<1> HIDE DEF n, s, x
<1>9. Trees(s, n + 1) = Trees(token_stack, n)
  <2>1. Trees(s, n) = Trees(token_stack, n)
    BY <1>2, <1>5, SameTrees
  <2>2. n + 1 \in Nat \ {0} /\ (n + 1) - 1 = n
    BY <1>2
  <2>3. Trees(s, n + 1) = Trees(s, (n + 1) - 1)
                          + IF s[n + 1].type \in TreeTypes THEN 1 ELSE 0
    BY <2>2, TreeCount
  <2>4. Trees(s, n) \in Nat
    BY <1>2, TreeCount
  <2> QED
    BY <1>4, <1>5, <2>1, <2>2, <2>3, <2>4
<1>10. ~ Ready'
  <2>1. Len(s) # 1 /\ Len(s) # 0
    BY <1>2, <1>5
  <2>2. token_stack' # <<>>
    BY <2>1 DEF s
  <2> QED
    BY <2>1, <2>2 DEF Ready, s
<1>11. s[1].type = "BEGIN"
  BY <1>2, <1>5, <1>7
<1>12. ASSUME NEW k \in 1 .. n + 1
       PROVE  /\ k # 1 => s[k].type # "BEGIN"
              /\ s[k].type \in Duplicators => \E j \in 1 .. k - 1 : s[j].type = "REPEAT"
  <2>1. CASE k \in 1 .. n
    <3>1. s[k] = token_stack[k] /\ \A j \in 1 .. k - 1 : j \in 1 .. n /\ s[j] = token_stack[j]
      BY <1>2, <1>5, <2>1
    <3>2. k # 1 => k \in 2 .. n
      BY <1>2, <2>1
    <3> QED
      BY <1>7, <2>1, <3>1, <3>2
  <2>2. CASE k = n + 1
    <3>1. x.type # "BEGIN"
      BY <1>6, BesideWhat
    <3>2. ASSUME x.type \in Duplicators
          PROVE  \E j \in 1 .. n : s[j].type = "REPEAT"
      <4>1. token_stack[n].type = "REPEAT" \/ token_stack[n].type \in Duplicators
        BY <1>6, <3>2, BesideWhat
      <4>2. n \in 1 .. n
        BY <1>2
      <4>3. CASE token_stack[n].type = "REPEAT"
        BY <1>5, <4>2, <4>3
      <4>4. CASE token_stack[n].type \in Duplicators
        <5>1. PICK j \in 1 .. n - 1 : token_stack[j].type = "REPEAT"
          BY <1>7, <4>2, <4>4
        <5>2. j \in 1 .. n
          BY <1>2
        <5> QED
          BY <1>5, <5>1, <5>2
      <4> QED
        BY <4>1, <4>3, <4>4
    <3>3. (n + 1) - 1 = n
      BY <1>2
    <3> QED
      BY <1>5, <2>2, <3>1, <3>2, <3>3
  <2>3. k \in 1 .. n \/ k = n + 1
    BY <1>2
  <2> QED
    BY <2>1, <2>2, <2>3
<1>13. \A k \in 2 .. n + 1 : k \in 1 .. n + 1 /\ k # 1
  BY <1>2
<1>14. \A k \in 2 .. n + 1 : s[k].type # "BEGIN"
  BY <1>12, <1>13
<1>15. Len(tree_stack') = Trees(s, n + 1)
  BY <1>1, <1>7, <1>8, <1>9
<1> QED
  BY <1>5, <1>10, <1>11, <1>12, <1>14, <1>15 DEF DepthInv, s

-----------------------------------------------------------------------------
(* Reductions and trees.                                                   *)

(* Where a tree is, there is one at least. *)
LEMMA SomeTree ==
    ASSUME NEW s, NEW n \in Nat, NEW k \in 1 .. n, s[k].type \in TreeTypes
    PROVE  Trees(s, n) >= 1
<1> DEFINE K == {j \in 1 .. n : s[j].type \in TreeTypes}
<1>1. k \in K
  OBVIOUS
<1>2. IsFiniteSet(K)
  <2>1. IsFiniteSet(1 .. n)
    BY FS_Interval
  <2>2. K \subseteq 1 .. n
    OBVIOUS
  <2> HIDE DEF K
  <2> QED
    BY <2>1, <2>2, FS_Subset
<1>3. Trees(s, n) = Cardinality(K)
  BY DEF Trees
<1> HIDE DEF K
<1>4. Cardinality(K) \in Nat /\ Cardinality(K) # 0
  BY <1>1, <1>2, FS_CardinalityType, FS_EmptySet
<1> QED
  BY <1>3, <1>4

(* The handle is at the top of the stack. *)
LEMMA HandleTypes ==
    ASSUME CompileInv, NEW S, NEW types \in Seq(S), Handle(types)
    PROVE  /\ HandleStart \in 1 .. Len(token_stack) /\ Len(token_stack) \in Nat
           /\ Len(token_stack) = HandleStart + Len(types) - 1
           /\ \A k \in 1 .. Len(types) :
                 token_stack[HandleStart + k - 1].type = types[k]
           /\ HandleStart > 1 => HandleStart - 1 \in 1 .. Len(token_stack)
<1> DEFINE h == HandleStart
           n == Len(token_stack)
           m == Len(types)
<1>1. StackOk(token_stack) /\ token_stack # <<>>
  BY DEF CompileInv, ParserInv, Handle, Reducing
<1>2. h \in 1 .. n /\ n \in Nat
  BY <1>1, HandleExists, StackTokens
<1>3. handle = [k \in 1 .. n - h + 1 |-> token_stack[h + k - 1].type]
  BY DEF handle
<1>4. handle = types
  BY DEF Handle
<1>5. m \in Nat /\ DOMAIN types = 1 .. m
  OBVIOUS
<1> HIDE DEF h, n, m
<1>6. DOMAIN handle = 1 .. n - h + 1
  BY <1>3
<1>7. 1 .. n - h + 1 = 1 .. m /\ n - h + 1 \in Nat
  BY <1>2, <1>4, <1>5, <1>6
<1>8. n - h + 1 = m
  <2> DEFINE a == n - h + 1
  <2>1. a \in Nat /\ 1 .. a = 1 .. m
    BY <1>7
  <2> HIDE DEF a
  <2>2. a <= m
    <3>1. CASE a = 0
      BY <3>1, <1>5
    <3>2. CASE a # 0
      <4>1. a \in 1 .. a
        BY <2>1, <3>2
      <4> QED
        BY <2>1, <4>1, <1>5
    <3> QED
      BY <3>1, <3>2
  <2>3. m <= a
    <3>1. CASE m = 0
      BY <3>1, <2>1
    <3>2. CASE m # 0
      <4>1. m \in 1 .. m
        BY <1>5, <3>2
      <4> QED
        BY <2>1, <4>1, <1>5
    <3> QED
      BY <3>1, <3>2
  <2>4. a = m
    BY <2>1, <2>2, <2>3, <1>5
  <2> QED
    BY <2>4 DEF a
<1>9. n = h + m - 1
  BY <1>2, <1>5, <1>8
<1>10. \A k \in 1 .. m : token_stack[h + k - 1].type = types[k]
  BY <1>3, <1>4, <1>5, <1>8
<1>11. h > 1 => h - 1 \in 1 .. n
  BY <1>2
<1> QED
  BY <1>2, <1>9, <1>10, <1>11 DEF h, n, m

(* A reduction to one token, of a handle that is not the start of all: how *)
(* many trees there were, and must be.                                     *)
LEMMA ReduceDepth ==
    ASSUME CompileInv, DepthInv, NEW S, NEW types \in Seq(S), Handle(types),
           Len(types) >= 1, types[1] # "BEGIN",
           NEW type \in Reduced, ReduceTo(<<type>>), UNCHANGED ruleVars
    PROVE  LET d == Trees(token_stack, HandleStart - 1)
           IN  /\ d \in Nat
               /\ HandleStart >= 2
               /\ Len(tree_stack) = Trees(token_stack, Len(token_stack))
               /\ Len(tree_stack') = (d + IF type \in TreeTypes THEN 1 ELSE 0)
                     => DepthInv'
<1> DEFINE h == HandleStart
           n == Len(token_stack)
           new == token_stack'
           kept == SubSeq(token_stack, 1, h - 1)
           tok == Token(type)
           d == Trees(token_stack, h - 1)
<1>1. /\ h \in 1 .. n /\ n \in Nat
      /\ n = h + Len(types) - 1 /\ Len(types) \in Nat
      /\ \A k \in 1 .. Len(types) : token_stack[h + k - 1].type = types[k]
  BY HandleTypes
<1>2. /\ token_stack[1].type = "BEGIN"
      /\ \A k \in 2 .. n : token_stack[k].type # "BEGIN"
      /\ \A k \in 1 .. n : token_stack[k].type \in Duplicators =>
            \E j \in 1 .. k - 1 : token_stack[j].type = "REPEAT"
      /\ Len(tree_stack) = IF Ready THEN 1 ELSE Trees(token_stack, n)
  BY <1>1 DEF DepthInv
<1>3. h >= 2
  <2>1. token_stack[h + 1 - 1].type = types[1]
    BY <1>1
  <2>2. h + 1 - 1 = h
    BY <1>1
  <2>3. h # 1
    BY <1>2, <2>1, <2>2
  <2> QED
    BY <1>1, <2>3
<1>4. StackOk(token_stack) /\ token_stack # <<>> /\ <<type>> # <<>>
  BY DEF CompileInv, ParserInv, Handle, Reducing
<1>5. /\ StackOk(kept) /\ Len(kept) = h - 1
      /\ \A k \in 1 .. h - 1 : kept[k] = token_stack[k]
      /\ new = Append(kept, tok)
  <2>1. Result(<<type>>)
    BY DEF Result
  <2> QED
    BY <1>4, <2>1, ReduceKeeps
<1>6. StackToken(tok)
  BY DEF StackToken
<1>7. tok.type = type /\ type # "BEGIN" /\ type \notin Duplicators
  BY Types, PlainToken
<1>8. ~ Ready
  BY <1>1, <1>3, <1>4 DEF Ready
<1> HIDE DEF kept, tok, new, h, n
<1>9. h - 1 \in Nat /\ (h - 1) + 1 = h /\ h \in Nat \ {0}
  BY <1>1
<1>10. /\ Len(new) = (h - 1) + 1 /\ new[(h - 1) + 1] = tok
       /\ \A k \in 1 .. h - 1 : new[k] = kept[k]
  <2>1. \A w : StackOk(w) => /\ Len(Append(w, tok)) = Len(w) + 1
                            /\ Append(w, tok)[Len(w) + 1] = tok
                            /\ \A k \in 1 .. Len(w) : Append(w, tok)[k] = w[k]
    BY <1>6, StackAppend
  <2> QED
    BY <1>5, <2>1
<1>11. Len(new) = h /\ new[h] = tok /\ \A k \in 1 .. h - 1 : new[k] = token_stack[k]
  BY <1>5, <1>9, <1>10
<1>12. d \in Nat
  BY <1>9, TreeCount
<1>13. Trees(new, h) = d + IF type \in TreeTypes THEN 1 ELSE 0
  <2>1. Trees(new, h - 1) = d
    BY <1>9, <1>11, SameTrees
  <2>2. Trees(new, h) = Trees(new, h - 1) + IF new[h].type \in TreeTypes THEN 1 ELSE 0
    BY <1>9, TreeCount
  <2> QED
    BY <1>7, <1>11, <2>1, <2>2
<1>14. ~ Ready'
  <2>1. Len(new) # 1 /\ Len(new) # 0
    BY <1>1, <1>3, <1>11
  <2>2. token_stack' # <<>>
    BY <2>1 DEF new
  <2> QED
    BY <2>1, <2>2 DEF Ready, new
<1>15. new[1].type = "BEGIN"
  <2>1. 1 \in 1 .. h - 1
    BY <1>1, <1>3
  <2> QED
    BY <1>2, <1>11, <2>1
<1>16. ASSUME NEW k \in 1 .. h
       PROVE  /\ k # 1 => new[k].type # "BEGIN"
              /\ new[k].type \in Duplicators => \E j \in 1 .. k - 1 : new[j].type = "REPEAT"
  <2>1. CASE k = h
    BY <1>7, <1>11, <2>1
  <2>2. CASE k # h
    <3>1. k \in 1 .. h - 1 /\ k \in 1 .. n
      BY <1>1, <2>2
    <3>2. new[k] = token_stack[k] /\ \A j \in 1 .. k - 1 : j \in 1 .. h - 1
      BY <1>1, <1>11, <3>1
    <3>3. \A j \in 1 .. k - 1 : new[j] = token_stack[j]
      BY <1>11, <3>2
    <3>4. k # 1 => k \in 2 .. n
      BY <1>1, <3>1
    <3> QED
      BY <1>2, <3>1, <3>2, <3>3, <3>4
  <2> QED
    BY <2>1, <2>2
<1>17. \A k \in 2 .. h : k \in 1 .. h /\ k # 1
  BY <1>1
<1>18. \A k \in 2 .. h : new[k].type # "BEGIN"
  BY <1>16, <1>17
<1>19. ASSUME Len(tree_stack') = (d + IF type \in TreeTypes THEN 1 ELSE 0)
       PROVE  DepthInv'
  <2>1. Len(tree_stack') = Trees(new, h)
    BY <1>13, <1>19
  <2> QED
    BY <2>1, <1>11, <1>14, <1>15, <1>16, <1>18 DEF DepthInv, new
<1>20. Len(tree_stack) = Trees(token_stack, n)
  BY <1>2, <1>8
<1> QED
  BY <1>3, <1>12, <1>19, <1>20 DEF h, n

(* The trees of the tokens of a handle. *)
LEMMA TopTree ==
    ASSUME NEW s, NEW h \in Nat \ {0}, s[h].type \in TreeTypes
    PROVE  Trees(s, h) = Trees(s, h - 1) + 1
BY TreeCount

(* A token that stands for no tree. *)
LEMMA TopPlain ==
    ASSUME NEW s, NEW h \in Nat \ {0}, s[h].type \notin TreeTypes
    PROVE  Trees(s, h) = Trees(s, h - 1)
<1>1. h - 1 \in Nat
  OBVIOUS
<1>2. Trees(s, h - 1) \in Nat
  BY <1>1, TreeCount
<1>3. Trees(s, h) = Trees(s, h - 1) + IF s[h].type \in TreeTypes THEN 1 ELSE 0
  BY TreeCount
<1> QED
  BY <1>2, <1>3

(* One token in the place of one. *)
LEMMA ReduceOne ==
    ASSUME CompileInv, DepthInv, NEW old, Handle(<<old>>), old # "BEGIN",
           NEW type \in Reduced, ReduceTo(<<type>>), UNCHANGED ruleVars
    PROVE  /\ old \in TreeTypes /\ type \in TreeTypes /\ Len(tree_stack') = Len(tree_stack)
                 => DepthInv'
           /\ old \notin TreeTypes /\ type \in TreeTypes
              /\ Len(tree_stack') = Len(tree_stack) + 1 => DepthInv'
           /\ old \notin TreeTypes /\ type \notin TreeTypes
              /\ Len(tree_stack') = Len(tree_stack) => DepthInv'
           /\ Len(tree_stack) \in Nat
           /\ old \in Duplicators => Len(tree_stack) >= 1
<1> DEFINE types == <<old>>
           h == HandleStart
           n == Len(token_stack)
           d == Trees(token_stack, h - 1)
<1>1. types \in Seq({old}) /\ Len(types) = 1 /\ types[1] = old
  OBVIOUS
<1>2. Handle(types)
  OBVIOUS
<1> HIDE DEF types
<1>3. /\ h \in 1 .. n /\ n \in Nat
      /\ n = h + Len(types) - 1
      /\ \A k \in 1 .. Len(types) : token_stack[h + k - 1].type = types[k]
  BY <1>1, <1>2, HandleTypes
<1>4. 1 <= Len(types) /\ Len(types) >= 1 /\ types[1] # "BEGIN"
  BY <1>1
<1>5. /\ d \in Nat /\ h >= 2
      /\ Len(tree_stack) = Trees(token_stack, n)
      /\ Len(tree_stack') = (d + IF type \in TreeTypes THEN 1 ELSE 0) => DepthInv'
  BY <1>1, <1>2, <1>4, ReduceDepth
<1> HIDE DEF h, n
<1>6. n = h /\ h \in Nat \ {0} /\ token_stack[h].type = old
  <2>1. h + 1 - 1 = h /\ 1 \in 1 .. 1
    BY <1>3
  <2>2. token_stack[h + 1 - 1].type = old
    BY <1>1, <1>3, <2>1
  <2> QED
    BY <1>1, <1>3, <2>1, <2>2
<1>7. /\ old \in TreeTypes => Len(tree_stack) = d + 1
      /\ old \notin TreeTypes => Len(tree_stack) = d
  BY <1>5, <1>6, TopTree, TopPlain
<1>8. Len(tree_stack) \in Nat
  BY <1>5, <1>7
<1>9. ASSUME old \in Duplicators
      PROVE  Len(tree_stack) >= 1
  <2>1. PICK j \in 1 .. h - 1 : token_stack[j].type = "REPEAT"
    <3>1. h \in 1 .. Len(token_stack)
      BY <1>3 DEF n
    <3> QED
      BY <1>6, <1>9, <3>1 DEF DepthInv
  <2>2. "REPEAT" \in TreeTypes
    BY DEF TreeTypes
  <2>3. j \in 1 .. n /\ n \in Nat
    BY <1>3
  <2> QED
    BY <1>5, <2>1, <2>2, <2>3, SomeTree
<1> HIDE DEF d
<1> QED
  BY <1>5, <1>7, <1>8, <1>9

(* One in the place of two: the first stands for a tree. *)
LEMMA ReduceTwo ==
    ASSUME CompileInv, DepthInv, NEW a, NEW b,
           Handle(<<a, b>>), a # "BEGIN", a \in TreeTypes,
           NEW type \in Reduced, type \in TreeTypes, ReduceTo(<<type>>),
           UNCHANGED ruleVars
    PROVE  /\ b \notin TreeTypes /\ Len(tree_stack') = Len(tree_stack) => DepthInv'
           /\ b \in TreeTypes => /\ Len(tree_stack) >= 2
                                 /\ Len(tree_stack') = Len(tree_stack) - 1 => DepthInv'
<1> DEFINE types == <<a, b>>
           h == HandleStart
           n == Len(token_stack)
           d == Trees(token_stack, h - 1)
<1>1. types \in Seq({a, b}) /\ Len(types) = 2 /\ types[1] = a /\ types[2] = b
  OBVIOUS
<1>2. Handle(types)
  OBVIOUS
<1> HIDE DEF types
<1>3. /\ h \in 1 .. n /\ n \in Nat
      /\ n = h + Len(types) - 1
      /\ \A k \in 1 .. Len(types) : token_stack[h + k - 1].type = types[k]
  BY <1>1, <1>2, HandleTypes
<1>4. Len(types) >= 1 /\ types[1] # "BEGIN"
  BY <1>1
<1>5. /\ d \in Nat /\ h >= 2
      /\ Len(tree_stack) = Trees(token_stack, n)
      /\ Len(tree_stack') = (d + IF type \in TreeTypes THEN 1 ELSE 0) => DepthInv'
  BY <1>1, <1>2, <1>4, ReduceDepth
<1> HIDE DEF h, n
<1>6. /\ n = h + 1 /\ h \in Nat \ {0} /\ h + 1 \in Nat \ {0} /\ (h + 1) - 1 = h
      /\ token_stack[h].type = a /\ token_stack[h + 1].type = b
  <2>1. h + 1 - 1 = h /\ h + 2 - 1 = h + 1 /\ 1 \in 1 .. 2 /\ 2 \in 1 .. 2
    BY <1>3
  <2>2. token_stack[h + 1 - 1].type = a /\ token_stack[h + 2 - 1].type = b
    BY <1>1, <1>3, <2>1
  <2>3. n = h + 1
    BY <1>1, <1>3, <2>1
  <2> QED
    BY <1>3, <2>1, <2>2, <2>3
<1>7. Trees(token_stack, h) = d + 1
  BY <1>6, TopTree
<1>8. /\ b \in TreeTypes => Len(tree_stack) = d + 1 + 1
      /\ b \notin TreeTypes => Len(tree_stack) = d + 1
  BY <1>5, <1>6, <1>7, TopTree, TopPlain
<1> HIDE DEF d
<1> QED
  BY <1>5, <1>8

(* One in the place of three: one or both of the outer stand for a tree. *)
LEMMA ReduceThree ==
    ASSUME CompileInv, DepthInv, NEW a, NEW b,
           NEW c, Handle(<<a, b, c>>), a # "BEGIN",
           NEW type \in Reduced, type \in TreeTypes, ReduceTo(<<type>>),
           UNCHANGED ruleVars
    PROVE  /\ /\ a \notin TreeTypes /\ b \in TreeTypes /\ c \notin TreeTypes
              /\ Len(tree_stack') = Len(tree_stack)
              => DepthInv'
           /\ a \in TreeTypes /\ b \notin TreeTypes /\ c \in TreeTypes =>
                 /\ Len(tree_stack) >= 2
                 /\ Len(tree_stack') = Len(tree_stack) - 1 => DepthInv'
<1> DEFINE types == <<a, b, c>>
           h == HandleStart
           n == Len(token_stack)
           d == Trees(token_stack, h - 1)
<1>1. /\ types \in Seq({a, b, c}) /\ Len(types) = 3
      /\ types[1] = a /\ types[2] = b /\ types[3] = c
  OBVIOUS
<1>2. Handle(types)
  OBVIOUS
<1> HIDE DEF types
<1>3. /\ h \in 1 .. n /\ n \in Nat
      /\ n = h + Len(types) - 1
      /\ \A k \in 1 .. Len(types) : token_stack[h + k - 1].type = types[k]
  BY <1>1, <1>2, HandleTypes
<1>4. Len(types) >= 1 /\ types[1] # "BEGIN"
  BY <1>1
<1>5. /\ d \in Nat /\ h >= 2
      /\ Len(tree_stack) = Trees(token_stack, n)
      /\ Len(tree_stack') = (d + IF type \in TreeTypes THEN 1 ELSE 0) => DepthInv'
  BY <1>1, <1>2, <1>4, ReduceDepth
<1> HIDE DEF h, n
<1>6. /\ n = h + 2 /\ h \in Nat \ {0} /\ h + 1 \in Nat \ {0} /\ (h + 1) - 1 = h
      /\ h + 2 \in Nat \ {0} /\ (h + 2) - 1 = h + 1
      /\ token_stack[h].type = a /\ token_stack[h + 1].type = b
      /\ token_stack[h + 2].type = c
  <2>1. /\ h + 1 - 1 = h /\ h + 2 - 1 = h + 1 /\ h + 3 - 1 = h + 2
        /\ 1 \in 1 .. 3 /\ 2 \in 1 .. 3 /\ 3 \in 1 .. 3
    BY <1>3
  <2>2. /\ token_stack[h + 1 - 1].type = a /\ token_stack[h + 2 - 1].type = b
        /\ token_stack[h + 3 - 1].type = c
    BY <1>1, <1>3, <2>1
  <2>3. n = h + 2
    BY <1>1, <1>3, <2>1
  <2> QED
    BY <1>3, <2>1, <2>2, <2>3
<1>7. /\ a \in TreeTypes => Trees(token_stack, h) = d + 1
      /\ a \notin TreeTypes => Trees(token_stack, h) = d
  BY <1>6, TopTree, TopPlain
<1>8. /\ b \in TreeTypes => Trees(token_stack, h + 1) = Trees(token_stack, h) + 1
      /\ b \notin TreeTypes => Trees(token_stack, h + 1) = Trees(token_stack, h)
  BY <1>6, TopTree, TopPlain
<1>9. /\ c \in TreeTypes => Len(tree_stack) = Trees(token_stack, h + 1) + 1
      /\ c \notin TreeTypes => Len(tree_stack) = Trees(token_stack, h + 1)
  BY <1>5, <1>6, TopTree, TopPlain
<1> HIDE DEF d
<1>10. CASE a \notin TreeTypes /\ b \in TreeTypes /\ c \notin TreeTypes
  BY <1>5, <1>7, <1>8, <1>9, <1>10
<1>11. CASE a \in TreeTypes /\ b \notin TreeTypes /\ c \in TreeTypes
  BY <1>5, <1>7, <1>8, <1>9, <1>11
<1> QED
  BY <1>10, <1>11

(* The expression of the rule: what is left is its tree. *)
LEMMA ReduceRegex ==
    ASSUME CompileInv, DepthInv, Handle(<<"REGEX">>), ReduceTo(<<>>),
           UNCHANGED ruleVars, tree_stack' = tree_stack
    PROVE  DepthInv'
<1> DEFINE types == <<"REGEX">>
           h == HandleStart
           n == Len(token_stack)
           new == token_stack'
<1>1. types \in Seq({"REGEX"}) /\ Len(types) = 1 /\ types[1] = "REGEX"
  OBVIOUS
<1>2. Handle(types)
  OBVIOUS
<1> HIDE DEF types
<1>3. /\ h \in 1 .. n /\ n \in Nat
      /\ n = h + Len(types) - 1
      /\ \A k \in 1 .. Len(types) : token_stack[h + k - 1].type = types[k]
      /\ h > 1 => h - 1 \in 1 .. n
  BY <1>1, <1>2, HandleTypes
<1>4. StackOk(token_stack) /\ token_stack # <<>> /\ action = ">"
  BY DEF CompileInv, ParserInv, Handle, Reducing
<1>5. n = h /\ token_stack[h].type = "REGEX"
  <2>1. h + 1 - 1 = h /\ 1 \in 1 .. 1
    BY <1>3
  <2>2. token_stack[h + 1 - 1].type = "REGEX"
    BY <1>1, <1>3, <2>1
  <2> QED
    BY <1>1, <1>3, <2>1, <2>2
<1>6. /\ token_stack[1].type = "BEGIN"
      /\ \A k \in 2 .. n : token_stack[k].type # "BEGIN"
      /\ Len(tree_stack) = IF Ready THEN 1 ELSE Trees(token_stack, n)
  BY <1>3 DEF DepthInv
<1>7. h > 1
  BY <1>3, <1>5, <1>6
<1>8. token_stack[h - 1].type = "BEGIN"
  <2>1. Joint(h) = "<"
    BY <1>7 DEF ReduceTo, HandleFound
  <2>2. "REGEX" \in Yields(token_stack[h - 1].type)
    BY <1>5, <2>1, Types DEF Joint
  <2> QED
    BY <2>2, BesideWhat
<1>9. h = 2
  <2>1. h - 1 \notin 2 .. n
    BY <1>6, <1>8
  <2> QED
    BY <1>3, <1>7, <2>1
<1>10. rhs_token.type = "END"
  <2>1. Last(token_stack) = token_stack[n]
    BY DEF Last
  <2>2. rhs_token.type \in Takes("REGEX")
    BY <1>4, <1>5, <2>1, Types DEF action
  <2> QED
    BY <2>2, BesideWhat
<1>11. Len(tree_stack) = 1
  <2>1. ~ Ready
    BY <1>4, <1>5, <1>9 DEF Ready
  <2>2. Trees(token_stack, n) = Trees(token_stack, 2)
    BY <1>5, <1>9
  <2>3. Trees(token_stack, 1) = Trees(token_stack, 0)
    <3>1. token_stack[1].type \notin TreeTypes
      BY <1>6 DEF TreeTypes
    <3>2. 1 \in Nat \ {0} /\ 1 - 1 = 0
      OBVIOUS
    <3> QED
      BY <3>1, <3>2, TopPlain
  <2>4. Trees(token_stack, 2) = Trees(token_stack, 1) + 1
    <3>1. token_stack[2].type \in TreeTypes
      BY <1>5, <1>9 DEF TreeTypes
    <3>2. 2 \in Nat \ {0} /\ 2 - 1 = 1
      OBVIOUS
    <3> QED
      BY <3>1, <3>2, TopTree
  <2>5. Trees(token_stack, 0) = 0
    BY TreeCount
  <2> QED
    BY <1>6, <2>1, <2>2, <2>3, <2>4, <2>5
<1>12. /\ Len(new) = h - 1 /\ \A k \in 1 .. h - 1 : new[k] = token_stack[k]
  <2>1. Result(<<>>) /\ <<>> = <<>>
    BY DEF Result
  <2> QED
    BY <1>4, <2>1, ReduceKeeps
<1> HIDE DEF new, h, n
<1>13. Len(new) = 1 /\ new[1] = token_stack[1]
  <2>1. h - 1 = 1 /\ 1 \in 1 .. 1
    BY <1>9
  <2> QED
    BY <1>12, <2>1
<1>14. rhs_token' = rhs_token
  BY DEF ReduceTo, rhs_token, rule_tokens, ruleVars, rules
<1>15. Ready' /\ Len(tree_stack') = 1
  BY <1>10, <1>11, <1>13, <1>14 DEF Ready, new
<1>16. "BEGIN" \notin Duplicators
  BY DEF Duplicators
<1>17. /\ \A k : k \in 1 .. 1 <=> k = 1
       /\ 2 .. 1 = {}
  OBVIOUS
<1> QED
  BY <1>6, <1>13, <1>15, <1>16, <1>17 DEF DepthInv, new

(* The start of the rule: nothing is left but the tree. *)
LEMMA ReduceBegin ==
    ASSUME CompileInv, DepthInv, Handle(<<"BEGIN">>), ReduceTo(<<>>),
           UNCHANGED ruleVars, tree_stack' = tree_stack
    PROVE  DepthInv'
<1> DEFINE types == <<"BEGIN">>
           h == HandleStart
           n == Len(token_stack)
           new == token_stack'
<1>1. types \in Seq({"BEGIN"}) /\ Len(types) = 1 /\ types[1] = "BEGIN"
  OBVIOUS
<1>2. Handle(types)
  OBVIOUS
<1> HIDE DEF types
<1>3. /\ h \in 1 .. n /\ n \in Nat
      /\ n = h + Len(types) - 1
      /\ \A k \in 1 .. Len(types) : token_stack[h + k - 1].type = types[k]
  BY <1>1, <1>2, HandleTypes
<1>4. StackOk(token_stack) /\ token_stack # <<>> /\ action = ">"
  BY DEF CompileInv, ParserInv, Handle, Reducing
<1>5. n = h /\ token_stack[h].type = "BEGIN"
  <2>1. h + 1 - 1 = h /\ 1 \in 1 .. 1
    BY <1>3
  <2>2. token_stack[h + 1 - 1].type = "BEGIN"
    BY <1>1, <1>3, <2>1
  <2> QED
    BY <1>1, <1>3, <2>1, <2>2
<1>6. /\ \A k \in 2 .. n : token_stack[k].type # "BEGIN"
      /\ Len(tree_stack) = IF Ready THEN 1 ELSE Trees(token_stack, n)
  BY <1>3 DEF DepthInv
<1>7. h = 1
  <2>1. h \notin 2 .. n
    BY <1>5, <1>6
  <2> QED
    BY <1>3, <2>1
<1>8. rhs_token.type = "END"
  <2>1. Last(token_stack) = token_stack[n]
    BY DEF Last
  <2>2. rhs_token.type \in Takes("BEGIN")
    BY <1>4, <1>5, <2>1, Types DEF action
  <2> QED
    BY <2>2, BesideWhat
<1>9. Len(tree_stack) = 1
  <2>1. Ready
    BY <1>5, <1>7, <1>8 DEF Ready
  <2> QED
    BY <1>6, <2>1
<1>10. Len(new) = h - 1 /\ StackOk(new)
  <2>1. Result(<<>>) /\ <<>> = <<>>
    BY DEF Result
  <2> QED
    BY <1>4, <2>1, ReduceKeeps
<1>11. Len(new) = 0
  BY <1>7, <1>10
<1>12. new = <<>>
  BY <1>10, <1>11, StackTokens
<1>13. Ready' /\ Len(tree_stack') = 1
  BY <1>9, <1>12 DEF Ready, new
<1>14. 1 .. 0 = {} /\ 2 .. 0 = {} /\ ~ (0 >= 1)
  OBVIOUS
<1> QED
  BY <1>11, <1>13, <1>14 DEF DepthInv, new

-----------------------------------------------------------------------------
(* The trees of the rules.                                                 *)

(* The tree of a rule: the nodes behind lo and up to its root top; nothing *)
(* is over when it begins.                                                 *)
RuleTree(ns, lo, top, id, T) ==
    /\ lo \in Nat /\ top \in lo + 1 .. Len(ns)
    /\ \A n \in lo + 1 .. top : /\ Stands(ns[n], n, lo)
                                /\ Marked(ns[n], {id}, T)
                                /\ Linked(ns[n], lo, top)
    /\ ns[top].firstpos # <<>>
    /\ \A j \in DOMAIN ns[top].firstpos : ns[ns[top].firstpos[j]].kind # "END"

(* Later nodes and more tokens are no harm. *)
LEMMA RuleTreeGrows ==
    ASSUME NEW ns, NEW new, NEW lo \in Nat, Grows(ns, new, lo), Len(ns) \in Nat,
           Len(new) \in Nat, NEW l, NEW top, top <= lo, NEW id, NEW T, NEW U,
           T \subseteq U, RuleTree(ns, l, top, id, T)
    PROVE  RuleTree(new, l, top, id, U)
<1>1. /\ l \in Nat /\ top \in l + 1 .. Len(ns)
      /\ \A n \in l + 1 .. top : /\ Stands(ns[n], n, l)
                                 /\ Marked(ns[n], {id}, T)
                                 /\ Linked(ns[n], l, top)
      /\ ns[top].firstpos # <<>>
      /\ \A j \in DOMAIN ns[top].firstpos : ns[ns[top].firstpos[j]].kind # "END"
  BY DEF RuleTree
<1>2. Len(ns) <= Len(new) /\ \A n \in 1 .. lo : new[n] = ns[n]
  BY DEF Grows
<1>3. /\ top \in Nat /\ top \in l + 1 .. Len(new)
      /\ \A n \in l + 1 .. top : n \in 1 .. lo
      /\ top \in l + 1 .. top
  BY <1>1, <1>2
<1>4. \A n \in l + 1 .. top : new[n] = ns[n]
  BY <1>2, <1>3
<1>5. \A x : Marked(x, {id}, T) => Marked(x, {id}, U)
  BY DEF Marked
<1>6. ASSUME NEW j \in DOMAIN ns[top].firstpos
      PROVE  new[ns[top].firstpos[j]].kind # "END"
  <2>1. ns[top].firstpos \in Positions(l, top)
    BY <1>1, <1>3 DEF Linked
  <2>2. ns[top].firstpos[j] \in l + 1 .. top
    BY <1>1, <1>3, <2>1, EachPosition
  <2> QED
    BY <1>1, <1>4, <2>2
<1> QED
  BY <1>1, <1>3, <1>4, <1>5, <1>6 DEF RuleTree

(* The tokens of leaves: ids of sets and the three that are none. An end   *)
(* of a line makes the set of the newline known.                           *)
KnowsNewline == nl_id \in 0 .. Len(charsets) - 1 /\ charsets[nl_id + 1] = Single(10)

(* The tokens a leaf can have: the ids of the sets, and the marks of the   *)
(* ends of a line.                                                         *)
LeafTokens == {NULL, BOL_TOKEN} \cup (0 .. Len(charsets) - 1)
              \cup (IF KnowsNewline THEN {EOL_TOKEN} ELSE {})

(* The last node before the tree of the k-th rule. *)
Low(k) == IF k = 1 THEN 0 ELSE roots[k - 1]

(* The last node of them all. *)
Base == Low(Len(roots) + 1)

(* Every rule read has its tree behind those before it. *)
RulesOk == \A k \in 1 .. Len(roots) :
              /\ roots[k] <= Base
              /\ RuleTree(node_ptr, Low(k), roots[k], regexes[k].id, LeafTokens)

(* The trees on the stack are made of the nodes behind.                    *)
StackTrees == StOk(tree, Base, {}, LeafTokens)

(* What holds of the trees: those of the rules read, and those on the      *)
(* stack.                                                                  *)
TreeInv ==
    /\ roots \in Seq(Nat)
    /\ pc \in Reads =>
          roots = <<>> /\ node_ptr = <<>> /\ tree_stack = <<>> /\ rule = 1
    /\ pc \in Parses \cup {"trees"} =>
          /\ rule = Len(roots) + 1
          /\ regexes # <<>> /\ Len(roots) <= Len(regexes)
          /\ RulesOk
          /\ StackTrees
    /\ pc = "shift" => DepthInv
    /\ pc = "parse" => tree_stack = <<>>
    /\ pc = "trees" => Len(roots) = Len(regexes)

(* lookup keeps every set at its place. *)
LEMMA LookedWider ==
    ASSUME MapOk, NEW str
    PROVE  /\ Len(Looked(str)) \in Nat /\ Len(charsets) \in Nat
           /\ Len(charsets) <= Len(Looked(str))
           /\ \A k \in 1 .. Len(charsets) : Looked(str)[k] = charsets[k]
           /\ LookupId(str) \in 0 .. Len(Looked(str)) - 1
           /\ Looked(str)[LookupId(str) + 1] = str
<1> DEFINE new == Looked(str)
           n == Len(charsets)
<1>1. charsets \in Seq(Classes) /\ n \in Nat /\ DOMAIN charsets = 1 .. n
  BY DEF MapOk
<1>2. /\ Len(new) \in Nat /\ DOMAIN new = 1 .. Len(new) /\ n <= Len(new)
      /\ \A k \in 1 .. n : new[k] = charsets[k]
      /\ \E k \in DOMAIN new : new[k] = str
  <2>1. CASE Contains(charsets, str)
    <3>1. new = charsets
      BY <2>1 DEF Looked
    <3>2. \E k \in DOMAIN charsets : charsets[k] = str
      BY <1>1, <2>1 DEF Contains
    <3> QED
      BY <1>1, <3>1, <3>2
  <2>2. CASE ~ Contains(charsets, str)
    <3>1. new = Append(charsets, str)
      BY <2>2 DEF Looked
    <3>2. charsets \in Seq(Classes \cup {str})
      BY <1>1, SeqWider
    <3> HIDE DEF new, n
    <3>3. /\ new \in Seq(Classes \cup {str}) /\ Len(new) = n + 1 /\ new[n + 1] = str
          /\ \A k \in 1 .. n : new[k] = charsets[k]
      BY <3>1, <3>2 DEF n
    <3>4. DOMAIN new = 1 .. Len(new) /\ n + 1 \in 1 .. n + 1 /\ n <= n + 1
      BY <1>1, <3>3
    <3> QED
      BY <1>1, <3>3, <3>4
  <2> QED
    BY <2>1, <2>2
<1> DEFINE c == CHOOSE k \in DOMAIN new : new[k] = str
<1>3. c \in DOMAIN new /\ new[c] = str
  BY <1>2
<1>4. LookupId(str) = c - 1
  BY DEF LookupId
<1> HIDE DEF c, new, n
<1>5. c - 1 \in 0 .. Len(new) - 1 /\ (c - 1) + 1 = c
  BY <1>2, <1>3
<1> QED
  BY <1>1, <1>2, <1>3, <1>4, <1>5 DEF new, n

(* No token is lost, *)
LEMMA TokensGrow ==
    ASSUME MapOk, NEW str, charsets' = Looked(str),
           nl_id' = nl_id \/ (str = Single(10) /\ nl_id' = LookupId(str))
    PROVE  /\ LeafTokens \subseteq LeafTokens'
           /\ LookupId(str) \in LeafTokens'
           /\ str = Single(10) /\ nl_id' = LookupId(str) => EOL_TOKEN \in LeafTokens'
<1> DEFINE n == Len(charsets)
           m == Len(charsets')
           i == LookupId(str)
<1>1. /\ n \in Nat /\ m \in Nat /\ n <= m /\ i \in 0 .. m - 1
      /\ charsets'[i + 1] = str
      /\ \A k \in 1 .. n : charsets'[k] = charsets[k]
  BY LookedWider
<1>2. LeafTokens = {NULL, BOL_TOKEN} \cup (0 .. n - 1)
                   \cup (IF KnowsNewline THEN {EOL_TOKEN} ELSE {})
  BY DEF LeafTokens
<1>3. LeafTokens' = {NULL, BOL_TOKEN} \cup (0 .. m - 1)
                    \cup (IF KnowsNewline' THEN {EOL_TOKEN} ELSE {})
  BY DEF LeafTokens, NULL, BOL_TOKEN, EOL_TOKEN
<1>4. str = Single(10) /\ nl_id' = i => KnowsNewline'
  BY <1>1 DEF KnowsNewline
<1>5. ASSUME nl_id' = nl_id, KnowsNewline
      PROVE  KnowsNewline'
  <2>1. nl_id \in 0 .. n - 1 /\ charsets[nl_id + 1] = Single(10)
    BY <1>5 DEF KnowsNewline
  <2> HIDE DEF n, m
  <2>2. nl_id + 1 \in 1 .. n /\ nl_id \in 0 .. m - 1
    BY <1>1, <2>1
  <2>3. charsets'[nl_id + 1] = Single(10)
    BY <1>1, <2>1, <2>2
  <2>4. Single(10)' = Single(10)
    BY DEF Single
  <2> QED
    BY <1>5, <2>2, <2>3, <2>4 DEF KnowsNewline, m
<1> HIDE DEF n, m, i
<1>6. \A k \in 0 .. n - 1 : k \in 0 .. m - 1
  BY <1>1
<1>7. KnowsNewline => KnowsNewline'
  BY <1>4, <1>5 DEF i
<1>8. LeafTokens \subseteq LeafTokens'
  BY <1>2, <1>3, <1>6, <1>7
<1>9. i \in LeafTokens'
  BY <1>1, <1>3
<1>10. str = Single(10) /\ nl_id' = i => EOL_TOKEN \in LeafTokens'
  BY <1>3, <1>4
<1> QED
  BY <1>8, <1>9, <1>10 DEF i

(* and they are numbers. *)
LEMMA TokensTyped ==
    ASSUME MapOk
    PROVE  LeafTokens \subseteq Int /\ NULL \in LeafTokens /\ BOL_TOKEN \in LeafTokens
<1>1. NPOS \in Nat
  BY WordAssumption
<1>2. Len(charsets) \in Nat
  BY DEF MapOk
<1>3. 0 .. Len(charsets) - 1 \subseteq Int
  BY <1>2
<1> QED
  BY <1>1, <1>3 DEF LeafTokens, NULL, BOL_TOKEN, EOL_TOKEN

-----------------------------------------------------------------------------
(* The steps of the parser.                                                *)

(* No rule read, no tree. *)
LEMMA NoTrees ==
    ASSUME NEW T
    PROVE  Built(<<>>, 0, {}, T) /\ StOk([nodes |-> <<>>, stack |-> <<>>], 0, {}, T)
<1>1. Built(<<>>, 0, {}, T)
  BY DEF Built
<1>2. <<>> \in Positions(0, 0) /\ Len(<<>>) = 0
  BY NoPositions
<1> DEFINE st == [nodes |-> <<>>, stack |-> <<>>]
<1>3. st = [nodes |-> st.nodes, stack |-> st.stack] /\ st.nodes = <<>> /\ st.stack = <<>>
  OBVIOUS
<1> HIDE DEF st
<1>4. StOk(st, 0, {}, T)
  BY <1>1, <1>2, <1>3 DEF StOk
<1> QED
  BY <1>1, <1>4 DEF st

(* More tokens are no harm to the trees of the rules, nor to the stack.    *)
LEMMA StOkWider ==
    ASSUME NEW st, NEW lo, NEW I, NEW T, NEW U, T \subseteq U, StOk(st, lo, I, T)
    PROVE  StOk(st, lo, I, U)
BY BuiltWider DEF StOk

(* Where the trees of the rules end. *)
LEMMA LowTyped ==
    ASSUME roots \in Seq(Nat)
    PROVE  Len(roots) \in Nat /\ Base \in Nat
<1>1. Len(roots) \in Nat
  OBVIOUS
<1>2. CASE Len(roots) + 1 = 1
  BY <1>2 DEF Low, Base
<1>3. CASE Len(roots) + 1 # 1
  <2>1. Len(roots) \in 1 .. Len(roots) /\ (Len(roots) + 1) - 1 = Len(roots)
    BY <1>1, <1>3
  <2>2. roots[Len(roots)] \in Nat
    BY <2>1
  <2> QED
    BY <1>1, <1>3, <2>1, <2>2 DEF Low, Base
<1> QED
  BY <1>1, <1>2, <1>3

(* A step within a rule: the nodes grow, the trees of the other rules stay. *)
LEMMA TreesGrow ==
    ASSUME TreeInv, pc = "shift", pc' = "shift", UNCHANGED <<rule, roots, regexes>>,
           NEW b, SetTree(b), LeafTokens \subseteq LeafTokens', NEW n,
           Becomes(tree, b, n, Base, {}, LeafTokens'), DepthInv'
    PROVE  TreeInv'
<1> DEFINE lo == Base
           T == LeafTokens
           U == LeafTokens'
<1>1. /\ roots \in Seq(Nat) /\ rule = Len(roots) + 1
      /\ regexes # <<>> /\ Len(roots) <= Len(regexes)
      /\ RulesOk /\ StOk(tree, lo, {}, T)
  BY DEF TreeInv, Parses, StackTrees
<1>2. lo \in Nat /\ lo' = lo /\ \A k : Low(k)' = Low(k)
  BY <1>1, LowTyped DEF Low, Base
<1>3. /\ tree.nodes = node_ptr /\ tree'.nodes = node_ptr'
      /\ tree' = [nodes |-> b.nodes, stack |-> b.stack]
  BY DEF tree, SetTree
<1>4. Grows(node_ptr, node_ptr', lo) /\ StOk(b, lo, {}, U) /\ node_ptr' = b.nodes
  BY <1>3 DEF Becomes, SetTree
<1>5. Len(node_ptr) \in Nat /\ Len(node_ptr') \in Nat
  <2>1. Len(b.nodes) \in Nat
    BY <1>4 DEF StOk, Built
  <2>2. Len(tree.nodes) \in Nat
    BY <1>1 DEF StOk, Built
  <2> QED
    BY <1>3, <1>4, <2>1, <2>2
<1>6. StOk(tree', lo, {}, U)
  <2>1. b = [nodes |-> b.nodes, stack |-> b.stack]
    BY <1>4 DEF StOk
  <2> QED
    BY <1>3, <1>4, <2>1
<1>7. ASSUME NEW k \in 1 .. Len(roots)
      PROVE  /\ roots[k] <= lo
             /\ RuleTree(node_ptr', Low(k), roots[k], regexes[k].id, U)
  <2>1. roots[k] <= lo /\ RuleTree(node_ptr, Low(k), roots[k], regexes[k].id, T)
    BY <1>1 DEF RulesOk
  <2> HIDE DEF lo, T, U
  <2>2. T \subseteq U
    BY DEF T, U
  <2> QED
    BY <1>2, <1>4, <1>5, <2>1, <2>2, RuleTreeGrows
<1>8. RulesOk'
  BY <1>2, <1>7 DEF RulesOk
<1>10. StackTrees'
  BY <1>2, <1>6 DEF StackTrees
<1>9. "shift" \in Parses /\ "shift" \notin Reads /\ "shift" # "parse" /\ "shift" # "trees"
  BY DEF Parses, Reads
<1> QED
  BY <1>1, <1>8, <1>9, <1>10 DEF TreeInv

(* The same tokens and no new node. *)
LEMMA TreesStay ==
    ASSUME TreeInv, pc = "shift", pc' = "shift", UNCHANGED <<rule, roots, regexes, treeVars>>,
           DepthInv'
    PROVE  TreeInv'
<1>1. UNCHANGED <<node_ptr, tree_stack, charsets, nl_id>>
  BY DEF treeVars
<1>2. LeafTokens' = LeafTokens
  BY <1>1 DEF LeafTokens, KnowsNewline, NULL, BOL_TOKEN, EOL_TOKEN
<1>3. SetTree(tree)
  BY <1>1 DEF SetTree, tree
<1>4. StOk(tree, Base, {}, LeafTokens)
  BY DEF TreeInv, Parses, StackTrees
<1> DEFINE lo == Base
           T == LeafTokens
<1>5. StOk(tree, lo, {}, T)
  BY <1>4
<1> HIDE DEF lo, T
<1>6. Becomes(tree, tree, Len(tree.stack), lo, {}, T)
  BY <1>5, Staying
<1> QED
  BY <1>2, <1>3, <1>6, TreesGrow DEF lo, T

(* The tree while a rule is parsed. *)
LEMMA TreeParsed ==
    ASSUME CompileInv, TreeInv, pc = "shift"
    PROVE  /\ StOk(tree, Base, {}, LeafTokens)
           /\ tree.nodes = node_ptr /\ tree.stack = tree_stack
           /\ NPOS \in Nat /\ LeafTokens \subseteq Int
           /\ NULL \in LeafTokens /\ BOL_TOKEN \in LeafTokens
           /\ MapOk /\ DepthInv
<1>1. MapOk
  BY DEF CompileInv, ParserInv
<1> QED
  BY <1>1, TokensTyped, WordAssumption DEF TreeInv, Parses, StackTrees, tree

(* The tokens of the leaves while the map stays. *)
LEMMA TokensStay ==
    ASSUME UNCHANGED <<charsets, nl_id>>
    PROVE  LeafTokens' = LeafTokens
BY DEF LeafTokens, KnowsNewline, NULL, BOL_TOKEN, EOL_TOKEN

(* What a reduction leaves as it is. *)
LEMMA ReductionFrame ==
    ASSUME NEW types, Handle(types), NEW out, ReduceTo(out), UNCHANGED ruleVars
    PROVE  pc = "shift" /\ pc' = "shift" /\ UNCHANGED <<rule, roots, regexes>>
BY DEF Handle, Reducing, ReduceTo, ruleVars, rules

(* A shift, *)
LEMMA ShiftTrees ==
    ASSUME CompileInv, TreeInv, Shift, UNCHANGED ruleVars
    PROVE  TreeInv'
<1>1. /\ pc = "shift" /\ pc' = "shift" /\ UNCHANGED <<rule, roots, regexes, treeVars>>
  BY DEF Shift, ruleVars, rules
<1>2. DepthInv
  BY <1>1 DEF TreeInv
<1>3. DepthInv'
  BY <1>2, ShiftDepth
<1> QED
  BY <1>1, <1>3, TreesStay

(* the productions that leave the tree as it is, *)
LEMMA RenameTrees ==
    ASSUME CompileInv, TreeInv, Rename, UNCHANGED ruleVars
    PROVE  TreeInv'
<1>1. PICK p \in Renamed : Handle(p[1]) /\ ReduceTo(p[2])
  BY DEF Rename
<1>2. UNCHANGED treeVars /\ tree_stack' = tree_stack
  BY DEF Rename, SameTree, treeVars
<1>3. pc = "shift" /\ pc' = "shift" /\ UNCHANGED <<rule, roots, regexes>>
  BY <1>1, ReductionFrame
<1>4. DepthInv
  BY <1>3 DEF TreeInv
<1>5. /\ TreeTypes \subseteq Reduced
      /\ "DUP" \notin TreeTypes /\ "OPENPAREN" \notin TreeTypes /\ "CLOSEPAREN" \notin TreeTypes
      /\ "BEGIN" \notin TreeTypes
  BY DEF TreeTypes, Reduced
<1>6. ASSUME NEW old \in TreeTypes, NEW type \in TreeTypes, Handle(<<old>>), ReduceTo(<<type>>)
      PROVE  DepthInv'
  BY <1>2, <1>4, <1>5, <1>6, ReduceOne
<1>7. ASSUME Handle(<<"REPEAT", "DUP">>), ReduceTo(<<"REPEAT">>)
      PROVE  DepthInv'
  <2>1. "REPEAT" \in TreeTypes /\ "REPEAT" # "BEGIN" /\ "REPEAT" \in Reduced
    BY DEF TreeTypes, Reduced
  <2>2. \A a, b, type : a = "REPEAT" /\ b = "DUP" /\ type = "REPEAT" => DepthInv'
    <3> SUFFICES ASSUME NEW a, NEW b, NEW type, a = "REPEAT", b = "DUP", type = "REPEAT"
                 PROVE  DepthInv'
      OBVIOUS
    <3>1. Handle(<<a, b>>) /\ ReduceTo(<<type>>)
      BY <1>7
    <3> QED
      BY <1>2, <1>4, <1>5, <2>1, <3>1, ReduceTwo
  <2> QED
    BY <2>2
<1>8. ASSUME Handle(<<"OPENPAREN", "REGEX", "CLOSEPAREN">>), ReduceTo(<<"REPEAT">>)
      PROVE  DepthInv'
  <2>1. "REPEAT" \in TreeTypes /\ "REPEAT" \in Reduced /\ "REGEX" \in TreeTypes
        /\ "OPENPAREN" # "BEGIN"
    BY DEF TreeTypes, Reduced
  <2>2. \A a, b, c, type : a = "OPENPAREN" /\ b = "REGEX" /\ c = "CLOSEPAREN" /\ type = "REPEAT"
                              => DepthInv'
    <3> SUFFICES ASSUME NEW a, NEW b, NEW c, NEW type, a = "OPENPAREN", b = "REGEX",
                        c = "CLOSEPAREN", type = "REPEAT"
                 PROVE  DepthInv'
      OBVIOUS
    <3>1. Handle(<<a, b, c>>) /\ ReduceTo(<<type>>)
      BY <1>8
    <3> QED
      BY <1>2, <1>4, <1>5, <2>1, <3>1, ReduceThree
  <2> QED
    BY <2>2
<1>9. DepthInv'
  <2>1. \/ p = << <<"BEGIN">>, <<>> >> \/ p = << <<"REGEX">>, <<>> >>
        \/ p = << <<"REPEAT", "DUP">>, <<"REPEAT">> >>
        \/ p = << <<"OPENPAREN", "REGEX", "CLOSEPAREN">>, <<"REPEAT">> >>
        \/ \E old, type \in TreeTypes : p = << <<old>>, <<type>> >>
    BY DEF Renamed, TreeTypes
  <2>2. CASE p = << <<"BEGIN">>, <<>> >>
    <3>1. Handle(<<"BEGIN">>) /\ ReduceTo(<<>>)
      BY <1>1, <2>2
    <3> QED
      BY <1>2, <1>4, <3>1, ReduceBegin
  <2>3. CASE p = << <<"REGEX">>, <<>> >>
    <3>1. Handle(<<"REGEX">>) /\ ReduceTo(<<>>)
      BY <1>1, <2>3
    <3> QED
      BY <1>2, <1>4, <3>1, ReduceRegex
  <2>4. CASE p = << <<"REPEAT", "DUP">>, <<"REPEAT">> >>
    <3>1. Handle(<<"REPEAT", "DUP">>) /\ ReduceTo(<<"REPEAT">>)
      BY <1>1, <2>4
    <3> QED
      BY <1>7, <3>1
  <2>5. CASE p = << <<"OPENPAREN", "REGEX", "CLOSEPAREN">>, <<"REPEAT">> >>
    <3>1. Handle(<<"OPENPAREN", "REGEX", "CLOSEPAREN">>) /\ ReduceTo(<<"REPEAT">>)
      BY <1>1, <2>5
    <3> QED
      BY <1>8, <3>1
  <2>6. CASE \E old, type \in TreeTypes : p = << <<old>>, <<type>> >>
    <3>1. PICK old \in TreeTypes, type \in TreeTypes : p = << <<old>>, <<type>> >>
      BY <2>6
    <3>2. p[1] = <<old>> /\ p[2] = <<type>>
      BY <3>1
    <3>3. Handle(<<old>>) /\ ReduceTo(<<type>>)
      BY <1>1, <3>2
    <3> QED
      BY <1>6, <3>3
  <2> QED
    BY <2>1, <2>2, <2>3, <2>4, <2>5, <2>6
<1> QED
  BY <1>2, <1>3, <1>9, TreesStay

(* a choice and a sequence, *)
LEMMA JoinTreesOk ==
    ASSUME CompileInv, TreeInv, ReduceOr \/ ReduceSequence, UNCHANGED ruleVars
    PROVE  TreeInv'
<1> DEFINE lo == Base
           T == LeafTokens
<1>1. /\ "OREXP" \in TreeTypes /\ "SEQUENCE" \in TreeTypes /\ "OR" \notin TreeTypes
      /\ "SUB" \in TreeTypes /\ "EXPRESSION" \in TreeTypes /\ "OREXP" # "BEGIN"
      /\ "SUB" # "BEGIN" /\ "OREXP" \in Reduced /\ "SUB" \in Reduced
  BY DEF TreeTypes, Reduced
<1>2. CASE ReduceOr
  <2>1. /\ Handle(<<"OREXP", "OR", "SEQUENCE">>) /\ ReduceTo(<<"OREXP">>)
        /\ SetTree(PerformOr(tree)) /\ UNCHANGED <<charsets, nl_id>>
    BY <1>2 DEF ReduceOr
  <2>2. pc = "shift" /\ pc' = "shift" /\ UNCHANGED <<rule, roots, regexes>>
    BY <2>1, ReductionFrame
  <2>3. /\ StOk(tree, lo, {}, T) /\ tree.stack = tree_stack /\ NPOS \in Nat
        /\ T \subseteq Int /\ DepthInv /\ T' = T
    BY <2>1, <2>2, TreeParsed, TokensStay
  <2> HIDE DEF lo, T
  <2>4. /\ Len(tree_stack) >= 2
        /\ Len(tree_stack') = Len(tree_stack) - 1 => DepthInv'
    <3>1. \A a, b, c, type : a = "OREXP" /\ b = "OR" /\ c = "SEQUENCE" /\ type = "OREXP"
             => /\ Len(tree_stack) >= 2
                /\ Len(tree_stack') = Len(tree_stack) - 1 => DepthInv'
      <4> SUFFICES ASSUME NEW a, NEW b, NEW c, NEW type, a = "OREXP", b = "OR",
                          c = "SEQUENCE", type = "OREXP"
                   PROVE  /\ Len(tree_stack) >= 2
                          /\ Len(tree_stack') = Len(tree_stack) - 1 => DepthInv'
        OBVIOUS
      <4>1. Handle(<<a, b, c>>) /\ ReduceTo(<<type>>)
        BY <2>1
      <4> QED
        BY <1>1, <2>3, <4>1, ReduceThree
    <3> QED
      BY <3>1
  <2> DEFINE b == PerformOr(tree)
  <2>5. Len(tree.stack) >= 2
    BY <2>3, <2>4
  <2>6. Becomes(tree, b, Len(tree.stack) - 1, lo, {}, T)
    BY <2>3, <2>5, PerformOrOk
  <2>7. SetTree(b)
    BY <2>1
  <2> HIDE DEF b
  <2>8. Len(tree_stack') = Len(tree_stack) - 1
    BY <2>3, <2>6, <2>7 DEF Becomes, SetTree
  <2>9. T \subseteq T' /\ DepthInv'
    BY <2>3, <2>4, <2>8
  <2> QED
    BY <2>2, <2>3, <2>6, <2>7, <2>9, TreesGrow DEF lo, T
<1>3. CASE ReduceSequence
  <2>1. /\ Handle(<<"SUB", "EXPRESSION">>) /\ ReduceTo(<<"SUB">>)
        /\ SetTree(Sequence(tree)) /\ UNCHANGED <<charsets, nl_id>>
    BY <1>3 DEF ReduceSequence
  <2>2. pc = "shift" /\ pc' = "shift" /\ UNCHANGED <<rule, roots, regexes>>
    BY <2>1, ReductionFrame
  <2>3. /\ StOk(tree, lo, {}, T) /\ tree.stack = tree_stack /\ NPOS \in Nat
        /\ T \subseteq Int /\ DepthInv /\ T' = T
    BY <2>1, <2>2, TreeParsed, TokensStay
  <2> HIDE DEF lo, T
  <2>4. /\ Len(tree_stack) >= 2
        /\ Len(tree_stack') = Len(tree_stack) - 1 => DepthInv'
    <3>1. \A a, b, type : a = "SUB" /\ b = "EXPRESSION" /\ type = "SUB"
             => /\ Len(tree_stack) >= 2
                /\ Len(tree_stack') = Len(tree_stack) - 1 => DepthInv'
      <4> SUFFICES ASSUME NEW a, NEW b, NEW type, a = "SUB", b = "EXPRESSION",
                          type = "SUB"
                   PROVE  /\ Len(tree_stack) >= 2
                          /\ Len(tree_stack') = Len(tree_stack) - 1 => DepthInv'
        OBVIOUS
      <4>1. Handle(<<a, b>>) /\ ReduceTo(<<type>>)
        BY <2>1
      <4> QED
        BY <1>1, <2>3, <4>1, ReduceTwo
    <3> QED
      BY <3>1
  <2> DEFINE b == Sequence(tree)
  <2>5. Len(tree.stack) >= 2
    BY <2>3, <2>4
  <2>6. Becomes(tree, b, Len(tree.stack) - 1, lo, {}, T)
    BY <2>3, <2>5, SequenceOk
  <2>7. SetTree(b)
    BY <2>1
  <2> HIDE DEF b
  <2>8. Len(tree_stack') = Len(tree_stack) - 1
    BY <2>3, <2>6, <2>7 DEF Becomes, SetTree
  <2>9. T \subseteq T' /\ DepthInv'
    BY <2>3, <2>4, <2>8
  <2> QED
    BY <2>2, <2>3, <2>6, <2>7, <2>9, TreesGrow DEF lo, T
<1> QED
  BY <1>2, <1>3

(* The tokens of leaves are numbers, in the next state, too. *)
TokensOk == LeafTokens \subseteq Int

(* The tokens of the leaves are numbers, *)
LEMMA TokensNumbers == MapOk => TokensOk
BY TokensTyped DEF TokensOk

(* also after a step. *)
LEMMA TokensNumbersNext == MapOk' => TokensOk'
BY TokensNumbers, PTL

(* a leaf, *)
LEMMA PushLeafTrees ==
    ASSUME CompileInv, TreeInv, UNCHANGED ruleVars,
           NEW type \in {"CHARSET", "BOL", "EOL"}, Handle(<<type>>), ReduceTo(<<"REPEAT">>),
           NEW token, SetTree(PushLeaf(tree, token)), token \in LeafTokens',
           LeafTokens \subseteq LeafTokens', MapOk'
    PROVE  TreeInv'
<1> DEFINE lo == Base
           T == LeafTokens
           U == LeafTokens'
<1>1. type \notin TreeTypes /\ type # "BEGIN" /\ "REPEAT" \in TreeTypes /\ "REPEAT" \in Reduced
  BY DEF TreeTypes, Reduced
<1>2. pc = "shift" /\ pc' = "shift" /\ UNCHANGED <<rule, roots, regexes>>
  BY ReductionFrame
<1>3. /\ StOk(tree, lo, {}, T) /\ tree.stack = tree_stack /\ NPOS \in Nat /\ DepthInv
  BY <1>2, TreeParsed
<1>4. U \subseteq Int
  BY TokensNumbersNext DEF TokensOk
<1> DEFINE b == PushLeaf(tree, token)
<1>5. SetTree(b) /\ T \subseteq U /\ token \in U
  OBVIOUS
<1> HIDE DEF lo, T, U
<1>6. StOk(tree, lo, {}, U)
  BY <1>3, <1>5, StOkWider
<1>7. Becomes(tree, b, Len(tree.stack) + 1, lo, {}, U)
  BY <1>3, <1>4, <1>5, <1>6, LeafOk DEF PushLeaf
<1> HIDE DEF b
<1>8. Len(tree_stack') = Len(tree_stack) + 1
  BY <1>3, <1>5, <1>7 DEF Becomes, SetTree
<1>9. DepthInv'
  BY <1>1, <1>3, <1>8, ReduceOne
<1> QED
  BY <1>2, <1>5, <1>7, <1>9, TreesGrow DEF lo, T, U

(* any of the three leaves, *)
LEMMA LeafTrees ==
    ASSUME CompileInv, TreeInv, UNCHANGED ruleVars, CompileInv',
           ReduceCharset \/ ReduceBol \/ ReduceEol
    PROVE  TreeInv'
<1>1. MapOk /\ MapOk'
  BY DEF CompileInv, ParserInv
<1>2. CASE ReduceCharset
  <2> DEFINE str == handle_token.str
  <2>1. /\ Handle(<<"CHARSET">>) /\ ReduceTo(<<"REPEAT">>) /\ charsets' = Looked(str)
        /\ SetTree(PushLeaf(tree, LookupId(str))) /\ nl_id' = nl_id
    BY <1>2 DEF ReduceCharset
  <2> HIDE DEF str
  <2>2. LeafTokens \subseteq LeafTokens' /\ LookupId(str) \in LeafTokens'
    BY <1>1, <2>1, TokensGrow
  <2> DEFINE token == LookupId(str)
             type == "CHARSET"
  <2>3. /\ type \in {"CHARSET", "BOL", "EOL"} /\ Handle(<<type>>)
        /\ SetTree(PushLeaf(tree, token)) /\ token \in LeafTokens'
    BY <2>1, <2>2
  <2> HIDE DEF token, type
  <2> QED
    BY <1>1, <2>1, <2>2, <2>3, PushLeafTrees
<1>3. CASE ReduceBol
  <2>1. /\ Handle(<<"BOL">>) /\ ReduceTo(<<"REPEAT">>) /\ charsets' = charsets
        /\ SetTree(PushLeaf(tree, BOL_TOKEN)) /\ nl_id' = nl_id
    BY <1>3 DEF ReduceBol
  <2>2. LeafTokens' = LeafTokens /\ BOL_TOKEN \in LeafTokens
    BY <1>1, <2>1, TokensStay, TokensTyped
  <2> DEFINE token == BOL_TOKEN
             type == "BOL"
  <2>3. /\ type \in {"CHARSET", "BOL", "EOL"} /\ Handle(<<type>>)
        /\ SetTree(PushLeaf(tree, token)) /\ token \in LeafTokens'
        /\ LeafTokens \subseteq LeafTokens'
    BY <2>1, <2>2
  <2> HIDE DEF token, type
  <2> QED
    BY <1>1, <2>1, <2>3, PushLeafTrees
<1>4. CASE ReduceEol
  <2> DEFINE str == Single(10)
  <2>1. /\ Handle(<<"EOL">>) /\ ReduceTo(<<"REPEAT">>) /\ charsets' = Looked(str)
        /\ SetTree(PushLeaf(tree, EOL_TOKEN)) /\ nl_id' = LookupId(str)
    BY <1>4 DEF ReduceEol
  <2>a. str = Single(10)
    OBVIOUS
  <2> HIDE DEF str
  <2>2. LeafTokens \subseteq LeafTokens' /\ EOL_TOKEN \in LeafTokens'
    BY <1>1, <2>1, <2>a, TokensGrow
  <2> DEFINE token == EOL_TOKEN
             type == "EOL"
  <2>3. /\ type \in {"CHARSET", "BOL", "EOL"} /\ Handle(<<type>>)
        /\ SetTree(PushLeaf(tree, token)) /\ token \in LeafTokens'
    BY <2>1, <2>2
  <2> HIDE DEF token, type
  <2> QED
    BY <1>1, <2>1, <2>2, <2>3, PushLeafTrees
<1> QED
  BY <1>2, <1>3, <1>4

(* The token of a handle that is one token. *)
LEMMA HandledToken ==
    ASSUME CompileInv, NEW type, type \notin Reduced, Handle(<<type>>)
    PROVE  handle_token.type = type /\ TokenOk(handle_token)
<1> DEFINE types == <<type>>
           h == HandleStart
<1>1. types \in Seq({type}) /\ Len(types) = 1 /\ types[1] = type /\ Handle(types)
  OBVIOUS
<1> HIDE DEF types
<1>2. /\ h \in 1 .. Len(token_stack) /\ Len(token_stack) \in Nat
      /\ \A k \in 1 .. Len(types) : token_stack[h + k - 1].type = types[k]
  BY <1>1, HandleTypes
<1>3. token_stack[h].type = type
  <2>1. 1 \in 1 .. Len(types) /\ h + 1 - 1 = h
    BY <1>1, <1>2
  <2>2. token_stack[h + 1 - 1].type = types[1]
    BY <1>2, <2>1
  <2> QED
    BY <1>1, <2>1, <2>2
<1>4. handle_token = token_stack[h]
  BY DEF handle_token
<1>5. StackToken(handle_token)
  BY <1>2, <1>4, StackTokens DEF CompileInv, ParserInv
<1>6. \A r \in Reduced : Token(r).type \in Reduced
  BY PlainToken
<1> QED
  BY <1>3, <1>4, <1>5, <1>6 DEF StackToken

(* and a repeat. *)
LEMMA DuplicatorTrees ==
    ASSUME CompileInv, TreeInv, ReduceDuplicator, UNCHANGED ruleVars
    PROVE  TreeInv'
<1> DEFINE lo == Base
           T == LeafTokens
           tok == handle_token
<1>1. PICK type \in Duplicators : Handle(<<type>>)
  BY DEF ReduceDuplicator
<1>2. ReduceTo(<<"DUP">>) /\ SetTree(Duplicate(tree, tok)) /\ UNCHANGED <<charsets, nl_id>>
  BY DEF ReduceDuplicator
<1>3. pc = "shift" /\ pc' = "shift" /\ UNCHANGED <<rule, roots, regexes>>
  BY <1>1, <1>2, ReductionFrame
<1>4. type \notin TreeTypes /\ type \notin Reduced /\ type # "BEGIN"
      /\ "DUP" \in Reduced /\ "DUP" \notin TreeTypes
  BY DEF Duplicators, TreeTypes, Reduced
<1>5. tok.type \in Duplicators /\ TokenOk(tok)
  BY <1>1, <1>4, HandledToken
<1>6. /\ StOk(tree, lo, {}, T) /\ tree.stack = tree_stack /\ NPOS \in Nat
      /\ T \subseteq Int /\ NULL \in T /\ DepthInv /\ T' = T
  BY <1>2, <1>3, TreeParsed, TokensStay
<1> HIDE DEF lo, T, tok
<1>7. /\ Len(tree_stack) >= 1 /\ Len(tree_stack) \in Nat
      /\ Len(tree_stack') = Len(tree_stack) => DepthInv'
  BY <1>1, <1>2, <1>4, <1>6, ReduceOne
<1> DEFINE b == Duplicate(tree, tok)
<1>8. Len(tree.stack) >= 1
  BY <1>6, <1>7
<1>9. Becomes(tree, b, Len(tree.stack), lo, {}, T)
  BY <1>5, <1>6, <1>8, DuplicateOk
<1>10. SetTree(b)
  BY <1>2
<1> HIDE DEF b
<1>11. Len(tree_stack') = Len(tree_stack)
  BY <1>6, <1>9, <1>10 DEF Becomes, SetTree
<1>12. T \subseteq T' /\ DepthInv'
  BY <1>6, <1>7, <1>11
<1> QED
  BY <1>3, <1>6, <1>9, <1>10, <1>12, TreesGrow DEF lo, T

(* The start of a rule, *)
LEMMA BeginRuleTrees ==
    ASSUME CompileInv, TreeInv, BeginRule, UNCHANGED ruleVars
    PROVE  TreeInv'
<1>1. /\ pc = "parse" /\ pc' = "shift" /\ UNCHANGED <<rule, roots, regexes, treeVars>>
  BY DEF BeginRule, ruleVars, rules
<1>2. UNCHANGED <<node_ptr, tree_stack, charsets, nl_id>>
  BY <1>1 DEF treeVars
<1>3. /\ LeafTokens' = LeafTokens /\ tree' = tree /\ Base' = Base
      /\ \A k : Low(k)' = Low(k)
  BY <1>1, <1>2, TokensStay DEF tree, Low, Base
<1>4. /\ roots \in Seq(Nat) /\ rule = Len(roots) + 1 /\ tree_stack = <<>>
      /\ regexes # <<>> /\ Len(roots) <= Len(regexes)
      /\ RulesOk /\ StackTrees
  BY <1>1 DEF TreeInv, Parses
<1>5. DepthInv'
  BY <1>4, BeginRuleDepth
<1>6. RulesOk'
  BY <1>1, <1>2, <1>3, <1>4 DEF RulesOk
<1>7. StackTrees'
  BY <1>3, <1>4 DEF StackTrees
<1>8. pc' \notin Reads /\ pc' # "parse" /\ pc' # "trees"
  BY <1>1 DEF Reads
<1> QED
  BY <1>1, <1>4, <1>5, <1>6, <1>7, <1>8 DEF TreeInv

(* A tree that is done is one of a rule. *)
LEMMA RootedTree ==
    ASSUME NEW ns, NEW lo, NEW id, NEW T, RootOk(ns, lo, {id}, T), ~ MatchesNothing(ns)
    PROVE  /\ RuleTree(ns, lo, Len(ns), id, T)
           /\ Len(ns) \in Nat /\ lo \in Nat /\ lo < Len(ns)
           /\ StOk([nodes |-> ns, stack |-> <<>>], Len(ns), {}, T)
<1> DEFINE m == Len(ns)
<1>1. /\ Built(ns, lo, {id}, T) /\ m \in lo + 1 .. m /\ m \in Nat /\ lo \in Nat
      /\ ns \in Seq(Node)
  BY BuiltNodes DEF RootOk
<1>2. ns[m].firstpos # <<>>
  BY RootFirst
<1>3. Last(ns) = ns[m]
  BY DEF Last
<1>4. \A j \in DOMAIN ns[m].firstpos : ns[ns[m].firstpos[j]].kind # "END"
  BY <1>3 DEF MatchesNothing
<1>5. \A n \in lo + 1 .. m : /\ Stands(ns[n], n, lo) /\ Marked(ns[n], {id}, T)
                             /\ Linked(ns[n], lo, m)
  BY <1>1 DEF Built
<1>6. \A n \in 1 .. m : ns[n].left < n /\ ns[n].right < n
  BY <1>1 DEF Built
<1> HIDE DEF m
<1>7. RuleTree(ns, lo, m, id, T)
  BY <1>1, <1>2, <1>4, <1>5 DEF RuleTree, m
<1>8. m + 1 .. m = {} /\ m <= m
  BY <1>1
<1>9. Built(ns, m, {}, T)
  BY <1>1, <1>6, <1>8 DEF Built, m
<1> DEFINE st == [nodes |-> ns, stack |-> <<>>]
<1>10. st = [nodes |-> st.nodes, stack |-> st.stack] /\ st.nodes = ns /\ st.stack = <<>>
  OBVIOUS
<1> HIDE DEF st
<1>11. StOk(st, m, {}, T)
  BY <1>9, <1>10, NoPositions DEF StOk
<1>12. lo < m
  BY <1>1
<1> QED
  BY <1>1, <1>7, <1>11, <1>12 DEF m, st

(* the end of a rule, *)
LEMMA EndRuleTrees ==
    ASSUME CompileInv, TreeInv, EndRule, UNCHANGED ruleVars
    PROVE  TreeInv'
<1> DEFINE n == Len(roots)
           lo == Base
           T == LeafTokens
           id == regexes[rule].id
           ns == Rooted
<1>1. /\ pc = "shift" /\ token_stack = <<>> /\ node_ptr' = ns
      /\ IF MatchesNothing(ns) THEN pc' = "error" /\ UNCHANGED roots
         ELSE pc' = "parse" /\ roots' = Append(roots, Len(ns))
      /\ tree_stack' = <<>> /\ rule' = rule + 1
      /\ UNCHANGED <<charsets, nl_id>>
  BY DEF EndRule
<1>2. regexes' = regexes
  BY DEF ruleVars, rules
<1>3. /\ roots \in Seq(Nat) /\ rule = n + 1
      /\ regexes # <<>> /\ n <= Len(regexes) /\ RulesOk
  BY <1>1 DEF TreeInv, Parses
<1>4. CASE MatchesNothing(ns)
  <2>1. pc' = "error" /\ roots' = roots
    BY <1>1, <1>4
  <2>2. pc' \notin Reads /\ pc' \notin Parses \cup {"trees"} /\ pc' # "shift" /\ pc' # "parse"
    BY <2>1 DEF Reads, Parses
  <2> QED
    BY <1>3, <2>1, <2>2 DEF TreeInv
<1>5. CASE ~ MatchesNothing(ns)
  <2>1. pc' = "parse" /\ roots' = Append(roots, Len(ns))
    BY <1>1, <1>5
  <2>2. /\ StOk(tree, lo, {}, T) /\ NPOS \in Nat /\ NULL \in T /\ BOL_TOKEN \in T
        /\ DepthInv
    BY <1>1, TreeParsed
  <2>3. Len(tree_stack) = 1
    BY <1>1, <2>2 DEF DepthInv, Ready
  <2>4. rule \in 1 .. Len(regexes) /\ id \in Nat /\ Len(regexes) \in Nat
    <3>1. rule \in 1 .. Len(regexes) /\ RegexesOk
      BY <1>1 DEF CompileInv, ParserInv, RulesInv
    <3>2. Len(regexes) \in Nat
      BY <3>1 DEF RegexesOk
    <3> QED
      BY <3>1, <3>2, StoredRule
  <2>5. RootOk(ns, lo, {id}, T) /\ Grows(node_ptr, ns, lo)
    <3> HIDE DEF lo, T, ns
    <3>1. RootOk(Rooted, lo, {regexes[rule].id}, T) /\ Grows(node_ptr, Rooted, lo)
      BY <2>2, <2>3, <2>4, RootedOk
    <3> QED
      BY <3>1 DEF ns
  <2> DEFINE m == Len(ns)
  <2>6. /\ RuleTree(ns, lo, m, id, T) /\ m \in Nat /\ lo \in Nat /\ lo < m
        /\ StOk([nodes |-> ns, stack |-> <<>>], m, {}, T)
    <3> HIDE DEF lo, T, ns, id
    <3> QED
      BY <1>5, <2>5, RootedTree
  <2>7. n \in Nat /\ Len(node_ptr) \in Nat
    <3>1. tree.nodes = node_ptr
      BY DEF tree
    <3> QED
      BY <1>3, <2>2, <3>1 DEF StOk, Built
  <2>8. T' = T
    BY <1>1, TokensStay
  <2>9. /\ roots' \in Seq(Nat) /\ Len(roots') = n + 1 /\ roots'[n + 1] = m
        /\ \A k \in 1 .. n : roots'[k] = roots[k]
    <3> HIDE DEF ns
    <3> QED
      BY <1>3, <2>1, <2>6, <2>7
  <2>10. /\ Base' = m
         /\ \A k \in 1 .. n + 1 : Low(k)' = Low(k)
    <3> HIDE DEF m
    <3>1. \A k \in 1 .. n + 1 : k = 1 \/ k - 1 \in 1 .. n
      BY <2>7
    <3>2. n + 2 # 1 /\ (n + 2) - 1 = n + 1 /\ (n + 1) + 1 = n + 2
      BY <2>7
    <3> HIDE DEF n
    <3>3. Base' = m
      BY <2>9, <3>2 DEF Low, Base
    <3>4. ASSUME NEW k \in 1 .. n + 1
          PROVE  Low(k)' = Low(k)
      BY <2>9, <3>1 DEF Low
    <3> QED
      BY <3>3, <3>4
  <2>11. ASSUME NEW k \in 1 .. n + 1
         PROVE  /\ roots'[k] <= m
                /\ RuleTree(node_ptr', Low(k)', roots'[k], regexes'[k].id, T')
    <3>1. CASE k = n + 1
      <4>1. Low(k)' = lo /\ roots'[k] = m /\ rule = k
        <5>1. Low(k)' = Low(k) /\ Low(k) = lo
          BY <2>10, <3>1 DEF Base
        <5> QED
          BY <1>3, <2>9, <3>1, <5>1
      <4> QED
        BY <1>1, <1>2, <2>6, <2>8, <4>1
    <3>2. CASE k \in 1 .. n
      <4>1. roots[k] <= lo /\ RuleTree(node_ptr, Low(k), roots[k], regexes[k].id, T)
        BY <1>3, <3>2 DEF RulesOk
      <4>2. roots'[k] = roots[k] /\ Low(k)' = Low(k) /\ roots[k] \in Nat
        BY <1>3, <2>9, <2>10, <3>2
      <4> DEFINE i == regexes[k].id
                 l == Low(k)
      <4>3. RuleTree(node_ptr, l, roots[k], i, T)
        BY <4>1
      <4> HIDE DEF lo, T, ns, m, i, l
      <4>4. T \subseteq T
        OBVIOUS
      <4>5. Len(ns) \in Nat /\ Grows(node_ptr, ns, lo)
        BY <2>5, <2>6 DEF m
      <4>6. RuleTree(ns, l, roots[k], i, T)
        BY <2>6, <2>7, <4>1, <4>3, <4>4, <4>5, RuleTreeGrows
      <4>7. roots[k] <= m
        BY <2>6, <4>1, <4>2
      <4> QED
        BY <1>1, <1>2, <2>8, <4>2, <4>6, <4>7 DEF l, i
    <3>3. k = n + 1 \/ k \in 1 .. n
      BY <2>7
    <3> QED
      BY <3>1, <3>2, <3>3
  <2>12. Len(roots') + 1 = n + 2
    <3> HIDE DEF n
    <3> QED
      BY <2>7, <2>9
  <2>13. RulesOk'
    <3> HIDE DEF T, m, n
    <3> QED
      BY <2>9, <2>10, <2>11 DEF RulesOk, T
  <2>14. StackTrees'
    <3>1. tree' = [nodes |-> ns, stack |-> <<>>]
      BY <1>1 DEF tree
    <3>3. StOk(tree', m, {}, LeafTokens')
      BY <2>6, <2>8, <3>1
    <3> HIDE DEF m
    <3> QED
      BY <2>10, <3>3 DEF StackTrees
  <2>15. rule' = Len(roots') + 1 /\ Len(roots') <= Len(regexes')
    <3>1. rule <= Len(regexes)
      BY <2>4
    <3> HIDE DEF n
    <3> QED
      BY <1>1, <1>2, <1>3, <2>4, <2>7, <2>9, <3>1
  <2>16. pc' \notin Reads /\ pc' # "shift" /\ pc' # "trees"
    BY <2>1 DEF Reads
  <2> QED
    BY <1>1, <1>2, <1>3, <2>1, <2>9, <2>13, <2>14, <2>15, <2>16 DEF TreeInv
<1> QED
  BY <1>4, <1>5

(* and the end of the parser. *)
LEMMA EndParseTrees ==
    ASSUME CompileInv, TreeInv, EndParse \/ SyntaxError \/ ReduceFails, UNCHANGED ruleVars
    PROVE  TreeInv'
<1>1. /\ UNCHANGED <<parserVars, regexes>> /\ pc \in Parses
      /\ \/ pc' \in {"error", "abort"}
         \/ pc = "parse" /\ pc' = "trees" /\ rule > Len(regexes)
  BY DEF EndParse, SyntaxError, ReduceFails, Reducing, Parses, ruleVars, rules
<1>2. UNCHANGED <<rule, roots, node_ptr, tree_stack, charsets, nl_id>>
  BY <1>1 DEF parserVars, treeVars
<1>3. /\ LeafTokens' = LeafTokens /\ tree' = tree /\ Base' = Base
      /\ \A k : Low(k)' = Low(k)
  BY <1>2, TokensStay DEF tree, Low, Base
<1>4. /\ roots \in Seq(Nat) /\ rule = Len(roots) + 1
      /\ regexes # <<>> /\ Len(roots) <= Len(regexes)
      /\ RulesOk /\ StackTrees
  BY <1>1 DEF TreeInv
<1>5. RulesOk'
  BY <1>1, <1>2, <1>3, <1>4 DEF RulesOk
<1>6. StackTrees'
  BY <1>3, <1>4 DEF StackTrees
<1>7. pc' \notin Reads /\ pc' # "shift" /\ pc' # "parse"
  BY <1>1 DEF Reads
<1>8. pc' = "trees" => Len(roots) = Len(regexes)
  <2>1. Len(roots) \in Nat /\ Len(regexes) \in Nat
    BY <1>4 DEF CompileInv, RulesInv, RegexesOk
  <2> QED
    BY <1>1, <1>4, <2>1
<1> QED
  BY <1>1, <1>2, <1>4, <1>5, <1>6, <1>7, <1>8 DEF TreeInv

(* Every step of the parser keeps the trees well formed, *)
LEMMA TreesStep ==
    ASSUME CompileInv, TreeInv, ParserNext, UNCHANGED ruleVars
    PROVE  TreeInv'
<1>1. CompileInv'
  BY ParserStep
<1> QED
  BY <1>1, BeginRuleTrees, ShiftTrees, RenameTrees, JoinTreesOk, LeafTrees,
     DuplicatorTrees, EndRuleTrees, EndParseTrees DEF ParserNext

(* the reader makes none, *)
LEMMA ReaderTrees ==
    ASSUME TreeInv, RulesNext, UNCHANGED parserVars
    PROVE  TreeInv'
<1>1. /\ pc \in Reads /\ pc' \in Reads \cup {"parse", "error"}
      /\ pc' = "parse" => EndRules
  BY ReaderPlaces
<1>2. roots = <<>> /\ node_ptr = <<>> /\ tree_stack = <<>> /\ rule = 1
  BY <1>1 DEF TreeInv
<1>3. roots' = <<>> /\ node_ptr' = <<>> /\ tree_stack' = <<>> /\ rule' = 1
  BY <1>2 DEF parserVars, treeVars
<1>4. ASSUME pc' = "parse"
      PROVE  regexes' # <<>>
  BY <1>1, <1>4 DEF EndRules, ruleVars, rules
<1>5. RulesOk'
  BY <1>3 DEF RulesOk
<1>6. StackTrees'
  <2>1. tree' = [nodes |-> <<>>, stack |-> <<>>] /\ Base' = 0
    BY <1>3 DEF tree, Low, Base
  <2> DEFINE U == LeafTokens'
  <2> HIDE DEF U
  <2>2. StOk(tree', Base', {}, U)
    BY <2>1, NoTrees
  <2> QED
    BY <2>2 DEF U, StackTrees
<1>7. pc' \in Parses \cup {"trees"} => pc' = "parse"
  BY <1>1 DEF Reads, Parses
<1>8. pc' # "shift" /\ pc' # "trees"
  BY <1>1 DEF Reads
<1>10. ASSUME pc' = "parse"
       PROVE  Len(roots') <= Len(regexes')
  BY <1>1, <1>3, <1>10
<1> QED
  BY <1>3, <1>4, <1>5, <1>6, <1>7, <1>8, <1>10 DEF TreeInv

(* and there is none at the start. *)
LEMMA NoTreesYet == ParseInit => TreeInv
<1> SUFFICES ASSUME ParseInit
             PROVE  TreeInv
  OBVIOUS
<1>1. /\ pc = "rule" /\ roots = <<>> /\ node_ptr = <<>> /\ tree_stack = <<>>
      /\ rule = 1
  BY DEF ParseInit, RulesInit, ParserInit
<1>2. pc \notin Parses \cup {"trees"} /\ pc # "shift" /\ pc # "parse" /\ pc # "trees"
  BY <1>1 DEF Parses
<1> QED
  BY <1>1, <1>2 DEF TreeInv

-----------------------------------------------------------------------------
(* The tree of all the rules.                                              *)

(* A root: something comes first in its tree, and no rule is over there.   *)
Begins(ns, top) ==
    /\ top \in 1 .. Len(ns)
    /\ ns[top].firstpos # <<>>
    /\ \A j \in DOMAIN ns[top].firstpos : ns[ns[top].firstpos[j]].kind # "END"

(* The nodes of all the rules, and their roots. *)
Wood(ns, T) == Built(ns, 0, Nat, T)

(* Every node is of a rule, or was made after the last rule. *)
LEMMA NodeOfRule ==
    ASSUME roots \in Seq(Nat), NEW n \in Nat, n >= 1, n <= Base
    PROVE  \E k \in 1 .. Len(roots) : Low(k) < n /\ n <= roots[k]
<1> DEFINE m == Len(roots)
           S == {k \in 1 .. m : n <= roots[k]}
<1>1. m \in Nat /\ \A k \in 1 .. m : roots[k] \in Nat
  OBVIOUS
<1>2. m # 0 /\ Base = roots[m]
  <2>1. ASSUME m = 0
        PROVE  FALSE
    BY <1>1, <2>1 DEF Base, Low
  <2>2. m + 1 # 1 /\ (m + 1) - 1 = m
    BY <1>1, <2>1
  <2> QED
    BY <2>1, <2>2 DEF Base, Low
<1>3. m \in S
  BY <1>1, <1>2
<1>4. PICK k \in S : \A j \in S : k <= j
  <2>1. S \subseteq Nat
    BY <1>1
  <2> QED
    BY <1>3, <2>1, LeastElement
<1>5. k \in 1 .. m /\ n <= roots[k] /\ k \in Nat
  BY <1>1, <1>4
<1>6. Low(k) < n
  <2>1. CASE k = 1
    BY <2>1 DEF Low
  <2>2. CASE k # 1
    <3>1. k - 1 \in 1 .. m /\ ~ k <= k - 1
      BY <1>1, <1>5, <2>2
    <3>2. k - 1 \notin S
      BY <1>4, <3>1
    <3>3. ~ n <= roots[k - 1] /\ roots[k - 1] \in Nat
      BY <1>1, <3>1, <3>2
    <3> QED
      BY <2>2, <3>3 DEF Low
  <2> QED
    BY <2>1, <2>2
<1> QED
  BY <1>5, <1>6 DEF m

(* Positions of a rule are positions of the nodes. *)
LEMMA AnyPositions ==
    ASSUME NEW lo \in Nat, NEW hi \in Nat, NEW top \in Nat, hi <= top,
           NEW s \in Positions(lo, hi)
    PROVE  s \in Positions(0, top)
<1>1. lo + 1 .. hi \subseteq 0 + 1 .. top
  OBVIOUS
<1> QED
  BY <1>1, SeqWider DEF Positions

(* The nodes of one rule are nodes of them all. *)
LEMMA NodeOfAll ==
    ASSUME NEW x, NEW n \in Nat, NEW lo \in Nat, NEW hi \in Nat, NEW top \in Nat,
           hi <= top, x \in Node, NEW I, I \subseteq Nat, NEW T,
           Stands(x, n, lo), Marked(x, I, T), Linked(x, lo, hi)
    PROVE  Stands(x, n, 0) /\ Marked(x, Nat, T) /\ Linked(x, 0, top)
<1>1. \A i : i \in lo + 1 .. n - 1 => i \in 0 + 1 .. n - 1
  OBVIOUS
<1>2. Stands(x, n, 0)
  BY <1>1 DEF Stands
<1>3. Marked(x, Nat, T)
  BY DEF Marked
<1>4. Linked(x, 0, top)
  BY AnyPositions DEF Linked
<1> QED
  BY <1>2, <1>3, <1>4

(* All the nodes, when the last rule is read. *)
LEMMA AllBuilt ==
    ASSUME TreeInv, pc = "trees", \A k \in 1 .. Len(roots) : regexes[k].id \in Nat
    PROVE  /\ Wood(node_ptr, LeafTokens)
           /\ roots # <<>>
           /\ \A k \in 1 .. Len(roots) : Begins(node_ptr, roots[k])
<1>1. /\ roots \in Seq(Nat) /\ regexes # <<>> /\ RulesOk /\ StackTrees
      /\ Len(roots) = Len(regexes)
  BY DEF TreeInv
<1>2. Built(node_ptr, Base, {}, LeafTokens)
  BY <1>1 DEF StackTrees, StOk, tree
<1> DEFINE m == Len(node_ptr)
<1>3. /\ node_ptr \in Seq(Node) /\ m \in Nat /\ Base \in Nat /\ Base <= m
      /\ \A n \in 1 .. m : node_ptr[n] \in Node
      /\ \A n \in 1 .. m : node_ptr[n].left < n /\ node_ptr[n].right < n
      /\ \A n \in Base + 1 .. m : /\ Stands(node_ptr[n], n, Base)
                                  /\ Marked(node_ptr[n], {}, LeafTokens)
                                  /\ Linked(node_ptr[n], Base, m)
  BY <1>2, BuiltNodes DEF Built
<1>4. ASSUME NEW k \in 1 .. Len(roots)
      PROVE  /\ Low(k) \in Nat /\ roots[k] \in Low(k) + 1 .. m
             /\ \A n \in Low(k) + 1 .. roots[k] :
                   /\ Stands(node_ptr[n], n, Low(k))
                   /\ Marked(node_ptr[n], {regexes[k].id}, LeafTokens)
                   /\ Linked(node_ptr[n], Low(k), roots[k])
             /\ node_ptr[roots[k]].firstpos # <<>>
             /\ \A j \in DOMAIN node_ptr[roots[k]].firstpos :
                   node_ptr[node_ptr[roots[k]].firstpos[j]].kind # "END"
  BY <1>1 DEF RulesOk, RuleTree
<1>5. ASSUME NEW k \in 1 .. Len(roots)
      PROVE  Begins(node_ptr, roots[k])
  <2> DEFINE lo == Low(k)
             top == roots[k]
  <2>0. lo \in Nat /\ top \in lo + 1 .. m
    BY <1>4
  <2>1. roots[k] \in 1 .. m
    <3> HIDE DEF lo, m
    <3> QED
      BY <1>3, <2>0
  <2> QED
    BY <1>4, <2>1 DEF Begins
<1>6. ASSUME NEW n \in 1 .. m
      PROVE  /\ Stands(node_ptr[n], n, 0) /\ Marked(node_ptr[n], Nat, LeafTokens)
             /\ Linked(node_ptr[n], 0, m)
  <2>1. n \in Nat /\ n >= 1 /\ node_ptr[n] \in Node
    BY <1>3
  <2>2. CASE n <= Base
    <3>1. PICK k \in 1 .. Len(roots) : Low(k) < n /\ n <= roots[k]
      BY <1>1, <2>1, <2>2, NodeOfRule
    <3> DEFINE lo == Low(k)
               top == roots[k]
               I == {regexes[k].id}
               x == node_ptr[n]
    <3>a. lo \in Nat /\ top \in lo + 1 .. m
      BY <1>4
    <3>b. lo < n /\ n <= top
      BY <3>1
    <3>3. I \subseteq Nat
      OBVIOUS
    <3>4. \A i \in lo + 1 .. top :
             /\ Stands(node_ptr[i], i, lo)
             /\ Marked(node_ptr[i], I, LeafTokens)
             /\ Linked(node_ptr[i], lo, top)
      BY <1>4
    <3> HIDE DEF lo, m, top, I
    <3>2. lo \in Nat /\ top \in Nat /\ top <= m /\ n \in lo + 1 .. top
      BY <1>3, <2>1, <3>a, <3>b
    <3>5. Stands(x, n, lo) /\ Marked(x, I, LeafTokens) /\ Linked(x, lo, top) /\ x \in Node
      BY <2>1, <3>2, <3>4
    <3> HIDE DEF x
    <3>6. Stands(x, n, 0) /\ Marked(x, Nat, LeafTokens) /\ Linked(x, 0, m)
      BY <1>3, <2>1, <3>2, <3>3, <3>5, NodeOfAll
    <3> QED
      BY <3>6 DEF x
  <2>3. CASE ~ n <= Base
    <3>1. n \in Base + 1 .. m /\ m <= m
      BY <1>3, <2>1, <2>3
    <3>2. {} \subseteq Nat
      OBVIOUS
    <3> HIDE DEF m
    <3> QED
      BY <1>3, <2>1, <3>1, <3>2, NodeOfAll
  <2> QED
    BY <2>2, <2>3
<1>7. Wood(node_ptr, LeafTokens)
  <2>1. 0 \in Nat /\ 0 <= m /\ 0 + 1 = 1
    BY <1>3
  <2> QED
    BY <1>3, <1>6, <2>1 DEF Wood, Built
<1> QED
  BY <1>1, <1>5, <1>7

(* What comes first in a choice. *)
LEMMA SelectionFirst ==
    ASSUME NEW ns, NEW lo, NEW I, NEW T, Built(ns, lo, I, T), NEW l, NEW r
    PROVE  SelectionNode(ns, l, r)[Len(ns) + 1].firstpos
              = ns[l].firstpos \o ns[r].firstpos
<1> DEFINE first == ns[l].firstpos \o ns[r].firstpos
           null == ns[l].nullable \/ ns[r].nullable
           last == ns[l].lastpos \o ns[r].lastpos
           x == [BasicNode EXCEPT !.kind = "SELECTION", !.left = l, !.right = r,
                                  !.nullable = null, !.firstpos = first,
                                  !.lastpos = last]
<1>1. SelectionNode(ns, l, r) = Append(ns, x)
  BY DEF SelectionNode
<1> HIDE DEF first, null, last
<1>2. x.firstpos = first
  BY DEF BasicNode
<1> HIDE DEF x
<1>3. ns \in Seq(Node) /\ Len(ns) \in Nat
  BY BuiltNodes
<1>4. \A y : Append(ns, y)[Len(ns) + 1] = y
  BY <1>3
<1> QED
  BY <1>1, <1>2, <1>4 DEF first

(* A tree beside another one. *)
LEMMA SideBySideOk ==
    ASSUME NPOS \in Nat, NEW st, NEW T, Wood(st.nodes, T), Begins(st.nodes, st.root),
           NEW top, Begins(st.nodes, top)
    PROVE  LET new == SideBySide(st, top)
           IN  /\ Wood(new.nodes, T) /\ Begins(new.nodes, new.root)
               /\ Grows(st.nodes, new.nodes, 0)
<1> DEFINE ns == st.nodes
           r == st.root
           new == SelectionNode(ns, r, top)
<1>1. r \in 1 .. Len(ns) /\ top \in 1 .. Len(ns) /\ 0 + 1 = 1
  BY DEF Begins
<1>2. Built(ns, 0, Nat, T) /\ Len(ns) \in Nat
  BY BuiltNodes DEF Wood
<1>a. r \in 0 + 1 .. Len(ns) /\ top \in 0 + 1 .. Len(ns)
  BY <1>1
<1>3. PICK x : /\ Makes(ns, new, x, 0, Nat, T)
               /\ x.firstpos = ns[r].firstpos \o ns[top].firstpos
  <2> DEFINE lo == 0
             N == Nat
  <2>1. Built(ns, lo, N, T) /\ r \in lo + 1 .. Len(ns) /\ top \in lo + 1 .. Len(ns)
    BY <1>2, <1>a
  <2> HIDE DEF lo, N, ns, r
  <2>2. \E x : Makes(ns, SelectionNode(ns, r, top), x, lo, N, T)
    BY <2>1, SelectionBuilt
  <2>3. PICK x : Makes(ns, SelectionNode(ns, r, top), x, lo, N, T)
    BY <2>2
  <2>4. SelectionNode(ns, r, top)[Len(ns) + 1] = x
    BY <2>3 DEF Makes
  <2>5. x.firstpos = ns[r].firstpos \o ns[top].firstpos
    BY <1>2, <2>4, SelectionFirst DEF ns
  <2> QED
    BY <2>3, <2>5 DEF lo, N, new
<1>4. /\ Built(new, 0, Nat, T) /\ Grows(ns, new, 0) /\ Len(new) = Len(ns) + 1
      /\ new[Len(ns) + 1] = x
  BY <1>3 DEF Makes
<1>5. SideBySide(st, top) = [nodes |-> new, root |-> Len(new)]
  BY DEF SideBySide
<1> DEFINE s == ns[r].firstpos
           t == ns[top].firstpos
           m == Len(ns)
<1>6. /\ s \in Seq(1 .. m) /\ t \in Seq(1 .. m) /\ s # <<>>
      /\ \A j \in 1 .. Len(s) : ns[s[j]].kind # "END"
      /\ \A j \in 1 .. Len(t) : ns[t[j]].kind # "END"
  <2>1. /\ s \in Positions(0, m) /\ t \in Positions(0, m)
    BY <1>a, <1>2, NodeOf
  <2>2. s \in Seq(1 .. m) /\ t \in Seq(1 .. m)
    BY <1>1, <2>1 DEF Positions
  <2>3. DOMAIN s = 1 .. Len(s) /\ DOMAIN t = 1 .. Len(t)
    BY <2>2
  <2> QED
    BY <2>2, <2>3 DEF Begins
<1>7. x.firstpos = s \o t
  BY <1>3
<1>8. \A n \in 1 .. m : new[n].kind = ns[n].kind
  BY <1>4 DEF Grows, Alike
<1> HIDE DEF s, t, m, new
<1>9. /\ s \o t # <<>> /\ DOMAIN (s \o t) = 1 .. (Len(s) + Len(t))
      /\ Len(s) \in Nat /\ Len(t) \in Nat
      /\ \A j \in 1 .. Len(s) : (s \o t)[j] = s[j] /\ s[j] \in 1 .. m
      /\ \A j \in Len(s) + 1 .. Len(s) + Len(t) :
            /\ (s \o t)[j] = t[j - Len(s)] /\ j - Len(s) \in 1 .. Len(t)
            /\ t[j - Len(s)] \in 1 .. m
  <2>1. /\ Len(s) \in Nat /\ Len(t) \in Nat /\ Len(s \o t) = Len(s) + Len(t)
        /\ s \o t \in Seq(1 .. m)
        /\ \A j \in 1 .. Len(s) : (s \o t)[j] = s[j] /\ s[j] \in 1 .. m
        /\ \A j \in Len(s) + 1 .. Len(s) + Len(t) :
              (s \o t)[j] = t[j - Len(s)]
        /\ \A j \in 1 .. Len(t) : t[j] \in 1 .. m
    <3>1. s \in Seq(1 .. m) /\ t \in Seq(1 .. m)
      BY <1>6
    <3>2. /\ Len(s) \in Nat /\ Len(t) \in Nat
          /\ Len(s \o t) = Len(s) + Len(t) /\ s \o t \in Seq(1 .. m)
      BY <3>1
    <3>3. \A j \in 1 .. Len(t) : t[j] \in 1 .. m
      <4> DEFINE P == 1 .. m
      <4>1. t \in Seq(P)
        BY <3>1
      <4> HIDE DEF P
      <4>2. \A j \in 1 .. Len(t) : t[j] \in P
        BY <4>1
      <4> QED
        BY <4>2 DEF P
    <3>4. \A j \in 1 .. Len(s) : s[j] \in 1 .. m
      <4> DEFINE P == 1 .. m
      <4>1. s \in Seq(P)
        BY <3>1
      <4> HIDE DEF P
      <4>2. \A j \in 1 .. Len(s) : s[j] \in P
        BY <4>1
      <4> QED
        BY <4>2 DEF P
    <3>5. \A j \in 1 .. Len(s) : (s \o t)[j] = s[j]
      BY <3>1
    <3>6. \A j \in Len(s) + 1 .. Len(s) + Len(t) : (s \o t)[j] = t[j - Len(s)]
      BY <3>1
    <3> QED
      BY <3>2, <3>3, <3>4, <3>5, <3>6
  <2>2. \A j \in Len(s) + 1 .. Len(s) + Len(t) : j - Len(s) \in 1 .. Len(t)
    BY <1>6, <2>1
  <2>3. Len(s) # 0
    BY <1>6
  <2>4. Len(s \o t) = Len(s) + Len(t) /\ s \o t \in Seq(1 .. m) /\ Len(s) \in Nat /\ Len(t) \in Nat
    BY <1>6, <2>1
  <2>5. DOMAIN (s \o t) = 1 .. Len(s \o t) /\ Len(s \o t) # 0
    BY <2>3, <2>4
  <2>6. s \o t # <<>>
    BY <2>5
  <2> QED
    BY <1>6, <2>1, <2>2, <2>4, <2>5, <2>6
<1>10. \A j \in DOMAIN (s \o t) : new[(s \o t)[j]].kind # "END"
  <2> SUFFICES ASSUME NEW j \in DOMAIN (s \o t)
               PROVE  new[(s \o t)[j]].kind # "END"
    OBVIOUS
  <2>1. j \in 1 .. Len(s) \/ j \in Len(s) + 1 .. Len(s) + Len(t)
    BY <1>9
  <2>2. CASE j \in 1 .. Len(s)
    BY <1>6, <1>8, <1>9, <2>2
  <2>3. CASE j \in Len(s) + 1 .. Len(s) + Len(t)
    <3>1. /\ (s \o t)[j] = t[j - Len(s)] /\ j - Len(s) \in 1 .. Len(t)
          /\ t[j - Len(s)] \in 1 .. m
      BY <1>9, <2>3
    <3> QED
      BY <1>6, <1>8, <3>1
  <2> QED
    BY <2>1, <2>2, <2>3
<1>11. Len(new) \in 1 .. Len(new) /\ new[Len(new)] = x
  BY <1>2, <1>4
<1>12. Begins(new, Len(new))
  BY <1>7, <1>9, <1>10, <1>11 DEF Begins
<1> QED
  BY <1>4, <1>5, <1>12 DEF Wood

(* A root stays one. *)
LEMMA BeginsGrows ==
    ASSUME NEW ns, NEW new, NEW T, Wood(ns, T), Grows(ns, new, 0), Len(new) \in Nat,
           NEW top, Begins(ns, top)
    PROVE  Begins(new, top)
<1>1. Len(ns) \in Nat /\ Len(ns) <= Len(new) /\ top \in 1 .. Len(ns)
  BY BuiltNodes DEF Wood, Grows, Begins
<1>a. top \in 0 + 1 .. Len(ns)
  BY <1>1
<1>2. \A n \in 1 .. Len(ns) : new[n].kind = ns[n].kind /\ new[n].firstpos = ns[n].firstpos
  BY DEF Grows, Alike
<1>3. top \in 1 .. Len(new)
  BY <1>1
<1> DEFINE s == ns[top].firstpos
<1>4. \A j \in DOMAIN s : s[j] \in 1 .. Len(ns)
  <2>1. s \in Positions(0, Len(ns))
    BY <1>a, NodeOf DEF Wood
  <2>2. 0 \in Nat /\ \A k : k \in 0 + 1 .. Len(ns) <=> k \in 1 .. Len(ns)
    BY <1>1
  <2> HIDE DEF s
  <2>3. DOMAIN s = 1 .. Len(s) /\ \A k \in 1 .. Len(s) : s[k] \in 0 + 1 .. Len(ns)
    BY <1>1, <2>1, <2>2, EachPosition
  <2> QED
    BY <2>2, <2>3
<1> HIDE DEF s
<1>5. s # <<>> /\ \A j \in DOMAIN s : ns[s[j]].kind # "END"
  BY DEF Begins, s
<1>6. new[top].firstpos = s
  BY <1>1, <1>2 DEF s
<1> QED
  BY <1>2, <1>3, <1>4, <1>5, <1>6 DEF Begins

-----------------------------------------------------------------------------
(* Lists without repetition, sets as lists.                                *)

(* A finite set as a sequence. *)
LEMMA SeqOfSet ==
    ASSUME NEW S, IsFiniteSet(S)
    PROVE  SetToSeq(S) \in Seq(S)
<1> DEFINE Fs == [1 .. Cardinality(S) -> S]
<1>1. Cardinality(S) \in Nat /\ ExistsBijection(1 .. Cardinality(S), S)
  BY FS_CardinalityType
<1>2. \E f \in Fs : IsInjective(f)
  BY <1>1 DEF ExistsBijection, Bijection, Injection, IsInjective
<1>3. SetToSeq(S) \in Fs
  BY <1>2 DEF SetToSeq
<1> QED
  BY <1>1, <1>3

(* The least of some numbers is one of them. *)
LEMMA MinOfNumbers ==
    ASSUME NEW S, S \subseteq Nat, S # {}
    PROVE  Min(S) \in S
<1>1. \E i \in S : \A j \in S : i <= j
  BY LeastElement
<1> QED
  BY <1>1 DEF Min

(* One element more, unless it is there. *)
InsertNew(out, n) == IF Contains(out, n) THEN out ELSE Append(out, n)

(* What is put in keeps the list typed. *)
LEMMA InsertTyped ==
    ASSUME NEW P
    PROVE  \A out \in Seq(P), n \in P : InsertNew(out, n) \in Seq(P)
BY DEF InsertNew

(* The fold that leaves out what is there. *)
LEMMA DistinctFold ==
    ASSUME NEW P,
           NEW L \in Seq(P), <<>> \in Seq(P)
    PROVE  \E g :
              /\ g \in [0 .. Len(L) -> Seq(P)]
              /\ g[0] = <<>>
              /\ \A k \in 1 .. Len(L) : g[k] = InsertNew(g[k - 1], L[k])
              /\ Distinct(L) = g[Len(L)]
<1> DEFINE n == Len(L)
           Values == Seq(P)
           base == <<>>
           step == [p \in (1 .. n) \X Values |-> InsertNew(p[2], L[p[1]])]
           Eq(f) == f = [T \in SUBSET DOMAIN L |->
                           IF T = {} THEN base
                           ELSE InsertNew(f[T \ {Max(T)}], L[Max(T)])]
           f == CHOOSE f : Eq(f)
<1>1. n \in Nat /\ DOMAIN L = 1 .. n /\ \A k \in 1 .. n : L[k] \in P
  OBVIOUS
<1>2. base \in Values
  OBVIOUS
<1>3. step \in StepFcn(n, Values)
  BY <1>1, InsertTyped DEF StepFcn
<1> HIDE DEF n, Values, base
<1>4. \A i \in 1 .. n : \A x \in Values : step[<<i, x>>] = InsertNew(x, L[i])
  OBVIOUS
<1> HIDE DEF step
<1>5. PICK h : FoldsSets(h, n, Values, base, step)
  BY <1>1, <1>2, <1>3, SetRecursion
<1>6. Eq(h)
  <2>1. \A T \in SUBSET (1 .. n) : T # {} =>
           Max(T) \in 1 .. n /\ h[T \ {Max(T)}] \in Values
    BY <1>1, <1>5, MaxOfNumbers DEF FoldsSets
  <2>2. \A T \in SUBSET (1 .. n) : T # {} =>
           h[T] = InsertNew(h[T \ {Max(T)}], L[Max(T)])
    BY <1>4, <1>5, <2>1 DEF FoldsSets
  <2>3. h[{}] = base /\ h = [T \in SUBSET (1 .. n) |-> h[T]]
    BY <1>5 DEF FoldsSets
  <2> QED
    BY <1>1, <2>2, <2>3
<1>7. Eq(f)
  BY <1>6
<1> HIDE DEF f
<1>8. f[1 .. 0] = base
  BY <1>1, <1>7
<1>9. \A k \in 1 .. n : f[1 .. k] = InsertNew(f[1 .. k - 1], L[k])
  <2> TAKE k \in 1 .. n
  <2>1. /\ 1 .. k \in SUBSET DOMAIN L /\ 1 .. k # {}
        /\ Max(1 .. k) = k /\ (1 .. k) \ {k} = 1 .. k - 1
    BY <1>1, MaxOfPrefix
  <2>2. f[1 .. k] = InsertNew(f[(1 .. k) \ {Max(1 .. k)}], L[Max(1 .. k)])
    BY <1>7, <2>1
  <2> QED
    BY <2>1, <2>2
<1>10. \A k \in 1 .. n : f[1 .. k - 1] \in Values =>
          f[1 .. k] = step[<<k, f[1 .. k - 1]>>]
  BY <1>4, <1>9
<1>11. PICK g : Unrolls(g, n, Values, base, step) /\ g[n] = f[1 .. n]
  BY <1>1, <1>2, <1>3, <1>8, <1>10, FoldRun
<1>12. Distinct(L) = f[1 .. n]
  BY <1>1 DEF FoldLeft, MapThenFoldSet, f, base, Distinct, InsertNew
<1>13. \A k \in 1 .. n : g[k - 1] \in Values
  BY <1>1, <1>11 DEF Unrolls
<1> QED
  BY <1>4, <1>11, <1>12, <1>13 DEF Unrolls, n, Values, base

(* Every element is one of the list's. *)
LEMMA DistinctTyped ==
    ASSUME NEW P, NEW L \in Seq(P)
    PROVE  Distinct(L) \in Seq(P)
<1>1. Len(L) \in 0 .. Len(L) /\ <<>> \in Seq(P)
  OBVIOUS
<1>2. PICK g : g \in [0 .. Len(L) -> Seq(P)] /\ Distinct(L) = g[Len(L)]
  BY <1>1, DistinctFold
<1> QED
  BY <1>1, <1>2

-----------------------------------------------------------------------------
(* What the nodes of a state lead to.                                      *)

(* The nodes, and the numbers of transitions: classes and places of a line; *)
(* an end of a line comes only where the set of the newline is known.      *)
Places == 1 .. Len(node_ptr)

(* The columns of a row: the classes, and the ends of a line. *)
Columns == (0 .. Len(classes) - 1) \cup {BOL_TOKEN}
           \cup (IF KnowsNewline THEN {EOL_TOKEN} ELSE {})

(* The elements a state is split into, *)
Equivsets == [indexes : SUBSET Columns, greedy : BOOLEAN, followpos : Seq(Places)]

(* at most one of them, *)
Few(S) == S = {} \/ \E x \in Equivsets : S = {x}

(* and what a splitting has come to. *)
EquivSplits == [list : Seq(Equivsets), r : {S \in SUBSET Equivsets : Few(S)},
                last : BOOLEAN]

(* The numbers mean nothing else. *)
Small == Len(charsets) < EOL_TOKEN /\ Len(classes) < EOL_TOKEN

(* An element, field by field. *)
LEMMA EquivsetFields ==
    ASSUME NEW x \in Equivsets
    PROVE  /\ x.indexes \in SUBSET Columns /\ x.greedy \in BOOLEAN
           /\ x.followpos \in Seq(Places)
           /\ \A i \in SUBSET Columns :
                 /\ [x EXCEPT !.indexes = i] \in Equivsets
                 /\ \A f \in Seq(Places) :
                       [[x EXCEPT !.followpos = f] EXCEPT !.indexes = i] \in Equivsets
BY DEF Equivsets

(* One that may be missing, as a sequence. *)
LEMMA FewSubset ==
    ASSUME NEW S, Few(S)
    PROVE  S \in SUBSET Equivsets /\ SetToSeq(S) \in Seq(Equivsets)
<1>1. CASE S = {}
  <2>1. SetToSeq(S) = <<>> /\ <<>> \in Seq(Equivsets)
    BY <1>1, NoSeq, EmptySeq
  <2> QED
    BY <1>1, <2>1
<1>2. ASSUME NEW x \in Equivsets, S = {x}
      PROVE  S \in SUBSET Equivsets /\ SetToSeq(S) \in Seq(Equivsets)
  <2>1. SetToSeq(S) = <<x>>
    BY <1>2, OneSeq
  <2>2. <<x>> \in Seq(Equivsets)
    OBVIOUS
  <2> QED
    BY <1>2, <2>1, <2>2
<1> QED
  BY <1>1, <1>2 DEF Few

(* equivset.intersect answers at most one of each. *)
LEMMA MeetEquivsetsFew ==
    ASSUME NEW l \in Equivsets, NEW r \in Equivsets
    PROVE  LET met == MeetEquivsets(l, r)
           IN  Few(met.l) /\ Few(met.r) /\ Few(met.overlap)
<1> DEFINE common == l.indexes \cap r.indexes
           Part(x, indexes) == IF indexes = {} THEN {}
                               ELSE {[x EXCEPT !.indexes = indexes]}
           joined == Distinct(l.followpos \o r.followpos)
           both == [l EXCEPT !.followpos = joined]
           met == MeetEquivsets(l, r)
<1>1. /\ common \in SUBSET Columns /\ l.indexes \ common \in SUBSET Columns
      /\ r.indexes \ common \in SUBSET Columns
      /\ l.followpos \in Seq(Places) /\ r.followpos \in Seq(Places)
  BY EquivsetFields
<1>2. joined \in Seq(Places)
  <2>1. l.followpos \o r.followpos \in Seq(Places)
    BY <1>1
  <2> QED
    BY <2>1, DistinctTyped
<1>3. both = [l EXCEPT !.followpos = joined]
  OBVIOUS
<1>4. /\ met.l = Part(l, l.indexes \ common) /\ met.r = Part(r, r.indexes \ common)
      /\ met.overlap = Part(both, common)
  BY DEF MeetEquivsets
<1> HIDE DEF joined, met
<1>5. \A i \in SUBSET Columns : /\ [l EXCEPT !.indexes = i] \in Equivsets
                                /\ [r EXCEPT !.indexes = i] \in Equivsets
                                /\ [both EXCEPT !.indexes = i] \in Equivsets
  BY <1>2, EquivsetFields
<1> HIDE DEF common, both
<1>6. \A i \in SUBSET Columns : Few(Part(l, i)) /\ Few(Part(r, i)) /\ Few(Part(both, i))
  BY <1>5 DEF Few
<1> HIDE DEF Part
<1>7. Few(met.l) /\ Few(met.r) /\ Few(met.overlap)
  BY <1>1, <1>4, <1>6
<1> QED
  BY <1>7 DEF met

(* The fields of a state of the split. *)
LEMMA EquivSplitParts ==
    ASSUME NEW list \in Seq(Equivsets), NEW r, Few(r), NEW last \in BOOLEAN
    PROVE  [list |-> list, r |-> r, last |-> last] \in EquivSplits
<1>1. r \in SUBSET Equivsets
  BY FewSubset
<1> QED
  BY <1>1 DEF EquivSplits

(* One turn of the split. *)
LEMMA EquivMeeting ==
    ASSUME NEW st \in EquivSplits, NEW l \in Equivsets
    PROVE  Meeting(MeetEquivsets, st, l) \in EquivSplits
<1> DEFINE new == Meeting(MeetEquivsets, st, l)
<1>1. st.list \in Seq(Equivsets) /\ Few(st.r) /\ st.last \in BOOLEAN
  BY DEF EquivSplits
<1>2. Append(st.list, l) \in Seq(Equivsets)
  BY <1>1
<1>3. Added(st, l) \in EquivSplits
  BY <1>1, <1>2, EquivSplitParts DEF Added
<1>4. CASE st.last \/ st.r = {}
  BY <1>3, <1>4 DEF Meeting
<1>5. CASE ~ (st.last \/ st.r = {})
  <2>1. PICK p \in Equivsets : st.r = {p}
    BY <1>1, <1>5 DEF Few
  <2> DEFINE met == MeetEquivsets(l, p)
  <2>2. new = Placed(st, l, met)
    <3>1. (CHOOSE r \in st.r : TRUE) = p
      BY <2>1
    <3> QED
      BY <1>5, <3>1 DEF Meeting
  <2>3. Few(met.l) /\ Few(met.r) /\ Few(met.overlap)
    BY MeetEquivsetsFew
  <2>4. SetToSeq(met.l) \in Seq(Equivsets) /\ SetToSeq(met.overlap) \in Seq(Equivsets)
    BY <2>3, FewSubset
  <2> HIDE DEF met, new
  <2>5. /\ st.list \o SetToSeq(met.overlap) \in Seq(Equivsets)
        /\ st.list \o SetToSeq(met.l) \in Seq(Equivsets)
        /\ st.list \o SetToSeq(met.l) \o SetToSeq(met.overlap) \in Seq(Equivsets)
    BY <1>1, <2>4
  <2>6. new \in EquivSplits
    <3>1. CASE met.overlap = {}
      BY <1>3, <2>2, <3>1 DEF Placed
    <3>2. CASE met.overlap # {} /\ met.l = {}
      <4>1. new = [list |-> st.list \o SetToSeq(met.overlap), r |-> met.r, last |-> FALSE]
        BY <2>2, <3>2 DEF Placed
      <4> QED
        BY <2>3, <2>5, <4>1, EquivSplitParts
    <3>3. CASE met.overlap # {} /\ met.l # {} /\ met.r = {}
      <4>1. new = [list |-> st.list \o SetToSeq(met.l), r |-> met.overlap, last |-> TRUE]
        BY <2>2, <3>3 DEF Placed
      <4> QED
        BY <2>3, <2>5, <4>1, EquivSplitParts
    <3>4. CASE met.overlap # {} /\ met.l # {} /\ met.r # {}
      <4>1. new = [list |-> st.list \o SetToSeq(met.l) \o SetToSeq(met.overlap),
                   r |-> met.r, last |-> FALSE]
        BY <2>2, <3>4 DEF Placed
      <4> QED
        BY <2>3, <2>5, <4>1, EquivSplitParts
    <3> QED
      BY <3>1, <3>2, <3>3, <3>4
  <2> QED
    BY <2>6 DEF new
<1> QED
  BY <1>4, <1>5

(* The fold that splits the elements. *)
LEMMA EquivSplitFold ==
    ASSUME NEW r0 \in Equivsets,
           NEW L \in Seq(Equivsets), [list |-> <<>>, r |-> {r0}, last |-> FALSE] \in EquivSplits
    PROVE  \E g :
              /\ g \in [0 .. Len(L) -> EquivSplits]
              /\ g[0] = [list |-> <<>>, r |-> {r0}, last |-> FALSE]
              /\ \A k \in 1 .. Len(L) : g[k] = Meeting(MeetEquivsets, g[k - 1], L[k])
              /\ FoldLeft(LAMBDA st, l : Meeting(MeetEquivsets, st, l),
                          [list |-> <<>>, r |-> {r0}, last |-> FALSE], L) = g[Len(L)]
<1> DEFINE n == Len(L)
           Values == EquivSplits
           base == [list |-> <<>>, r |-> {r0}, last |-> FALSE]
           step == [p \in (1 .. n) \X Values |-> Meeting(MeetEquivsets, p[2], L[p[1]])]
           Eq(f) == f = [T \in SUBSET DOMAIN L |->
                           IF T = {} THEN base
                           ELSE Meeting(MeetEquivsets, f[T \ {Max(T)}], L[Max(T)])]
           f == CHOOSE f : Eq(f)
<1>1. n \in Nat /\ DOMAIN L = 1 .. n /\ \A k \in 1 .. n : L[k] \in Equivsets
  OBVIOUS
<1>2. base \in Values
  OBVIOUS
<1>3. step \in StepFcn(n, Values)
  BY <1>1, EquivMeeting DEF StepFcn
<1> HIDE DEF n, Values, base
<1>4. \A i \in 1 .. n : \A x \in Values : step[<<i, x>>] = Meeting(MeetEquivsets, x, L[i])
  OBVIOUS
<1> HIDE DEF step
<1>5. PICK h : FoldsSets(h, n, Values, base, step)
  BY <1>1, <1>2, <1>3, SetRecursion
<1>6. Eq(h)
  <2>1. \A T \in SUBSET (1 .. n) : T # {} =>
           Max(T) \in 1 .. n /\ h[T \ {Max(T)}] \in Values
    BY <1>1, <1>5, MaxOfNumbers DEF FoldsSets
  <2>2. \A T \in SUBSET (1 .. n) : T # {} =>
           h[T] = Meeting(MeetEquivsets, h[T \ {Max(T)}], L[Max(T)])
    BY <1>4, <1>5, <2>1 DEF FoldsSets
  <2>3. h[{}] = base /\ h = [T \in SUBSET (1 .. n) |-> h[T]]
    BY <1>5 DEF FoldsSets
  <2> QED
    BY <1>1, <2>2, <2>3
<1>7. Eq(f)
  BY <1>6
<1> HIDE DEF f
<1>8. f[1 .. 0] = base
  BY <1>1, <1>7
<1>9. \A k \in 1 .. n : f[1 .. k] = Meeting(MeetEquivsets, f[1 .. k - 1], L[k])
  <2> TAKE k \in 1 .. n
  <2>1. /\ 1 .. k \in SUBSET DOMAIN L /\ 1 .. k # {}
        /\ Max(1 .. k) = k /\ (1 .. k) \ {k} = 1 .. k - 1
    BY <1>1, MaxOfPrefix
  <2>2. f[1 .. k] = Meeting(MeetEquivsets, f[(1 .. k) \ {Max(1 .. k)}], L[Max(1 .. k)])
    BY <1>7, <2>1
  <2> QED
    BY <2>1, <2>2
<1>10. \A k \in 1 .. n : f[1 .. k - 1] \in Values =>
          f[1 .. k] = step[<<k, f[1 .. k - 1]>>]
  BY <1>4, <1>9
<1>11. PICK g : Unrolls(g, n, Values, base, step) /\ g[n] = f[1 .. n]
  BY <1>1, <1>2, <1>3, <1>8, <1>10, FoldRun
<1>12. FoldLeft(LAMBDA st, l : Meeting(MeetEquivsets, st, l),
                          [list |-> <<>>, r |-> {r0}, last |-> FALSE], L) = f[1 .. n]
  BY <1>1 DEF FoldLeft, MapThenFoldSet, f, base
<1>13. \A k \in 1 .. n : g[k - 1] \in Values
  BY <1>1, <1>11 DEF Unrolls
<1> QED
  BY <1>4, <1>11, <1>12, <1>13 DEF Unrolls, n, Values, base

(* The split elements. *)
LEMMA EquivSplit ==
    ASSUME NEW L \in Seq(Equivsets), NEW r0 \in Equivsets
    PROVE  Split(MeetEquivsets, L, r0) \in Seq(Equivsets)
<1> DEFINE end == FoldLeft(LAMBDA st, l : Meeting(MeetEquivsets, st, l),
                           [list |-> <<>>, r |-> {r0}, last |-> FALSE], L)
<1>1. <<>> \in Seq(Equivsets) /\ Few({r0}) /\ FALSE \in BOOLEAN
  BY EmptySeq DEF Few
<1>2. [list |-> <<>>, r |-> {r0}, last |-> FALSE] \in EquivSplits
  BY <1>1, EquivSplitParts
<1>3. PICK g : /\ g \in [0 .. Len(L) -> EquivSplits]
               /\ end = g[Len(L)]
  BY <1>2, EquivSplitFold
<1>4. Len(L) \in 0 .. Len(L)
  OBVIOUS
<1>5. end \in EquivSplits
  BY <1>3, <1>4
<1> HIDE DEF end
<1>6. end.list \in Seq(Equivsets) /\ Few(end.r)
  BY <1>5 DEF EquivSplits
<1>7. SetToSeq(end.r) \in Seq(Equivsets)
  BY <1>6, FewSubset
<1>8. Split(MeetEquivsets, L, r0) = end.list \o SetToSeq(end.r)
  BY DEF Split, end
<1> QED
  BY <1>6, <1>7, <1>8

(* What a node leads to. *)
LEMMA EquivsetOfNode ==
    ASSUME Wood(node_ptr, LeafTokens), Small, MapOk, classes \in Seq(Parts),
           NEW n \in Places, Leads(n)
    PROVE  EquivsetOf(n) \in Equivsets
<1> DEFINE x == node_ptr[n]
<1>1. NPOS \in Nat /\ Len(charsets) \in Nat
  BY WordAssumption DEF MapOk
<1>2. /\ n \in 0 + 1 .. Len(node_ptr) /\ x \in Node
      /\ x.greedy \in BOOLEAN /\ x.followpos \in Positions(0, Len(node_ptr))
  <2>1. n \in 0 + 1 .. Len(node_ptr)
    BY BuiltNodes DEF Wood, Places
  <2> QED
    BY <2>1, NodeOf DEF Wood
<1>3. x.followpos \in Seq(Places)
  <2>1. 0 + 1 .. Len(node_ptr) = 1 .. Len(node_ptr)
    BY BuiltNodes DEF Wood
  <2> QED
    BY <1>2, <2>1 DEF Positions, Places
<1>4. x.token \in LeafTokens /\ x.token # NULL
  <2>1. Marked(x, Nat, LeafTokens)
    BY <1>2, BuiltNodes DEF Wood
  <2> QED
    BY <2>1 DEF Marked, Leads
<1>5. x.token \in Anchors => {x.token} \in SUBSET Columns
  <2>1. CASE x.token = BOL_TOKEN
    BY <2>1 DEF Columns
  <2>2. CASE x.token = EOL_TOKEN
    <3>1. EOL_TOKEN \notin 0 .. Len(charsets) - 1
      BY <1>1 DEF Small, EOL_TOKEN
    <3>2. EOL_TOKEN # NULL /\ EOL_TOKEN # BOL_TOKEN
      BY <1>1 DEF EOL_TOKEN, NULL, BOL_TOKEN
    <3>3. KnowsNewline
      BY <1>4, <2>2, <3>1, <3>2 DEF LeafTokens
    <3> QED
      BY <2>2, <3>3 DEF Columns
  <2> QED
    BY <2>1, <2>2 DEF Anchors
<1>6. set_mapping(x.token) \in SUBSET Columns
  <2>1. \A k \in DOMAIN classes : k - 1 \in 0 .. Len(classes) - 1
    OBVIOUS
  <2> QED
    BY <2>1 DEF set_mapping, Columns
<1> DEFINE ind == IF x.token \in Anchors THEN {x.token} ELSE set_mapping(x.token)
<1>7. ind \in SUBSET Columns
  BY <1>5, <1>6
<1>8. EquivsetOf(n) = [indexes |-> ind, greedy |-> x.greedy, followpos |-> x.followpos]
  BY DEF EquivsetOf
<1> HIDE DEF ind
<1> QED
  BY <1>2, <1>3, <1>7, <1>8 DEF Equivsets

(* What a node leads to, among what those before it lead to. *)
LEMMA AddNodeTyped ==
    ASSUME Wood(node_ptr, LeafTokens), Small, MapOk, classes \in Seq(Parts),
           NEW list \in Seq(Equivsets),
           NEW n \in Places
    PROVE  AddNode(list, n) \in Seq(Equivsets)
<1>1. CASE Leads(n)
  <2>1. EquivsetOf(n) \in Equivsets
    BY <1>1, EquivsetOfNode
  <2>2. Split(MeetEquivsets, list, EquivsetOf(n)) \in Seq(Equivsets)
    BY <2>1, EquivSplit
  <2> QED
    BY <1>1, <2>2 DEF AddNode
<1>2. CASE ~ Leads(n)
  BY <1>2 DEF AddNode
<1> QED
  BY <1>1, <1>2

(* The fold over the nodes. *)
LEMMA EquivListFold ==
    ASSUME Wood(node_ptr, LeafTokens), Small, MapOk, classes \in Seq(Parts),
           classes \in Seq(Parts),
           NEW L \in Seq(Places), <<>> \in Seq(Equivsets)
    PROVE  \E g :
              /\ g \in [0 .. Len(L) -> Seq(Equivsets)]
              /\ g[0] = <<>>
              /\ \A k \in 1 .. Len(L) : g[k] = AddNode(g[k - 1], L[k])
              /\ EquivList(L) = g[Len(L)]
<1> DEFINE n == Len(L)
           Values == Seq(Equivsets)
           base == <<>>
           step == [p \in (1 .. n) \X Values |-> AddNode(p[2], L[p[1]])]
           Eq(f) == f = [T \in SUBSET DOMAIN L |->
                           IF T = {} THEN base
                           ELSE AddNode(f[T \ {Max(T)}], L[Max(T)])]
           f == CHOOSE f : Eq(f)
<1>1. n \in Nat /\ DOMAIN L = 1 .. n /\ \A k \in 1 .. n : L[k] \in Places
  OBVIOUS
<1>2. base \in Values
  OBVIOUS
<1>3. step \in StepFcn(n, Values)
  BY <1>1, AddNodeTyped DEF StepFcn
<1> HIDE DEF n, Values, base
<1>4. \A i \in 1 .. n : \A x \in Values : step[<<i, x>>] = AddNode(x, L[i])
  OBVIOUS
<1> HIDE DEF step
<1>5. PICK h : FoldsSets(h, n, Values, base, step)
  BY <1>1, <1>2, <1>3, SetRecursion
<1>6. Eq(h)
  <2>1. \A T \in SUBSET (1 .. n) : T # {} =>
           Max(T) \in 1 .. n /\ h[T \ {Max(T)}] \in Values
    BY <1>1, <1>5, MaxOfNumbers DEF FoldsSets
  <2>2. \A T \in SUBSET (1 .. n) : T # {} =>
           h[T] = AddNode(h[T \ {Max(T)}], L[Max(T)])
    BY <1>4, <1>5, <2>1 DEF FoldsSets
  <2>3. h[{}] = base /\ h = [T \in SUBSET (1 .. n) |-> h[T]]
    BY <1>5 DEF FoldsSets
  <2> QED
    BY <1>1, <2>2, <2>3
<1>7. Eq(f)
  BY <1>6
<1> HIDE DEF f
<1>8. f[1 .. 0] = base
  BY <1>1, <1>7
<1>9. \A k \in 1 .. n : f[1 .. k] = AddNode(f[1 .. k - 1], L[k])
  <2> TAKE k \in 1 .. n
  <2>1. /\ 1 .. k \in SUBSET DOMAIN L /\ 1 .. k # {}
        /\ Max(1 .. k) = k /\ (1 .. k) \ {k} = 1 .. k - 1
    BY <1>1, MaxOfPrefix
  <2>2. f[1 .. k] = AddNode(f[(1 .. k) \ {Max(1 .. k)}], L[Max(1 .. k)])
    BY <1>7, <2>1
  <2> QED
    BY <2>1, <2>2
<1>10. \A k \in 1 .. n : f[1 .. k - 1] \in Values =>
          f[1 .. k] = step[<<k, f[1 .. k - 1]>>]
  BY <1>4, <1>9
<1>11. PICK g : Unrolls(g, n, Values, base, step) /\ g[n] = f[1 .. n]
  BY <1>1, <1>2, <1>3, <1>8, <1>10, FoldRun
<1>12. EquivList(L) = f[1 .. n]
  BY <1>1 DEF FoldLeft, MapThenFoldSet, f, base, EquivList
<1>13. \A k \in 1 .. n : g[k - 1] \in Values
  BY <1>1, <1>11 DEF Unrolls
<1> QED
  BY <1>4, <1>11, <1>12, <1>13 DEF Unrolls, n, Values, base

(* build_equiv_list *)
LEMMA EquivListTyped ==
    ASSUME Wood(node_ptr, LeafTokens), Small, MapOk, classes \in Seq(Parts),
           NEW L \in Seq(Places)
    PROVE  EquivList(L) \in Seq(Equivsets)
<1>1. Len(L) \in 0 .. Len(L) /\ <<>> \in Seq(Equivsets)
  OBVIOUS
<1>2. PICK g : g \in [0 .. Len(L) -> Seq(Equivsets)] /\ EquivList(L) = g[Len(L)]
  BY <1>1, EquivListFold
<1> QED
  BY <1>1, <1>2

-----------------------------------------------------------------------------
(* The rows of the machine.                                                *)

(* A row of the machine. *)
DfaRow == [0 .. dfa_alphabet - 1 -> Nat]

(* The rows of n states and the 'jam' state: they lead to states, and say  *)
(* whether one is an end; the first state is none.                         *)
RowsOk(rows, n) ==
    /\ rows \in Seq(DfaRow) /\ Len(rows) = n + 1
    /\ \A k \in 1 .. n + 1 : \A c \in eol_index .. dfa_alphabet - 1 : rows[k][c] <= n
    /\ \A k \in 2 .. n + 1 : rows[k][end_state_index] \in {0, 1}
    /\ rows[2][end_state_index] = 0

(* The columns. *)
LEMMA ColumnNumbers ==
    ASSUME classes \in Seq(Parts)
    PROVE  /\ dfa_alphabet \in Nat /\ Len(classes) \in Nat
           /\ Len(classes) + 7 <= dfa_alphabet
           /\ \A c \in 0 .. 6 : c \in 0 .. dfa_alphabet - 1
           /\ NPOS \in Nat /\ NPOS > 258
<1>1. Len(classes) \in Nat
  OBVIOUS
<1>2. NPOS \in Nat /\ NPOS > 258
  BY WordAssumption, CharAssumption
<1>3. dfa_alphabet = Len(classes) + 7 \/ dfa_alphabet = Len(classes) + 8
  BY <1>1 DEF dfa_alphabet, transitions_index
<1> QED
  BY <1>1, <1>2, <1>3

(* The row of a new state. *)
RowOk(x) == /\ x \in DfaRow
            /\ x[end_state_index] \in {0, 1}
            /\ \A c \in eol_index .. dfa_alphabet - 1 : x[c] = 0

(* A row that leads nowhere. *)
LEMMA EmptyRowOk ==
    ASSUME classes \in Seq(Parts)
    PROVE  RowOk(EmptyRow) /\ EmptyRow[end_state_index] = 0
<1>1. \A c \in eol_index .. dfa_alphabet - 1 : c \in 0 .. dfa_alphabet - 1
  BY ColumnNumbers DEF eol_index
<1>2. end_state_index \in 0 .. dfa_alphabet - 1
  BY ColumnNumbers DEF end_state_index
<1> QED
  BY <1>1, <1>2 DEF RowOk, DfaRow, EmptyRow

(* The row of a new state: it is an end only if one of its nodes is. *)
LEMMA NewRowOk ==
    ASSUME classes \in Seq(Parts), Wood(node_ptr, LeafTokens), NEW nodes \in Seq(Places)
    PROVE  /\ RowOk(NewRow(nodes))
           /\ (\A j \in DOMAIN nodes : ~ IsEnd(nodes[j])) =>
                 NewRow(nodes)[end_state_index] = 0
<1>1. CASE EndPlaces(nodes) = {}
  BY <1>1, EmptyRowOk DEF NewRow
<1>2. CASE EndPlaces(nodes) # {}
  <2>1. \E j \in DOMAIN nodes : IsEnd(nodes[j])
    BY <1>2 DEF EndPlaces
  <2> DEFINE first == Min(EndPlaces(nodes))
             id == node_ptr[nodes[first]].id
  <2>2. first \in DOMAIN nodes
    <3>1. EndPlaces(nodes) \subseteq Nat
      BY DEF EndPlaces
    <3>2. first \in EndPlaces(nodes)
      BY <1>2, <3>1, MinOfNumbers
    <3> QED
      BY <3>2 DEF EndPlaces
  <2>3. id \in Nat
    <3>1. nodes[first] \in Places
      BY <2>2
    <3>2. node_ptr[nodes[first]] \in Node
      BY <3>1, BuiltNodes DEF Wood, Places
    <3> QED
      BY <3>2 DEF Node
  <2> HIDE DEF first, id
  <2> DEFINE row == [EmptyRow EXCEPT ![0] = 1, ![1] = id, ![2] = NPOS, ![3] = NPOS]
  <2>4. EndRow(nodes) = row
    BY DEF EndRow, first, id, end_state_index, id_index, user_id_index, push_dfa_index
  <2>5. /\ row \in DfaRow /\ row[0] = 1
        /\ \A c \in 5 .. dfa_alphabet - 1 : row[c] = 0
    <3>1. /\ NPOS \in Nat /\ EmptyRow \in DfaRow
          /\ \A c \in 0 .. 6 : c \in 0 .. dfa_alphabet - 1
          /\ \A c \in 5 .. dfa_alphabet - 1 : EmptyRow[c] = 0
          /\ dfa_alphabet \in Nat
      BY ColumnNumbers, EmptyRowOk DEF RowOk, eol_index
    <3>2. \A c \in 5 .. dfa_alphabet - 1 : c \in 0 .. dfa_alphabet - 1 /\ c \notin 0 .. 3
      BY <3>1
    <3> QED
      BY <2>3, <3>1, <3>2 DEF DfaRow
  <2> HIDE DEF row
  <2>6. RowOk(row)
    BY <2>5 DEF RowOk, eol_index, end_state_index
  <2> QED
    BY <1>2, <2>1, <2>4, <2>6 DEF NewRow
<1> QED
  BY <1>1, <1>2

(* Facts on the rows, one by one. *)
LEMMA RowsFacts ==
    ASSUME classes \in Seq(Parts), NEW n \in Nat, n >= 1, NEW rows, RowsOk(rows, n)
    PROVE  /\ rows \in Seq(DfaRow) /\ Len(rows) = n + 1 /\ DOMAIN rows = 1 .. n + 1
           /\ \A k \in 1 .. n + 1 : rows[k] \in DfaRow
           /\ 2 \in 1 .. n + 1 /\ 1 \in 1 .. n + 1
<1>1. rows \in Seq(DfaRow) /\ Len(rows) = n + 1
  BY DEF RowsOk
<1> QED
  BY <1>1

(* A row more. *)
LEMMA AppendRow ==
    ASSUME classes \in Seq(Parts), NEW n \in Nat, n >= 1, NEW rows, RowsOk(rows, n), NEW x,
           RowOk(x)
    PROVE  RowsOk(Append(rows, x), n + 1)
<1> DEFINE new == Append(rows, x)
<1>1. /\ rows \in Seq(DfaRow) /\ Len(rows) = n + 1
      /\ 2 \in 1 .. n + 1
  BY RowsFacts
<1>2. x \in DfaRow
  BY DEF RowOk
<1>3. /\ new \in Seq(DfaRow) /\ Len(new) = (n + 1) + 1
      /\ \A k \in 1 .. n + 1 : new[k] = rows[k]
      /\ new[(n + 1) + 1] = x
  BY <1>1, <1>2
<1> HIDE DEF new
<1>4. ASSUME NEW k \in 1 .. (n + 1) + 1, NEW c \in eol_index .. dfa_alphabet - 1
      PROVE  new[k][c] <= n + 1
  <2>1. CASE k \in 1 .. n + 1
    <3>1. rows[k][c] <= n
      BY <2>1 DEF RowsOk
    <3>2. rows[k][c] \in Int
      <4>1. rows[k] \in DfaRow
        BY <2>1, RowsFacts
      <4>2. c \in 0 .. dfa_alphabet - 1
        BY ColumnNumbers DEF eol_index
      <4>3. \A y \in DfaRow : y[c] \in Nat
        BY <4>2 DEF DfaRow
      <4> QED
        BY <4>1, <4>3
    <3> QED
      BY <1>3, <2>1, <3>1, <3>2
  <2>2. CASE k = (n + 1) + 1
    <3>1. x[c] = 0
      BY DEF RowOk
    <3> QED
      BY <1>3, <2>2, <3>1
  <2> QED
    BY <2>1, <2>2
<1>5. ASSUME NEW k \in 2 .. (n + 1) + 1
      PROVE  new[k][end_state_index] \in {0, 1}
  <2>1. CASE k \in 2 .. n + 1
    <3>1. k \in 1 .. n + 1
      BY <2>1
    <3> QED
      BY <1>3, <2>1, <3>1 DEF RowsOk
  <2>2. CASE k = (n + 1) + 1
    BY <1>3, <2>2 DEF RowOk
  <2> QED
    BY <2>1, <2>2
<1>6. new[2][end_state_index] = 0
  BY <1>1, <1>3 DEF RowsOk
<1>7. RowsOk(new, n + 1)
  BY <1>3, <1>4, <1>5, <1>6 DEF RowsOk
<1> QED
  BY <1>7 DEF new

(* A transition set. *)
LEMMA SetCell ==
    ASSUME classes \in Seq(Parts), NEW n \in Nat, n >= 1, NEW rows, RowsOk(rows, n),
           NEW k \in Nat,
           NEW c \in Int, c >= eol_index, NEW v \in Nat, v <= n
    PROVE  RowsOk([rows EXCEPT ![k][c] = v], n)
<1> DEFINE new == [rows EXCEPT ![k][c] = v]
<1>1. /\ rows \in Seq(DfaRow) /\ Len(rows) = n + 1 /\ DOMAIN rows = 1 .. n + 1
      /\ \A j \in 1 .. n + 1 : rows[j] \in DfaRow
      /\ 2 \in 1 .. n + 1
  BY RowsFacts
<1>2. \A x \in DfaRow : /\ [x EXCEPT ![c] = v] \in DfaRow
                        /\ [x EXCEPT ![c] = v][end_state_index] = x[end_state_index]
                        /\ \A d : [x EXCEPT ![c] = v][d] \in {v, x[d]}
                              \/ d \notin 0 .. dfa_alphabet - 1
  <2> SUFFICES ASSUME NEW x \in DfaRow
               PROVE  /\ [x EXCEPT ![c] = v] \in DfaRow
                      /\ [x EXCEPT ![c] = v][end_state_index] = x[end_state_index]
                      /\ \A d : [x EXCEPT ![c] = v][d] \in {v, x[d]}
                            \/ d \notin 0 .. dfa_alphabet - 1
    OBVIOUS
  <2> DEFINE y == [x EXCEPT ![c] = v]
  <2>1. y \in DfaRow /\ \A d \in 0 .. dfa_alphabet - 1 : y[d] = IF d = c THEN v ELSE x[d]
    BY DEF DfaRow
  <2>2. end_state_index # c
    BY DEF eol_index, end_state_index
  <2>3. y[end_state_index] = x[end_state_index]
    <3>1. CASE end_state_index \in 0 .. dfa_alphabet - 1
      BY <2>1, <2>2, <3>1
    <3>2. CASE end_state_index \notin 0 .. dfa_alphabet - 1
      <4>1. 0 .. dfa_alphabet - 1 = {}
        BY <3>2, ColumnNumbers DEF end_state_index
      <4>2. x = y
        BY <4>1 DEF DfaRow
      <4> QED
        BY <4>2
    <3> QED
      BY <3>1, <3>2
  <2> QED
    BY <2>1, <2>3
<1>3. /\ new \in Seq(DfaRow) /\ Len(new) = n + 1
      /\ \A j \in 1 .. n + 1 :
            new[j] = IF j = k THEN [rows[j] EXCEPT ![c] = v] ELSE rows[j]
  <2> DEFINE f == [j \in 1 .. n + 1 |-> IF j = k THEN [rows[j] EXCEPT ![c] = v] ELSE rows[j]]
  <2>1. new = f
    BY <1>1
  <2>2. f \in [1 .. n + 1 -> DfaRow]
    BY <1>1, <1>2
  <2> HIDE DEF f, new
  <2>3. f \in Seq(DfaRow) /\ Len(f) = n + 1
    BY <2>2
  <2> QED
    BY <2>1, <2>3 DEF f
<1> HIDE DEF new
<1>4. ASSUME NEW j \in 1 .. n + 1, NEW d \in eol_index .. dfa_alphabet - 1
      PROVE  new[j][d] <= n
  <2>1. rows[j][d] <= n
    BY DEF RowsOk
  <2>2. d \in 0 .. dfa_alphabet - 1
    BY ColumnNumbers DEF eol_index
  <2>3. [rows[j] EXCEPT ![c] = v][d] \in {v, rows[j][d]}
    BY <1>1, <1>2, <2>2
  <2> QED
    BY <1>3, <2>1, <2>3
<1>5. ASSUME NEW j \in 1 .. n + 1
      PROVE  new[j][end_state_index] = rows[j][end_state_index]
  BY <1>1, <1>2, <1>3
<1>6. \A j \in 2 .. n + 1 : j \in 1 .. n + 1
  OBVIOUS
<1>7. RowsOk(new, n)
  BY <1>1, <1>3, <1>4, <1>5, <1>6 DEF RowsOk
<1> QED
  BY <1>7 DEF new

(* The start of a line is kept in the first word of all. *)
LEMMA SetFirst ==
    ASSUME classes \in Seq(Parts), NEW n \in Nat, n >= 1, NEW rows, RowsOk(rows, n),
           NEW v \in Nat
    PROVE  RowsOk([rows EXCEPT ![1][0] = v], n)
<1> DEFINE new == [rows EXCEPT ![1][0] = v]
<1>1. /\ rows \in Seq(DfaRow) /\ Len(rows) = n + 1 /\ DOMAIN rows = 1 .. n + 1
      /\ \A j \in 1 .. n + 1 : rows[j] \in DfaRow
      /\ 2 \in 1 .. n + 1 /\ 1 \in 1 .. n + 1
  BY RowsFacts
<1>2. \A x \in DfaRow : /\ [x EXCEPT ![0] = v] \in DfaRow
                        /\ \A d \in 0 .. dfa_alphabet - 1 : d # 0 => [x EXCEPT ![0] = v][d] = x[d]
  BY DEF DfaRow
<1>3. /\ new \in Seq(DfaRow) /\ Len(new) = n + 1
      /\ \A j \in 1 .. n + 1 :
            new[j] = IF j = 1 THEN [rows[j] EXCEPT ![0] = v] ELSE rows[j]
  <2> DEFINE f == [j \in 1 .. n + 1 |-> IF j = 1 THEN [rows[j] EXCEPT ![0] = v] ELSE rows[j]]
  <2>1. new = f
    BY <1>1
  <2>2. f \in [1 .. n + 1 -> DfaRow]
    BY <1>1, <1>2
  <2> HIDE DEF f, new
  <2>3. f \in Seq(DfaRow) /\ Len(f) = n + 1
    BY <2>2
  <2> QED
    BY <2>1, <2>3 DEF f
<1> HIDE DEF new
<1>4. ASSUME NEW j \in 1 .. n + 1, NEW d \in eol_index .. dfa_alphabet - 1
      PROVE  new[j][d] <= n
  <2>1. rows[j][d] <= n
    BY DEF RowsOk
  <2>2. d \in 0 .. dfa_alphabet - 1 /\ d # 0
    BY ColumnNumbers DEF eol_index
  <2> DEFINE x == rows[j]
  <2>a. x \in DfaRow /\ new[j] = IF j = 1 THEN [x EXCEPT ![0] = v] ELSE x
    BY <1>1, <1>3
  <2> HIDE DEF x
  <2>b. [x EXCEPT ![0] = v][d] = x[d]
    BY <1>2, <2>2, <2>a
  <2>3. new[j][d] = rows[j][d]
    BY <2>a, <2>b DEF x
  <2> QED
    BY <2>1, <2>3
<1>5. \A j \in 2 .. n + 1 : j \in 1 .. n + 1 /\ new[j] = rows[j]
  BY <1>3
<1>6. 2 \in 2 .. n + 1
  OBVIOUS
<1>7. RowsOk(new, n)
  BY <1>1, <1>3, <1>4, <1>5, <1>6 DEF RowsOk
<1> QED
  BY <1>7 DEF new

-----------------------------------------------------------------------------
(* The machine as it grows.                                                *)

(* A machine of any shape, *)
AnyMachine == [dfa : Seq(DfaRow), seen : Seq(Seq(Places)), eol_set : SUBSET Nat,
               at : Nat]

(* and one whose rows lead to its states. *)
Machines == {m \in AnyMachine : /\ Len(m.seen) >= 1 /\ RowsOk(m.dfa, Len(m.seen))
                                /\ m.eol_set # {} => KnowsNewline}

(* One that is at a state. *)
Aimed == {m \in Machines : m.at \in 1 .. Len(m.seen)}

(* The fields of a machine. *)
LEMMA MachineFields ==
    ASSUME NEW m \in Machines
    PROVE  /\ m.dfa \in Seq(DfaRow) /\ m.seen \in Seq(Seq(Places))
           /\ m.eol_set \in SUBSET Nat /\ m.at \in Nat
           /\ Len(m.seen) \in Nat /\ Len(m.seen) >= 1 /\ RowsOk(m.dfa, Len(m.seen))
           /\ m.eol_set # {} => KnowsNewline
BY DEF Machines, AnyMachine

(* A machine at another state. *)
LEMMA AtChanged ==
    ASSUME NEW m \in Machines, NEW v
    PROVE  [m EXCEPT !.at = v]
              = [dfa |-> m.dfa, seen |-> m.seen, eol_set |-> m.eol_set, at |-> v]
<1>1. \E d, s, e, a : m = [dfa |-> d, seen |-> s, eol_set |-> e, at |-> a]
  BY DEF Machines, AnyMachine
<1>2. PICK d, s, e, a : m = [dfa |-> d, seen |-> s, eol_set |-> e, at |-> a]
  BY <1>1
<1>3. m.dfa = d /\ m.seen = s /\ m.eol_set = e /\ m.at = a
  BY <1>2
<1>4. [m EXCEPT !.at = v] = [dfa |-> d, seen |-> s, eol_set |-> e, at |-> v]
  BY <1>2
<1> QED
  BY <1>3, <1>4

(* With other rows, *)
LEMMA DfaChanged ==
    ASSUME NEW m \in Machines, NEW d
    PROVE  [m EXCEPT !.dfa = d]
              = [dfa |-> d, seen |-> m.seen, eol_set |-> m.eol_set, at |-> m.at]
<1>1. \E x, s, e, a : m = [dfa |-> x, seen |-> s, eol_set |-> e, at |-> a]
  BY DEF Machines, AnyMachine
<1>2. PICK x, s, e, a : m = [dfa |-> x, seen |-> s, eol_set |-> e, at |-> a]
  BY <1>1
<1>3. m.dfa = x /\ m.seen = s /\ m.eol_set = e /\ m.at = a
  BY <1>2
<1>4. [m EXCEPT !.dfa = d] = [dfa |-> d, seen |-> s, eol_set |-> e, at |-> a]
  BY <1>2
<1> QED
  BY <1>3, <1>4

(* with another set of ends of lines too, *)
LEMMA EolChanged ==
    ASSUME NEW m \in Machines, NEW d, NEW e
    PROVE  [m EXCEPT !.dfa = d, !.eol_set = e]
              = [dfa |-> d, seen |-> m.seen, eol_set |-> e, at |-> m.at]
<1>1. [m EXCEPT !.dfa = d, !.eol_set = e] = [[m EXCEPT !.dfa = d] EXCEPT !.eol_set = e]
  OBVIOUS
<1>2. [[dfa |-> d, seen |-> m.seen, eol_set |-> m.eol_set, at |-> m.at]
         EXCEPT !.eol_set = e]
        = [dfa |-> d, seen |-> m.seen, eol_set |-> e, at |-> m.at]
  OBVIOUS
<1> QED
  BY <1>1, <1>2, DfaChanged

(* and with a state more. *)
LEMMA SeenChanged ==
    ASSUME NEW m \in Machines, NEW s, NEW d, NEW v
    PROVE  \A S : [dfa |-> d, seen |-> s, eol_set |-> m.eol_set, at |-> v] \in S
                     => [m EXCEPT !.seen = s, !.dfa = d, !.at = v] \in S
<1>1. [m EXCEPT !.seen = s, !.dfa = d, !.at = v]
        = [[[m EXCEPT !.seen = s] EXCEPT !.dfa = d] EXCEPT !.at = v]
  OBVIOUS
<1>2. [m EXCEPT !.seen = s]
        = [dfa |-> m.dfa, seen |-> s, eol_set |-> m.eol_set, at |-> m.at]
  BY DEF Machines, AnyMachine
<1>3. [[dfa |-> m.dfa, seen |-> s, eol_set |-> m.eol_set, at |-> m.at]
         EXCEPT !.dfa = d]
        = [dfa |-> d, seen |-> s, eol_set |-> m.eol_set, at |-> m.at]
  OBVIOUS
<1>4. [[dfa |-> d, seen |-> s, eol_set |-> m.eol_set, at |-> m.at] EXCEPT !.at = v]
        = [dfa |-> d, seen |-> s, eol_set |-> m.eol_set, at |-> v]
  OBVIOUS
<1>5. [m EXCEPT !.seen = s, !.dfa = d, !.at = v]
        = [dfa |-> d, seen |-> s, eol_set |-> m.eol_set, at |-> v]
  BY <1>1, <1>2, <1>3, <1>4
<1> QED
  BY <1>5

(* A machine of such fields. *)
LEMMA MachineOf ==
    ASSUME NEW rows, NEW s \in Seq(Seq(Places)), NEW e \in SUBSET Nat, NEW a \in Nat,
           Len(s) >= 1, RowsOk(rows, Len(s)), e # {} => KnowsNewline
    PROVE  /\ [dfa |-> rows, seen |-> s, eol_set |-> e, at |-> a] \in Machines
           /\ a \in 1 .. Len(s) =>
                 [dfa |-> rows, seen |-> s, eol_set |-> e, at |-> a] \in Aimed
<1>1. rows \in Seq(DfaRow)
  BY DEF RowsOk
<1> QED
  BY <1>1 DEF Machines, AnyMachine, Aimed

(* The state of a set of nodes that was seen. *)
LEMMA StateOfSeen ==
    ASSUME NEW m, NEW nodes, StateOf(m, nodes) # 0
    PROVE  StateOf(m, nodes) \in DOMAIN m.seen
BY DEF StateOf

(* closure: the machine may grow by a state, and is at that of the nodes. *)
LEMMA ClosureTyped ==
    ASSUME Wood(node_ptr, LeafTokens), Small, MapOk, classes \in Seq(Parts),
           NEW m \in Machines, NEW fp \in Seq(Places)
    PROVE  /\ Closure(m, fp) \in Machines
           /\ Closure(m, fp).at # NPOS => Closure(m, fp) \in Aimed
<1> DEFINE nodes == Distinct(fp)
           known == StateOf(m, nodes)
<1>1. /\ m.dfa \in Seq(DfaRow) /\ m.seen \in Seq(Seq(Places))
      /\ m.eol_set \in SUBSET Nat /\ m.at \in Nat
      /\ Len(m.seen) \in Nat /\ Len(m.seen) >= 1 /\ RowsOk(m.dfa, Len(m.seen))
      /\ m.eol_set # {} => KnowsNewline
  BY MachineFields
<1>2. NPOS \in Nat
  BY ColumnNumbers
<1>3. nodes \in Seq(Places)
  BY DistinctTyped
<1> HIDE DEF nodes, known
<1>4. CASE fp = <<>>
  <2> DEFINE new == [dfa |-> m.dfa, seen |-> m.seen, eol_set |-> m.eol_set, at |-> NPOS]
  <2>1. Closure(m, fp) = [m EXCEPT !.at = NPOS]
    BY <1>4 DEF Closure
  <2>2. [m EXCEPT !.at = NPOS] = new
    BY AtChanged
  <2>3. new \in Machines
    BY <1>1, <1>2, MachineOf
  <2>4. new.at = NPOS
    OBVIOUS
  <2> HIDE DEF new
  <2> QED
    BY <2>1, <2>2, <2>3, <2>4
<1>5. CASE fp # <<>> /\ known # 0
  <2> DEFINE new == [dfa |-> m.dfa, seen |-> m.seen, eol_set |-> m.eol_set, at |-> known]
  <2>1. Closure(m, fp) = [m EXCEPT !.at = known]
    BY <1>5 DEF Closure, known, nodes
  <2>2. [m EXCEPT !.at = known] = new
    BY AtChanged
  <2>3. known \in 1 .. Len(m.seen)
    <3>1. known \in DOMAIN m.seen
      BY <1>5, StateOfSeen DEF known
    <3> QED
      BY <1>1, <3>1
  <2>4. known \in Nat
    BY <1>1, <2>3
  <2>5. new \in Machines /\ new \in Aimed
    BY <1>1, <2>3, <2>4, MachineOf
  <2> HIDE DEF new
  <2> QED
    BY <2>1, <2>2, <2>5
<1>6. CASE fp # <<>> /\ known = 0
  <2> DEFINE s == Append(m.seen, nodes)
             row == NewRow(nodes)
             rows == Append(m.dfa, row)
             k == Len(m.seen) + 1
             new == [dfa |-> rows, seen |-> s, eol_set |-> m.eol_set, at |-> k]
  <2>1. Closure(m, fp) = [m EXCEPT !.seen = s, !.dfa = rows, !.at = k]
    BY <1>1, <1>6 DEF Closure, known, nodes
  <2>3. s \in Seq(Seq(Places)) /\ Len(s) = Len(m.seen) + 1
    <3> DEFINE E == Seq(Places)
    <3>1. m.seen \in Seq(E) /\ nodes \in E
      BY <1>1, <1>3
    <3> HIDE DEF E
    <3>2. s \in Seq(E) /\ Len(s) = Len(m.seen) + 1
      BY <3>1
    <3> QED
      BY <3>2 DEF E
  <2>4. RowOk(row)
    BY <1>3, NewRowOk
  <2>5. RowsOk(rows, Len(m.seen) + 1)
    <3> DEFINE n == Len(m.seen)
               old == m.dfa
    <3>1. n \in Nat /\ n >= 1 /\ RowsOk(old, n)
      BY <1>1
    <3> HIDE DEF n, old, row
    <3>2. RowsOk(Append(old, row), n + 1)
      BY <2>4, <3>1, AppendRow
    <3> QED
      BY <3>2 DEF n, old
  <2>6. Len(s) >= 1 /\ k \in Nat /\ k \in 1 .. Len(s)
    BY <1>1, <2>3
  <2> HIDE DEF s, rows, k, row
  <2>7. RowsOk(rows, Len(s))
    BY <2>3, <2>5
  <2>8. new \in Machines /\ new \in Aimed
    BY <1>1, <2>3, <2>6, <2>7, MachineOf
  <2>10. [m EXCEPT !.seen = s, !.dfa = rows, !.at = k] \in Machines
    BY <2>8, SeenChanged
  <2>11. [m EXCEPT !.seen = s, !.dfa = rows, !.at = k] \in Aimed
    BY <2>8, SeenChanged
  <2> QED
    BY <2>1, <2>10, <2>11
<1> QED
  BY <1>4, <1>5, <1>6

(* The transition on the start of a line. *)
LEMMA OnBol ==
    ASSUME NEW m, NEW s, NEW i, BOL_TOKEN = i, EOL_TOKEN # i
    PROVE  SetTransition(m, s, i) = [m EXCEPT !.dfa[1][0] = m.at]
<1> DEFINE next == SetTransition(m, s, i)
           x == [m EXCEPT !.dfa[1][0] = m.at]
           y == [m EXCEPT !.dfa[s + 1][eol_index] = m.at, !.eol_set = @ \cup {s}]
           z == [m EXCEPT !.dfa[s + 1][i + transitions_index] = m.at]
<1>1. next = CASE i = BOL_TOKEN -> x [] i = EOL_TOKEN -> y [] OTHER -> z
  BY DEF SetTransition
<1> HIDE DEF next, x, y, z
<1>2. next = x
  BY <1>1
<1> QED
  BY <1>2 DEF next, x

(* One transition. *)
LEMMA SetTransitionTyped ==
    ASSUME Wood(node_ptr, LeafTokens), Small, MapOk, classes \in Seq(Parts), NEW s \in Nat,
           NEW m \in Aimed, NEW i \in Columns
    PROVE  SetTransition(m, s, i) \in Aimed
<1> DEFINE v == m.at
           n == Len(m.seen)
           rows == m.dfa
<1>0. m \in Machines
  BY DEF Aimed
<1>1. /\ rows \in Seq(DfaRow) /\ m.seen \in Seq(Seq(Places))
      /\ m.eol_set \in SUBSET Nat /\ v \in Nat
      /\ n \in Nat /\ n >= 1 /\ RowsOk(rows, n)
      /\ m.eol_set # {} => KnowsNewline
  BY MachineFields DEF Aimed
<1>2. v \in 1 .. n /\ v <= n
  BY <1>1 DEF Aimed
<1>3. NPOS \in Nat /\ NPOS > 258 /\ Len(classes) \in Nat
  BY ColumnNumbers
<1> HIDE DEF v, rows, n
<1>4. CASE i = BOL_TOKEN
  <2> DEFINE new == [rows EXCEPT ![1][0] = v]
  <2>1. SetTransition(m, s, i) = [m EXCEPT !.dfa = new]
    <3>1. SetTransition(m, s, i) = [m EXCEPT !.dfa[1][0] = m.at]
      <4>1. EOL_TOKEN # i
        BY <1>3, <1>4 DEF EOL_TOKEN, BOL_TOKEN
      <4> QED
        BY <1>4, <4>1, OnBol
    <3>2. [m EXCEPT !.dfa[1][0] = v] = [m EXCEPT !.dfa = new]
      BY DEF rows
    <3>3. v = m.at
      BY DEF v
    <3> QED
      BY <3>1, <3>2, <3>3
  <2>2. RowsOk(new, n)
    BY <1>1, SetFirst
  <2> HIDE DEF new
  <2> DEFINE out == [dfa |-> new, seen |-> m.seen, eol_set |-> m.eol_set, at |-> v]
  <2>3. [m EXCEPT !.dfa = new] = out
    BY <1>0, DfaChanged DEF v
  <2>4. out \in Aimed
    BY <1>1, <1>2, <2>2, MachineOf DEF n
  <2> HIDE DEF out
  <2> QED
    BY <2>1, <2>3, <2>4
<1>5. CASE i # BOL_TOKEN /\ i = EOL_TOKEN
  <2> DEFINE new == [rows EXCEPT ![s + 1][eol_index] = v]
             ends == m.eol_set \cup {s}
  <2>1. SetTransition(m, s, i) = [m EXCEPT !.dfa = new, !.eol_set = ends]
    <3>1. SetTransition(m, s, i)
            = [m EXCEPT !.dfa[s + 1][eol_index] = v, !.eol_set = @ \cup {s}]
      BY <1>5 DEF SetTransition, v
    <3>2. [m EXCEPT !.dfa[s + 1][eol_index] = v, !.eol_set = @ \cup {s}]
            = [m EXCEPT !.dfa = new, !.eol_set = ends]
      BY <1>1 DEF rows
    <3> QED
      BY <3>1, <3>2
  <2>2. RowsOk(new, n)
    <3>1. s + 1 \in Nat /\ eol_index \in Int /\ eol_index >= eol_index
      BY DEF eol_index
    <3> QED
      BY <1>1, <1>2, <3>1, SetCell
  <2>3. KnowsNewline
    <3>1. EOL_TOKEN \notin 0 .. Len(classes) - 1 /\ EOL_TOKEN # BOL_TOKEN
      BY <1>3 DEF Small, EOL_TOKEN, BOL_TOKEN
    <3> QED
      BY <1>5, <3>1 DEF Columns
  <2>4. ends \in SUBSET Nat
    BY <1>1
  <2> HIDE DEF new, ends
  <2> DEFINE out == [dfa |-> new, seen |-> m.seen, eol_set |-> ends, at |-> v]
  <2>5. [m EXCEPT !.dfa = new, !.eol_set = ends] = out
    BY <1>0, EolChanged DEF v
  <2>6. out \in Aimed
    BY <1>1, <1>2, <2>2, <2>3, <2>4, MachineOf DEF n
  <2> HIDE DEF out
  <2> QED
    BY <2>1, <2>5, <2>6
<1>6. CASE i # BOL_TOKEN /\ i # EOL_TOKEN
  <2> DEFINE c == i + transitions_index
             new == [rows EXCEPT ![s + 1][c] = v]
  <2>1. SetTransition(m, s, i) = [m EXCEPT !.dfa = new]
    <3>1. SetTransition(m, s, i) = [m EXCEPT !.dfa[s + 1][c] = v]
      BY <1>6 DEF SetTransition, v
    <3> HIDE DEF c
    <3>2. [m EXCEPT !.dfa[s + 1][c] = v] = [m EXCEPT !.dfa = new]
      BY <1>1 DEF rows
    <3> QED
      BY <3>1, <3>2
  <2>2. c \in Int /\ c >= eol_index /\ s + 1 \in Nat
    <3>1. i \in 0 .. Len(classes) - 1
      BY <1>6 DEF Columns
    <3> QED
      BY <1>3, <3>1 DEF transitions_index, eol_index
  <2> HIDE DEF c
  <2>3. RowsOk(new, n)
    BY <1>1, <1>2, <2>2, SetCell
  <2> HIDE DEF new
  <2> DEFINE out == [dfa |-> new, seen |-> m.seen, eol_set |-> m.eol_set, at |-> v]
  <2>4. [m EXCEPT !.dfa = new] = out
    BY <1>0, DfaChanged DEF v
  <2>5. out \in Aimed
    BY <1>1, <1>2, <2>3, MachineOf DEF n
  <2> HIDE DEF out
  <2> QED
    BY <2>1, <2>4, <2>5
<1> QED
  BY <1>4, <1>5, <1>6

(* The transitions on all numbers of an element, and on all elements.       *)
SetAll(m, s, L) == FoldLeft(LAMBDA x, i : SetTransition(x, s, i), m, L)

(* The transitions of all elements. *)
AddAll(m, s, L) == FoldLeft(LAMBDA st, set : AddEquivset(st, s, set), m, L)

(* The fold over the numbers of an element. *)
LEMMA TransitionsFold ==
    ASSUME Wood(node_ptr, LeafTokens), Small, MapOk, classes \in Seq(Parts), NEW s \in Nat,
           NEW m,
           NEW L \in Seq(Columns), m \in Aimed
    PROVE  \E g :
              /\ g \in [0 .. Len(L) -> Aimed]
              /\ g[0] = m
              /\ \A k \in 1 .. Len(L) : g[k] = SetTransition(g[k - 1], s, L[k])
              /\ SetAll(m, s, L) = g[Len(L)]
<1> DEFINE n == Len(L)
           Values == Aimed
           base == m
           step == [p \in (1 .. n) \X Values |-> SetTransition(p[2], s, L[p[1]])]
           Eq(f) == f = [T \in SUBSET DOMAIN L |->
                           IF T = {} THEN base
                           ELSE SetTransition(f[T \ {Max(T)}], s, L[Max(T)])]
           f == CHOOSE f : Eq(f)
<1>1. n \in Nat /\ DOMAIN L = 1 .. n /\ \A k \in 1 .. n : L[k] \in Columns
  OBVIOUS
<1>2. base \in Values
  OBVIOUS
<1>3. step \in StepFcn(n, Values)
  BY <1>1, SetTransitionTyped DEF StepFcn
<1> HIDE DEF n, Values, base
<1>4. \A i \in 1 .. n : \A x \in Values : step[<<i, x>>] = SetTransition(x, s, L[i])
  OBVIOUS
<1> HIDE DEF step
<1>5. PICK h : FoldsSets(h, n, Values, base, step)
  BY <1>1, <1>2, <1>3, SetRecursion
<1>6. Eq(h)
  <2>1. \A T \in SUBSET (1 .. n) : T # {} =>
           Max(T) \in 1 .. n /\ h[T \ {Max(T)}] \in Values
    BY <1>1, <1>5, MaxOfNumbers DEF FoldsSets
  <2>2. \A T \in SUBSET (1 .. n) : T # {} =>
           h[T] = SetTransition(h[T \ {Max(T)}], s, L[Max(T)])
    BY <1>4, <1>5, <2>1 DEF FoldsSets
  <2>3. h[{}] = base /\ h = [T \in SUBSET (1 .. n) |-> h[T]]
    BY <1>5 DEF FoldsSets
  <2> QED
    BY <1>1, <2>2, <2>3
<1>7. Eq(f)
  BY <1>6
<1> HIDE DEF f
<1>8. f[1 .. 0] = base
  BY <1>1, <1>7
<1>9. \A k \in 1 .. n : f[1 .. k] = SetTransition(f[1 .. k - 1], s, L[k])
  <2> TAKE k \in 1 .. n
  <2>1. /\ 1 .. k \in SUBSET DOMAIN L /\ 1 .. k # {}
        /\ Max(1 .. k) = k /\ (1 .. k) \ {k} = 1 .. k - 1
    BY <1>1, MaxOfPrefix
  <2>2. f[1 .. k] = SetTransition(f[(1 .. k) \ {Max(1 .. k)}], s, L[Max(1 .. k)])
    BY <1>7, <2>1
  <2> QED
    BY <2>1, <2>2
<1>10. \A k \in 1 .. n : f[1 .. k - 1] \in Values =>
          f[1 .. k] = step[<<k, f[1 .. k - 1]>>]
  BY <1>4, <1>9
<1>11. PICK g : Unrolls(g, n, Values, base, step) /\ g[n] = f[1 .. n]
  BY <1>1, <1>2, <1>3, <1>8, <1>10, FoldRun
<1>12. SetAll(m, s, L) = f[1 .. n]
  BY <1>1 DEF FoldLeft, MapThenFoldSet, f, base, SetAll
<1>13. \A k \in 1 .. n : g[k - 1] \in Values
  BY <1>1, <1>11 DEF Unrolls
<1> QED
  BY <1>4, <1>11, <1>12, <1>13 DEF Unrolls, n, Values, base

(* The transitions on an element. *)
LEMMA AddEquivsetTyped ==
    ASSUME Wood(node_ptr, LeafTokens), Small, MapOk, classes \in Seq(Parts), NEW s \in Nat,
           NEW m \in Machines, NEW set \in Equivsets
    PROVE  AddEquivset(m, s, set) \in Machines
<1> DEFINE closed == Closure(m, set.followpos)
           L == SetToSeq(set.indexes)
           all == SetAll(closed, s, L)
<1>1. set.indexes \in SUBSET Columns /\ set.followpos \in Seq(Places)
  BY EquivsetFields
<1>2. closed \in Machines /\ (closed.at # NPOS => closed \in Aimed)
  BY <1>1, ClosureTyped
<1>3. L \in Seq(Columns)
  <2>1. IsFiniteSet(Columns)
    <3>1. IsFiniteSet(0 .. Len(classes) - 1)
      <4>1. 0 \in Int /\ Len(classes) - 1 \in Int
        OBVIOUS
      <4> QED
        BY <4>1, FS_Interval
    <3>2. IsFiniteSet({BOL_TOKEN})
      BY FS_Singleton
    <3>3. IsFiniteSet(IF KnowsNewline THEN {EOL_TOKEN} ELSE {})
      <4>1. IsFiniteSet({EOL_TOKEN}) /\ IsFiniteSet({})
        BY FS_Singleton, FS_EmptySet
      <4> QED
        BY <4>1
    <3>4. IsFiniteSet((0 .. Len(classes) - 1) \cup {BOL_TOKEN})
      BY <3>1, <3>2, FS_Union
    <3> QED
      BY <3>3, <3>4, FS_Union DEF Columns
  <2>2. IsFiniteSet(set.indexes)
    BY <1>1, <2>1, FS_Subset
  <2>3. L \in Seq(set.indexes)
    BY <2>2, SeqOfSet
  <2> HIDE DEF L
  <2> QED
    BY <1>1, <2>3, SeqWider
<1> HIDE DEF closed, L
<1>4. CASE closed.at = NPOS \/ Pruned(closed, s, set.greedy)
  BY <1>2, <1>4 DEF AddEquivset, closed
<1>5. CASE ~ (closed.at = NPOS \/ Pruned(closed, s, set.greedy))
  <2>1. closed \in Aimed
    BY <1>2, <1>5
  <2>2. AddEquivset(m, s, set) = all
    BY <1>5 DEF AddEquivset, closed, L, SetAll
  <2>3. PICK g : g \in [0 .. Len(L) -> Aimed] /\ all = g[Len(L)]
    <3>1. \E g : SetAll(closed, s, L) = g[Len(L)] /\ g \in [0 .. Len(L) -> Aimed]
      BY <1>3, <2>1, TransitionsFold
    <3> QED
      BY <3>1
  <2>4. Len(L) \in 0 .. Len(L)
    BY <1>3
  <2>5. all \in Aimed
    BY <2>3, <2>4
  <2> HIDE DEF all
  <2> QED
    BY <2>2, <2>5 DEF Aimed
<1> QED
  BY <1>4, <1>5

(* The fold over the elements. *)
LEMMA EquivsetsFold ==
    ASSUME Wood(node_ptr, LeafTokens), Small, MapOk, classes \in Seq(Parts), NEW s \in Nat,
           NEW m,
           NEW L \in Seq(Equivsets), m \in Machines
    PROVE  \E g :
              /\ g \in [0 .. Len(L) -> Machines]
              /\ g[0] = m
              /\ \A k \in 1 .. Len(L) : g[k] = AddEquivset(g[k - 1], s, L[k])
              /\ AddAll(m, s, L) = g[Len(L)]
<1> DEFINE n == Len(L)
           Values == Machines
           base == m
           step == [p \in (1 .. n) \X Values |-> AddEquivset(p[2], s, L[p[1]])]
           Eq(f) == f = [T \in SUBSET DOMAIN L |->
                           IF T = {} THEN base
                           ELSE AddEquivset(f[T \ {Max(T)}], s, L[Max(T)])]
           f == CHOOSE f : Eq(f)
<1>1. n \in Nat /\ DOMAIN L = 1 .. n /\ \A k \in 1 .. n : L[k] \in Equivsets
  OBVIOUS
<1>2. base \in Values
  OBVIOUS
<1>3. step \in StepFcn(n, Values)
  BY <1>1, AddEquivsetTyped DEF StepFcn
<1> HIDE DEF n, Values, base
<1>4. \A i \in 1 .. n : \A x \in Values : step[<<i, x>>] = AddEquivset(x, s, L[i])
  OBVIOUS
<1> HIDE DEF step
<1>5. PICK h : FoldsSets(h, n, Values, base, step)
  BY <1>1, <1>2, <1>3, SetRecursion
<1>6. Eq(h)
  <2>1. \A T \in SUBSET (1 .. n) : T # {} =>
           Max(T) \in 1 .. n /\ h[T \ {Max(T)}] \in Values
    BY <1>1, <1>5, MaxOfNumbers DEF FoldsSets
  <2>2. \A T \in SUBSET (1 .. n) : T # {} =>
           h[T] = AddEquivset(h[T \ {Max(T)}], s, L[Max(T)])
    BY <1>4, <1>5, <2>1 DEF FoldsSets
  <2>3. h[{}] = base /\ h = [T \in SUBSET (1 .. n) |-> h[T]]
    BY <1>5 DEF FoldsSets
  <2> QED
    BY <1>1, <2>2, <2>3
<1>7. Eq(f)
  BY <1>6
<1> HIDE DEF f
<1>8. f[1 .. 0] = base
  BY <1>1, <1>7
<1>9. \A k \in 1 .. n : f[1 .. k] = AddEquivset(f[1 .. k - 1], s, L[k])
  <2> TAKE k \in 1 .. n
  <2>1. /\ 1 .. k \in SUBSET DOMAIN L /\ 1 .. k # {}
        /\ Max(1 .. k) = k /\ (1 .. k) \ {k} = 1 .. k - 1
    BY <1>1, MaxOfPrefix
  <2>2. f[1 .. k] = AddEquivset(f[(1 .. k) \ {Max(1 .. k)}], s, L[Max(1 .. k)])
    BY <1>7, <2>1
  <2> QED
    BY <2>1, <2>2
<1>10. \A k \in 1 .. n : f[1 .. k - 1] \in Values =>
          f[1 .. k] = step[<<k, f[1 .. k - 1]>>]
  BY <1>4, <1>9
<1>11. PICK g : Unrolls(g, n, Values, base, step) /\ g[n] = f[1 .. n]
  BY <1>1, <1>2, <1>3, <1>8, <1>10, FoldRun
<1>12. AddAll(m, s, L) = f[1 .. n]
  BY <1>1 DEF FoldLeft, MapThenFoldSet, f, base, AddAll
<1>13. \A k \in 1 .. n : g[k - 1] \in Values
  BY <1>1, <1>11 DEF Unrolls
<1> QED
  BY <1>4, <1>11, <1>12, <1>13 DEF Unrolls, n, Values, base

(* The transitions of a state. *)
LEMMA EquivsetsTyped ==
    ASSUME Wood(node_ptr, LeafTokens), Small, MapOk, classes \in Seq(Parts), NEW s \in Nat,
           NEW m \in Machines, NEW L \in Seq(Equivsets)
    PROVE  AddAll(m, s, L) \in Machines
<1> DEFINE all == AddAll(m, s, L)
<1>1. PICK g : g \in [0 .. Len(L) -> Machines] /\ all = g[Len(L)]
  BY EquivsetsFold
<1>2. Len(L) \in 0 .. Len(L)
  OBVIOUS
<1>3. all \in Machines
  BY <1>1, <1>2
<1> QED
  BY <1>3

-----------------------------------------------------------------------------
(* Clashes fixed.                                                          *)

(* Where ends of lines are known the newline has a column. *)
LEMMA NewlineColumn ==
    ASSUME DfaInv, pc = "closure", KnowsNewline
    PROVE  nl_class \in 0 .. Len(classes) - 1
<1>1. /\ PartsOk(classes) /\ rhs_list = <<>>
      /\ \A k \in 1 .. Len(charsets) : \A c :
            Has(classes, k - 1, c) \/ Has(rhs_list, k - 1, c) <=> c \in Chars(charsets[k])
      /\ charsets \in Seq(Classes)
  BY DEF DfaInv, Splitting, SplitSoFar, CompileInv, ParserInv, MapOk
<1>2. classes \in Seq(Parts) /\ Len(classes) \in Nat /\ DOMAIN classes = 1 .. Len(classes)
      /\ Len(charsets) \in Nat
  BY <1>1 DEF PartsOk
<1>3. nl_id \in Nat /\ nl_id + 1 \in 1 .. Len(charsets) /\ (nl_id + 1) - 1 = nl_id
      /\ charsets[nl_id + 1] = Single(10)
  BY <1>2 DEF KnowsNewline
<1>4. 10 \in Chars(Single(10))
  <2> DEFINE c == 10
             s == << <<c, c>> >>
  <2>1. c \in Nat
    OBVIOUS
  <2> HIDE DEF c
  <2>2. 1 \in DOMAIN s /\ s[1][1] = c /\ s[1][2] = c
    OBVIOUS
  <2>3. c \in s[1][1] .. s[1][2]
    BY <2>1, <2>2
  <2> HIDE DEF s
  <2>4. c \in Chars(s)
    <3>1. s[1] \in ToSet(s)
      BY <2>2 DEF ToSet
    <3> QED
      BY <2>3, <3>1 DEF Chars
  <2> QED
    BY <2>4 DEF c, s, Single
<1>5. ~ Has(rhs_list, nl_id, 10)
  BY <1>1 DEF Has
<1>6. Has(classes, nl_id, 10)
  <2> DEFINE k == nl_id + 1
             c == 10
  <2>1. k \in 1 .. Len(charsets) /\ k - 1 = nl_id /\ c \in Chars(charsets[k])
        /\ ~ Has(rhs_list, nl_id, c)
    BY <1>3, <1>4, <1>5
  <2> HIDE DEF k, c
  <2>2. Has(classes, nl_id, c)
    BY <1>1, <2>1
  <2> QED
    BY <2>2 DEF c
<1>7. PICK n \in 1 .. Len(classes) : nl_id \in classes[n].index_set
  BY <1>6 DEF Has, Piece
<1>8. n - 1 \in set_mapping(nl_id)
  BY <1>2, <1>7 DEF set_mapping
<1>9. nl_class \in set_mapping(nl_id)
  BY <1>8 DEF nl_class
<1>10. \A j \in set_mapping(nl_id) : j \in 0 .. Len(classes) - 1
  <2>1. \A j \in set_mapping(nl_id) : \E m \in 1 .. Len(classes) : j = m - 1
    BY <1>2 DEF set_mapping
  <2>2. \A m \in 1 .. Len(classes) : m - 1 \in 0 .. Len(classes) - 1
    BY <1>2
  <2> QED
    BY <2>1, <2>2
<1> QED
  BY <1>9, <1>10

(* The rows of n states. *)
RowsOf(n) == {r \in Seq(DfaRow) : RowsOk(r, n)}

(* One clash fixed leaves the rows as they have to be. *)
LEMMA FixClashTyped ==
    ASSUME classes \in Seq(Parts), eol_set # {} => nl_class \in 0 .. Len(classes) - 1,
           NEW n \in Nat, n >= 1, NEW rows \in RowsOf(n), NEW s \in 1 .. n
    PROVE  FixClash(rows, s) \in RowsOf(n)
<1> DEFINE nl == transitions_index + nl_class
           eol == rows[s + 1][eol_index]
           nl_state == rows[s + 1][nl]
           cleared == [rows EXCEPT ![s + 1][nl] = 0]
           moved == [cleared EXCEPT ![eol + 1][nl] = nl_state]
<1>1. rows \in RowsOf(n) /\ RowsOk(rows, n)
  BY DEF RowsOf
<1>2. CASE s \notin eol_set \/ nl_state = 0
  <2>1. FixClash(rows, s) = rows
    BY <1>2 DEF FixClash
  <2> QED
    BY <1>1, <2>1
<1>3. CASE s \in eol_set /\ nl_state # 0
  <2>1. nl \in Int /\ nl >= eol_index /\ nl \in eol_index .. dfa_alphabet - 1
        /\ eol_index \in eol_index .. dfa_alphabet - 1
    <3>1. nl_class \in 0 .. Len(classes) - 1
      BY <1>3
    <3> QED
      BY <3>1, ColumnNumbers DEF transitions_index, eol_index
  <2>2. s + 1 \in 1 .. n + 1 /\ s + 1 \in Nat
    OBVIOUS
  <2> HIDE DEF nl
  <2>3. eol <= n /\ nl_state <= n
    BY <1>1, <2>1, <2>2 DEF RowsOk
  <2>4. eol \in Nat /\ nl_state \in Nat
    <3>1. rows[s + 1] \in DfaRow
      BY <1>1, <2>2, RowsFacts
    <3>2. \A c \in eol_index .. dfa_alphabet - 1 : c \in 0 .. dfa_alphabet - 1
      BY ColumnNumbers DEF eol_index
    <3> QED
      BY <2>1, <3>1, <3>2 DEF DfaRow
  <2>5. RowsOk(cleared, n)
    <3> DEFINE zero == 0
    <3>1. zero \in Nat /\ zero <= n
      OBVIOUS
    <3> HIDE DEF zero
    <3>2. RowsOk([rows EXCEPT ![s + 1][nl] = zero], n)
      BY <1>1, <2>1, <2>2, <3>1, SetCell
    <3> QED
      BY <3>2 DEF zero
  <2>6. eol + 1 \in Nat
    BY <2>4
  <2> DEFINE to == eol + 1
  <2>7. to \in Nat
    BY <2>6
  <2> HIDE DEF cleared, nl_state, eol, to
  <2>8. RowsOk([cleared EXCEPT ![to][nl] = nl_state], n)
    BY <2>1, <2>3, <2>4, <2>5, <2>7, SetCell
  <2>9. FixClash(rows, s) = cleared \/ FixClash(rows, s) = moved
    BY <1>3 DEF FixClash, cleared, nl_state, eol, nl
  <2>10. RowsOk(moved, n)
    BY <2>8 DEF to
  <2> HIDE DEF moved
  <2>11. RowsOk(FixClash(rows, s), n)
    BY <2>5, <2>9, <2>10
  <2> QED
    BY <2>11 DEF RowsOf, RowsOk
<1> QED
  BY <1>2, <1>3

(* The fold over the states. *)
LEMMA ClashesFold ==
    ASSUME classes \in Seq(Parts), eol_set # {} => nl_class \in 0 .. Len(classes) - 1,
           NEW top \in Nat, top >= 1, NEW rows,
           NEW L \in Seq(1 .. top), rows \in RowsOf(top)
    PROVE  \E g :
              /\ g \in [0 .. Len(L) -> RowsOf(top)]
              /\ g[0] = rows
              /\ \A k \in 1 .. Len(L) : g[k] = FixClash(g[k - 1], L[k])
              /\ FoldLeft(FixClash, rows, L) = g[Len(L)]
<1> DEFINE n == Len(L)
           Values == RowsOf(top)
           base == rows
           step == [p \in (1 .. n) \X Values |-> FixClash(p[2], L[p[1]])]
           Eq(f) == f = [T \in SUBSET DOMAIN L |->
                           IF T = {} THEN base
                           ELSE FixClash(f[T \ {Max(T)}], L[Max(T)])]
           f == CHOOSE f : Eq(f)
<1>1. n \in Nat /\ DOMAIN L = 1 .. n /\ \A k \in 1 .. n : L[k] \in 1 .. top
  OBVIOUS
<1>2. base \in Values
  OBVIOUS
<1>3. step \in StepFcn(n, Values)
  BY <1>1, FixClashTyped DEF StepFcn
<1> HIDE DEF n, Values, base
<1>4. \A i \in 1 .. n : \A x \in Values : step[<<i, x>>] = FixClash(x, L[i])
  OBVIOUS
<1> HIDE DEF step
<1>5. PICK h : FoldsSets(h, n, Values, base, step)
  BY <1>1, <1>2, <1>3, SetRecursion
<1>6. Eq(h)
  <2>1. \A T \in SUBSET (1 .. n) : T # {} =>
           Max(T) \in 1 .. n /\ h[T \ {Max(T)}] \in Values
    BY <1>1, <1>5, MaxOfNumbers DEF FoldsSets
  <2>2. \A T \in SUBSET (1 .. n) : T # {} =>
           h[T] = FixClash(h[T \ {Max(T)}], L[Max(T)])
    BY <1>4, <1>5, <2>1 DEF FoldsSets
  <2>3. h[{}] = base /\ h = [T \in SUBSET (1 .. n) |-> h[T]]
    BY <1>5 DEF FoldsSets
  <2> QED
    BY <1>1, <2>2, <2>3
<1>7. Eq(f)
  BY <1>6
<1> HIDE DEF f
<1>8. f[1 .. 0] = base
  BY <1>1, <1>7
<1>9. \A k \in 1 .. n : f[1 .. k] = FixClash(f[1 .. k - 1], L[k])
  <2> TAKE k \in 1 .. n
  <2>1. /\ 1 .. k \in SUBSET DOMAIN L /\ 1 .. k # {}
        /\ Max(1 .. k) = k /\ (1 .. k) \ {k} = 1 .. k - 1
    BY <1>1, MaxOfPrefix
  <2>2. f[1 .. k] = FixClash(f[(1 .. k) \ {Max(1 .. k)}], L[Max(1 .. k)])
    BY <1>7, <2>1
  <2> QED
    BY <2>1, <2>2
<1>10. \A k \in 1 .. n : f[1 .. k - 1] \in Values =>
          f[1 .. k] = step[<<k, f[1 .. k - 1]>>]
  BY <1>4, <1>9
<1>11. PICK g : Unrolls(g, n, Values, base, step) /\ g[n] = f[1 .. n]
  BY <1>1, <1>2, <1>3, <1>8, <1>10, FoldRun
<1>12. FoldLeft(FixClash, rows, L) = f[1 .. n]
  BY <1>1 DEF FoldLeft, MapThenFoldSet, f, base
<1>13. \A k \in 1 .. n : g[k - 1] \in Values
  BY <1>1, <1>11 DEF Unrolls
<1> QED
  BY <1>4, <1>11, <1>12, <1>13 DEF Unrolls, n, Values, base

(* All of them. *)
LEMMA ClashesTyped ==
    ASSUME classes \in Seq(Parts), eol_set # {} => nl_class \in 0 .. Len(classes) - 1,
           NEW n \in Nat, n >= 1, RowsOk(dfa, n), DOMAIN seen = 1 .. n
    PROVE  RowsOk(FoldLeft(FixClash, dfa, [s \in DOMAIN seen |-> s]), n)
<1> DEFINE L == [s \in DOMAIN seen |-> s]
           states == 1 .. n
<1>1. L \in Seq(states)
  OBVIOUS
<1>2. dfa \in RowsOf(n)
  BY DEF RowsOf, RowsOk
<1>3. Len(L) \in 0 .. Len(L)
  BY <1>1
<1> HIDE DEF L
<1>4. PICK g : FoldLeft(FixClash, dfa, L) = g[Len(L)] /\ g \in [0 .. Len(L) -> RowsOf(n)]
  BY <1>1, <1>2, ClashesFold
<1>5. FoldLeft(FixClash, dfa, L) \in RowsOf(n)
  BY <1>3, <1>4
<1> QED
  BY <1>5 DEF RowsOf, L

-----------------------------------------------------------------------------
(* The trees side by side.                                                 *)

(* A tree of trees that are there. *)
JoinedTrees(ns, st, T) ==
    Wood(st.nodes, T) /\ Begins(st.nodes, st.root) /\ Grows(ns, st.nodes, 0)

(* One more tree beside those joined. *)
LEMMA BesideMore ==
    ASSUME NPOS \in Nat, NEW ns, NEW T, Wood(ns, T), NEW st, JoinedTrees(ns, st, T),
           NEW top, Begins(ns, top)
    PROVE  JoinedTrees(ns, SideBySide(st, top), T)
<1> DEFINE new == SideBySide(st, top)
<1>1. Len(st.nodes) \in Nat
  BY BuiltNodes DEF JoinedTrees, Wood
<1>2. Begins(st.nodes, top)
  BY <1>1, BeginsGrows DEF JoinedTrees
<1>3. Wood(new.nodes, T) /\ Begins(new.nodes, new.root) /\ Grows(st.nodes, new.nodes, 0)
  BY <1>2, SideBySideOk DEF JoinedTrees
<1> HIDE DEF new
<1>4. Grows(ns, new.nodes, 0)
  <2> DEFINE lo == 0
             I == Nat
  <2>1. Built(ns, lo, I, T) /\ Built(st.nodes, lo, I, T) /\ Built(new.nodes, lo, I, T)
        /\ Grows(ns, st.nodes, lo) /\ Grows(st.nodes, new.nodes, lo)
    BY <1>3 DEF Wood, JoinedTrees
  <2> HIDE DEF lo, I
  <2>2. Grows(ns, new.nodes, lo)
    BY <2>1, GrowsMore
  <2> QED
    BY <2>2 DEF lo
<1>5. JoinedTrees(ns, new, T)
  BY <1>3, <1>4 DEF JoinedTrees
<1> QED
  BY <1>5 DEF new

(* All trees beside the first. *)
LEMMA BesideBuilt ==
    ASSUME NPOS \in Nat, NEW ns, NEW T, Wood(ns, T), NEW n \in Nat, NEW L, DOMAIN L = 1 .. n,
           \A k \in 1 .. n : Begins(ns, L[k]), NEW top, Begins(ns, top)
    PROVE  JoinedTrees(ns, BesideAll([nodes |-> ns, root |-> top], L), T)
<1> DEFINE base == [nodes |-> ns, root |-> top]
           all == BesideAll(base, L)
<1>1. base.nodes = ns /\ base.root = top
  OBVIOUS
<1> HIDE DEF base
<1>2. JoinedTrees(ns, base, T)
  <2> DEFINE lo == 0
             I == Nat
  <2>1. Built(ns, lo, I, T)
    BY DEF Wood
  <2> HIDE DEF lo, I
  <2>2. Grows(ns, ns, lo)
    BY <2>1, GrowsSame
  <2> QED
    BY <1>1, <2>2 DEF lo, JoinedTrees
<1>3. PICK g : /\ g[0] = base
               /\ \A k \in 1 .. n : g[k] = SideBySide(g[k - 1], L[k])
               /\ BesideAll(base, L) = g[n]
  BY SideBySideFold
<1> DEFINE P == {k \in 0 .. n : JoinedTrees(ns, g[k], T)}
<1>4. 0 \in P
  BY <1>2, <1>3
<1>5. ASSUME NEW i \in 0 .. n, i \in P, i < n
      PROVE  i + 1 \in P
  <2>1. i + 1 \in 1 .. n /\ (i + 1) - 1 = i /\ i + 1 \in 0 .. n
    BY <1>5
  <2>2. g[i + 1] = SideBySide(g[i], L[i + 1])
    BY <1>3, <2>1
  <2>3. JoinedTrees(ns, g[i], T) /\ Begins(ns, L[i + 1])
    BY <1>5, <2>1
  <2>4. JoinedTrees(ns, SideBySide(g[i], L[i + 1]), T)
    BY <2>3, BesideMore
  <2> QED
    BY <2>1, <2>2, <2>4
<1>6. 0 .. n \subseteq P
  <2> HIDE DEF P
  <2> QED
    BY <1>4, <1>5, RangeInduction
<1>7. JoinedTrees(ns, g[n], T)
  BY <1>6
<1> QED
  BY <1>3, <1>7 DEF base

(* The tree of all the rules is there, and no rule is over where it begins. *)
Wooded == Wood(node_ptr, LeafTokens) /\ Begins(node_ptr, root)

(* Joining the trees of the rules makes one tree of them all. *)
LEMMA JoinTreesWood ==
    ASSUME RegexesOk, TreeInv, JoinTrees
    PROVE  Wooded'
<1>1. /\ pc = "trees" /\ UNCHANGED <<charsets, nl_id>>
      /\ node_ptr' = FoldLeft(SideBySide, [nodes |-> node_ptr, root |-> Head(roots)],
                              Tail(roots)).nodes
      /\ root' = FoldLeft(SideBySide, [nodes |-> node_ptr, root |-> Head(roots)],
                          Tail(roots)).root
  BY DEF JoinTrees
<1>2. \A k \in 1 .. Len(roots) : regexes[k].id \in Nat
  <2>1. Len(roots) = Len(regexes)
    BY <1>1 DEF TreeInv
  <2>2. PICK R : regexes \in Seq(R) /\ \A x \in R : Stored(x.tokens) /\ x.id \in Nat
    BY DEF RegexesOk
  <2> QED
    BY <2>1, <2>2
<1>3. /\ Wood(node_ptr, LeafTokens) /\ roots # <<>>
      /\ \A k \in 1 .. Len(roots) : Begins(node_ptr, roots[k])
  BY <1>1, <1>2, AllBuilt
<1> DEFINE n == Len(roots) - 1
           L == Tail(roots)
           top == Head(roots)
           joined == BesideAll([nodes |-> node_ptr, root |-> top], L)
<1>4. /\ n \in Nat /\ DOMAIN L = 1 .. n /\ top = roots[1] /\ 1 \in 1 .. Len(roots)
      /\ \A k \in 1 .. n : k + 1 \in 1 .. Len(roots) /\ L[k] = roots[k + 1]
  BY <1>3 DEF TreeInv
<1>5. Begins(node_ptr, top) /\ \A k \in 1 .. n : Begins(node_ptr, L[k])
  BY <1>3, <1>4
<1>6. node_ptr' = joined.nodes /\ root' = joined.root
  BY <1>1 DEF BesideAll
<1>7. LeafTokens' = LeafTokens
  BY <1>1, TokensStay
<1>8. NPOS \in Nat
  BY WordAssumption
<1> DEFINE T == LeafTokens
<1>9. Wood(node_ptr, T)
  BY <1>3
<1> HIDE DEF n, L, top, T
<1>10. JoinedTrees(node_ptr, joined, T)
  BY <1>4, <1>5, <1>8, <1>9, BesideBuilt
<1> HIDE DEF joined
<1>11. Wood(node_ptr', T) /\ Begins(node_ptr', root')
  BY <1>6, <1>10 DEF JoinedTrees
<1>12. Wood(node_ptr', LeafTokens')
  BY <1>7, <1>11 DEF T
<1> QED
  BY <1>11, <1>12 DEF Wooded, Wood, Begins

-----------------------------------------------------------------------------
(* The states.                                                             *)

(* The rows of the first state. *)
LEMMA FirstRows ==
    ASSUME classes \in Seq(Parts), NEW x, RowOk(x), x[end_state_index] = 0
    PROVE  RowsOk(<<EmptyRow, x>>, 1)
<1> DEFINE e == EmptyRow
           rows == <<e, x>>
           one == 1
           two == 2
<1>1. RowOk(e)
  BY EmptyRowOk
<1> HIDE DEF e
<1>2. /\ e \in DfaRow /\ x \in DfaRow
      /\ \A c \in eol_index .. dfa_alphabet - 1 : e[c] = 0 /\ x[c] = 0
      /\ x[end_state_index] \in {0, 1}
  BY <1>1 DEF RowOk
<1>3. rows \in Seq(DfaRow)
  <2> DEFINE S == DfaRow
  <2>1. e \in S /\ x \in S
    BY <1>2
  <2> HIDE DEF S
  <2>2. rows \in Seq(S)
    BY <2>1
  <2> QED
    BY <2>2 DEF S
<1>4. Len(rows) = one + 1 /\ rows[1] = e /\ rows[2] = x
  OBVIOUS
<1>5. \A k \in 1 .. one + 1 : k = 1 \/ k = 2
  OBVIOUS
<1>6. \A k \in 2 .. one + 1 : k = 2
  OBVIOUS
<1> HIDE DEF rows
<1>7. ASSUME NEW k \in 1 .. one + 1, NEW c \in eol_index .. dfa_alphabet - 1
      PROVE  rows[k][c] <= one
  BY <1>2, <1>4, <1>5
<1>8. \A k \in 2 .. one + 1 : rows[k][end_state_index] \in {0, 1}
  BY <1>2, <1>4, <1>6
<1>9. RowsOk(rows, one)
  <2> HIDE DEF one
  <2> QED
    BY <1>3, <1>4, <1>7, <1>8 DEF RowsOk
<1> QED
  BY <1>9 DEF rows, e

(* An element more behind one, *)
LEMMA AppendToOne ==
    ASSUME NEW a, NEW b
    PROVE  Append(<<a>>, b) = <<a, b>>
<1> DEFINE S == {a, b}
           s == <<a>>
           new == Append(s, b)
           two == <<a, b>>
<1>1. s \in Seq(S) /\ b \in S /\ Len(s) = 1 /\ s[1] = a
  OBVIOUS
<1>2. two \in Seq(S) /\ Len(two) = 2 /\ two[1] = a /\ two[2] = b
  OBVIOUS
<1> HIDE DEF S, s, two
<1>3. new \in Seq(S) /\ Len(new) = 2 /\ new[1] = a /\ new[2] = b
  <2>0. s \in Seq(S) /\ b \in S /\ Len(s) \in Nat
    BY <1>1
  <2>1. new \in Seq(S) /\ Len(new) = Len(s) + 1 /\ new[Len(s) + 1] = b
    BY <2>0
  <2>2. \A i \in 1 .. Len(s) : new[i] = s[i]
    BY <2>0
  <2>3. 1 \in 1 .. Len(s)
    BY <1>1
  <2> QED
    BY <1>1, <2>1, <2>2, <2>3
<1> HIDE DEF new
<1>4. new = two
  BY <1>2, <1>3
<1> QED
  BY <1>4 DEF new, two, s

(* and to none. *)
LEMMA AppendToNone ==
    ASSUME NEW b
    PROVE  Append(<<>>, b) = <<b>>
OBVIOUS

(* A machine that is over. *)
Resting(m) == [dfa |-> m.dfa, seen |-> m.seen, eol_set |-> m.eol_set, at |-> 0]

(* A machine between two states is one. *)
LEMMA RestingOk ==
    ASSUME NEW m \in Machines
    PROVE  Resting(m) \in Machines
<1> DEFINE zero == 0
           rows == m.dfa
           s == m.seen
           e == m.eol_set
<1>1. /\ zero \in Nat /\ s \in Seq(Seq(Places)) /\ e \in SUBSET Nat
      /\ Len(s) >= 1 /\ RowsOk(rows, Len(s)) /\ (e # {} => KnowsNewline)
  BY MachineFields
<1> HIDE DEF zero, rows, s, e
<1>2. [dfa |-> rows, seen |-> s, eol_set |-> e, at |-> zero] \in Machines
  BY <1>1, MachineOf
<1> QED
  BY <1>2 DEF zero, rows, s, e, Resting

(* The 'jam' state and the first state. *)
LEMMA BeginTyped ==
    ASSUME Wooded, classes \in Seq(Parts), seen = <<>>, eol_set = {}
    PROVE  Resting(Closure([Machine EXCEPT !.dfa = <<EmptyRow>>], node_ptr[root].firstpos))
              \in Machines
<1> DEFINE m == [Machine EXCEPT !.dfa = <<EmptyRow>>]
           fp == node_ptr[root].firstpos
           nodes == Distinct(fp)
           row == NewRow(nodes)
           new == Closure(m, fp)
<1>1. m.dfa = <<EmptyRow>> /\ m.seen = <<>> /\ m.eol_set = {}
      /\ m = [dfa |-> <<EmptyRow>>, seen |-> <<>>, eol_set |-> {}, at |-> 0]
  <2> DEFINE x == <<EmptyRow>>
             zero == 0
             none == {}
             y == <<>>
  <2>1. Machine = [dfa |-> dfa, seen |-> y, eol_set |-> none, at |-> zero]
    BY DEF Machine
  <2> HIDE DEF x, zero, none, y
  <2>2. [Machine EXCEPT !.dfa = x] = [dfa |-> x, seen |-> y, eol_set |-> none, at |-> zero]
    BY <2>1
  <2>3. /\ [Machine EXCEPT !.dfa = x].dfa = x /\ [Machine EXCEPT !.dfa = x].seen = y
        /\ [Machine EXCEPT !.dfa = x].eol_set = none
    BY <2>2
  <2> QED
    BY <2>2, <2>3 DEF x, zero, none, y
<1>2. fp # <<>> /\ root \in 1 .. Len(node_ptr)
      /\ \A j \in DOMAIN fp : node_ptr[fp[j]].kind # "END"
  BY DEF Wooded, Begins
<1>3. fp \in Seq(Places)
  <2>1. Built(node_ptr, 0, Nat, LeafTokens) /\ root \in 0 + 1 .. Len(node_ptr)
    BY <1>2 DEF Wooded, Wood
  <2>2. fp \in Positions(0, Len(node_ptr))
    BY <2>1, BuiltNodes DEF Linked
  <2>3. 0 + 1 .. Len(node_ptr) = Places
    BY DEF Places
  <2> QED
    BY <2>2, <2>3 DEF Positions
<1> HIDE DEF fp
<1> DEFINE P == {n \in Places : ~ IsEnd(n)}
<1>4. fp \in Seq(P)
  <2>1. \A j \in DOMAIN fp : fp[j] \in P
    BY <1>2, <1>3 DEF IsEnd
  <2> HIDE DEF P
  <2> QED
    BY <1>3, <2>1
<1>5. nodes \in Seq(P) /\ nodes \in Seq(Places)
  <2>1. nodes \in Seq(P)
    <3> HIDE DEF P
    <3> QED
      BY <1>4, DistinctTyped
  <2>2. nodes \in Seq(Places)
    BY <1>3, DistinctTyped
  <2> QED
    BY <2>1, <2>2
<1>6. \A j \in DOMAIN nodes : ~ IsEnd(nodes[j])
  BY <1>5
<1> HIDE DEF nodes
<1>7. RowOk(row) /\ row[end_state_index] = 0
  BY <1>5, <1>6, NewRowOk DEF Wooded
<1>8. StateOf(m, nodes) = 0
  <2>1. {k \in DOMAIN m.seen : ToSet(m.seen[k]) = ToSet(nodes)} = {}
    BY <1>1
  <2> QED
    BY <2>1 DEF StateOf
<1> HIDE DEF row, m
<1>9. new = [m EXCEPT !.seen = Append(m.seen, nodes), !.dfa = Append(m.dfa, row),
                      !.at = Len(m.seen) + 1]
  BY <1>2, <1>8 DEF Closure, nodes, row
<1>10. /\ new.seen = Append(m.seen, nodes) /\ new.dfa = Append(m.dfa, row)
       /\ new.eol_set = m.eol_set
  <2> DEFINE s == Append(m.seen, nodes)
             d == Append(m.dfa, row)
             a == Len(m.seen) + 1
  <2>1. new = [m EXCEPT !.seen = s, !.dfa = d, !.at = a]
    BY <1>9
  <2> HIDE DEF s, d, a, new
  <2>2. new = [[[m EXCEPT !.seen = s] EXCEPT !.dfa = d] EXCEPT !.at = a]
    BY <2>1
  <2>3. new.seen = s /\ new.dfa = d /\ new.eol_set = m.eol_set
    BY <1>1, <2>2
  <2> QED
    BY <2>3 DEF s, d
<1> HIDE DEF new
<1> DEFINE rows == <<EmptyRow, row>>
           s == <<nodes>>
           one == 1
<1>11. new.dfa = rows /\ new.seen = s /\ new.eol_set = {}
  <2> DEFINE e == EmptyRow
  <2>1. m.dfa = <<e>> /\ m.seen = <<>> /\ m.eol_set = {}
    BY <1>1
  <2> HIDE DEF e
  <2>2. Append(<<e>>, row) = <<e, row>> /\ Append(<<>>, nodes) = <<nodes>>
    BY AppendToOne, AppendToNone
  <2>3. new.dfa = <<e, row>> /\ new.seen = <<nodes>> /\ new.eol_set = {}
    BY <1>10, <2>1, <2>2
  <2> QED
    BY <2>3 DEF e
<1>12. RowsOk(rows, one)
  BY <1>7, FirstRows
<1>13. s \in Seq(Seq(Places)) /\ Len(s) = one
  <2> DEFINE E == Seq(Places)
  <2>1. nodes \in E
    BY <1>5
  <2> HIDE DEF E
  <2>2. s \in Seq(E) /\ Len(s) = one
    BY <2>1
  <2> QED
    BY <2>2 DEF E
<1>14. one >= 1
  OBVIOUS
<1> DEFINE zero == 0
           none == {}
<1>15. zero \in Nat /\ none \in SUBSET Nat /\ (none # {} => KnowsNewline)
  OBVIOUS
<1> HIDE DEF rows, s, one, zero, none
<1>16. [dfa |-> rows, seen |-> s, eol_set |-> none, at |-> zero] \in Machines
  BY <1>12, <1>13, <1>14, <1>15, MachineOf
<1> QED
  BY <1>11, <1>16 DEF zero, none, Resting, new, m, fp

(* The transitions of one state. *)
LEMMA BuildTyped ==
    ASSUME Wooded, Small, MapOk, classes \in Seq(Parts), Machine \in Machines,
           index \in Nat, index < Len(seen)
    PROVE  Resting(FoldLeft(LAMBDA st, set : AddEquivset(st, index + 1, set),
                            Machine, EquivList(seen[index + 1]))) \in Machines
<1> DEFINE L == EquivList(seen[index + 1])
           s == index + 1
           all == FoldLeft(LAMBDA st, set : AddEquivset(st, index + 1, set), Machine, L)
<1>1. seen \in Seq(Seq(Places))
  <2>1. Machine.seen \in Seq(Seq(Places)) /\ Machine.seen = seen
    <3>1. Machine.seen = seen
      BY DEF Machine
    <3> QED
      BY <3>1, MachineFields
  <2> QED
    BY <2>1
<1>2. seen[index + 1] \in Seq(Places) /\ s \in Nat
  <2> DEFINE E == Seq(Places)
  <2>1. seen \in Seq(E) /\ index + 1 \in 1 .. Len(seen)
    BY <1>1
  <2> HIDE DEF E
  <2>2. seen[index + 1] \in E
    BY <2>1
  <2> QED
    BY <2>2 DEF E
<1>3. L \in Seq(Equivsets)
  BY <1>2, EquivListTyped DEF Wooded
<1>4. all = AddAll(Machine, s, L)
  BY DEF AddAll
<1> HIDE DEF L, s, all
<1>5. AddAll(Machine, s, L) \in Machines
  BY <1>2, <1>3, EquivsetsTyped DEF Wooded
<1>6. Resting(all) \in Machines
  BY <1>4, <1>5, RestingOk
<1> QED
  BY <1>6 DEF all, L

-----------------------------------------------------------------------------
(* The invariant of the generator.                                         *)

(* What the rows and the trees are made from stays. *)
Still == UNCHANGED <<node_ptr, root, classes, charsets, nl_id>>

(* What is said of the tree stays while it does. *)
LEMMA StillSame ==
    ASSUME Still
    PROVE  /\ Small' = Small /\ Wooded' = Wooded
           /\ dfa_alphabet' = dfa_alphabet /\ EmptyRow' = EmptyRow /\ lookup' = lookup
           /\ Machines' = Machines
           /\ \A r, n : RowsOk(r, n)' = RowsOk(r, n)
<1>1. UNCHANGED <<node_ptr, root, classes, charsets, nl_id>>
  BY DEF Still
<1>2. Small' = Small /\ KnowsNewline' = KnowsNewline /\ Places' = Places
  BY <1>1 DEF Small, KnowsNewline, Places, EOL_TOKEN
<1>3. LeafTokens' = LeafTokens
  BY <1>1, TokensStay
<1>4. Wooded' = Wooded
  BY <1>1, <1>3 DEF Wooded, Wood, Begins
<1>5. dfa_alphabet' = dfa_alphabet /\ lookup' = lookup
  BY <1>1 DEF dfa_alphabet, lookup
<1>6. EmptyRow' = EmptyRow /\ DfaRow' = DfaRow
  BY <1>5 DEF EmptyRow, DfaRow
<1>7. \A r, n : RowsOk(r, n)' = RowsOk(r, n)
  BY <1>5, <1>6 DEF RowsOk
<1>8. AnyMachine' = AnyMachine
  BY <1>2, <1>6 DEF AnyMachine
<1>9. Machines' = Machines
  BY <1>2, <1>7, <1>8 DEF Machines
<1> QED
  BY <1>2, <1>4, <1>5, <1>6, <1>7, <1>9

(* Where the tree of all the rules is used. *)
Grown == {"partition", "closure", "reassemble", "done"}

(* What holds of the generator: the machine, and the table made of it. *)
TableInv ==
    /\ DfaInv
    /\ TreeInv
    /\ index \in Nat
    /\ pc \in Grown => Wooded
    /\ pc \in {"closure", "reassemble", "done"} => classes \in Seq(Parts)
    /\ pc \in Reads \cup Parses \cup {"trees", "partition"} =>
          seen = <<>> /\ eol_set = {} /\ index = 0
    /\ pc = "closure" /\ Small => Machine \in Machines
    /\ pc \in {"reassemble", "done"} /\ Small =>
          Len(seen) \in Nat /\ Len(seen) >= 1 /\ RowsOk(dfa, Len(seen))
    /\ pc = "done" => graph = Reassembled /\ Len(dfa) < 65535

(* The generator adds no tree of a rule. *)
LEMMA DfaKeepsTrees ==
    ASSUME TreeInv, DfaNext
    PROVE  TreeInv'
<1>1. UNCHANGED roots /\ pc' \in DfaPlaces
  <2> DEFINE Same == UNCHANGED roots /\ pc' \in DfaPlaces
  <2>1. JoinTrees => Same
    BY DEF JoinTrees, DfaPlaces
  <2>2. PartitionCharset => Same
    BY DEF PartitionCharset, DfaPlaces, parserVars
  <2>3. BeginStates => Same
    BY DEF BeginStates, DfaPlaces, parserVars
  <2>4. BuildState => Same
    BY DEF BuildState, DfaPlaces, parserVars
  <2>5. FixClashes => Same
    BY DEF FixClashes, DfaPlaces, parserVars
  <2>6. Reassemble => Same
    BY DEF Reassemble, DfaPlaces, parserVars
  <2>7. ReassembleFails => Same
    BY DEF ReassembleFails, DfaPlaces, parserVars
  <2> HIDE DEF Same
  <2>8. Same
    BY <2>1, <2>2, <2>3, <2>4, <2>5, <2>6, <2>7 DEF DfaNext
  <2> QED
    BY <2>8 DEF Same
<1>2. pc' \notin Reads /\ pc' \notin Parses \cup {"trees"} /\ pc' # "shift"
      /\ pc' # "parse" /\ pc' # "trees"
  BY <1>1 DEF DfaPlaces, Reads, Parses
<1> QED
  BY <1>1, <1>2 DEF TreeInv

(* The trees joined, *)
LEMMA JoinTable ==
    ASSUME TableInv, JoinTrees
    PROVE  TableInv'
<1>1. /\ pc = "trees" /\ pc' = "partition" /\ UNCHANGED <<seen, eol_set, index>>
  BY DEF JoinTrees
<1>2. DfaNext
  BY DEF DfaNext
<1>3. DfaInv'
  BY <1>2, DfaStep DEF TableInv
<1>4. TreeInv'
  BY <1>2, DfaKeepsTrees DEF TableInv
<1>5. Wooded'
  BY JoinTreesWood DEF TableInv, DfaInv, CompileInv, RulesInv
<1>6. seen = <<>> /\ eol_set = {} /\ index = 0
  BY <1>1 DEF TableInv
<1> QED
  BY <1>1, <1>3, <1>4, <1>5, <1>6 DEF TableInv

(* a set split, *)
LEMMA PartitionTable ==
    ASSUME TableInv, PartitionCharset
    PROVE  TableInv'
<1>1. /\ pc = "partition" /\ pc' = "partition" /\ UNCHANGED <<seen, eol_set, index, root>>
      /\ UNCHANGED <<node_ptr, charsets, nl_id>>
  BY DEF PartitionCharset, parserVars, treeVars
<1>2. DfaNext
  BY DEF DfaNext
<1>3. DfaInv'
  BY <1>2, DfaStep DEF TableInv
<1>4. TreeInv'
  BY <1>2, DfaKeepsTrees DEF TableInv
<1>5. Wooded'
  <2>1. LeafTokens' = LeafTokens
    BY <1>1, TokensStay
  <2>2. Wooded
    BY <1>1 DEF TableInv, Grown
  <2> QED
    BY <1>1, <2>1, <2>2 DEF Wooded, Wood, Begins
<1>6. seen = <<>> /\ eol_set = {} /\ index = 0
  BY <1>1 DEF TableInv
<1> QED
  BY <1>1, <1>3, <1>4, <1>5, <1>6 DEF TableInv

(* What a machine is that another one is made the state by. *)
LEMMA MachineSet ==
    ASSUME NEW m, SetMachine(m), Resting(m) \in Machines, Still
    PROVE  (Machine \in Machines)'
<1>1. Machine' = Resting(m)
  BY DEF SetMachine, Machine, Resting
<1>2. Machines' = Machines
  BY StillSame
<1> QED
  BY <1>1, <1>2

(* the first state, *)
LEMMA BeginTable ==
    ASSUME TableInv, BeginStates
    PROVE  TableInv'
<1>1. /\ pc = "partition" /\ pc' = "closure" /\ UNCHANGED index /\ Still
  BY DEF BeginStates, parserVars, treeVars, Still
<1>2. DfaNext
  BY DEF DfaNext
<1>3. DfaInv'
  BY <1>2, DfaStep DEF TableInv
<1>4. TreeInv'
  BY <1>2, DfaKeepsTrees DEF TableInv
<1>5. Wooded /\ classes \in Seq(Parts) /\ seen = <<>> /\ eol_set = {} /\ index = 0
  <2>1. pc \in Grown /\ pc \in Splitting
    BY <1>1 DEF Grown, Splitting
  <2>2. SplitSoFar
    BY <2>1 DEF TableInv, DfaInv
  <2> QED
    BY <1>1, <2>1, <2>2 DEF TableInv, SplitSoFar, PartsOk
<1>6. Wooded' /\ classes' \in Seq(Parts)
  <2>1. Wooded' = Wooded /\ classes' = classes
    BY <1>1, StillSame DEF Still
  <2> QED
    BY <1>5, <2>1
<1>7. (Machine \in Machines)'
  <2> DEFINE m == Closure([Machine EXCEPT !.dfa = <<EmptyRow>>], node_ptr[root].firstpos)
  <2>1. SetMachine(m)
    BY DEF BeginStates
  <2>2. Resting(m) \in Machines
    BY <1>5, BeginTyped
  <2> HIDE DEF m
  <2> QED
    BY <1>1, <2>1, <2>2, MachineSet
<1>8. index' \in Nat
  BY <1>1, <1>5
<1>9. pc' \notin Reads \cup Parses \cup {"trees", "partition"}
  BY <1>1 DEF Reads, Parses
<1> QED
  BY <1>1, <1>3, <1>4, <1>6, <1>7, <1>8, <1>9 DEF TableInv

(* the transitions of a state, *)
LEMMA BuildTable ==
    ASSUME TableInv, BuildState
    PROVE  TableInv'
<1>1. /\ pc = "closure" /\ pc' = "closure" /\ index' = index + 1 /\ Still
      /\ index < Len(seen)
  BY DEF BuildState, parserVars, treeVars, Still
<1>2. DfaNext
  BY DEF DfaNext
<1>3. DfaInv'
  BY <1>2, DfaStep DEF TableInv
<1>4. TreeInv'
  BY <1>2, DfaKeepsTrees DEF TableInv
<1>5. /\ Wooded /\ classes \in Seq(Parts) /\ index \in Nat /\ MapOk
      /\ (Small => Machine \in Machines)
  <2>1. pc \in Grown
    BY <1>1 DEF Grown
  <2> QED
    BY <1>1, <2>1 DEF TableInv, DfaInv, CompileInv, ParserInv
<1>6. Wooded' /\ classes' \in Seq(Parts)
  <2>1. Wooded' = Wooded /\ classes' = classes
    BY <1>1, StillSame DEF Still
  <2> QED
    BY <1>5, <2>1
<1>7. Small' => (Machine \in Machines)'
  <2> SUFFICES ASSUME Small'
               PROVE  (Machine \in Machines)'
    OBVIOUS
  <2>0. Small
    BY <1>1, StillSame
  <2> DEFINE m == FoldLeft(LAMBDA st, set : AddEquivset(st, index + 1, set),
                           Machine, EquivList(seen[index + 1]))
  <2>1. SetMachine(m)
    BY DEF BuildState
  <2>2. Resting(m) \in Machines
    BY <1>1, <1>5, <2>0, BuildTyped
  <2> HIDE DEF m
  <2> QED
    BY <1>1, <2>1, <2>2, MachineSet
<1>8. index' \in Nat
  BY <1>1, <1>5
<1>9. pc' \notin Reads \cup Parses \cup {"trees", "partition"}
  BY <1>1 DEF Reads, Parses
<1> QED
  BY <1>1, <1>3, <1>4, <1>6, <1>7, <1>8, <1>9 DEF TableInv

(* What is reassembled stays while what it is made from does. *)
LEMMA SameReassembled ==
    ASSUME Still, UNCHANGED dfa
    PROVE  Reassembled' = Reassembled
<1>1. lookup' = lookup /\ EmptyRow' = EmptyRow
  BY StillSame
<1> QED
  BY <1>1 DEF Reassembled

(* the clashes fixed, *)
LEMMA FixTable ==
    ASSUME TableInv, FixClashes
    PROVE  TableInv'
<1>1. /\ pc = "closure" /\ pc' = "reassemble" /\ UNCHANGED <<index, seen>> /\ Still
      /\ dfa' = FoldLeft(FixClash, dfa, [s \in DOMAIN seen |-> s])
  BY DEF FixClashes, parserVars, treeVars, Still
<1>2. DfaNext
  BY DEF DfaNext
<1>3. DfaInv'
  BY <1>2, DfaStep DEF TableInv
<1>4. TreeInv'
  BY <1>2, DfaKeepsTrees DEF TableInv
<1>5. /\ Wooded /\ classes \in Seq(Parts) /\ index \in Nat /\ DfaInv
      /\ (Small => Machine \in Machines)
  <2>1. pc \in Grown
    BY <1>1 DEF Grown
  <2> QED
    BY <1>1, <2>1 DEF TableInv
<1>6. Wooded' /\ classes' \in Seq(Parts)
  <2>1. Wooded' = Wooded /\ classes' = classes
    BY <1>1, StillSame DEF Still
  <2> QED
    BY <1>5, <2>1
<1>7. Small' => Len(seen') \in Nat /\ Len(seen') >= 1 /\ RowsOk(dfa, Len(seen))'
  <2> SUFFICES ASSUME Small'
               PROVE  Len(seen') \in Nat /\ Len(seen') >= 1 /\ RowsOk(dfa, Len(seen))'
    OBVIOUS
  <2>0. Small
    BY <1>1, StillSame
  <2>1. Machine.dfa = dfa /\ Machine.seen = seen /\ Machine.eol_set = eol_set
    BY DEF Machine
  <2>2. /\ seen \in Seq(Seq(Places)) /\ Len(seen) \in Nat /\ Len(seen) >= 1
        /\ RowsOk(dfa, Len(seen)) /\ (eol_set # {} => KnowsNewline)
    <3> DEFINE m == Machine
    <3>1. m \in Machines
      BY <1>5, <2>0
    <3> HIDE DEF m
    <3>2. /\ m.seen \in Seq(Seq(Places)) /\ Len(m.seen) \in Nat /\ Len(m.seen) >= 1
          /\ RowsOk(m.dfa, Len(m.seen)) /\ (m.eol_set # {} => KnowsNewline)
      BY <3>1, MachineFields
    <3> QED
      BY <2>1, <3>2 DEF m
  <2>3. eol_set # {} => nl_class \in 0 .. Len(classes) - 1
    BY <1>1, <1>5, <2>2, NewlineColumn
  <2> DEFINE n == Len(seen)
             new == FoldLeft(FixClash, dfa, [s \in DOMAIN seen |-> s])
  <2>4. DOMAIN seen = 1 .. n
    <3> DEFINE E == Seq(Places)
    <3>1. seen \in Seq(E)
      BY <2>2
    <3> HIDE DEF E
    <3> QED
      BY <3>1
  <2>5. n \in Nat /\ n >= 1 /\ RowsOk(dfa, n)
    BY <2>2
  <2> HIDE DEF n
  <2>6. RowsOk(new, n)
    BY <1>5, <2>3, <2>4, <2>5, ClashesTyped
  <2> HIDE DEF new
  <2>7. dfa' = new /\ Len(seen') = n
    BY <1>1 DEF new, n
  <2>9. DfaRow' = DfaRow /\ dfa_alphabet' = dfa_alphabet
    BY <1>1, StillSame DEF DfaRow
  <2>10. RowsOk(dfa, Len(seen))'
    BY <2>6, <2>7, <2>9 DEF RowsOk
  <2> QED
    BY <2>5, <2>7, <2>10
<1>8. index' \in Nat
  BY <1>1, <1>5
<1>9. pc' \notin Reads \cup Parses \cup {"trees", "partition"} /\ pc' # "done"
      /\ pc' # "closure"
  BY <1>1 DEF Reads, Parses
<1> QED
  BY <1>1, <1>3, <1>4, <1>6, <1>7, <1>8, <1>9 DEF TableInv

(* the table made, *)
LEMMA ReassembleTable ==
    ASSUME TableInv, Reassemble
    PROVE  TableInv'
<1>1. /\ pc = "reassemble" /\ pc' = "done" /\ UNCHANGED <<index, seen, dfa>> /\ Still
      /\ graph' = Reassembled /\ Len(dfa) < 65535
  BY DEF Reassemble, parserVars, treeVars, Still
<1>2. DfaNext
  BY DEF DfaNext
<1>3. DfaInv'
  BY <1>2, DfaStep DEF TableInv
<1>4. TreeInv'
  BY <1>2, DfaKeepsTrees DEF TableInv
<1>5. /\ Wooded /\ classes \in Seq(Parts) /\ index \in Nat
      /\ (Small => Len(seen) \in Nat /\ Len(seen) >= 1 /\ RowsOk(dfa, Len(seen)))
  <2>1. pc \in Grown
    BY <1>1 DEF Grown
  <2> QED
    BY <1>1, <2>1 DEF TableInv
<1>6. Wooded' /\ classes' \in Seq(Parts) /\ Small' = Small
  <2>1. Wooded' = Wooded /\ classes' = classes /\ Small' = Small
    BY <1>1, StillSame DEF Still
  <2> QED
    BY <1>5, <2>1
<1>7. RowsOk(dfa, Len(seen))' = RowsOk(dfa, Len(seen))
  <2>1. DfaRow' = DfaRow /\ dfa_alphabet' = dfa_alphabet
    BY <1>1, StillSame DEF DfaRow
  <2> QED
    BY <1>1, <2>1 DEF RowsOk
<1>8. Small' => Len(seen') \in Nat /\ Len(seen') >= 1 /\ RowsOk(dfa, Len(seen))'
  BY <1>1, <1>5, <1>6, <1>7
<1>9. graph' = Reassembled' /\ Len(dfa') < 65535
  BY <1>1, SameReassembled
<1>10. index' \in Nat
  BY <1>1, <1>5
<1>11. pc' \notin Reads \cup Parses \cup {"trees", "partition"} /\ pc' # "closure"
  BY <1>1 DEF Reads, Parses
<1> QED
  BY <1>3, <1>4, <1>6, <1>8, <1>9, <1>10, <1>11 DEF TableInv

(* or not. *)
LEMMA FailTable ==
    ASSUME TableInv, ReassembleFails
    PROVE  TableInv'
<1>1. pc' = "error" /\ UNCHANGED index
  BY DEF ReassembleFails, dfaVars
<1>2. DfaNext
  BY DEF DfaNext
<1>3. DfaInv' /\ TreeInv'
  BY <1>2, DfaStep, DfaKeepsTrees DEF TableInv
<1>4. /\ pc' \notin Reads \cup Parses \cup {"trees", "partition"} /\ pc' \notin Grown
      /\ pc' \notin {"closure", "reassemble", "done"}
      /\ pc' # "closure" /\ pc' # "done" /\ pc' # "reassemble"
  BY <1>1 DEF Reads, Parses, Grown
<1> QED
  BY <1>1, <1>3, <1>4 DEF TableInv

(* The reader and the parser, *)
LEMMA ParseTable ==
    ASSUME TableInv, ParseStep, UNCHANGED dfaVars
    PROVE  TableInv'
<1>1. /\ pc \in Reads \cup Parses
      /\ pc' \in Reads \cup Parses \cup {"trees", "error", "abort"}
  <2>1. CASE RulesNext /\ UNCHANGED parserVars
    BY <2>1, ReaderPlaces DEF Parses
  <2>2. CASE ParserNext /\ UNCHANGED ruleVars
    BY <2>2, ParserPlaces
  <2> QED
    BY <2>1, <2>2 DEF ParseStep
<1>2. DfaInv'
  <2>1. RegexNext
    BY DEF RegexNext
  <2> QED
    BY <2>1, RegexStep DEF TableInv
<1>3. TreeInv'
  BY TreesStep, ReaderTrees DEF ParseStep, TableInv, DfaInv
<1>4. UNCHANGED <<seen, eol_set, index>> /\ seen = <<>> /\ eol_set = {} /\ index = 0
  BY <1>1 DEF TableInv, dfaVars
<1>5. /\ pc' \notin Grown /\ pc' \notin {"closure", "reassemble", "done"}
      /\ pc' # "closure" /\ pc' # "done" /\ pc' # "reassemble"
  BY <1>1 DEF Reads, Parses, Grown
<1> QED
  BY <1>2, <1>3, <1>4, <1>5 DEF TableInv

(* and where nothing happens. *)
LEMMA SameTable ==
    ASSUME TableInv, UNCHANGED allVars
    PROVE  TableInv'
<1>1. /\ Still /\ UNCHANGED <<pc, seen, dfa, index, graph, eol_set, roots>>
      /\ UNCHANGED <<node_ptr, tree_stack, rule, regexes, rules, charsets, nl_id, token_stack,
                    next_token>>
  BY DEF allVars, dfaVars, parserVars, treeVars, Still, ruleVars, rules
<1>2. DfaInv'
  BY RegexStep DEF TableInv
<1>3. TreeInv'
  <2>1. LeafTokens' = LeafTokens /\ tree' = tree /\ Base' = Base /\ \A k : Low(k)' = Low(k)
    BY <1>1, TokensStay DEF tree, Low, Base
  <2>2. RulesOk' = RulesOk /\ StackTrees' = StackTrees
    BY <1>1, <2>1 DEF RulesOk, StackTrees
  <2>3. DepthInv' = DepthInv
    <3>1. Ready' = Ready
      BY <1>1 DEF Ready, rhs_token, rule_tokens
    <3> QED
      BY <1>1, <3>1 DEF DepthInv
  <2> QED
    BY <1>1, <2>2, <2>3 DEF TreeInv, TableInv
<1>4. /\ Wooded' = Wooded /\ Machines' = Machines /\ Small' = Small /\ classes' = classes
      /\ Machine' = Machine
  BY <1>1, StillSame DEF Still, Machine
<1>5. RowsOk(dfa, Len(seen))' = RowsOk(dfa, Len(seen))
  <2>1. DfaRow' = DfaRow /\ dfa_alphabet' = dfa_alphabet
    BY <1>1, StillSame DEF DfaRow
  <2> QED
    BY <1>1, <2>1 DEF RowsOk
<1>6. Reassembled' = Reassembled
  BY <1>1, SameReassembled
<1> QED
  BY <1>1, <1>2, <1>3, <1>4, <1>5, <1>6 DEF TableInv

(* The invariant holds at the start, *)
LEMMA TableInitially == RegexInit => TableInv
<1> SUFFICES ASSUME RegexInit
             PROVE  TableInv
  OBVIOUS
<1>1. DfaInv /\ TreeInv
  BY DfaInitially, NoTreesYet DEF RegexInit
<1>2. /\ pc = "rule" /\ seen = <<>> /\ eol_set = {} /\ index = 0
  BY DEF RegexInit, ParseInit, RulesInit, DfaInit
<1>3. pc \notin Grown /\ pc \notin {"closure", "reassemble", "done"}
  BY <1>2 DEF Grown
<1>4. pc # "closure" /\ pc # "done"
  BY <1>2
<1> QED
  BY <1>1, <1>2, <1>3, <1>4 DEF TableInv

(* and in every step. *)
LEMMA TableStep == TableInv /\ [RegexNext]_allVars => TableInv'
<1>1. TableInv /\ ParseStep /\ UNCHANGED dfaVars => TableInv'
  BY ParseTable
<1>2. TableInv /\ DfaNext => TableInv'
  BY JoinTable, PartitionTable, BeginTable, BuildTable, FixTable, ReassembleTable, FailTable
     DEF DfaNext
<1>3. TableInv /\ UNCHANGED allVars => TableInv'
  BY SameTable
<1> QED
  BY <1>1, <1>2, <1>3 DEF RegexNext, Ended

-----------------------------------------------------------------------------
(* The walks.                                                              *)

(* The table of a machine whose numbers mean nothing else. *)
Working == /\ classes \in Seq(Parts) /\ Len(classes) < 256
           /\ Len(seen) \in Nat /\ Len(seen) >= 1 /\ RowsOk(dfa, Len(seen))
           /\ graph = Reassembled /\ Len(dfa) < 65535

(* The columns of the characters. *)
LEMMA ColumnOf ==
    ASSUME classes \in Seq(Parts), Len(classes) < 256, NEW c \in Char
    PROVE  /\ lookup[c] \in Nat /\ lookup[c] >= dead_state_index
           /\ lookup[c] \in eol_index .. dfa_alphabet - 1
           /\ lookup[c] \in 0 .. dfa_alphabet - 1
           /\ dead_state_index + ((lookup[c] - dead_state_index) % 256) = lookup[c]
<1> DEFINE col == lookup[c]
           k == CHOOSE k \in DOMAIN classes : c \in Chars(classes[k].token)
<1>1. Len(classes) \in Nat /\ DOMAIN classes = 1 .. Len(classes)
  OBVIOUS
<1>2. col = dead_state_index \/ (col = transitions_index - 1 + k /\ k \in DOMAIN classes)
  <2>1. CASE \E j \in DOMAIN classes : c \in Chars(classes[j].token)
    <3>1. k \in DOMAIN classes
      BY <2>1
    <3>2. col = transitions_index - 1 + k
      BY <2>1 DEF lookup
    <3> QED
      BY <3>1, <3>2
  <2>2. CASE ~ \E j \in DOMAIN classes : c \in Chars(classes[j].token)
    BY <2>2 DEF lookup
  <2> QED
    BY <2>1, <2>2
<1> HIDE DEF k, col
<1>3. col \in Nat /\ col >= 6 /\ col <= 6 + Len(classes)
  <2>1. k \in DOMAIN classes => k \in Nat /\ k >= 1 /\ k <= Len(classes)
    BY <1>1
  <2> QED
    BY <1>1, <1>2, <2>1 DEF transitions_index, dead_state_index
<1>4. Len(classes) + 7 <= dfa_alphabet /\ dfa_alphabet \in Nat
  BY ColumnNumbers
<1>5. col - 6 \in 0 .. 255
  BY <1>1, <1>3
<1>6. (col - 6) % 256 = col - 6
  <2> DEFINE d == col - 6
  <2>1. d \in 0 .. 255
    BY <1>5
  <2> HIDE DEF d
  <2>2. d % 256 = d
    BY <2>1
  <2> QED
    BY <2>2 DEF d
<1>7. 6 + ((col - 6) % 256) = col
  BY <1>3, <1>6
<1>8. col \in 5 .. dfa_alphabet - 1 /\ col \in 0 .. dfa_alphabet - 1
  BY <1>1, <1>3, <1>4
<1>9. dead_state_index + ((col - dead_state_index) % 256) = col
  BY <1>7 DEF dead_state_index
<1> QED
  BY <1>3, <1>8, <1>9 DEF dead_state_index, eol_index, col

(* What fits in a word stays as it is. *)
LEMMA FitsInWord ==
    ASSUME NEW n \in Nat, n < 65536
    PROVE  Ushort(n) = n
<1>1. n % 65536 = n
  OBVIOUS
<1> QED
  BY <1>1 DEF Ushort

(* A word of the table: a transition counts from the row behind the jam    *)
(* state's,                                                                *)
LEMMA TransitionWord ==
    ASSUME NEW row, NEW c \in Nat, c >= dead_state_index, NEW v \in Nat, v < 65535,
           row[c] = v
    PROVE  TableWord(row, c) = IF v = 0 THEN 0 ELSE v - 1
<1> DEFINE A == c >= dead_state_index /\ row[c] > 0
           a1 == Ushort(row[c] - 1)
           a2 == Ushort(row[id_index])
           a3 == row[id_index] \div 65536
           a4 == Ushort(row[c])
           word == TableWord(row, c)
<1>1. c # id_index /\ c # user_id_index
  BY DEF dead_state_index, id_index, user_id_index
<1>2. word = CASE A -> a1 [] c = id_index -> a2 [] c = user_id_index -> a3 [] OTHER -> a4
  BY DEF TableWord
<1>3. A <=> v > 0
  OBVIOUS
<1>4. a1 = Ushort(v - 1) /\ a4 = Ushort(v)
  OBVIOUS
<1> HIDE DEF A, a1, a2, a3, a4, word
<1>5. CASE v = 0
  <2>1. Ushort(v) = v
    BY <1>5, FitsInWord
  <2>2. ~ A
    BY <1>3, <1>5
  <2>3. word = a4
    BY <1>1, <1>2, <2>2
  <2> QED
    BY <1>4, <1>5, <2>1, <2>3 DEF word
<1>6. CASE v # 0
  <2> DEFINE d == v - 1
  <2>1. d \in Nat /\ d < 65536 /\ v > 0
    BY <1>6
  <2> HIDE DEF d
  <2>2. Ushort(d) = d
    BY <2>1, FitsInWord
  <2>3. word = a1
    BY <1>1, <1>2, <1>3, <2>1
  <2> QED
    BY <1>4, <1>6, <2>2, <2>3 DEF word, d
<1> QED
  BY <1>5, <1>6

(* and the id is four bytes. *)
LEMMA IdWords ==
    ASSUME NEW row, row[id_index] \in Nat, row[end_state_index] \in {0, 1}
    PROVE  /\ TableWord(row, id_index) + 65536 * TableWord(row, user_id_index) = row[id_index]
           /\ TableWord(row, id_index) \in Nat /\ TableWord(row, user_id_index) \in Nat
           /\ TableWord(row, end_state_index) = row[end_state_index]
<1>1. /\ ~ id_index >= dead_state_index /\ ~ user_id_index >= dead_state_index
      /\ ~ end_state_index >= dead_state_index
      /\ id_index # user_id_index /\ end_state_index # id_index
      /\ end_state_index # user_id_index
  BY DEF id_index, user_id_index, end_state_index, dead_state_index
<1> DEFINE id == row[id_index]
           end == row[end_state_index]
<1>2. TableWord(row, id_index) = id % 65536
  BY <1>1 DEF TableWord, Ushort
<1>3. TableWord(row, user_id_index) = id \div 65536
  BY <1>1 DEF TableWord
<1>4. TableWord(row, end_state_index) = end % 65536
  BY <1>1 DEF TableWord, Ushort
<1>5. end % 65536 = end
  <2>1. end = 0 \/ end = 1
    OBVIOUS
  <2> HIDE DEF end
  <2> QED
    BY <2>1
<1>6. (id % 65536) + 65536 * (id \div 65536) = id /\ id % 65536 \in Nat /\ id \div 65536 \in Nat
  <2>1. id \in Nat
    OBVIOUS
  <2> HIDE DEF id
  <2> QED
    BY <2>1
<1> QED
  BY <1>2, <1>3, <1>4, <1>5, <1>6

(* The row of a state is the one before. *)
LEMMA RowOfState ==
    ASSUME Working, NEW s \in 1 .. Len(seen)
    PROVE  /\ dfa[s + 1] \in DfaRow /\ s + 1 \in 1 .. Len(dfa)
           /\ \A c \in 0 .. dfa_alphabet - 1 :
                 graph.nextTable[(s - 1) + 1][c] = TableWord(dfa[s + 1], c)
           /\ dfa[s + 1][end_state_index] \in {0, 1} /\ dfa[s + 1][id_index] \in Nat
           /\ \A c \in eol_index .. dfa_alphabet - 1 :
                 dfa[s + 1][c] \in Nat /\ dfa[s + 1][c] <= Len(seen)
<1> DEFINE n == Len(seen)
<1>1. n \in Nat /\ n >= 1 /\ RowsOk(dfa, n) /\ classes \in Seq(Parts) /\ graph = Reassembled
  BY DEF Working
<1>2. /\ dfa \in Seq(DfaRow) /\ Len(dfa) = n + 1
      /\ \A k \in 1 .. n + 1 : dfa[k] \in DfaRow
  BY <1>1, RowsFacts
<1>3. s + 1 \in 1 .. n + 1 /\ s + 1 \in 2 .. n + 1 /\ (s - 1) + 1 = s /\ s \in 1 .. n
  BY <1>1
<1>4. dfa[s + 1] \in DfaRow
  BY <1>2, <1>3
<1>5. ASSUME NEW c \in 0 .. dfa_alphabet - 1
      PROVE  graph.nextTable[(s - 1) + 1][c] = TableWord(dfa[s + 1], c)
  <2>1. graph.nextTable = [t \in 1 .. Len(dfa) - 1 |->
                              [d \in DOMAIN EmptyRow |-> TableWord(dfa[t + 1], d)]]
    BY <1>1 DEF Reassembled
  <2>2. s \in 1 .. Len(dfa) - 1 /\ DOMAIN EmptyRow = 0 .. dfa_alphabet - 1
    BY <1>1, <1>2, <1>3 DEF EmptyRow
  <2>3. graph.nextTable[s] = [d \in DOMAIN EmptyRow |-> TableWord(dfa[s + 1], d)]
    BY <2>1, <2>2
  <2> QED
    BY <1>3, <2>2, <2>3
<1>6. dfa[s + 1][end_state_index] \in {0, 1}
  BY <1>1, <1>3 DEF RowsOk
<1>7. ASSUME NEW c \in eol_index .. dfa_alphabet - 1
      PROVE  dfa[s + 1][c] \in Nat /\ dfa[s + 1][c] <= n
  <2>1. dfa[s + 1][c] <= n
    BY <1>1, <1>3 DEF RowsOk
  <2>2. c \in 0 .. dfa_alphabet - 1
    BY <1>1, ColumnNumbers DEF eol_index
  <2> QED
    BY <1>4, <2>1, <2>2 DEF DfaRow
<1>8. dfa[s + 1][id_index] \in Nat
  <2>1. id_index \in 0 .. dfa_alphabet - 1
    BY <1>1, ColumnNumbers DEF id_index
  <2> QED
    BY <1>4, <2>1 DEF DfaRow
<1> QED
  BY <1>2, <1>3, <1>4, <1>5, <1>6, <1>7, <1>8

(* What either walk has done so far. *)
TableWalks == [row : 0 .. Len(seen) - 1, ids : Seq(Nat)]

(* and what the walk over the states has. *)
StateWalks == [at : 1 .. Len(seen), ids : Seq(Nat)]

(* They are at the same state and have reported the same. *)
Abreast(x, y) == x.row = y.at - 1 /\ x.ids = y.ids

(* What is said behind a byte. *)
LEMMA VerdictOf ==
    ASSUME Working, NEW s \in 0 .. Len(seen)
    PROVE  /\ Verdict(s) \in Nat
           /\ s # 0 => Verdict(s) = IF dfa[s + 1][end_state_index] = 0 THEN 0
                                    ELSE dfa[s + 1][id_index]
           /\ s = 0 => Verdict(s) = 0
<1>1. CASE s = 0
  BY <1>1 DEF Verdict
<1>2. CASE s # 0
  <2>1. s \in 1 .. Len(seen)
    BY <1>2 DEF Working
  <2>2. dfa[s + 1][id_index] \in Nat
    BY <2>1, RowOfState
  <2> DEFINE a == dfa[s + 1][id_index]
             e == dfa[s + 1][end_state_index]
  <2>3. Verdict(s) = IF e = 0 THEN 0 ELSE a
    BY <1>2 DEF Verdict
  <2> QED
    BY <1>2, <2>2, <2>3
<1> QED
  BY <1>1, <1>2

(* The state behind a byte. *)
LEMMA BehindByte ==
    ASSUME Working, NEW s \in 1 .. Len(seen), NEW c \in Sample
    PROVE  /\ Behind(s, c) = dfa[s + 1][lookup[c]]
           /\ Behind(s, c) \in 0 .. Len(seen)
<1>1. c \in Char /\ c # EOL_TOKEN /\ s # 0
  BY WordAssumption, CharAssumption DEF Char, EOL_TOKEN
<1>2. lookup[c] \in eol_index .. dfa_alphabet - 1
  BY <1>1, ColumnOf DEF Working
<1>3. dfa[s + 1][lookup[c]] \in Nat /\ dfa[s + 1][lookup[c]] <= Len(seen)
  BY <1>2, RowOfState
<1>4. Behind(s, c) = dfa[s + 1][lookup[c]]
  BY <1>1 DEF Behind
<1> QED
  BY <1>3, <1>4 DEF Working

(* One turn of httpParse, by the state it stands for. *)
LEMMA TableTurn ==
    ASSUME Working, NEW x \in TableWalks, NEW c \in Sample
    PROVE  LET s == Behind(x.row + 1, c)
           IN  WalkByte(x, c) = [row |-> IF s = 0 THEN 0 ELSE s - 1,
                                 ids |-> Append(x.ids, Verdict(s))]
<1> DEFINE n == Len(seen)
           at == x.row + 1
           s == Behind(at, c)
           t == IF s = 0 THEN 1 ELSE s
           col == lookup[c]
           behind == graph.nextTable[(t - 1) + 1]
           next == t - 1
           id == IF behind[end_state_index] = 0 THEN 0
                 ELSE behind[id_index] + 65536 * behind[user_id_index]
<1>1. n \in Nat /\ n >= 1 /\ classes \in Seq(Parts) /\ Len(classes) < 256 /\ Len(dfa) < 65535
      /\ RowsOk(dfa, n) /\ Len(dfa) = n + 1
  BY DEF Working, RowsOk
<1>2. x.row \in 0 .. n - 1 /\ x.ids \in Seq(Nat)
  BY DEF TableWalks
<1>3. at \in 1 .. n /\ at - 1 = x.row
  BY <1>1, <1>2
<1>4. s = dfa[at + 1][col] /\ s \in 0 .. n
  <2> HIDE DEF at
  <2> QED
    BY <1>3, BehindByte
<1>5. t \in 1 .. n /\ t \in Nat
  <2> HIDE DEF s
  <2> QED
    BY <1>1, <1>4
<1>6. c \in Char
  BY WordAssumption
<1>7. /\ col \in Nat /\ col >= dead_state_index /\ col \in 0 .. dfa_alphabet - 1
      /\ dead_state_index + ((col - dead_state_index) % 256) = col
  BY <1>1, <1>6, ColumnOf
<1>8. graph.alphabetTable[c] = (col - dead_state_index) % 256
  BY <1>6 DEF Working, Reassembled
<1> HIDE DEF col
<1>9. graph.nextTable[x.row + 1][dead_state_index + graph.alphabetTable[c]] = next
  <2>1. graph.nextTable[(at - 1) + 1][col] = TableWord(dfa[at + 1], col)
    <3> HIDE DEF at
    <3> QED
      BY <1>3, <1>7, RowOfState
  <2>2. TableWord(dfa[at + 1], col) = IF s = 0 THEN 0 ELSE s - 1
    <3>1. s \in Nat /\ s < 65535
      BY <1>1, <1>4
    <3> DEFINE row == dfa[at + 1]
    <3>2. row[col] = s
      BY <1>4
    <3> HIDE DEF row, s
    <3>3. TableWord(row, col) = IF s = 0 THEN 0 ELSE s - 1
      BY <1>7, <3>1, <3>2, TransitionWord
    <3> QED
      BY <3>3 DEF row
  <2>3. next = IF s = 0 THEN 0 ELSE s - 1
    <3>1. s \in Nat
      BY <1>1, <1>4
    <3> HIDE DEF s
    <3> QED
      BY <3>1
  <2>4. (at - 1) + 1 = x.row + 1
    BY <1>2
  <2> HIDE DEF next, at, s
  <2> QED
    BY <1>7, <1>8, <2>1, <2>2, <2>3, <2>4
<1>10. id = Verdict(s)
  <2>1. 0 \in 0 .. dfa_alphabet - 1 /\ 1 \in 0 .. dfa_alphabet - 1 /\ 2 \in 0 .. dfa_alphabet - 1
    BY <1>1, ColumnNumbers
  <2> DEFINE row == dfa[t + 1]
  <2>2. /\ row[end_state_index] \in {0, 1} /\ row[id_index] \in Nat
        /\ \A d \in 0 .. dfa_alphabet - 1 : behind[d] = TableWord(row, d)
    <3> HIDE DEF t
    <3> QED
      BY <1>5, RowOfState
  <2> HIDE DEF row, behind
  <2>3. /\ behind[end_state_index] = TableWord(row, end_state_index)
        /\ behind[id_index] = TableWord(row, id_index)
        /\ behind[user_id_index] = TableWord(row, user_id_index)
    BY <2>1, <2>2 DEF end_state_index, id_index, user_id_index
  <2>4. /\ TableWord(row, id_index) + 65536 * TableWord(row, user_id_index) = row[id_index]
        /\ TableWord(row, end_state_index) = row[end_state_index]
    BY <2>2, IdWords
  <2>5. id = IF row[end_state_index] = 0 THEN 0 ELSE row[id_index]
    BY <2>3, <2>4
  <2>6. CASE s = 0
    <3>1. t = 1 /\ row = dfa[1 + 1]
      BY <2>6 DEF row
    <3>2. dfa[2][end_state_index] = 0
      BY <1>1 DEF RowsOk
    <3>3. row[end_state_index] = 0
      BY <3>1, <3>2
    <3>4. Verdict(s) = 0
      BY <2>6 DEF Verdict
    <3> QED
      BY <2>5, <3>3, <3>4
  <2>7. CASE s # 0
    <3>1. t = s /\ row = dfa[s + 1]
      BY <2>7 DEF row
    <3>2. Verdict(s) = IF dfa[s + 1][end_state_index] = 0 THEN 0 ELSE dfa[s + 1][id_index]
      BY <2>7 DEF Verdict
    <3> HIDE DEF s, t, id
    <3> QED
      BY <2>5, <3>1, <3>2
  <2> QED
    BY <2>6, <2>7
<1>11. next = (IF s = 0 THEN 0 ELSE s - 1) /\ next + 1 = (t - 1) + 1
  <2>1. s \in Nat
    BY <1>1, <1>4
  <2> HIDE DEF s
  <2> QED
    BY <2>1
<1>12. WalkByte(x, c) = [row |-> next, ids |-> Append(x.ids, id)]
  <2> DEFINE nxt == graph.nextTable[x.row + 1][dead_state_index + graph.alphabetTable[c]]
             beh == graph.nextTable[nxt + 1]
  <2>1. WalkByte(x, c) = [row |-> nxt,
                          ids |-> Append(x.ids, IF beh[end_state_index] = 0 THEN 0
                                                ELSE beh[id_index] + 65536 * beh[user_id_index])]
    BY DEF WalkByte
  <2>2. nxt = next /\ beh = behind
    BY <1>9
  <2> HIDE DEF nxt, beh, next, behind
  <2> QED
    BY <2>1, <2>2
<1> HIDE DEF next, id, s
<1>13. WalkByte(x, c) = [row |-> IF s = 0 THEN 0 ELSE s - 1, ids |-> Append(x.ids, Verdict(s))]
  BY <1>10, <1>11, <1>12
<1> QED
  BY <1>13 DEF s, at

(* Both walks stay in the machine. *)
LEMMA WalkByteTyped ==
    ASSUME Working, NEW x \in TableWalks, NEW c \in Sample
    PROVE  WalkByte(x, c) \in TableWalks
<1> DEFINE s == Behind(x.row + 1, c)
           row == IF s = 0 THEN 0 ELSE s - 1
           ids == Append(x.ids, Verdict(s))
<1>1. Len(seen) \in Nat /\ Len(seen) >= 1 /\ x.row \in 0 .. Len(seen) - 1 /\ x.ids \in Seq(Nat)
  BY DEF Working, TableWalks
<1>2. x.row + 1 \in 1 .. Len(seen)
  BY <1>1
<1>3. s \in 0 .. Len(seen)
  BY <1>2, BehindByte
<1>4. WalkByte(x, c) = [row |-> row, ids |-> ids]
  BY TableTurn
<1> HIDE DEF s
<1>5. row \in 0 .. Len(seen) - 1
  BY <1>1, <1>3
<1>6. ids \in Seq(Nat)
  BY <1>1, <1>3, VerdictOf
<1> HIDE DEF row, ids
<1> QED
  BY <1>4, <1>5, <1>6 DEF TableWalks

(* A walk that begins again keeps to the states. *)
LEMMA RestartTyped ==
    ASSUME Working, NEW y \in StateWalks, NEW c \in Sample
    PROVE  Restart(y, c) \in StateWalks
<1> DEFINE s == Behind(y.at, c)
           at == IF s = 0 THEN 1 ELSE s
           ids == Append(y.ids, Verdict(s))
<1>1. Len(seen) \in Nat /\ Len(seen) >= 1 /\ y.at \in 1 .. Len(seen) /\ y.ids \in Seq(Nat)
  BY DEF Working, StateWalks
<1>3. s \in 0 .. Len(seen)
  BY <1>1, BehindByte
<1>4. Restart(y, c) = [at |-> at, ids |-> ids]
  BY DEF Restart
<1> HIDE DEF s
<1>5. at \in 1 .. Len(seen)
  BY <1>1, <1>3
<1>6. ids \in Seq(Nat)
  BY <1>1, <1>3, VerdictOf
<1> HIDE DEF at, ids
<1> QED
  BY <1>4, <1>5, <1>6 DEF StateWalks

(* and side by side. *)
LEMMA StepAbreast ==
    ASSUME Working, NEW x \in TableWalks, NEW y \in StateWalks, Abreast(x, y),
           NEW c \in Sample
    PROVE  Abreast(WalkByte(x, c), Restart(y, c))
<1> DEFINE s == Behind(y.at, c)
           row == IF s = 0 THEN 0 ELSE s - 1
           at == IF s = 0 THEN 1 ELSE s
           ids == Append(y.ids, Verdict(s))
<1>1. y.at \in 1 .. Len(seen) /\ x.row = y.at - 1 /\ x.ids = y.ids /\ Len(seen) \in Nat
  BY DEF StateWalks, Abreast, Working
<1>2. x.row + 1 = y.at
  BY <1>1
<1>3. WalkByte(x, c) = [row |-> row, ids |-> ids]
  BY <1>1, <1>2, TableTurn
<1>4. Restart(y, c) = [at |-> at, ids |-> ids]
  BY DEF Restart
<1>5. s \in 0 .. Len(seen)
  BY <1>1, BehindByte
<1> HIDE DEF s
<1>6. row = at - 1
  BY <1>1, <1>5
<1> HIDE DEF row, at, ids
<1> QED
  BY <1>3, <1>4, <1>6 DEF Abreast

(* The fold over the bytes of a word, of the table *)
LEMMA TableFold ==
    ASSUME Working, NEW x,
           NEW L \in Seq(Sample), x \in TableWalks
    PROVE  \E g :
              /\ g \in [0 .. Len(L) -> TableWalks]
              /\ g[0] = x
              /\ \A k \in 1 .. Len(L) : g[k] = WalkByte(g[k - 1], L[k])
              /\ FoldLeft(WalkByte, x, L) = g[Len(L)]
<1> DEFINE n == Len(L)
           Values == TableWalks
           base == x
           step == [p \in (1 .. n) \X Values |-> WalkByte(p[2], L[p[1]])]
           Eq(f) == f = [T \in SUBSET DOMAIN L |->
                           IF T = {} THEN base
                           ELSE WalkByte(f[T \ {Max(T)}], L[Max(T)])]
           f == CHOOSE f : Eq(f)
<1>1. n \in Nat /\ DOMAIN L = 1 .. n /\ \A k \in 1 .. n : L[k] \in Sample
  OBVIOUS
<1>2. base \in Values
  OBVIOUS
<1>3. step \in StepFcn(n, Values)
  BY <1>1, WalkByteTyped DEF StepFcn
<1> HIDE DEF n, Values, base
<1>4. \A i \in 1 .. n : \A v \in Values : step[<<i, v>>] = WalkByte(v, L[i])
  OBVIOUS
<1> HIDE DEF step
<1>5. PICK h : FoldsSets(h, n, Values, base, step)
  BY <1>1, <1>2, <1>3, SetRecursion
<1>6. Eq(h)
  <2>1. \A T \in SUBSET (1 .. n) : T # {} =>
           Max(T) \in 1 .. n /\ h[T \ {Max(T)}] \in Values
    BY <1>1, <1>5, MaxOfNumbers DEF FoldsSets
  <2>2. \A T \in SUBSET (1 .. n) : T # {} =>
           h[T] = WalkByte(h[T \ {Max(T)}], L[Max(T)])
    BY <1>4, <1>5, <2>1 DEF FoldsSets
  <2>3. h[{}] = base /\ h = [T \in SUBSET (1 .. n) |-> h[T]]
    BY <1>5 DEF FoldsSets
  <2> QED
    BY <1>1, <2>2, <2>3
<1>7. Eq(f)
  BY <1>6
<1> HIDE DEF f
<1>8. f[1 .. 0] = base
  BY <1>1, <1>7
<1>9. \A k \in 1 .. n : f[1 .. k] = WalkByte(f[1 .. k - 1], L[k])
  <2> TAKE k \in 1 .. n
  <2>1. /\ 1 .. k \in SUBSET DOMAIN L /\ 1 .. k # {}
        /\ Max(1 .. k) = k /\ (1 .. k) \ {k} = 1 .. k - 1
    BY <1>1, MaxOfPrefix
  <2>2. f[1 .. k] = WalkByte(f[(1 .. k) \ {Max(1 .. k)}], L[Max(1 .. k)])
    BY <1>7, <2>1
  <2> QED
    BY <2>1, <2>2
<1>10. \A k \in 1 .. n : f[1 .. k - 1] \in Values =>
          f[1 .. k] = step[<<k, f[1 .. k - 1]>>]
  BY <1>4, <1>9
<1>11. PICK g : Unrolls(g, n, Values, base, step) /\ g[n] = f[1 .. n]
  BY <1>1, <1>2, <1>3, <1>8, <1>10, FoldRun
<1>12. FoldLeft(WalkByte, x, L) = f[1 .. n]
  BY <1>1 DEF FoldLeft, MapThenFoldSet, f, base
<1>13. \A k \in 1 .. n : g[k - 1] \in Values
  BY <1>1, <1>11 DEF Unrolls
<1> QED
  BY <1>4, <1>11, <1>12, <1>13 DEF Unrolls, n, Values, base

(* and of the machine. *)
LEMMA StateFold ==
    ASSUME Working, NEW y,
           NEW L \in Seq(Sample), y \in StateWalks
    PROVE  \E g :
              /\ g \in [0 .. Len(L) -> StateWalks]
              /\ g[0] = y
              /\ \A k \in 1 .. Len(L) : g[k] = Restart(g[k - 1], L[k])
              /\ FoldLeft(Restart, y, L) = g[Len(L)]
<1> DEFINE n == Len(L)
           Values == StateWalks
           base == y
           step == [p \in (1 .. n) \X Values |-> Restart(p[2], L[p[1]])]
           Eq(f) == f = [T \in SUBSET DOMAIN L |->
                           IF T = {} THEN base
                           ELSE Restart(f[T \ {Max(T)}], L[Max(T)])]
           f == CHOOSE f : Eq(f)
<1>1. n \in Nat /\ DOMAIN L = 1 .. n /\ \A k \in 1 .. n : L[k] \in Sample
  OBVIOUS
<1>2. base \in Values
  OBVIOUS
<1>3. step \in StepFcn(n, Values)
  BY <1>1, RestartTyped DEF StepFcn
<1> HIDE DEF n, Values, base
<1>4. \A i \in 1 .. n : \A x \in Values : step[<<i, x>>] = Restart(x, L[i])
  OBVIOUS
<1> HIDE DEF step
<1>5. PICK h : FoldsSets(h, n, Values, base, step)
  BY <1>1, <1>2, <1>3, SetRecursion
<1>6. Eq(h)
  <2>1. \A T \in SUBSET (1 .. n) : T # {} =>
           Max(T) \in 1 .. n /\ h[T \ {Max(T)}] \in Values
    BY <1>1, <1>5, MaxOfNumbers DEF FoldsSets
  <2>2. \A T \in SUBSET (1 .. n) : T # {} =>
           h[T] = Restart(h[T \ {Max(T)}], L[Max(T)])
    BY <1>4, <1>5, <2>1 DEF FoldsSets
  <2>3. h[{}] = base /\ h = [T \in SUBSET (1 .. n) |-> h[T]]
    BY <1>5 DEF FoldsSets
  <2> QED
    BY <1>1, <2>2, <2>3
<1>7. Eq(f)
  BY <1>6
<1> HIDE DEF f
<1>8. f[1 .. 0] = base
  BY <1>1, <1>7
<1>9. \A k \in 1 .. n : f[1 .. k] = Restart(f[1 .. k - 1], L[k])
  <2> TAKE k \in 1 .. n
  <2>1. /\ 1 .. k \in SUBSET DOMAIN L /\ 1 .. k # {}
        /\ Max(1 .. k) = k /\ (1 .. k) \ {k} = 1 .. k - 1
    BY <1>1, MaxOfPrefix
  <2>2. f[1 .. k] = Restart(f[(1 .. k) \ {Max(1 .. k)}], L[Max(1 .. k)])
    BY <1>7, <2>1
  <2> QED
    BY <2>1, <2>2
<1>10. \A k \in 1 .. n : f[1 .. k - 1] \in Values =>
          f[1 .. k] = step[<<k, f[1 .. k - 1]>>]
  BY <1>4, <1>9
<1>11. PICK g : Unrolls(g, n, Values, base, step) /\ g[n] = f[1 .. n]
  BY <1>1, <1>2, <1>3, <1>8, <1>10, FoldRun
<1>12. FoldLeft(Restart, y, L) = f[1 .. n]
  BY <1>1 DEF FoldLeft, MapThenFoldSet, f, base
<1>13. \A k \in 1 .. n : g[k - 1] \in Values
  BY <1>1, <1>11 DEF Unrolls
<1> QED
  BY <1>4, <1>11, <1>12, <1>13 DEF Unrolls, n, Values, base

(* Behind every byte of a word they are side by side. *)
LEMMA WalksAgree ==
    ASSUME Working, NEW L \in Seq(Sample)
    PROVE  Walk(L) = FoldLeft(Restart, [at |-> 1, ids |-> <<>>], L).ids
<1> DEFINE x == [row |-> 0, ids |-> <<>>]
           y == [at |-> 1, ids |-> <<>>]
           m == Len(L)
<1>1. Len(seen) \in Nat /\ Len(seen) >= 1 /\ m \in Nat /\ \A k \in 1 .. m : L[k] \in Sample
  BY DEF Working
<1>2. x \in TableWalks /\ y \in StateWalks /\ Abreast(x, y)
  <2>1. <<>> \in Seq(Nat) /\ 0 \in 0 .. Len(seen) - 1 /\ 1 \in 1 .. Len(seen)
    BY <1>1
  <2>2. x \in TableWalks
    BY <2>1 DEF TableWalks
  <2>3. y \in StateWalks
    BY <2>1 DEF StateWalks
  <2>4. Abreast(x, y)
    BY DEF Abreast
  <2> QED
    BY <2>2, <2>3, <2>4
<1> HIDE DEF x, y, m
<1>3. PICK g : /\ g \in [0 .. Len(L) -> TableWalks]
               /\ g[0] = x
               /\ \A k \in 1 .. Len(L) : g[k] = WalkByte(g[k - 1], L[k])
               /\ FoldLeft(WalkByte, x, L) = g[Len(L)]
  BY <1>2, TableFold
<1>4. PICK h : /\ h \in [0 .. Len(L) -> StateWalks]
               /\ h[0] = y
               /\ \A k \in 1 .. Len(L) : h[k] = Restart(h[k - 1], L[k])
               /\ FoldLeft(Restart, y, L) = h[Len(L)]
  BY <1>2, StateFold
<1> DEFINE P == {k \in 0 .. m : Abreast(g[k], h[k])}
<1>5. 0 \in P
  BY <1>1, <1>2, <1>3, <1>4
<1>6. ASSUME NEW i \in 0 .. m, i \in P, i < m
      PROVE  i + 1 \in P
  <2>1. i + 1 \in 1 .. m /\ (i + 1) - 1 = i /\ i + 1 \in 0 .. m
    BY <1>1, <1>6
  <2>2. g[i] \in TableWalks /\ h[i] \in StateWalks /\ Abreast(g[i], h[i]) /\ L[i + 1] \in Sample
    BY <1>1, <1>3, <1>4, <1>6, <2>1 DEF m
  <2>3. Abreast(WalkByte(g[i], L[i + 1]), Restart(h[i], L[i + 1]))
    BY <2>2, StepAbreast
  <2>4. g[i + 1] = WalkByte(g[i], L[i + 1])
    BY <1>3, <2>1 DEF m
  <2>5. h[i + 1] = Restart(h[i], L[i + 1])
    BY <1>4, <2>1 DEF m
  <2> QED
    BY <2>1, <2>3, <2>4, <2>5
<1>7. 0 .. m \subseteq P
  <2> HIDE DEF P
  <2> QED
    BY <1>1, <1>5, <1>6, RangeInduction
<1>8. m \in 0 .. m
  BY <1>1
<1>9. Abreast(g[m], h[m])
  BY <1>7, <1>8
<1>10. FoldLeft(WalkByte, x, L).ids = FoldLeft(Restart, y, L).ids
  BY <1>3, <1>4, <1>9 DEF Abreast, m
<1> QED
  BY <1>10 DEF Walk, x, y

(* When the table is done it reports what the machine does. *)
LEMMA ExactTable == TableInv => TableExact
<1> SUFFICES ASSUME TableInv, pc = "done", Numbered, Len(classes) < 256,
                    NEW w \in {w \in Words : ToSet(w) \subseteq Sample}
             PROVE  Walk(w) = FoldLeft(Restart, [at |-> 1, ids |-> <<>>], w).ids
  BY DEF TableExact
<1>1. Small
  BY DEF Small, Numbered
<1>2. Working
  BY <1>1 DEF TableInv, Working
<1>3. w \in Seq(Sample)
  <2> DEFINE E == Sample \cup Anchors
  <2>1. PICK n \in 0 .. MaxWord : w \in [1 .. n -> E]
    BY DEF Words
  <2>2. n \in Nat /\ DOMAIN w = 1 .. n
    BY <2>1
  <2>3. \A k \in 1 .. n : w[k] \in Sample
    <3>1. \A k \in DOMAIN w : w[k] \in ToSet(w)
      BY DEF ToSet
    <3> QED
      BY <2>2, <3>1
  <2> HIDE DEF E
  <2>4. w \in [1 .. n -> Sample]
    BY <2>1, <2>3
  <2> QED
    BY <2>2, <2>4
<1> QED
  BY <1>2, <1>3, WalksAgree

(* In every state of the compiler: as many trees as the stack has tokens   *)
(* that stand for one, each well formed; a tree of all the rules; a row    *)
(* for every set of nodes seen, leading to rows that are there; and the    *)
(* table that was made of them.                                            *)
THEOREM TableInvariant == RegexSpec => []TableInv
<1>1. RegexInit => TableInv
  BY TableInitially
<1>2. TableInv /\ [RegexNext]_allVars => TableInv'
  BY TableStep
<1> QED
  BY <1>1, <1>2, PTL DEF RegexSpec

(* Whatever the rules are, the table that is walked reports behind every   *)
(* byte of every word what the machine it was made from does, restarted    *)
(* behind each byte that leads it nowhere.                                 *)
THEOREM TableStaysExact == RegexSpec => []TableExact
<1>1. TableInv => TableExact
  BY ExactTable
<1> QED
  BY <1>1, TableInvariant, PTL
===============================================================================
