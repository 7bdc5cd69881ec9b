------------------------------ MODULE CharSets ------------------------------
(***************************************************************************)
(* The sets of characters of the regular expression compiler (lexertl's    *)
(* string_token.hpp): sorted sequences of ranges that neither overlap nor  *)
(* touch, so that equal sets are equal sequences and can index a map.      *)
(***************************************************************************)
EXTENDS Integers, SequencesExt

CONSTANT MAX_VAL  \* char_traits::max_val(), 255 for char

ASSUME CharAssumption == MAX_VAL \in Nat /\ MAX_VAL >= 255

Char == 0 .. MAX_VAL

(* What a sequence of ranges <<first, second>> stands for. *)
Chars(s) == UNION {r[1] .. r[2] : r \in ToSet(s)}

(* Sorted, with a gap between any two ranges. *)
IsNormal(s) ==
    /\ \A i \in DOMAIN s : s[i][1] \in Char /\ s[i][2] \in s[i][1] .. MAX_VAL
    /\ \A i, j \in DOMAIN s : i < j => s[i][2] + 1 < s[j][1]

Lesser(a, b) == IF a < b THEN a ELSE b
Greater(a, b) == IF a < b THEN b ELSE a

Inserting(r, kept, open) == [r |-> r, kept |-> kept, open |-> open]

Merged(r, x) == <<Lesser(r[1], x[1]), Greater(r[2], x[2])>>

(* Faulty form of MeetRange: ranges that touch are left apart. *)
MeetRange_Apart(st, x) ==
    CASE ~ st.open \/ x[2] < st.r[1] ->
            Inserting(st.r, Append(st.kept, x), st.open)
      [] st.open /\ st.r[2] < x[1] ->
            Inserting(st.r, st.kept \o <<st.r, x>>, FALSE)
      [] st.open /\ x[1] <= st.r[1] /\ st.r[2] <= x[2] ->
            Inserting(st.r, Append(st.kept, x), FALSE)
      [] OTHER -> Inserting(Merged(st.r, x), st.kept, TRUE)

(* One range x of the set while r is inserted: x is kept before r, r comes *)
(* before x, x holds r already, or x is swallowed by r.                    *)
MeetRange(st, x) ==
    CASE ~ st.open \/ x[2] + 1 < st.r[1] ->
            Inserting(st.r, Append(st.kept, x), st.open)
      [] st.open /\ st.r[2] + 1 < x[1] ->
            Inserting(st.r, st.kept \o <<st.r, x>>, FALSE)
      [] st.open /\ x[1] <= st.r[1] /\ st.r[2] <= x[2] ->
            Inserting(st.r, Append(st.kept, x), FALSE)
      [] OTHER -> Inserting(Merged(st.r, x), st.kept, TRUE)

Insert(s, r) ==
    LET st == FoldLeft(MeetRange, Inserting(r, <<>>, TRUE), s)
    IN  IF st.open THEN Append(st.kept, st.r) ELSE st.kept

InsertAll(s, t) == FoldLeft(Insert, s, t)

Single(c) == << <<c, c>> >>

(* The gaps between the ranges, and what follows the last of them. *)
Gap(st, x) ==
    [next |-> x[2] + 1,
     out |-> IF st.next < x[1]
             THEN Insert(st.out, <<st.next, x[1] - 1>>) ELSE st.out]

Negate(s) ==
    LET end == FoldLeft(Gap, [next |-> 0, out |-> <<>>], s)
    IN  IF end.next <= MAX_VAL THEN Insert(end.out, <<end.next, MAX_VAL>>)
        ELSE end.out

(* adjust: r, which lies in the i-th range of s, is cut out of it.         *)
Adjust(s, i, r) ==
    LET before == IF s[i][1] < r[1] THEN << <<s[i][1], r[1] - 1>> >> ELSE <<>>
        after == IF r[2] < s[i][2] THEN << <<r[2] + 1, s[i][2]>> >> ELSE <<>>
    IN  SubSeq(s, 1, i - 1) \o before \o after \o SubSeq(s, i + 1, Len(s))

(* One turn of the loop of intersect over two cursors i and j: the cursor  *)
(* of the lower range moves, or the overlap leaves the left set and, when  *)
(* "both", the right one; the cursor then is on what follows the overlap.  *)
Move(st, i, j) == [lhs |-> st.lhs, rhs |-> st.rhs, i |-> i, j |-> j,
                   overlap |-> st.overlap]

Overlap(x, y) == <<Greater(x[1], y[1]), Lesser(x[2], y[2])>>

Past(i, x, r) == IF x[1] < r[1] /\ r[2] < x[2] THEN i + 1 ELSE i

Cut(st, x, y, r, both) ==
    [lhs |-> Adjust(st.lhs, st.i, r),
     rhs |-> IF both THEN Adjust(st.rhs, st.j, r) ELSE st.rhs,
     i |-> Past(st.i, x, r),
     j |-> IF both THEN Past(st.j, y, r) ELSE st.j,
     overlap |-> Insert(st.overlap, r)]

MeetRanges(st, both) ==
    LET x == st.lhs[st.i]
        y == st.rhs[st.j]
    IN  IF st.i > Len(st.lhs) \/ st.j > Len(st.rhs) THEN st
        ELSE IF x[2] < y[1] THEN Move(st, st.i + 1, st.j)
        ELSE IF y[2] < x[1] THEN Move(st, st.i, st.j + 1)
        ELSE Cut(st, x, y, Overlap(x, y), both)

(* The loop: every turn moves a cursor or cuts a range, so that this many  *)
(* turns are enough.                                                       *)
MeetSets(s, t, both) ==
    FoldLeft(LAMBDA st, n : MeetRanges(st, both),
             [lhs |-> s, rhs |-> t, i |-> 1, j |-> 1, overlap |-> <<>>],
             [n \in 1 .. 3 * (Len(s) + Len(t)) |-> n])

(* [lhs, rhs, overlap]: what is only in s, only in t, and in both. *)
Intersect(s, t) == MeetSets(s, t, TRUE)

RemoveChars(s, t) == MeetSets(s, t, FALSE).lhs

(* toupper and tolower of the C locale. *)
ToUpper(c) == IF c \in 97 .. 122 THEN c - 32 ELSE c
ToLower(c) == IF c \in 65 .. 90 THEN c + 32 ELSE c

(* The other cases of the letters of a range. *)
OtherCase(out, c) ==
    LET up == IF ToUpper(c) # c THEN Insert(out, <<c - 32, c - 32>>) ELSE out
    IN  IF ToLower(c) # c THEN Insert(up, <<c + 32, c + 32>>) ELSE up

Fold(r) == FoldLeft(OtherCase, <<>>,
                    [n \in 1 .. r[2] - r[1] + 1 |-> r[1] + n - 1])
=============================================================================
