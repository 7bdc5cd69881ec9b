---------------------------- MODULE MCRegex ------------------------------
(***************************************************************************)
(* What the runs of the regular expression compiler share: the codes of    *)
(* the characters, and expressions of three levels over single characters. *)
(***************************************************************************)
EXTENDS RegexLanguage

(* The characters of a string. *)
T(s) == [i \in 1 .. Len(s) |-> SubSeq(s, i, i)]

(* Characters in the order of their codes. *)
From32 == T(" !\"#$%&'()*+,-./0123456789:;<=>?@ABCDEFGHIJKLMNOPQRSTUVWXYZ[\\]^_")
From97 == T("abcdefghijklmnopqrstuvwxyz{|}")

IndexIn(s, c) == CHOOSE i \in DOMAIN s : s[i] = c

MCOrd == [c \in ToSet(From32) |-> 31 + IndexIn(From32, c)]
         @@ [c \in ToSet(From97) |-> 96 + IndexIn(From97, c)]
         @@ ("\n" :> 10)

-----------------------------------------------------------------------------
A == <<"chr", "a">>
B == <<"chr", "b">>
Singles == {A, B, <<"dot">>}

Repeats(e) == {<<"rep", e, T("*"), 0, -1>>, <<"rep", e, T("+?"), 1, -1>>,
               <<"rep", e, T("?"), 0, 1>>, <<"rep", e, T("{2}"), 2, 2>>,
               <<"rep", e, T("{0,2}"), 0, 2>>, <<"rep", e, T("{1,3}"), 1, 3>>,
               <<"rep", e, T("{2,}?"), 2, -1>>}
Options(e) == {<<"flags", T("-i"), {}, {"icase"}, e>>,
               <<"flags", T("-s"), {"dot_not_newline"}, {}, e>>}
OnOne(E) == UNION {Repeats(e) \cup Options(e) : e \in E}
OnTwo(E, F) == UNION {{<<"cat", e, f>>, <<"or", e, f>>} : e \in E, f \in F}

Level2 == OnOne(Singles) \cup OnTwo(Singles, Singles)
Level3 == OnOne(Level2) \cup OnTwo(Level2, Singles) \cup OnTwo({A}, Level2)

In(s, codes) == <<"set", FALSE, T(s), codes>>
NotIn(s, codes) == <<"set", TRUE, T(s), codes>>
Is(s, c) == <<"exact", T(s), {c}>>

Alone(E) == {<<RuleOf(e, 1)>> : e \in E}

(* Anchors, and rules beside them. *)
Anchored == {<<"cat", <<"bol">>, e>> : e \in Singles \cup OnOne({A})}
            \cup {<<"cat", e, <<"eol">>>> : e \in Singles \cup OnOne({A})}
            \cup {<<"or", <<"cat", <<"bol">>, A>>, B>>}
=============================================================================
