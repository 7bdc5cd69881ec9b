----------------------------- MODULE MCRegexDfa ------------------------------
(***************************************************************************)
(* Rules for the builder of the table: single ones, pairs and triples that *)
(* overlap in their characters and in the words they match.                *)
(***************************************************************************)
EXTENDS RegexDfa, MCRegex

Greedily(s, e) ==
    <<"rep", e, T(s), IF s = "+" THEN 1 ELSE 0, IF s = "?" THEN 1 ELSE -1>>
AnyThing == Greedily("*", <<"dot">>)

(* Rules that compete: ids are larger than a ushort holds.                 *)
Rivals == Singles \cup {In("[ab]", {97, 98}), <<"exact", T("\"A\""), {65}>>,
                        NotIn("[^a]", {97}), Is("\\n", 10)}
Longer == {<<"cat", A, B>>, <<"cat", A, <<"dot">>>>, <<"cat", <<"dot">>, B>>,
           <<"or", <<"cat", A, A>>, B>>, Greedily("+", A),
           <<"cat", AnyThing, B>>, <<"cat", Greedily("*", <<"or", A, B>>), A>>,
           <<"cat", A, Greedily("?", B)>>}
Lazies == {<<"rep", A, T("+?"), 1, -1>>,
           <<"cat", <<"rep", <<"dot">>, T("*?"), 0, -1>>, B>>,
           <<"rep", In("[ab]", {97, 98}), T("{2,}?"), 2, -1>>}

Side(E, F) == {<<RuleOf(e, 2^24 + 3), RuleOf(f, 70000)>> : e \in E, f \in F}

(* A '^' that comes after itself, beside another; a newline beside '$'     *)
(* where the state behind '$' is met again, and where it is not.           *)
NL == Is("\\n", 10)
Eol == <<"cat", A, <<"eol">>>>
Misled == {<<RuleOf(<<"cat", <<"rep", <<"bol">>, T("*"), 0, -1>>, A>>, 5),
             RuleOf(<<"cat", <<"bol">>, e>>, 6)>> : e \in Singles}
          \cup {<<RuleOf(<<"or", <<"or", <<"cat", A, NL>>, <<"cat", A, e>>>>, Eol>>, 5)>> :
                    e \in {B, NL, <<"cat", B, B>>}}
          \cup {<<RuleOf(<<"cat", A, NL>>, 5), RuleOf(Eol, 4)>>}

MCJobs == Alone(Level2 \cup Longer)
          \cup Side(Rivals \cup Longer, Rivals \cup Longer \cup Lazies)
          \cup Side(Lazies, Longer)
          \cup Side(Anchored, {A, <<"cat", A, B>>} \cup Anchored)
          \cup Misled
          \cup {<<RuleOf(e, 5), RuleOf(f, 4), RuleOf(g, 9)>> :
                    e \in Rivals, f \in Rivals, g \in Longer}
=============================================================================
