---------------------------- MODULE MCRegexParse ----------------------------
(***************************************************************************)
(* Rules for the parser of regular expressions: expressions with a known   *)
(* meaning, written down and read back, and texts that need not be legal.  *)
(***************************************************************************)
EXTENDS MCRegex

MoreRepeats ==
    {<<"rep", e, T("{1}"), 1, 1>> : e \in Singles}
    \cup {<<"rep", e, T("{1,}"), 1, -1>> : e \in Singles}
    \cup {<<"rep", e, T("{0,}"), 0, -1>> : e \in Singles}
    \cup {<<"rep", e, T("{0,1}?"), 0, 1>> : e \in Singles}
    \cup {<<"rep", e, T("{0,3}"), 0, 3>> : e \in Level2}
    \cup {<<"rep", e, T("{3}?"), 3, 3>> : e \in Level2}
    \cup {<<"rep", e, T("{1,2}"), 1, 2>> : e \in Level2}
    \cup {<<"rep", e, T("{2,2}"), 2, 2>> : e \in Level2}
    \cup {<<"rep", e, T("{2,3}"), 2, 3>> : e \in Level2}

(* Where options hold, strings, and what skip_ws leaves out. *)
OptionTexts ==
    {<<"cat", <<"flags", T("-i"), {}, {"icase"}, <<"cat", f, A>>>>, A>> :
        f \in {<<"set", FALSE, T("(a)"), {97}>>, A,
               <<"flags", T("i"), {"icase"}, {}, A>>,
               <<"flags", T("i-s-x"), {"icase", "dot_not_newline"}, {}, A>>}}
    \cup {<<"flags", T("x"), {}, {}, <<"set", FALSE, T(" a "), {97}>>>>,
          <<"flags", T("-sx"), {"dot_not_newline"}, {},
            <<"cat", <<"set", FALSE, T("/*b*/a "), {97}>>,
                     <<"set", FALSE, T(". /* * */"), Char \ {10}>>>>>>,
          <<"set", FALSE, T("a(?#b(c)d)"), {97}>>,
          <<"exact", T("\"a\""), {97}>>,
          <<"cat", <<"exact", T("\"a"), {97}>>, <<"exact", T("b\""), {98}>>>>,
          <<"exact", T("\"|\""), {124}>>, <<"exact", T("\"\\x62\""), {98}>>,
          <<"cat", A, <<"exact", T("\"/\""), {47}>>>>}

-----------------------------------------------------------------------------
(* Single sets.                                                            *)

Capital == 65 .. 90
Small == 97 .. 122
Digits == 48 .. 57
White == 9 .. 13 \cup {32}
Visible == 33 .. 126

Escapes ==
    {Is("\\a", 7), Is("\\b", 8), Is("\\e", 27), Is("\\f", 12), Is("\\n", 10),
     Is("\\r", 13), Is("\\t", 9), Is("\\v", 11), Is("\\*", 42), Is("\\0", 0),
     Is("\\101", 65), Is("\\377", 255), Is("\\x41", 65), Is("\\xfF", 255),
     Is("\\cA", 1), Is("\\cz", 26), Is("\\c@", 0), Is("\\/", 47)}
    \cup {In("\\d", Digits), NotIn("\\D", Digits), In("\\s", White),
          NotIn("\\S", White), In("\\w", Digits \cup Capital \cup Small \cup {95}),
          NotIn("\\W", Digits \cup Capital \cup Small \cup {95}),
          In("[\\p{Cc}]", 0 .. 31 \cup 127 .. 159)}

Classes ==
    {In("[[:alnum:]]", Digits \cup Capital \cup Small),
     In("[[:alpha:]]", Capital \cup Small), In("[[:blank:]]", {9, 32}),
     In("[[:cntrl:]]", 0 .. 31 \cup {127}), In("[[:digit:]]", Digits),
     In("[[:graph:]]", Visible), In("[[:lower:]]", Small),
     In("[[:print:]]", 32 .. 126),
     In("[[:punct:]]", Visible \ (Digits \cup Capital \cup Small)),
     In("[[:space:]]", White), In("[[:upper:]]", Capital),
     In("[[:xdigit:]]", Digits \cup 65 .. 70 \cup 97 .. 102),
     NotIn("[[:^upper:]]", Capital), NotIn("[^[:upper:]]", Capital)}

Brackets ==
    {In("[a]", {97}), NotIn("[^a]", {97}), In("[a-c]", 97 .. 99),
     In("[ca-b]", 97 .. 99), In("[a-ce-gb-f]", 97 .. 103), In("[_-a]", 95 .. 97),
     In("[a\\-c]", {97, 45, 99}), In("[\\x41-\\103]", 65 .. 67),
     In("[\\0011]", {1, 49}), In("[\\d_]", Digits \cup {95}), In("[Y-b]", 89 .. 98),
     In("[*|(]", {42, 124, 40}), In("[a^]", {97, 94}), In("[-+]", {45, 43}),
     In("[[]", {91}), In("[\"]", {34}), NotIn("[^]", {})}

Diffs ==
    {In("[a-e]{-}[bd]", {97, 99, 101}), In("[a-e]{-}[a]", 98 .. 101),
     In("[ab]{+}[c-d]", 97 .. 100), In("[a-e]{-}[b]{+}[x]{-}[e]", {97, 99, 100, 120}),
     NotIn("[^a]{-}[b]", {97, 98})}

-----------------------------------------------------------------------------

Groups == {<<RuleOf(e, 1), RuleOf(f, 2)>> :
              e \in Anchored, f \in {A, <<"cat", A, B>>} \cup Anchored}

(* A macro is used by its name. *)
Def(e) == <<"def", T("{m}"), e>>
WithMacro ==
    UNION {{<<MacroOf(d, <<"m">>), RuleOf(e, 1)>> :
                    e \in {Def(d), <<"rep", Def(d), T("+"), 1, -1>>,
                           <<"cat", Def(d), Def(d)>>, <<"or", A, Def(d)>>,
                           <<"cat", A, Def(d)>>,
                           <<"flags", T("-i"), {}, {"icase"}, Def(d)>>}} :
                  d \in Singles \cup {<<"cat", A, B>>, <<"or", A, B>>,
                                      <<"rep", A, T("{2}"), 2, 2>>}}
    \cup {<<MacroOf(In("[ab]", {97, 98}), <<"m">>),
            RuleOf(In("[a-e]{-}{m}", {99, 100, 101}), 1)>>,
          <<MacroOf(In("[^ab]", {97, 98}), <<"m">>),
            RuleOf(NotIn("{m}{-}[c]", {97, 98, 99}), 1)>>}

(* Jobs that push or insert_macro refuse, or a part of the tokeniser.      *)
Named(name, s) == [name |-> T(name), text |-> T(s), id |-> 0, re |-> <<>>]
Text1(s) == RuleText(T(s))
BadNames ==
    {<<Named("1", "a")>>, <<Named("m+", "a")>>, <<Named("m", "")>>,
     <<Named("m", "a"), Named("m", "b")>>, <<[Text1("a") EXCEPT !.id = 0]>>,
     <<[Text1("a") EXCEPT !.id = NPOS]>>, <<Named("_m-1", "a")>>,
     <<Named("m", "ab"), Text1("[a]{-}{m}")>>,
     <<Named("m", "ab"), Text1("{m}{-}[a]")>>,
     <<Named("m", "^a$"), Text1("{m}{+}[a]")>>}
BadTexts ==
    {"", "^", "(a", "a)", "\"a", "a/b", "a**", "a*\"\"?", "(?x:a* ?)", "a?\"\"?",
     "a{", "a{1", "a{0}", "a{3,2}", "a{0,0}", "{m}", "{1}", "{m", "a{-}[a]",
     "[a]{-}[a]", "[a]{-}", "[a]{-}b", "[a]{-", "ab{-}[a]", "(a){-}[a]",
     "[", "[^", "[a", "[]", "[^\\x00-\\xff]", "[a-", "[a-]", "[b-a]", "[a-\\d]",
     "[\\d-a]", "[[:digit:]-a]", "[a-[:digit:]]", "[[:foo:]]", "[[:digi:]]",
     "[[:alp:]]", "[[:digit]]", "[[:digit:", "[\\", "\\", "\\x", "\\xg",
     "\\x100", "\\777", "\\c", "\\c1", "\\p{Lu}", "(?y:a)", "(?i", "(?",
     "(?#a", "(?x:/*a)", "(?x:a/)", "()", "a|", "|a", "(|a)", "$a", "a^", "a^b",
     "^*a", "a$*", "^^a", "a$$"}

Short == UNION {[1 .. n -> {"a", "(", ")", "|", "*", "?", "\""}] : n \in 1 .. 4}

MCJobs == Alone(Singles \cup Level2 \cup Level3 \cup MoreRepeats)
          \cup Alone(OptionTexts \cup Escapes \cup Classes \cup Brackets \cup Diffs)
          \cup Alone(Anchored) \cup Groups \cup WithMacro \cup BadNames
          \cup {<<Text1(s)>> : s \in BadTexts} \cup {<<RuleText(t)>> : t \in Short}
=============================================================================
