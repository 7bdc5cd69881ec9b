---------------------------- MODULE MCSigConfig -----------------------------
(***************************************************************************)
(* Configuration files.  Those for the tables have up to three             *)
(* applications in two of three categories with up to three signatures of  *)
(* up to two elements; with a sentinel of 7 the elements of the largest    *)
(* one no longer have numbers of their own, nor have the signatures of one *)
(* that has nine of them, all but one empty.  The others are written in    *)
(* other orders and layouts, leave something out, or break off.            *)
(***************************************************************************)
EXTENDS SigConfig

MCNumbers == ("0x0" :> 0) @@ ("1" :> 1) @@ ("0x2" :> 2) @@ ("3" :> 3)
Digit(n) == CHOOSE w \in DOMAIN MCNumbers : MCNumbers[w] = n

(* Writing a file down. *)
Line(pair) == <<pair[1], " ">> \o pair[2] \o <<";", "\n">>
Lines(list) == FlattenSeq([i \in DOMAIN list |-> Line(list[i])])
SigText(list) == <<"sig", "{", "\n">> \o Lines(list) \o <<"}">>
AppText(app) ==
    <<"application", " ", "{">> \o Lines(app.pairs) \o <<"sign", "{">>
    \o FlattenSeq([s \in DOMAIN app.sigs |-> SigText(app.sigs[s])])
    \o <<"}", "}", "\n">>
TextOf(list) == FlattenSeq([a \in DOMAIN list |-> AppText(list[a])])
Source(list, rest) == [text |-> TextOf(list) \o rest, apps |-> list]

-----------------------------------------------------------------------------

Element == (1 :> <<"http_host", "=", "a">>) @@ (2 :> <<"http_ua", "=", "b">>)
Match(classes) ==
    FlattenSeq([i \in DOMAIN classes |->
                   Element[classes[i]] \o IF i < Len(classes) THEN <<"&">>
                                          ELSE <<>>])
    \o IF classes = <<>> THEN <<"&">> ELSE <<>>
SigPairs(match) == <<<<"sig_id", <<"0x2">>>>, <<"sig_proto", <<"HTTP">>>>,
                     <<"sig_type", <<"AC_MULTI">>>>, <<"sig_match", match>>>>
AppPairs(id, category) ==
    <<<<"appid", <<Digit(id)>>>>, <<"appname", <<"n">>>>,
      <<"category", <<Digit(category)>>>>>>
App(id, category, list) ==
    [pairs |-> AppPairs(id, category),
     sigs |-> [s \in DOMAIN list |-> SigPairs(Match(list[s]))]]

Sig == {<<>>, <<1>>, <<2, 1>>}
SigLists == {<<s>> : s \in Sig} \cup {<<s, t>> : s, t \in Sig \ {<<>>}}
            \cup {<<<<1>>, <<2, 1>>, <<1>>>>}
FewLists == {<<<<1>>>>, <<<<2, 1>>, <<1>>>>, <<<<1>>, <<2, 1>>, <<1>>>>}
Apps(id, lists) == {App(id, c, l) : c \in {0, 2}, l \in lists}

TableApps ==
    {<<a>> : a \in Apps(1, SigLists)}
    \cup {<<a, b>> : a \in Apps(1, SigLists), b \in Apps(2, SigLists)}
    \cup {<<a, b, c>> : a \in Apps(1, FewLists), b \in Apps(2, FewLists),
                        c \in Apps(3, FewLists)}
    \cup {<<App(1, 0, [s \in 1 .. 9 |-> IF s < 9 THEN <<>> ELSE <<1>>])>>}

-----------------------------------------------------------------------------

Good == App(1, 0, <<<<1>>>>)
WithSig(list) ==
    [Good EXCEPT !.sigs = <<SigPairs(<<"http_re", "=", "c">>), list>>]
WithPairs(list) == [Good EXCEPT !.pairs = list]

Texts == {<<>>, <<"a">>, <<"=">>, <<"=", "a">>, <<"=", "=", "a">>,
          <<"a", "=">>, <<"http_url", "=", "a", "=">>, <<"http_re", "x", "=", "c">>,
          <<"&", "a", "=", "b", "&", "&", "http_url", "=", "d", "&">>,
          <<"http_ua", "=", "a", "&", "b">>, <<"a", "&", "b", "=", "d">>,
          <<"http_host", "=", "a", "&", "http_host", "=", "a">>,
          [i \in 1 .. 12 |-> IF i = 2 THEN "=" ELSE "a"],
          [i \in 1 .. 11 |-> IF i = 2 THEN "=" ELSE "a"]}
Types == {"AC_SINGLE", "AC_MULTI", "REGEX", "OTHER"}
SigCases ==
    {<<<<"sig_type", <<t>>>>, <<"sig_match", m>>, <<"sig_proto", <<p>>>>>> :
        t \in Types, m \in Texts \ {<<>>}, p \in {"HTTP", "UDP", "TCP", "IP"}}
    \cup {<<<<"sig_id", <<"3">>>>>>,
          <<<<"sig_match", <<"a", "=", "b">>>>, <<"sig_match", <<"a">>>>>>,
          <<<<"sig_match", <<"a", "=", "b">>>>, <<"sig_id", <<"0x2">>>>,
            <<"sig_id", <<"3">>>>, <<"sig_proto", <<"HTTP">>>>>>}

AppCases ==
    {<<<<"appname", <<"n">>>>>>, <<<<"appid", <<"1">>>>>>,
     <<<<"category", <<"0x2">>>>, <<"category", <<"1">>>>,
       <<"appname", <<"n", "m">>>>, <<"appname", <<"o">>>>,
       <<"appid", <<"x">>>>>>,
     <<<<"appname", <<"n", "n", "n", "n">>>>>>,
     <<<<"appid", <<"3">>>>, <<"appname", <<"n", "n", "n">>>>>>}

(* What is no application, after what is one: a key of its own behind the  *)
(* signatures, no signatures, an empty list, a space before a comma, two   *)
(* commas, a value that swallows the next key, a lone brace or word, a     *)
(* comment the file ends in.                                               *)
Rests ==
    {<<"application">>, <<"x", ";">>, <<"}">>, <<"#", "x">>,
     <<"application", "{", "appid", " ", "1", " ", ";", "sign">>,
     <<"application", "{", "appid", " ", "1", ";", ";", "sign">>,
     <<"application", "{", "appid", " ", "1", ";", "appname", " ", "n", ";">>,
     <<"application", "{", "sign", "{", "sig", "{", "a", " ", "b", ";", "}">>,
     <<"application", "{", "}">>,
     <<"application", "{", "a", " ", "b", ";", "sign", "{", "}", "}">>,
     <<"application", "{", "a", " ", "b", ";", "}">>,
     SubSeq(AppText(Good), 1, Len(AppText(Good)) - 2) \o Line(<<"a", <<"b">>>>)
         \o <<"}">>,
     SubSeq(AppText(Good), 1, Len(AppText(Good)) - 2)}

(* The same application in another layout. *)
Rewritten(atom) == CASE atom = "sign" -> <<" ", "Sign", "\n", "\n">>
                     [] atom = "{" -> <<"{", "#", "{", ";", "\n", " ">>
                     [] atom = "application" -> <<"#", "\n", "APPLICATION">>
                     [] OTHER -> <<atom>>
Relaid(list) ==
    LET plain == TextOf(list)
    IN  [text |-> FlattenSeq([i \in DOMAIN plain |-> Rewritten(plain[i])])
                  \o <<"#", "#", "\n">>,
         apps |-> list]

MCSources ==
    {Source(list, <<>>) : list \in TableApps}
    \cup {Source(<<WithSig(s)>>, <<>>) : s \in SigCases}
    \cup {Source(<<Good, WithPairs(p)>>, <<>>) : p \in AppCases}
    \cup {Source(list, rest) :
              list \in {<<>>, <<Good>>}, rest \in Rests \cup {<<>>}}
    \cup {Relaid(list) :
              list \in {<<Good>>, <<Good, App(2, 2, <<<<2, 1>>>>)>>}}

-----------------------------------------------------------------------------

(* The configurations these files spell out. *)
Spelt(list) ==
    [a \in DOMAIN list |->
        [id |-> Number(Written(list[a].pairs, "appid")),
         category |-> Number(Written(list[a].pairs, "category")),
         sigs |-> [s \in DOMAIN list[a].sigs |->
            LET parts == Parts(Written(list[a].sigs[s], "sig_match"))
            IN  [e \in DOMAIN parts |-> get_element_id_from_sig(parts[e])]]]]
Spelling == {src.apps : src \in MCSources} \ {<<>>}
MCConfigs == {Spelt(list) : list \in
                 {l \in Spelling : \A a \in DOMAIN l : GoodApp(l[a])}}

(* Memory that is clean, or was used before. *)
MCJunk == {[flags |-> <<{}>>, index |-> <<0>>],
           [flags |-> <<{END}, {}, {START}>>, index |-> <<1, 3>>]}
=============================================================================
