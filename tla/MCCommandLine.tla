---------------------------- MODULE MCCommandLine ----------------------------
(* Instances of CommandLine for TLC. *)
EXTENDS CommandLine

CONSTANTS base, sub, theme, cwd

\* base/a.html, base/sub/a.html, base/run.sh.j2, theme/a.html and out.html
TheFiles == 1..5
TheDirs == {base, sub, theme}
Above == (1 :> {cwd, base}) @@ (2 :> {cwd, base, sub}) @@ (3 :> {cwd, base}) @@ (4 :> {cwd, theme})
         @@ (5 :> {cwd}) @@ (base :> {cwd, base}) @@ (sub :> {cwd, base, sub})
         @@ (theme :> {cwd, theme})
TheWalks == (base :> <<3, 2, 1>>) @@ (sub :> <<2>>) @@ (theme :> <<4>>)
Names == (base :> (1 :> "a" @@ 2 :> "sub/a" @@ 3 :> "run")) @@ (sub :> (2 :> "a"))
         @@ (theme :> (4 :> "a"))
Parents == (1 :> base) @@ (2 :> sub) @@ (3 :> base) @@ (4 :> theme) @@ (5 :> cwd)
NameParts == [f \in TheFiles |-> IF f = 3 THEN <<"run", "sh", "j2">> ELSE <<"a", "html">>]

E101 == <<"E", "1", "0", "1">>
W201 == <<"W", "2", "0", "1">>
E501 == <<"E", "5", "0", "1">>
CodeW106 == <<"W", "1", "0", "6">>
CodeW107 == <<"W", "1", "0", "7">>
Classes == {<<"E">>, <<"E", "1">>, <<"W">>, <<"W", "2">>, E101, W201, E501, CodeW106, CodeW107}

At(line, col, code) == [line |-> line, col |-> col, code |-> code]
Line(tags, comments) == [tags |-> tags, comments |-> comments]
Plain == Line(<<"open", "close">>, <<>>)
Noqa(ids) == [word |-> "noqa", separator |-> IF ids = <<>> THEN "none" ELSE "colon", ids |-> ids]
NoqaFile(sep, ids) == [word |-> "noqa-file", separator |-> sep, ids |-> ids]

\* "plain" is not formatted, "tidy" is; "empty" has no line.
TheTexts == {"plain", "tidy", "spans", "filed", "empty"}
TheLines ==
    [plain |-> <<Plain, Line(<<>>, <<Noqa(<<<<"W", "2">>>>)>>)>>,
     tidy |-> <<Plain>>,
     spans |-> <<Line(<<"open", "close", "open">>, <<Noqa(<<<<"E", "1">>>>)>>),
                 Line(<<>>, <<>>), Line(<<"close">>, <<>>), Plain>>,
     filed |-> <<Line(<<>>, <<NoqaFile("colon", <<<<"W", "2">>, <<"Q">>>>)>>),
                 Line(<<"open", "close">>, <<NoqaFile("space", <<<<"E">>>>)>>)>>,
     empty |-> <<>>]
TheFinds ==
    [plain |-> <<At(2, 0, W201), At(1, 3, E101), At(1, 3, CodeW106)>>,
     tidy |-> <<At(1, 0, E101)>>,
     spans |-> <<At(2, 1, E101), At(2, 0, W201), At(4, 0, E101)>>,
     filed |-> <<At(2, 0, W201), At(2, 0, E101)>>,
     empty |-> <<>>]
TheNeeds == [t \in TheTexts |-> IF t = "tidy" THEN [key |-> "sub/a", finding |-> At(1, 0, E501)]
                                ELSE None]
Html == [t \in TheTexts |-> IF t = "plain" THEN "tidy" ELSE t]
Jinja == [t \in TheTexts |-> IF t = "spans" THEN "empty" ELSE t]

Config(dirs, exts, select, ignore) ==
    [templates |-> dirs, extensions |-> exts, select |-> select, ignore |-> ignore]
Default0 == Config(<<base>>, {"html", "j2"}, {}, {})
Html0 == Config(<<base, theme>>, {"html"}, {<<"W">>, <<"E">>}, {<<"E", "5">>})
Found0(here, there) == [d \in TheDirs \cup {cwd} |-> IF d = cwd THEN here
                                                    ELSE IF d = theme THEN there ELSE None]
TheLayouts == {Found0(None, None), Found0(Html0, Bad), Found0(None, Html0), Found0(Bad, None)}

Check(paths, select, ignore) ==
    [kind |-> "check", paths |-> paths, usage |-> TRUE, config |-> None,
     select |-> select, ignore |-> ignore]
Format(paths, check, diff, output) ==
    [kind |-> "format", paths |-> paths, config |-> None, check |-> check, diff |-> diff,
     output |-> output]
TheCommands ==
    {Check(<<>>, {}, {<<"W", "2">>}), Check(<<base, theme>>, {}, {}),
     Check(<<theme, sub>>, {<<"W", "1">>}, {}), [Check(<<sub>>, {}, {}) EXCEPT !.usage = FALSE],
     [Check(<<base>>, {}, {}) EXCEPT !.config = Html0],
     [Format(<<2>>, TRUE, FALSE, None) EXCEPT !.config = Bad],
     Format(<<>>, FALSE, FALSE, None), Format(<<>>, TRUE, FALSE, None),
     Format(<<base, 2>>, FALSE, TRUE, None), Format(<<2, sub>>, FALSE, FALSE, None),
     Format(<<1>>, FALSE, FALSE, 5), Format(<<sub, theme>>, FALSE, FALSE, 5),
     Format(<<2>>, FALSE, FALSE, Stdout)}

Disk(a, b, c, d) == (1 :> a) @@ (2 :> b) @@ (3 :> c) @@ (4 :> d) @@ (5 :> Absent)
TheDisks == {Disk("plain", "spans", "spans", "tidy"), Disk("tidy", Absent, "filed", "plain"),
             Disk("filed", "plain", Unreadable, "plain")}

\* No line of the instance closes a tag from above and then opens and closes another.
ASSUME TextsSettle == \A t \in TheTexts : TagsSettle(TheLines[t])
=============================================================================
