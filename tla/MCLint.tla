------------------------------- MODULE MCLint -------------------------------
(***************************************************************************)
(* Model-checking instance of Lint: two files in two directories, lib      *)
(* inside src; a.cpp is in lib, b.cpp in src.                              *)
(***************************************************************************)
EXTENDS Lint, TLC

Style == <<"whitespace", "tab">>
Order == <<"build", "include_alpha">>

MCAbove == "a.cpp" :> "lib" @@ "b.cpp" :> "src" @@ "lib" :> "src" @@ "src" :> "root"

Filter(s, p) == [sign |-> s, prefix |-> p]
Setting(n, v) == [name |-> n, val |-> v]

MCConfigs ==
    {NoConfig, Unreadable,
     <<Setting("filter", <<Filter("-", <<"whitespace">>)>>), Setting("linelength", 120)>>,
     <<Setting("filter", <<Filter("+", <<"build">>)>>),
       Setting("filter", <<Filter("-", Order), Filter("+", Style)>>), Setting("set noparent", TRUE)>>,
     <<Setting("linelength", 100), Setting("exclude_files", {"a.cpp", "lib"}),
       Setting("filter", <<Filter("-", <<>>)>>)>>,
     <<Setting("filter", <<Filter("none", <<"build">>)>>)>>}

Text(readable, extension, marks, guard, lines) ==
    [readable |-> readable, extension |-> extension, marks |-> marks, guard |-> guard,
     lines |-> lines]
Nolint(category, next) == [category |-> category, next |-> next]

MCTexts ==
    {Text(TRUE, TRUE, {}, {}, <<Nolint(<<"none">>, FALSE), Nolint(Style, FALSE)>>),
     Text(TRUE, TRUE, {"kernel"}, {2}, <<Nolint(<<"*">>, TRUE), Nolint(<<"unknown">>, FALSE)>>),
     Text(FALSE, TRUE, {}, {}, <<>>),
     Text(TRUE, FALSE, {}, {}, <<>>)}

CommandLine(list, length, names, recursive, exclude) ==
    [filters |-> list, linelength |-> length, verbose |-> 2, names |-> names,
     recursive |-> recursive, exclude |-> exclude]

MCFlags ==
    {CommandLine(<<>>, 80, <<"a.cpp", "b.cpp">>, TRUE, {}),
     CommandLine(<<Filter("-", <<"build">>), Filter("+", Order)>>, 120, <<"b.cpp", "a.cpp">>,
                 FALSE, {}),
     CommandLine(<<>>, 80, <<"a.cpp", "b.cpp">>, TRUE, {"b.cpp"}),
     CommandLine(<<>>, 80, <<>>, FALSE, {}),
     CommandLine(<<Filter("none", <<>>)>>, 80, <<"b.cpp">>, FALSE, {})}

Found(category, confidence, line, ahead) ==
    [category |-> category, confidence |-> confidence, line |-> line, ahead |-> ahead]

MCErrors ==
    {Found(Style, 5, 2, FALSE), Found(Order, 5, 2, FALSE), Found(Order, 1, 0, FALSE),
     Found(<<"readability", "braces">>, 4, 2, TRUE)}

MCDefaultFilters == <<Filter("-", Order)>>
=============================================================================
