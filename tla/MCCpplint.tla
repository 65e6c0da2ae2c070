------------------------------ MODULE MCCpplint ------------------------------
(***************************************************************************)
(* Model-checking instance of Cpplint; of Lint the one of MCLint.          *)
(***************************************************************************)
EXTENDS MCLint, Cpplint

MCBlockLines ==
    {<<"namespace", "{">>, <<"namespace", "{", "namespace", "{", "class", ";", "}">>,
     <<"namespace">>, <<"{">>, <<"}">>, <<"}", ";">>, <<"class", "{">>, <<"class", ";">>,
     <<"class">>, <<"targ">>, <<"(">>, <<"class", ")", "{">>, <<"(", ")", ";">>,
     <<"namespace", ";">>, <<"asm(">>, <<")", ";">>, <<"asm{">>, <<"extern{">>,
     <<"class", "{", "class", "}", ";">>}
MCDirectives == {<<>>, <<"(", ")">>}
MCOtherLines == {<<"namespace", "{">>, <<"}">>, <<"class">>, <<"(">>}

\* src/foo.cc with its header, which includes <vector>; the headers of the library,
\* one of C, one of another package and one that is not to be checked.
Path(directory, base, ext, foreign) ==
    [dir |-> directory, base |-> base, ext |-> ext, foreign |-> foreign]
MCTarget == Path(<<"src">>, <<"foo">>, "cc", FALSE)
FooH == Path(<<"src">>, <<"foo">>, "h", FALSE)
String == Path(<<>>, <<"string">>, "", FALSE)
Vector == Path(<<>>, <<"vector">>, "", FALSE)
Unistd == Path(<<>>, <<"unistd">>, "h", FALSE)
FooBarCc == Path(<<"lib">>, <<"foo", "bar">>, "cc", FALSE)
LuaH == Path(<<>>, <<"lua">>, "h", TRUE)

Use(header, qualified, maybe) ==
    [header |-> header, qualified |-> qualified, maybe |-> maybe]

MCHome == <<"home">>
MCPaths == {String, Vector, FooH, Unistd, FooBarCc, LuaH}
MCStandard == {String, Vector}
MCRank ==
    FooBarCc :> 1 @@ LuaH :> 2 @@ FooH :> 3 @@ String :> 4 @@ Unistd :> 5 @@ Vector :> 6
MCOnDisk == FooH :> {Vector}
MCUses == {Use(Vector, FALSE, FALSE), Use(String, TRUE, FALSE), Use(String, TRUE, TRUE)}

MCVerboseLevels == 0..2

MCTokens ==
    {<<"\"">>, <<"'">>, <<"\\", "\"">>, <<"\\", "\\">>, <<"/", "/">>, <<"/", "*">>, <<"*", "/">>,
     <<"x">>, <<"1">>, <<"R", "\"", "(">>, <<")", "\"">>}

\* include/net/buf.h of a repository of Git, one with a submodule, one of Subversion,
\* one of an old Subversion, and what is no repository.
Version(svn, dirs) == [svn |-> svn, dirs |-> dirs]
MCHeader == <<"include", "net", "buf.h">>
MCAlien == <<"buf.h">>
MCPlaces == {<<"home", "project">>, <<"builds">>}
MCControl ==
    {Version(FALSE, {<<>>}), Version(FALSE, {<<>>, <<"include">>}), Version(TRUE, {<<>>}),
     Version(TRUE, {<<>>, <<"include">>, <<"include", "net">>}), Version(FALSE, {})}
MCRoots == {<<>>, <<"include">>, <<"src">>, <<"..">>}
MCReadIn == {<< <<"builds">>, Version(FALSE, {<<>>}), FALSE, <<>> >>}
=============================================================================
