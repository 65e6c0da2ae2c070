---------------------------- MODULE HttpRequests ----------------------------
(* The requests clients send in the instances of HttpContext. *)
EXTENDS Integers, Sequences

ParamLists == {<< >>,
               <<<<<<"a">>, <<"1">>>>>>,
               <<<<<<"a", "b">>, <<"1">>>>, <<<<"b">>, <<"2", "a">>>>>>,
               <<<<<<"a">>, <<"1">>>>, <<<<"a">>, <<"2">>>>>>}

HostLines == {<< >>,
              <<<<<<"Host">>, <<":", "SP">>, <<"a", ":", "1">>>>>>,
              <<<<<<"Host">>, <<"SP", "SP", ":">>, <<"a", "SP", "b">>>>>>}

Bodies == {<< >>, <<"a">>, <<"CR", "LF">>, [i \in 1 .. 12 |-> "SP"]}

LengthLine(body) ==
    <<<<<<"CL">>, <<":", "SP">>, CASE Len(body) = 12 -> <<"1", "2">> [] Len(body) = 2 -> <<"2">>
                                   [] Len(body) = 1 -> <<"1">> [] Len(body) = 0 -> <<"0">>>>>>

Get(method, version, params, host) ==
    [method |-> <<method>>, url |-> <<"/", "a">>, params |-> params,
     version |-> version, headers |-> host, body |-> << >>]

Post(params, host, body) ==
    [method |-> <<"POST">>, url |-> <<"/">>, params |-> params,
     version |-> <<"1", ".", "1">>, headers |-> host \o LengthLine(body), body |-> body]

MCRequests ==
    {Get(m, <<"1", ".", "1">>, p, h) : m \in {"GET", "DELETE", "TRACE"}, p \in ParamLists, h \in HostLines}
        \cup {Post(p, h, b) : p \in ParamLists, h \in HostLines, b \in Bodies}

\* One POST with a body and one GET without.
MCPostAndGet == {Post(<< >>, << >>, <<"a">>), Get("GET", <<"1", ".", "1">>, << >>, << >>)}
=============================================================================
