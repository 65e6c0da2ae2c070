----------------------------- MODULE HttpContext -----------------------------
(***************************************************************************)
(* The HTTP request parser of a connection: ParaseRequest is called with   *)
(* what each Read() brought, and ResetState after a complete request.      *)
(*                                                                         *)
(* The input is a sequence of symbols, a symbol being a character the      *)
(* parser looks at or a whole word; start and end are offsets from begin.  *)
(* state and request belong to the HttpContext, everything else is local   *)
(* to the call.                                                            *)
(***************************************************************************)
EXTENDS Integers, SequencesExt

CONSTANTS
    Requests,      \* the requests clients send
    Arrives,       \* how much of a request one Read() brings
    MaxRequests    \* bound: requests on one connection

VARIABLES
    state,     \* state_
    request,   \* request_: what the parser has stored
    input,     \* the bytes of this call; size is Len(input)
    start, end, key, vers,
    pc,        \* "idle": between calls; "parsing"; "returned"; "closed": after a 400
    sent,      \* the request being sent (history)
    count      \* requests sent on this connection

local == <<input, start, end, key, vers>>
vars == <<state, request, local, pc, sent, count>>

-----------------------------------------------------------------------------
(***************************************************************************)
(* The client's side: how a request is written.                            *)
(***************************************************************************)
Blank == "SP"
Methods == {"GET", "POST", "HEAD", "PUT", "DELETE"}
Upper == Methods \cup {"HTTP", "TRACE"}
Alpha == Upper \cup {"a", "b", "Host"}
DigitValue == [d \in {"0", "1", "2"} |-> CASE d = "0" -> 0 [] d = "1" -> 1 [] d = "2" -> 2]
Digit == DOMAIN DigitValue

\* atoi: the digits text begins with.
IntOf(text) ==
    LET value[k \in 0 .. Len(text)] ==
            IF k = 0 THEN 0 ELSE 10 * value[k - 1] + DigitValue[text[k]]
        runs == {k \in 0 .. Len(text) : \A i \in 1 .. k : text[i] \in Digit}
    IN  value[CHOOSE k \in runs : \A i \in runs : i <= k]

Query(params) ==
    FlattenSeq([i \in 1 .. Len(params) |->
        <<IF i = 1 THEN "?" ELSE "&">> \o params[i][1] \o <<"=">> \o params[i][2]])

HeaderLines(headers) ==
    FlattenSeq([i \in 1 .. Len(headers) |->
        headers[i][1] \o headers[i][2] \o headers[i][3] \o <<"CR", "LF">>])

HeadOf(r) ==
    r.method \o <<"SP">> \o r.url \o Query(r.params) \o <<"SP", "HTTP", "/">>
        \o r.version \o <<"CR", "LF">> \o HeaderLines(r.headers) \o <<"CR", "LF">>

MessageOf(r) == HeadOf(r) \o r.body

\* A request as its sender means it: params is a sequence of pairs <<key, value>>,
\* headers of triples <<key, separator, value>>.
Word(w, stops) == w \in Seq(STRING) /\ \A i \in 1 .. Len(w) : w[i] \notin stops

WellFormed(r) ==
    /\ DOMAIN r = {"method", "url", "params", "version", "headers", "body"}
    /\ \E m \in Upper : r.method = <<m>>
    /\ Word(r.url, {Blank, "?"}) /\ r.url # << >> /\ r.url[1] = "/"
    /\ r.params \in Seq(Seq(STRING) \X Seq(STRING))
    /\ \A i \in 1 .. Len(r.params) :
          /\ Word(r.params[i][1], {Blank, "CR", "LF", "="}) /\ r.params[i][1] # << >>
          /\ Word(r.params[i][2], {Blank, "CR", "LF", "&"}) /\ r.params[i][2] # << >>
    /\ \E major, minor \in Digit : r.version = <<major, ".", minor>>
    /\ r.headers \in Seq(Seq(STRING) \X Seq(STRING) \X Seq(STRING))
    /\ \A i \in 1 .. Len(r.headers) :
          /\ Word(r.headers[i][1], {Blank, "CR", ":"}) /\ r.headers[i][1] # << >>
          /\ r.headers[i][2] \in Seq({Blank, ":"})
          /\ \E c \in 1 .. Len(r.headers[i][2]) : \A j \in 1 .. Len(r.headers[i][2]) :
                (r.headers[i][2][j] = ":") <=> (j = c)
          /\ Word(r.headers[i][3], {"CR"}) /\ r.headers[i][3] # << >>
          /\ r.headers[i][3][1] # Blank
          /\ r.headers[i][1] = <<"CL">> => IntOf(r.headers[i][3]) = Len(r.body)
    /\ r.body \in Seq(STRING)

HttpContextAssumption ==
    /\ \A r \in Requests : WellFormed(r)
    /\ Arrives \in {"whole", "head", "part"}
    /\ MaxRequests \in Nat

-----------------------------------------------------------------------------
States == {"INVAILD", "START", "METHOD", "BEFORE_URI", "IN_URI", "BEFORE_URI_PARAMS_KEY",
           "IN_URI_PARAMS_KEY", "BEFORE_URI_PARAMS_VALUE", "IN_URI_PARAMS_VALUE",
           "BEFORE_PROTOCOL", "IN_PROTOCOL", "BEFORE_VERSION", "IN_VERSION",
           "VERSION_SPLIT", "HEADER_KEY", "HEADER_BEFORE_COLON", "HEADER_AFTER_COLON",
           "HEADER_VALUE", "CR", "CRLF", "CRLFCR", "BODY", "COMPLETE"}

\* An HttpRequest with nothing in it; params_ and headers_ are empty maps
NoRequest == [method |-> "INVAILD", url |-> << >>, params |-> << >>, protocol |-> << >>,
              version |-> "INVAILD_VERSION", headers |-> << >>, body |-> << >>]

Init ==
    /\ state = "START"
    /\ request = NoRequest
    /\ input = << >> /\ start = 0 /\ end = 0 /\ key = << >> /\ vers = << >>
    /\ pc = "idle"
    /\ sent = NoRequest
    /\ count = 0

\* Read() has brought n symbols of a request, and OnHttpRequest calls
\* ParaseRequest on them.
ParaseRequest(r, n) ==
    /\ pc = "idle"
    /\ count < MaxRequests
    /\ CASE Arrives = "whole" -> n = Len(MessageOf(r))
         [] Arrives = "head"  -> n >= Len(HeadOf(r))
         [] Arrives = "part"  -> TRUE
    /\ input' = SubSeq(MessageOf(r), 1, n)
    /\ sent' = r
    /\ count' = count + 1
    /\ start' = 0 /\ end' = 0 /\ key' = << >> /\ vers' = << >>
    /\ pc' = "parsing"
    /\ UNCHANGED <<state, request>>

\* The character at end; c_str() ends with a NUL, and what lies beyond it is
\* anything.
CharsAt(e) ==
    IF e < Len(input) THEN {input[e + 1]}
    ELSE IF e = Len(input) THEN {"NUL"}
    ELSE Alpha \cup Digit \cup {"SP", "CR", "LF", ":", "/", "?", "=", "&", "."}

\* The condition of the while loop: the bound is relative to start
Goes ==
    /\ state \notin {"COMPLETE", "INVAILD"}
    /\ end - start < Len(input)

\* std::string(start, end)
Text == SubSeq(input, start + 1, end)

\* One iteration ends: the new state, whether start = end, and end++
To(st, moves) ==
    /\ state' = st
    /\ start' = IF moves THEN end ELSE start
    /\ end' = end + 1

Stores(r, k, v) == request' = r /\ key' = k /\ vers' = v
Keeps == UNCHANGED <<request, key, vers>>

\* The conversions of HttpRequest.  The assignment of HTTP_10 is always
\* overwritten by the if-else that follows it.
SetMethod(text) == IF text \in {<<m>> : m \in Methods} THEN text[1] ELSE "INVAILD"
SetVersion(text) == IF text = <<"1", ".", "1">> THEN "HTTP_11" ELSE "INVAILD_VERSION"

Put(map, k, v) == [x \in DOMAIN map \cup {k} |-> IF x = k THEN v ELSE map[x]]
With(field, k, v) == [request EXCEPT ![field] = Put(@, k, v)]
-----------------------------------------------------------------------------
(***************************************************************************)
(* The cases of the switch.                                                *)
(***************************************************************************)
RequestLine(ch) ==
    \/ /\ state = "START"
       /\ To(IF ch \in Upper THEN "METHOD" ELSE state, FALSE)
       /\ Keeps
    \/ /\ state = "METHOD"
       /\ IF ch = Blank
          THEN /\ Stores([request EXCEPT !.method = SetMethod(Text)], key, vers)
               /\ To("BEFORE_URI", TRUE)
          ELSE Keeps /\ To(state, FALSE)
    \/ /\ state = "BEFORE_URI"
       /\ IF ch = "/" THEN To("IN_URI", TRUE) ELSE To(state, FALSE)
       /\ Keeps
    \/ /\ state = "IN_URI"
       /\ IF ch \in {Blank, "?"}
          THEN /\ Stores([request EXCEPT !.url = Text], key, vers)
               /\ To(IF ch = "?" THEN "BEFORE_URI_PARAMS_KEY" ELSE "BEFORE_PROTOCOL", TRUE)
          ELSE Keeps /\ To(state, FALSE)

ValueStarts(ch) ==
    /\ state = "BEFORE_URI_PARAMS_VALUE"
    /\ IF ch \in {Blank, "CR", "LF"} THEN To("INVAILD", FALSE)
       ELSE To("IN_URI_PARAMS_VALUE", TRUE)
    /\ Keeps

Params(ch) ==
    \/ /\ state = "BEFORE_URI_PARAMS_KEY"
       /\ IF ch \in {Blank, "CR", "LF"} THEN To("INVAILD", FALSE)
          ELSE To("IN_URI_PARAMS_KEY", TRUE)
       /\ Keeps
    \/ /\ state = "IN_URI_PARAMS_KEY"
       /\ IF ch = "="
          THEN /\ Stores(With("params", Text, << >>), Text, vers)
               /\ To("BEFORE_URI_PARAMS_VALUE", FALSE)
          ELSE Keeps /\ To(state, FALSE)
    \/ ValueStarts(ch)
    \/ /\ state = "IN_URI_PARAMS_VALUE"
       /\ IF ch \in {"&", Blank}
          THEN /\ Stores(With("params", key, Text), key, vers)
               /\ To(IF ch = "&" THEN "BEFORE_URI_PARAMS_KEY" ELSE "BEFORE_PROTOCOL", TRUE)
          ELSE Keeps /\ To(state, FALSE)

Protocol(ch) ==
    \/ /\ state = "BEFORE_PROTOCOL"
       /\ IF ch \in Alpha THEN To("IN_PROTOCOL", TRUE) ELSE To(state, FALSE)
       /\ Keeps
    \/ /\ state = "IN_PROTOCOL"
       /\ IF ch = "/"
          THEN /\ Stores([request EXCEPT !.protocol = Text], key, vers)
               /\ To("BEFORE_VERSION", TRUE)
          ELSE Keeps /\ To(state, FALSE)
    \/ /\ state = "BEFORE_VERSION"
       /\ IF ch \in Digit THEN To("IN_VERSION", TRUE) ELSE To("INVAILD", FALSE)
       /\ Keeps
    \/ /\ state = "IN_VERSION"
       /\ CASE ch = "CR" -> /\ Stores([request EXCEPT !.version = SetVersion(vers \o Text)],
                                      key, vers \o Text)
                            /\ To("CR", FALSE)
            [] ch = "."  -> Stores(request, key, vers \o Text) /\ To("VERSION_SPLIT", TRUE)
            [] OTHER     -> Keeps /\ To(state, FALSE)
    \/ /\ state = "VERSION_SPLIT"
       /\ IF ch \in Digit
          THEN Stores(request, key, vers \o <<".">>) /\ To("IN_VERSION", TRUE)
          ELSE Keeps /\ To("INVAILD", FALSE)

\* A plausible mistake: the empty line is recognised by its line feed.
EmptyLineAtLf(ch) == ch = "LF"

EmptyLine(ch) == ch = "CR"

Headers(ch) ==
    \/ /\ state = "CR"
       /\ IF ch = "LF" THEN To("CRLF", TRUE) ELSE To("INVAILD", FALSE)
       /\ Keeps
    \/ /\ state = "CRLF"
       /\ CASE ch = Blank     -> To("INVAILD", FALSE)
            [] EmptyLine(ch)  -> To("CRLFCR", FALSE)
            [] OTHER          -> To("HEADER_KEY", TRUE)
       /\ Keeps
    \/ /\ state = "HEADER_KEY"
       /\ IF ch \in {":", Blank}
          THEN /\ Stores(With("headers", Text, << >>), Text, vers)
               /\ To(IF ch = ":" THEN "HEADER_AFTER_COLON" ELSE "HEADER_BEFORE_COLON", TRUE)
          ELSE Keeps /\ To(state, FALSE)
    \/ /\ state = "HEADER_BEFORE_COLON"
       /\ CASE ch = Blank -> To(state, FALSE)
            [] ch = ":"   -> To("HEADER_AFTER_COLON", TRUE)
            [] OTHER      -> To("INVAILD", FALSE)
       /\ Keeps
    \/ /\ state = "HEADER_AFTER_COLON"
       /\ IF ch = Blank THEN To(state, FALSE) ELSE To("HEADER_VALUE", TRUE)
       /\ Keeps
    \/ /\ state = "HEADER_VALUE"
       /\ IF ch = "CR"
          THEN Stores(With("headers", key, Text), key, vers) /\ To("CR", FALSE)
          ELSE Keeps /\ To(state, FALSE)

HasContentLength == <<"CL">> \in DOMAIN request.headers
ContentLength == IF HasContentLength THEN IntOf(request.headers[<<"CL">>]) ELSE 0

BodyStart == end + 1

\* At the line feed of the empty line.  Without a Content-Length the test is
\* size > end - begin, which the position of that line feed always passes.
EndOfHead(ch) ==
    /\ state = "CRLFCR"
    /\ Keeps
    /\ IF ch # "LF" THEN To(state, FALSE)
       ELSE IF IF HasContentLength THEN ContentLength > 0 ELSE Len(input) > end
       THEN state' = "BODY" /\ start' = BodyStart /\ end' = end + 1
       ELSE To("COMPLETE", FALSE)

BodyDone(n) == n >= ContentLength

\* Everything from start to the end of the input is the body.
Body(ch) ==
    LET bodylength == Len(input) - start
    IN  /\ state = "BODY"
        /\ Stores([request EXCEPT !.body = SubSeq(input, start + 1, start + bodylength)],
                  key, vers)
        /\ state' = IF BodyDone(bodylength) THEN "COMPLETE" ELSE state
        /\ end' = start + bodylength
        /\ UNCHANGED start

\* One iteration of the while loop
Iterate ==
    /\ pc = "parsing"
    /\ Goes
    /\ \E ch \in CharsAt(end) :
          RequestLine(ch) \/ Params(ch) \/ Protocol(ch) \/ Headers(ch) \/ EndOfHead(ch) \/ Body(ch)
    /\ UNCHANGED <<input, pc, sent, count>>

Return ==
    /\ pc = "parsing"
    /\ ~Goes
    /\ pc' = "returned"
    /\ UNCHANGED <<state, request, local, sent, count>>

\* OnHttpRequest goes on: a response and ResetState, or a 400 and the end of the
\* connection.  request_ is not reset.
OnHttpRequest ==
    /\ pc = "returned"
    /\ state' = IF state = "COMPLETE" THEN "START" ELSE state
    /\ pc' = IF state \in {"COMPLETE", "BODY"} THEN "idle" ELSE "closed"
    /\ UNCHANGED <<request, local, sent, count>>

Next ==
    \/ \E r \in Requests : \E n \in 1 .. Len(MessageOf(r)) : ParaseRequest(r, n)
    \/ Iterate
    \/ Return
    \/ OnHttpRequest

\* The thread that is in ParaseRequest keeps running.
Spec == Init /\ [][Next]_vars /\ WF_vars(Iterate \/ Return)

-----------------------------------------------------------------------------
TypeOK ==
    /\ state \in States
    /\ DOMAIN request = DOMAIN NoRequest
    /\ request.method \in Methods \cup {"INVAILD"}
    /\ request.version \in {"HTTP_10", "HTTP_11", "INVAILD_VERSION"}
    /\ start \in 0 .. Len(input)
    /\ end \in 0 .. Len(input) + 1
    /\ pc \in {"idle", "parsing", "returned", "closed"}
    /\ count \in 0 .. MaxRequests

\* What a params_ or headers_ map holds after the pairs have been stored in order.
MapOf(pairs, k, v) ==
    [x \in {pairs[i][k] : i \in 1 .. Len(pairs)} |->
        pairs[Max({i \in 1 .. Len(pairs) : pairs[i][k] = x})][v]]

\* The enumerator of HttpRequest::Version that stands for a version.
Meant(version) ==
    CASE version = <<"1", ".", "1">> -> "HTTP_11"
      [] version = <<"1", ".", "0">> -> "HTTP_10"
      [] OTHER                       -> "INVAILD_VERSION"

\* A whole request is parsed as its sender wrote it: method, url, query, version,
\* headers and body (HttpContext.cpp:10-223).
ParsedAsSent ==
    pc = "returned" =>
        /\ state = "COMPLETE"
        /\ request.method = IF sent.method[1] \in Methods THEN sent.method[1] ELSE "INVAILD"
        /\ request.url = sent.url
        /\ request.params = MapOf(sent.params, 1, 2)
        /\ request.protocol = <<"HTTP">>
        /\ request.version = Meant(sent.version)
        /\ request.headers = MapOf(sent.headers, 1, 3)
        /\ request.body = sent.body

\* The loop stops before the bytes of the call run out, although its bound
\* end - start < size moves with start: it looks at no character past the NUL
\* that ends c_str() (HttpContext.cpp:16-17).
ReadsInsideInput == (pc = "parsing" /\ Goes) => end <= Len(input)

\* ParaseRequest returns (HttpContext.cpp:16-222).
ParseReturns == (pc = "parsing") ~> (pc = "returned")
===============================================================================
