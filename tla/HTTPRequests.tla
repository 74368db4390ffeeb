---------------------------- MODULE HTTPRequests ----------------------------
(***************************************************************************)
(* What the streams that HTTPParser is fed with mean: the requests of the  *)
(* peer as their sender means them, their bytes, and what the parser       *)
(* should make of them.                                                    *)
(***************************************************************************)
EXTENDS HTTPParser, FiniteSets, SequencesExt

\* The bytes of a request.  headers and query are sequences of <<name, value>>;
\* a part of the query may be a name alone.
Each(pairs, before, between) ==
  FlattenSeq([k \in 1 .. Len(pairs) |->
                before[IF k = 1 THEN 1 ELSE 2] \o pairs[k][1]
                  \o IF Len(pairs[k]) = 1 THEN <<>> ELSE between \o pairs[k][2]])

URLOf(r) == r.path \o Each(r.query, <<<<"?">>, <<"&">>>>, <<"=">>)

HeadOf(r) ==
  <<r.method, " ">> \o URLOf(r) \o <<" ", r.version>>
    \o Each(r.headers, <<CRLF, CRLF>>, <<":", " ">>) \o HTTP_1_1_END_MARKER

Bytes(r) == HeadOf(r) \o r.body

Stream(requests) ==
  FlattenSeq([k \in 1 .. Len(requests) |-> Bytes(requests[k])])

\* A connection over which the requests of c come.
Connection(c) ==
  [requests |-> c.requests, stream |-> Stream(c.requests),
   ends |-> {Len(Stream(SubSeq(c.requests, 1, k))) : k \in 1 .. Len(c.requests)},
   build |-> c.build, bufferMax |-> c.bufferMax, pipelining |-> c.pipelining]

-----------------------------------------------------------------------------
\* The pairs that name something, the first of each name.
FirstOfEach(pairs, full(_)) ==
  LET named == SelectSeq(pairs, LAMBDA pair : pair[1] # <<>> /\ full(pair))
  IN  {named[k] : k \in {j \in 1 .. Len(named) :
                           \A i \in 1 .. j - 1 : named[i][1] # named[j][1]}}

HeadersOf(r) == FirstOfEach(r.headers, LAMBDA pair : pair[2] # <<>>)

Acceptable(r) ==
  /\ r.version = "HTTP/1.1"
  /\ \/ r.method = "GET"
     \/ /\ r.method = "POST"
        /\ \E pair \in HeadersOf(r) :
             /\ pair[1] = HTTP_HEADER_CONTENT_LENGTH
             /\ is_digits(pair[2])
             /\ Number(pair[2]) <= HTTP_POST_MAX_CONTENT_LENGTH

\* What the parser should say of a request.
Meaning(r) ==
  [HTTPVersion |-> "1.1", HTTPMethod |-> r.method, URL |-> URLOf(r),
   RequestHeaders |-> HeadersOf(r),
   URLParams |-> IF r.method = "POST" THEN {}
                 ELSE FirstOfEach(r.query, LAMBDA pair : Len(pair) = 2),
   Payload |-> r.body]

\* The requests that have come completely, and those of them to be accepted.
Complete ==
  SubSeq(connection.requests, 1,
         Cardinality({e \in connection.ends : e <= fed}))

Expected ==
  LET good == SelectSeq(Complete, Acceptable)
  IN  [k \in 1 .. Len(good) |-> Meaning(good[k])]

(***************************************************************************)
(* "an incremental HTTP/1.1 parser", of either build: as long as nothing   *)
(* was refused or dropped, the requests parsed are those that have come    *)
(* completely, in order, with their methods, URLs, parameters, headers and *)
(* payloads, however the stream was cut into chunks.                       *)
(***************************************************************************)
ParsedExactly ==
  _RequestParseError = 0 /\ ~thrown /\ ~lost => _Requests = Expected

(***************************************************************************)
(* Also after refused requests and exceptions, no request is made up,      *)
(* duplicated, moved or altered: the parsed requests are some of those     *)
(* that have come, in their order, and requests that are to be refused are *)
(* not among them.  (After a dropped chunk the rest of the stream is       *)
(* joined to what was before it, and anything may be read.)                *)
(***************************************************************************)
NothingInvented ==
  ~lost =>
    \E picks \in SUBSET (1 .. Len(Expected)) :
      _Requests = [k \in 1 .. Cardinality(picks) |->
                     Expected[CHOOSE j \in picks :
                                Cardinality({h \in picks : h < j}) = k - 1]]

(***************************************************************************)
(* One refused request does not take those before it along: the acceptable *)
(* requests in front of the first one that is not have been parsed.        *)
(***************************************************************************)
RefusalKeepsEarlier ==
  LET bad == {k \in 1 .. Len(Complete) : ~Acceptable(Complete[k])}
      earlier == IF bad = {} THEN Len(Complete) ELSE Min(bad) - 1
  IN  ~lost => IsPrefix([k \in 1 .. earlier |-> Meaning(Complete[k])], _Requests)

(***************************************************************************)
(* "Keeps partial POST state until the configured body length has          *)
(* arrived": while the parser waits for a payload, its buffer holds what   *)
(* was delivered behind the head of that POST.                             *)
(***************************************************************************)
WaitingKeepsBody ==
  _POSTWaitContentLength =>
    LET n == Len(Complete)
        start == Len(Stream(Complete))
    IN  _HTTPRequestBuffer =
          SubSeq(stream, start + Len(HeadOf(connection.requests[n + 1])) + 1, fed)
=============================================================================
