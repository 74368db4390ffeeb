----------------------------- MODULE HTTPParser -----------------------------
(***************************************************************************)
(* HTTPParser (lib/http/httpparser.cpp): the incremental request parser of *)
(* a Client.  A peer's stream reaches appendBuffer in chunks that TCP cuts *)
(* anywhere; what the parser makes of it should not depend on the cuts.    *)
(*                                                                         *)
(* The legacy C++11 build (lib/http/httpparser-cpp11.cpp) has the same     *)
(* control and its own way to take headers and parameters apart; a         *)
(* connection is served by either.                                         *)
(*                                                                         *)
(* A stream is a sequence of symbols: single characters (blank, colon, CR, *)
(* LF, the ones that mean something in a URL, digits) and the words the    *)
(* parser looks for.  Lengths count symbols.                               *)
(***************************************************************************)
EXTENDS HTTPStrings

CONSTANTS
  Connections,       \* what may come over a connection, see below
  HTTP_POST_MAX_CONTENT_LENGTH,
  LengthMod,         \* number of values of a uint16_t
  IntMax             \* the largest int

CRLF == <<"CR", "LF">>
HTTP_1_1_END_MARKER == CRLF \o CRLF
HTTP_HEADER_CONTENT_LENGTH == <<"Content-Length">>

\* A connection: the bytes of the peer, the positions where its requests end,
\* the build and the buffer limit of the parser that serves it, and whether a
\* chunk may hold several requests.
ASSUME ParserAssumption ==
  /\ \A c \in Connections :
       /\ c.stream \in Seq(STRING)
       /\ c.build \in {"C++23", "C++11"}
       /\ c.bufferMax \in Nat
  /\ HTTP_POST_MAX_CONTENT_LENGTH \in Nat
  /\ LengthMod \in Nat \ {0}
  /\ IntMax \in Nat

VARIABLES
  connection,
  fed,                   \* how many of its bytes appendBuffer was given
  _HTTPRequestBuffer,
  _POSTWaitContentLength,
  _POSTContentLength,
  _RequestProperties,
  _Requests,
  _RequestParseError,
  thrown,                \* an exception left appendBuffer
  lost                   \* a chunk did not fit and was dropped

vars == <<connection, fed, _HTTPRequestBuffer, _POSTWaitContentLength,
          _POSTContentLength, _RequestProperties, _Requests,
          _RequestParseError, thrown, lost>>

stream == connection.stream

\* The properties of a request, in the symbols of a set.
RequestProperties_t(Char) ==
  LET String == Seq(Char)
  IN  [HTTPVersion : {"unknown", "1.1"}, HTTPMethod : {"OTHER", "GET", "POST"},
       URL : String, RequestHeaders : SUBSET (String \X String),
       URLParams : SUBSET (String \X String), Payload : String]

DefaultProperties ==
  [HTTPVersion |-> "unknown", HTTPMethod |-> "OTHER", URL |-> <<"/">>,
   RequestHeaders |-> {}, URLParams |-> {}, Payload |-> <<>>]

Init ==
  /\ connection \in Connections
  /\ fed = 0
  /\ _HTTPRequestBuffer = <<>>
  /\ _POSTWaitContentLength = FALSE
  /\ _POSTContentLength = 0
  /\ _RequestProperties = DefaultProperties
  /\ _Requests = <<>>
  /\ _RequestParseError = 0
  /\ thrown = FALSE
  /\ lost = FALSE

-----------------------------------------------------------------------------
(***************************************************************************)
(* _parseRequestProperties: the first line has three words; the last holds *)
(* HTTP/1.1 and the first GET or POST, anywhere in the word.  A line of    *)
(* another number of words leaves the defaults.                            *)
(***************************************************************************)
\* What the words, last first, say.
WordProperties(words) ==
  IF Len(words) # 3 THEN DefaultProperties
  ELSE [DefaultProperties EXCEPT
          !.HTTPVersion = IF has(words[1], <<"HTTP/1.1">>) THEN "1.1" ELSE @,
          !.HTTPMethod = IF has(words[3], <<"GET">>) THEN "GET"
                         ELSE IF has(words[3], <<"POST">>) THEN "POST"
                         ELSE @,
          !.URL = words[2]]

_parseRequestProperties(Request) ==
  LET StartPos == find(Request, CRLF)
  IN  WordProperties(
        rsplit(Request, IF StartPos = npos THEN Len(Request) ELSE StartPos,
               <<" ">>))

\* The two parts of a string at the first delimiter: without one, or with one
\* in front, the first part is empty.
Pair(s, Delimiter) ==
  LET pos == find(s, Delimiter)
  IN  <<substr(s, 0, pos), rest(s, pos + Len(Delimiter))>>

(***************************************************************************)
(* _parseRequestHeaders: the lines getline finds at LF, with a CR at the   *)
(* end of the line removed; name and value are not empty.                  *)
(***************************************************************************)
HeaderPairs(lines) ==
  LET chomp(l) ==
        IF l # <<>> /\ l[Len(l)] = "CR" THEN substr(l, 0, Len(l) - 1) ELSE l
      pairs == [k \in DOMAIN lines |-> Pair(chomp(lines[k]), <<":", " ">>)]
  IN  emplace(pairs, {k \in DOMAIN lines : <<>> \notin Range(pairs[k])})

_parseRequestHeaders(Request) == HeaderPairs(splitView(Request, <<"LF">>))

\* The C++11 build: lines end at CR LF and have exactly two parts.
HeaderPairsCpp11(lines) ==
  LET HeaderPair(k) == rsplit(lines[k], Len(lines[k]), <<":", " ">>)
      good == {k \in DOMAIN lines : /\ Len(HeaderPair(k)) = 2
                                    /\ <<>> \notin Range(HeaderPair(k))}
  IN  emplace([k \in good |-> <<HeaderPair(k)[2], HeaderPair(k)[1]>>], good)

_parseRequestHeadersCpp11(Request) ==
  LET cut == split(Request, CRLF)
  IN  HeaderPairsCpp11(Append(cut.parts, cut.left))

\* The parts of a query string: a name is not empty, a value may be.
ParamValuePairs(parts) ==
  LET pairs == [k \in DOMAIN parts |-> Pair(parts[k], <<"=">>)]
  IN  emplace(pairs, {k \in DOMAIN parts : pairs[k][1] # <<>>})

_parseGETParameter(URL) ==
  LET pos == find(URL, <<"?">>)
  IN  IF pos = npos THEN {}
      ELSE ParamValuePairs(splitView(rest(URL, pos + 1), <<"&">>))

\* The C++11 build splits a copy and adds what is left of it.
_parseGETParameterCpp11(URL) ==
  LET pos == find(URL, <<"?">>)
      cut == split(rest(URL, pos + 1), <<"&">>)
  IN  IF pos = npos THEN {}
      ELSE ParamValuePairs(IF cut.left = <<>> THEN cut.parts
                           ELSE Append(cut.parts, cut.left))

Headers(build, Request) ==
  IF build = "C++11" THEN _parseRequestHeadersCpp11(Request)
  ELSE _parseRequestHeaders(Request)

Parameters(build, URL) ==
  IF build = "C++11" THEN _parseGETParameterCpp11(URL)
  ELSE _parseGETParameter(URL)

\* All that _processRequestProperties takes from a head it accepts.
Properties(build, Request) ==
  LET props == _parseRequestProperties(Request)
  IN  [props EXCEPT
         !.RequestHeaders = Headers(build, Request),
         !.URLParams =
           IF props.HTTPMethod = "GET" THEN Parameters(build, props.URL) ELSE @]

\* The values of the Content-Length header: one or none.
ContentLengths(props) ==
  {pair[2] : pair \in {sent \in props.RequestHeaders :
                         sent[1] = HTTP_HEADER_CONTENT_LENGTH}}

LengthValue(props) == CHOOSE value \in ContentLengths(props) : TRUE

\* The header is there and contains no non-digits.
HasLength(props) ==
  ContentLengths(props) # {} /\ is_digits(LengthValue(props))

\* stoi, stored in a uint16_t
ContentLength(props) == Number(LengthValue(props)) % LengthMod

-----------------------------------------------------------------------------
(***************************************************************************)
(* _processRequestProperties(Index), on a record st of the parser's state  *)
(* and the split requests; ok is its return value.                         *)
(***************************************************************************)
\* Mutant of Refuse: a refusal takes back what was parsed.
RefuseAll(st) == [st EXCEPT !.ok = FALSE, !.requests = <<>>]

Refuse(st) == [st EXCEPT !.ok = FALSE]

Throw(st) == [st EXCEPT !.thrown = TRUE]

\* Mutant of Push: the request is handed out before its payload is set.
PushEarly(st, payload) ==
  [st EXCEPT !.props = [@ EXCEPT !.Payload = payload], !.requests = Append(@, st.props)]

Push(st, payload) ==
  LET props == [st.props EXCEPT !.Payload = payload]
  IN  [st EXCEPT !.props = props, !.requests = Append(@, props)]

TooLarge(n) == n > HTTP_POST_MAX_CONTENT_LENGTH

\* The POST branch behind the length test.
TakePayload(st, Index) ==
  LET n == st.length
      NextRequest == st.splits[Index + 1]
  IN  IF Len(st.splits) = 1
      THEN IF Len(st.buffer) >= n
           THEN [Push(st, substr(st.buffer, 0, n)) EXCEPT !.buffer = rest(@, n)]
           ELSE [st EXCEPT !.wait = TRUE]
      ELSE IF Index + 1 > Len(st.splits)
      THEN Throw(st)                        \* vector::at(Index+1)
      ELSE IF Len(NextRequest) >= n
      THEN [Push(st, substr(NextRequest, 0, n)) EXCEPT
              !.splits = [@ EXCEPT ![Index + 1] = rest(NextRequest, n)]]
      ELSE Refuse(st)

\* The POST branch; stoi throws beyond the range of int.
TakePOST(st, Index) ==
  LET sized == [st EXCEPT !.length = ContentLength(st.props)]
  IN  IF ~HasLength(st.props) THEN Refuse(st)
      ELSE IF Number(LengthValue(st.props)) > IntMax THEN Throw(st)
      ELSE IF TooLarge(sized.length) THEN Refuse(sized)
      ELSE TakePayload(sized, Index)

_processRequestProperties(st, Index) ==
  LET Request == st.splits[Index]
      props == _parseRequestProperties(Request)
      full == [st EXCEPT !.props = Properties(connection.build, Request)]
  IN  IF Request = <<>> THEN Refuse(st)
      ELSE IF props.HTTPVersion # "1.1" \/ props.HTTPMethod = "OTHER"
      THEN Refuse([st EXCEPT !.props = props])
      ELSE IF props.HTTPMethod = "GET" THEN Push(full, <<>>)
      ELSE TakePOST(full, Index)

\* The loop of _processRequests, which stops at the first refusal: the state
\* after each of the split requests.
_processRequests(st) ==
  LET after[k \in 0 .. Len(st.splits)] ==
        IF k = 0 THEN st
        ELSE LET last == after[k - 1]
             IN  IF ~last.ok \/ last.thrown THEN last
                 ELSE _processRequestProperties(last, k)
  IN  after

\* appendBuffer's test for the rest of a POST that came in pieces.
PayloadArrived(buffer) ==
  _POSTWaitContentLength /\ Len(buffer) >= _POSTContentLength

\* Mutant of Overflows: only the chunk is compared with the limit.
OverflowsAlone(chunk) == Len(chunk) > connection.bufferMax

Overflows(chunk) ==
  Len(_HTTPRequestBuffer) + Len(chunk) > connection.bufferMax

(***************************************************************************)
(* appendBuffer(chunk): over the limit the chunk is dropped; else the      *)
(* payload awaited is completed, or the complete heads are processed.      *)
(***************************************************************************)
Dropped(chunk) ==
  /\ Overflows(chunk)
  /\ lost' = TRUE
  /\ UNCHANGED <<_HTTPRequestBuffer, _POSTWaitContentLength,
                 _POSTContentLength, _RequestProperties, _Requests,
                 _RequestParseError, thrown>>

CompletePOST(chunk) ==
  LET buffer == _HTTPRequestBuffer \o chunk
      n == _POSTContentLength
  IN  /\ ~Overflows(chunk)
      /\ PayloadArrived(buffer)
      /\ _RequestProperties' =
           [_RequestProperties EXCEPT !.Payload = substr(buffer, 0, n)]
      /\ _HTTPRequestBuffer' = rest(buffer, n)
      /\ _Requests' = Append(_Requests, _RequestProperties')
      /\ _POSTWaitContentLength' = FALSE
      /\ UNCHANGED <<_POSTContentLength, _RequestParseError, thrown, lost>>

\* The members are left as the loop leaves them.
Processed(st) ==
  /\ _HTTPRequestBuffer' = st.buffer
  /\ _POSTWaitContentLength' = st.wait
  /\ _POSTContentLength' = st.length
  /\ _RequestProperties' = st.props
  /\ _Requests' = st.requests
  /\ _RequestParseError' = IF st.ok THEN _RequestParseError ELSE 400
  /\ thrown' = st.thrown
  /\ UNCHANGED lost

ProcessHeads(chunk) ==
  LET buffer == _HTTPRequestBuffer \o chunk
      cut == split(buffer, HTTP_1_1_END_MARKER)
  IN  /\ ~Overflows(chunk)
      /\ ~PayloadArrived(buffer)
      /\ Processed(_processRequests(
           [splits |-> cut.parts, buffer |-> cut.left,
            wait |-> _POSTWaitContentLength, length |-> _POSTContentLength,
            props |-> _RequestProperties, requests |-> _Requests,
            ok |-> TRUE, thrown |-> FALSE])[Len(cut.parts)])

Feed ==
  /\ ~thrown
  /\ \E to \in fed + 1 .. Len(stream) :
       /\ connection.pipelining \/ connection.ends \cap (fed + 1 .. to - 1) = {}
       /\ LET chunk == SubSeq(stream, fed + 1, to)
          IN  Dropped(chunk) \/ CompletePOST(chunk) \/ ProcessHeads(chunk)
       /\ fed' = to
  /\ UNCHANGED connection

appendBuffer == connection.build = "C++23" /\ Feed

\* appendBuffer, _processRequests and _processRequestProperties of the C++11
\* build are the same text; Headers and Parameters choose its own functions.
appendBufferCpp11 == connection.build = "C++11" /\ Feed

Next == appendBuffer \/ appendBufferCpp11

Spec == Init /\ [][Next]_vars

-----------------------------------------------------------------------------
\* What strings are made of: the symbols of the stream, and the default URL.
Received == Range(stream) \cup {"/"}

\* The types of what changes; the connection is the one Init chose.
TypeOK ==
  /\ fed \in 0 .. Len(stream)
  /\ _HTTPRequestBuffer \in Seq(Received)
  /\ Len(_HTTPRequestBuffer) <= connection.bufferMax
  /\ _POSTWaitContentLength \in BOOLEAN
  /\ _POSTContentLength \in 0 .. LengthMod - 1
  /\ _RequestProperties \in RequestProperties_t(Received)
  /\ _Requests \in Seq(RequestProperties_t(Received))
  /\ _RequestParseError \in {0, 400}
  /\ thrown \in BOOLEAN
  /\ lost \in BOOLEAN

(***************************************************************************)
(* The reference for the incremental parser: the stream read once from the *)
(* front, without chunks.  A request starts where the one before it ends;  *)
(* its head goes to the first end marker from there, and what it announces *)
(* behind a POST is its payload.                                           *)
(***************************************************************************)
HeadEnd(c, start) == findFrom(c.stream, HTTP_1_1_END_MARKER, start)

HeadFrom(c, start) ==
  Properties(c.build, SubSeq(c.stream, start + 1, HeadEnd(c, start)))

BodyStart(c, start) == HeadEnd(c, start) + Len(HTTP_1_1_END_MARKER)

Announced(props) ==
  IF props.HTTPMethod = "POST" /\ HasLength(props) THEN ContentLength(props) ELSE 0

BodyLength(c, start) == Announced(HeadFrom(c, start))

BodyEnd(c, start) == BodyStart(c, start) + BodyLength(c, start)

\* Where the first k requests end.
RequestEnd(c) ==
  LET end[k \in Nat] == IF k = 0 THEN 0 ELSE BodyEnd(c, end[k - 1])
  IN  end

RequestFrom(c, start) ==
  [HeadFrom(c, start) EXCEPT
     !.Payload = SubSeq(c.stream, BodyStart(c, start) + 1, BodyEnd(c, start))]

\* No end marker in the payload.
PlainBody(c, start) ==
  \A pos \in Occurrences(c.stream, HTTP_1_1_END_MARKER) :
    pos >= BodyStart(c, start) =>
      pos + Len(HTTP_1_1_END_MARKER) > BodyEnd(c, start)

(***************************************************************************)
(* "an incremental HTTP/1.1 parser": however the stream was cut, the k-th  *)
(* request handed out is what reading the k-th request of the stream gives *)
(* and the buffer holds the bytes delivered behind them, as long as        *)
(* nothing was refused, dropped or thrown and no payload read or awaited   *)
(* holds an end marker.                                                    *)
(***************************************************************************)
CutsDoNotMatter ==
  LET n == Len(_Requests)
      end == RequestEnd(connection)
      read == IF _POSTWaitContentLength THEN BodyStart(connection, end[n]) ELSE end[n]
  IN  /\ _RequestParseError = 0
      /\ ~thrown
      /\ ~lost
      /\ \A k \in 0 .. n : k < n \/ _POSTWaitContentLength => PlainBody(connection, end[k])
      => /\ \A k \in 1 .. n : _Requests[k] = RequestFrom(connection, end[k - 1])
         /\ _HTTPRequestBuffer = SubSeq(stream, read + 1, fed)

(***************************************************************************)
(* "Supports multiple requests in a single receive buffer": no chunk makes *)
(* appendBuffer throw.                                                     *)
(***************************************************************************)
NeverThrows == ~thrown
=============================================================================
