---------------------------- MODULE MCHTTPParser ----------------------------
(***************************************************************************)
(* Connections of up to three requests for HTTPParser; every way to cut    *)
(* their streams into chunks is explored.  Vector, which shares no state   *)
(* with the parser, is called before the stream of a few of them comes.    *)
(***************************************************************************)
EXTENDS HTTPRequests, Vector

Request(method, query, headers, body) ==
  [method |-> method, path |-> <<"/">>, query |-> query,
   version |-> "HTTP/1.1", headers |-> headers, body |-> body]

Get == Request("GET", <<>>, <<>>, <<>>)

\* A repeated name, a name alone, an empty name and an empty value.
GetWithQuery ==
  Request("GET", <<<<<<"a">>, <<"1">>>>, <<<<"b">>>>, <<<<"a">>, <<"2">>>>>>,
          <<>>, <<>>)
GetWithOddQuery ==
  Request("GET", <<<<<<>>, <<"1">>>>, <<<<"b">>, <<>>>>>>, <<>>, <<>>)

\* A repeated header, one without a value and one without a name.
GetWithHeaders ==
  Request("GET", <<>>, <<<<<<"h">>, <<"v">>>>, <<<<"h">>, <<"w">>>>>>, <<>>)
GetWithOddHeaders ==
  Request("GET", <<>>, <<<<<<>>, <<"v">>>>, <<<<"h">>, <<>>>>,
                         <<<<"i", ":">>, <<"v">>>>>>, <<>>)

\* A header whose value holds a colon and a blank: the C++11 build loses it.
GetWithColons ==
  Request("GET", <<>>, <<<<<<"h">>, <<"v", ":", " ", "w">>>>>>, <<>>)

Put == Request("PUT", <<>>, <<>>, <<>>)
Old == [Get EXCEPT !.version = "HTTP/1.0"]

Post(length, body) ==
  Request("POST", <<>>, <<<<HTTP_HEADER_CONTENT_LENGTH, length>>>>, body)
PostNone == Post(<<"0">>, <<>>)
PostTwo == Post(<<"2">>, <<"x", "x">>)
PostLines == Post(<<"4">>, <<"x", "CR", "LF", "x">>)
PostNine == Post(<<"9">>, <<"x", "x", "x", "x", "x", "x", "x", "x", "x">>)
PostWord == Post(<<"x">>, <<>>)
PostHuge == Post(<<"9", "9">>, <<>>)
PostUnsized == [Get EXCEPT !.method = "POST"]

UpTo(n, requests) == UNION {[1 .. k -> requests] : k \in 1 .. n}

Over(sequences, builds, max, pipelined) ==
  [requests : sequences, build : builds, bufferMax : {max},
   pipelining : {pipelined}]

Builds == {"C++23", "C++11"}

\* Larger than every stream, and too small for GetWithHeaders.
Ample == 100
Tight == 12

\* GETs, pipelined or not; GETs and POSTs, one after the other; GETs whose
\* chunks may be dropped.
AllConnections ==
  {Connection(c) : c \in
     Over(UpTo(2, {GetWithQuery, GetWithOddQuery, GetWithHeaders,
                   GetWithOddHeaders, Put}), Builds, Ample, TRUE)
       \cup Over(UpTo(2, {GetWithColons, Old}), {"C++23"}, Ample, TRUE)
       \cup Over(UpTo(3, {Get, Put}), Builds, Ample, TRUE)
       \cup Over(UpTo(2, {Get, PostNone, PostTwo, PostLines, PostNine, PostWord,
                          PostHuge, PostUnsized}), Builds, Ample, FALSE)
       \cup Over(UpTo(3, {Get, PostTwo}), {"C++23"}, Ample, FALSE)
       \cup Over({<<Get, Get>>, <<GetWithHeaders>>}, {"C++23"}, Tight, TRUE)}

\* A GET, and a POST behind it.
GetThenPost == {Connection(c) : c \in Over({<<Get, PostTwo>>}, Builds, Ample, TRUE)}

\* A POST whose body holds a blank line.
BlankLineInBody ==
  {Connection(c) : c \in
     Over({<<Post(<<"5">>, HTTP_1_1_END_MARKER \o <<"x">>)>>}, Builds, Ample, FALSE)}

MCInit == Init /\ VectorInit

MCNext ==
  \/ ~erasing /\ Next /\ UNCHANGED vector
  \/ fed = 0 /\ connection.bufferMax = Tight /\ VectorNext /\ UNCHANGED vars

MCSpec == MCInit /\ [][MCNext]_<<vars, vector>>
=============================================================================
