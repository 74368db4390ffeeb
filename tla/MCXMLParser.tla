---------------------------- MODULE MCXMLParser ----------------------------
(***************************************************************************)
(* Buffers for XMLParser: up to three pieces in any order, which are valid *)
(* and invalid messages, torn markers and text between messages; four for  *)
(* some of them.  Messages for XMLTree: two leaves and a payload, whose    *)
(* texts repeat each other, repeat a tag name, are empty, padded, or       *)
(* written with a reference, a comment or CDATA.                           *)
(***************************************************************************)
EXTENDS XMLParserLifetime, XMLTree, SequencesExt

Piece ==
  {Valid, <<"open", "alien", "close">>, <<"open", "broken", "close">>,
   <<"open">>, <<"close">>, <<"leaf">>, <<"junk">>}

Pieces(n, piece) == UNION {[1 .. k -> piece] : k \in 0 .. n}

MCBuffers ==
  {FlattenSeq(p) : p \in Pieces(3, Piece)
                     \cup Pieces(4, {Valid, <<"open">>, <<"junk">>})}

Element(name, kids) == [kind |-> "element", name |-> name, kids |-> kids]
Text(raw) == <<[kind |-> "text", raw |-> raw]>>

Content ==
  {<<>>, Text(<<"a">>), Text(<<" ", "a", " ">>), Text(<<"a", " ", "b">>),
   Text(<<"UUID">>), Text(<<"&lt;">>), Text(<<"a", "&lt;", "UUID">>),
   Text(<<"a">>) \o <<[kind |-> "comment", raw |-> <<"b">>]>> \o Text(<<"b">>),
   <<[kind |-> "cdata", raw |-> <<"<", "a">>]>>}

Payload ==
  Content \cup {<<Element("UUID", c), Element("UUID", d)>> : c, d \in Content}
          \cup {Text(<<"a">>) \o <<Element("UUID", c)>> : c \in Content}

MCDocuments ==
  {Element("NLAP", <<Element("Request",
     <<Element("UUID", u), Element("Protocol", p), Element("Payload", q)>>)>>) :
     u, p \in Content, q \in Payload}

(***************************************************************************)
(* Building a tree shares no state with other threads: it is explored for  *)
(* a first parser that nobody else has joined.                             *)
(***************************************************************************)
Alone ==
  /\ pc = "idle"
  /\ XercesRefCount = 1
  /\ life[User] = "alive"
  /\ \A t \in Threads \ {User} : life[t] = "none"

MCInit == LifetimeInit /\ TreeInit

MCNext ==
  \/ Document = NoDocument /\ LifetimeNext /\ UNCHANGED tree
  \/ /\ Document = NoDocument
     /\ Alone
     /\ \E d \in Documents : BuildTree(d)
     /\ UNCHANGED <<vars, lifetime>>
  \/ DropTree /\ UNCHANGED <<vars, lifetime>>

MCSpec == MCInit /\ [][MCNext]_<<vars, lifetime, tree>>
=============================================================================
