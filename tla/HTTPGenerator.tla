---------------------------- MODULE HTTPGenerator ----------------------------
(***************************************************************************)
(* HTTPGenerator (lib/http/httpgenerator.cpp): builds the header of a      *)
(* response and keeps track of how much of header and body has been sent.  *)
(* The caller follows doc/HTTPLib.rst: MsgReset, MsgSetStatus and          *)
(* MsgAddHeader, MsgSetBodyRef, MsgGenerate, then the send loop: get the   *)
(* active window, write some of it to a socket that takes as much as it    *)
(* likes, report what was written.  One object serves one response after   *)
(* another.                                                                *)
(*                                                                         *)
(* Texts are abstracted to their lengths, pointers to offsets into the     *)
(* buffer they were set to.                                                *)
(***************************************************************************)
EXTENDS Integers, FiniteSets

CONSTANTS
  HeaderID,     \* names passed to MsgAddHeader ("Date" is one of them)
  OkBytes,      \* length of a response to "200 OK" without other headers
  StatusBytes,  \* the same for the status texts passed to MsgSetStatus
  LineBytes,    \* length of one header line
  BodyLengths,  \* body lengths passed to MsgSetBodyRef
  Uninit        \* what an uninitialised unsigned int may hold

ASSUME GeneratorAssumption ==
  /\ IsFiniteSet(HeaderID)
  /\ OkBytes \in Nat \ {0}
  /\ StatusBytes \subseteq Nat \ {0}
  /\ LineBytes \in Nat \ {0}
  /\ BodyLengths \subseteq Nat
  /\ Uninit \subseteq Nat
  /\ Uninit # {}

VARIABLES
  _SendStatus, _SendType, _StatusText, Headers, _HeaderLength, _BodyLength,
  _HeaderRemainingBytes, _BodyRemainingBytes, _HeaderPointer, _BodyPointer,
  phase,        \* of the caller: fresh, build, body, send, done
  wireHeader,   \* the header bytes the socket has taken
  wireBody      \* the body bytes the socket has taken

caller == <<phase, wireHeader, wireBody>>

generator == <<_SendStatus, _SendType, _StatusText, Headers, _HeaderLength,
               _BodyLength, _HeaderRemainingBytes, _BodyRemainingBytes,
               _HeaderPointer, _BodyPointer, caller>>

\* The constructor sets the send status and nothing else of the send state.
GeneratorInit ==
  /\ _SendStatus = "idle"
  /\ _SendType \in {"header", "body", "garbage"}
  /\ _StatusText = OkBytes
  /\ Headers = {}
  /\ _HeaderLength \in Uninit
  /\ _BodyLength \in Uninit
  /\ _HeaderRemainingBytes \in Uninit
  /\ _BodyRemainingBytes \in Uninit
  /\ _HeaderPointer = 0
  /\ _BodyPointer = 0
  /\ phase = "fresh"
  /\ wireHeader = {}
  /\ wireBody = {}

-----------------------------------------------------------------------------
\* MsgReset leaves the two remaining-byte counters of the last message.
MsgReset ==
  /\ _StatusText' = OkBytes
  /\ Headers' = {}
  /\ _HeaderPointer' = 0
  /\ _BodyPointer' = 0
  /\ _HeaderLength' = 0
  /\ _BodyLength' = 0
  /\ _SendStatus' = "idle"
  /\ _SendType' = "header"
  /\ phase' = "build"
  /\ wireHeader' = {}
  /\ wireBody' = {}
  /\ UNCHANGED <<_HeaderRemainingBytes, _BodyRemainingBytes>>

MsgSetStatus(n) ==
  /\ phase = "build"
  /\ _StatusText' = n
  /\ UNCHANGED <<_SendStatus, _SendType, Headers, _HeaderLength, _BodyLength,
                 _HeaderRemainingBytes, _BodyRemainingBytes, _HeaderPointer,
                 _BodyPointer, caller>>

\* MsgAddHeader and MsgAddDateHeader: emplace keeps an entry that is there.
MsgAddHeader(h) ==
  /\ phase = "build"
  /\ Headers' = Headers \cup {h}
  /\ UNCHANGED <<_SendStatus, _SendType, _StatusText, _HeaderLength, _BodyLength,
                 _HeaderRemainingBytes, _BodyRemainingBytes, _HeaderPointer,
                 _BodyPointer, caller>>

\* Mutant of MsgSetBodyRef: the remaining bytes are not set.
MsgSetBodyRefStale(n) ==
  /\ phase = "build"
  /\ _BodyPointer' = 0
  /\ _BodyLength' = n
  /\ phase' = "body"
  /\ UNCHANGED <<_SendStatus, _SendType, _StatusText, Headers, _HeaderLength,
                 _HeaderRemainingBytes, _BodyRemainingBytes, _HeaderPointer,
                 wireHeader, wireBody>>

MsgSetBodyRef(n) ==
  /\ phase = "build"
  /\ _BodyPointer' = 0
  /\ _BodyLength' = n
  /\ _BodyRemainingBytes' = n
  /\ phase' = "body"
  /\ UNCHANGED <<_SendStatus, _SendType, _StatusText, Headers, _HeaderLength,
                 _HeaderRemainingBytes, _HeaderPointer, wireHeader, wireBody>>

MsgGenerate ==
  /\ phase = "body"
  /\ _HeaderLength' = _StatusText + LineBytes * Cardinality(Headers)
  /\ _HeaderRemainingBytes' = _HeaderLength'
  /\ phase' = "send"
  /\ UNCHANGED <<_SendStatus, _SendType, _StatusText, Headers, _BodyLength,
                 _BodyRemainingBytes, _HeaderPointer, _BodyPointer,
                 wireHeader, wireBody>>

MsgSetSendStatus(s) ==
  /\ phase = "send"
  /\ _SendStatus' = s
  /\ UNCHANGED <<_SendType, _StatusText, Headers, _HeaderLength, _BodyLength,
                 _HeaderRemainingBytes, _BodyRemainingBytes, _HeaderPointer,
                 _BodyPointer, caller>>

-----------------------------------------------------------------------------
(***************************************************************************)
(* MsgGetSendMetadata: the bytes of the active buffer, from .. from+size-1,*)
(* that the caller may write next.                                         *)
(***************************************************************************)
MsgGetSendMetadata ==
  CASE _SendType = "header" ->
         [from |-> _HeaderPointer, size |-> _HeaderRemainingBytes]
    [] _SendType = "body" ->
         [from |-> _BodyPointer, size |-> _BodyRemainingBytes]
    [] OTHER -> [from |-> 0, size |-> 0]

\* Mutant of MsgUpdateSendMetadata: the header pointer is not moved.
MsgUpdateSendMetadataUnmoved(SentBytes, done) ==
  /\ done = FALSE
  /\ _SendType = "header"
  /\ _HeaderRemainingBytes' = _HeaderRemainingBytes - SentBytes
  /\ UNCHANGED <<_SendType, _HeaderPointer, _BodyPointer, _BodyRemainingBytes>>

\* Mutant of MsgUpdateSendMetadata: the bytes sent are taken off twice.
MsgUpdateSendMetadataTwice(SentBytes, done) ==
  /\ done = FALSE
  /\ _SendType = "header"
  /\ _HeaderPointer' = _HeaderPointer + SentBytes
  /\ _HeaderRemainingBytes' = _HeaderRemainingBytes - 2 * SentBytes
  /\ UNCHANGED <<_SendType, _BodyPointer, _BodyRemainingBytes>>

\* Mutant of MsgUpdateSendMetadata: an empty header never gives way.
MsgUpdateSendMetadataStuck(SentBytes, done) ==
  /\ done = FALSE
  /\ _SendType = "header"
  /\ _HeaderPointer' = _HeaderPointer + SentBytes
  /\ _HeaderRemainingBytes' = _HeaderRemainingBytes - SentBytes
  /\ UNCHANGED <<_SendType, _BodyPointer, _BodyRemainingBytes>>

(***************************************************************************)
(* MsgUpdateSendMetadata(SentBytes), returning done: the bytes left are    *)
(* compared with SentBytes after SentBytes has been taken off them.        *)
(***************************************************************************)
MsgUpdateSendMetadata(SentBytes, done) ==
  \/ /\ _SendType = "header"
     /\ _HeaderRemainingBytes >= SentBytes
     /\ _HeaderPointer' = _HeaderPointer + SentBytes
     /\ LET left == _HeaderRemainingBytes - SentBytes
        IN  IF left = SentBytes
            THEN _SendType' = "body" /\ _HeaderRemainingBytes' = 0
            ELSE _HeaderRemainingBytes' = left /\ UNCHANGED _SendType
     /\ done = FALSE
     /\ UNCHANGED <<_BodyPointer, _BodyRemainingBytes>>
  \/ /\ _SendType = "body"
     /\ _BodyRemainingBytes >= SentBytes
     /\ _BodyPointer' = _BodyPointer + SentBytes
     /\ LET left == _BodyRemainingBytes - SentBytes
        IN  /\ done = (left = SentBytes)
            /\ _BodyRemainingBytes' = IF done THEN 0 ELSE left
     /\ UNCHANGED <<_SendType, _HeaderPointer, _HeaderRemainingBytes>>

(***************************************************************************)
(* One round of the caller's send loop: the socket takes a part of the     *)
(* window (everything, some of it, or nothing of an empty one).            *)
(***************************************************************************)
SendSome ==
  /\ phase = "send"
  /\ LET window == MsgGetSendMetadata
     IN  \E n \in 0 .. window.size, done \in BOOLEAN :
           /\ n = 0 => window.size = 0
           /\ LET bytes == window.from .. window.from + n - 1
              IN  IF _SendType = "header"
                  THEN wireHeader' = wireHeader \cup bytes /\ UNCHANGED wireBody
                  ELSE wireBody' = wireBody \cup bytes /\ UNCHANGED wireHeader
           /\ MsgUpdateSendMetadata(n, done)
           /\ phase' = IF done THEN "done" ELSE "send"
  /\ UNCHANGED <<_SendStatus, _StatusText, Headers, _HeaderLength, _BodyLength>>

GeneratorNext ==
  \/ MsgReset
  \/ \E n \in StatusBytes : MsgSetStatus(n)
  \/ \E h \in HeaderID : MsgAddHeader(h)
  \/ \E n \in BodyLengths : MsgSetBodyRef(n)
  \/ MsgGenerate
  \/ \E s \in {"idle", "sending"} : MsgSetSendStatus(s)
  \/ SendSome

GeneratorSpec == GeneratorInit /\ [][GeneratorNext]_generator

\* A caller with a message to send keeps sending.
GeneratorFairSpec == GeneratorSpec /\ WF_generator(SendSome)

-----------------------------------------------------------------------------
GeneratorTypeOK ==
  /\ _SendStatus \in {"idle", "sending"}
  /\ _SendType \in {"header", "body", "garbage"}
  /\ _StatusText \in Nat
  /\ Headers \subseteq HeaderID
  /\ _HeaderLength \in Nat
  /\ _BodyLength \in Nat
  /\ _HeaderRemainingBytes \in Nat
  /\ _BodyRemainingBytes \in Nat
  /\ _HeaderPointer \in Nat
  /\ _BodyPointer \in Nat
  /\ phase \in {"fresh", "build", "body", "send", "done"}
  /\ wireHeader \subseteq Nat
  /\ wireBody \subseteq Nat

(***************************************************************************)
(* What MsgGetSendMetadata offers lies inside the header or body of the    *)
(* message being sent, whatever the partial writes and whatever message    *)
(* the object served before (MsgReset keeps old remaining-byte counts).    *)
(***************************************************************************)
WindowInMessage ==
  phase = "send" =>
    /\ _SendType \in {"header", "body"}
    /\ LET window == MsgGetSendMetadata
       IN  window.from + window.size <=
             IF _SendType = "header" THEN _HeaderLength ELSE _BodyLength

(***************************************************************************)
(* No byte is written twice and none is skipped within a buffer: what the  *)
(* socket has taken of each is exactly what lies before its pointer.       *)
(***************************************************************************)
SentBeforePointer ==
  phase = "send" =>
    /\ wireHeader = 0 .. _HeaderPointer - 1
    /\ wireBody = 0 .. _BodyPointer - 1

(***************************************************************************)
(* Every message that is being sent is at some point reported done, or the *)
(* caller gives it up.                                                     *)
(***************************************************************************)
SendEnds == phase = "send" ~> phase # "send"

(***************************************************************************)
(* "switches from header mode to body mode once the header has been        *)
(* transmitted completely", and the message is done once the body has.     *)
(***************************************************************************)
SwitchesWhenSent ==
  /\ phase = "send" /\ _SendType = "body" =>
       wireHeader = 0 .. _HeaderLength - 1
  /\ phase = "done" => wireBody = 0 .. _BodyLength - 1
=============================================================================
