------------------------------ MODULE XMLParser ------------------------------
(***************************************************************************)
(* XMLParser::parse (lib/xml/xmlparser.cpp): one receive buffer is cut     *)
(* into NLAP messages, each of which Xerces parses and validates.  The     *)
(* generator splitMessages and the loop of parse alternate: a message is   *)
(* parsed before the next one is looked for, so an invalid message and a   *)
(* framing error behind it compete for the error code.                     *)
(*                                                                         *)
(* A buffer is a sequence of symbols: "open" and "close" are the start and *)
(* end markers, "leaf" is content the DTD accepts, "alien" content it does *)
(* not, "broken" is markup that is not well formed and "junk" is text.     *)
(* Offsets count the symbols before a position, as in the code.            *)
(***************************************************************************)
EXTENDS Integers, Sequences, FiniteSets, Functions

CONSTANTS
  Buffers,           \* the buffers parse() is called with
  ParseBufferSize,   \* sizes passed to the constructor or the setter
  Nowhere            \* std::string_view::npos

Symbol == {"open", "close", "leaf", "alien", "broken", "junk"}

ASSUME XMLAssumption ==
  /\ Buffers \subseteq Seq(Symbol)
  /\ ParseBufferSize \subseteq Nat
  /\ Nowhere \notin Nat

VARIABLES
  _ParseBufferSize,
  pc,                \* idle, split, parse, end, done
  Input,
  Cursor, LastEnd,   \* of splitMessages
  Slice,             \* the message it has yielded, [from, to) in Input
  FramingError,
  Results,           \* the slices of the parsed messages
  ErrorCode

vars == <<_ParseBufferSize, pc, Input, Cursor, LastEnd, Slice, FramingError,
          Results, ErrorCode>>

Init ==
  /\ _ParseBufferSize \in ParseBufferSize
  /\ pc = "idle"
  /\ Input = <<>>
  /\ Cursor = 0
  /\ LastEnd = Nowhere
  /\ Slice = [from |-> 0, to |-> 0]
  /\ FramingError = FALSE
  /\ Results = <<>>
  /\ ErrorCode = "none"

-----------------------------------------------------------------------------
\* The locals of a call of parse on buf, as they are at its start.
Fresh(buf) ==
  /\ Input' = buf
  /\ Cursor' = 0
  /\ LastEnd' = Nowhere
  /\ Slice' = [from |-> 0, to |-> 0]
  /\ FramingError' = FALSE
  /\ Results' = <<>>

setParseBufferSize(n) ==
  /\ pc = "idle"
  /\ _ParseBufferSize' = n
  /\ UNCHANGED <<pc, Input, Cursor, LastEnd, Slice, FramingError, Results,
                 ErrorCode>>

\* A call of parse: a buffer that is too long is refused unread.
Begin(buf) ==
  /\ pc = "idle"
  /\ Fresh(buf)
  /\ \/ /\ Len(buf) > _ParseBufferSize
        /\ ErrorCode' = "framing"
        /\ pc' = "done"
     \/ /\ Len(buf) <= _ParseBufferSize
        /\ ErrorCode' = "none"
        /\ pc' = "split"
  /\ UNCHANGED _ParseBufferSize

\* The caller has taken the result.
Return ==
  /\ pc = "done"
  /\ Fresh(<<>>)
  /\ ErrorCode' = "none"
  /\ pc' = "idle"
  /\ UNCHANGED _ParseBufferSize

\* Input.find(marker, from)
Find(marker, from) ==
  LET found == {k \in from .. Len(Input) - 1 : Input[k + 1] = marker}
  IN  IF found = {} THEN Nowhere
      ELSE CHOOSE k \in found : \A j \in found : k <= j

\* Mutant of splitMessages: messages need not be adjacent.
splitMessagesApart ==
  /\ pc = "split"
  /\ LET Start == Find("open", Cursor)
         End == Find("close", Start)
     IN  \/ /\ Start = Nowhere
            /\ pc' = "end"
            /\ UNCHANGED <<FramingError, Slice, Cursor, LastEnd>>
         \/ /\ Start # Nowhere
            /\ End = Nowhere
            /\ pc' = "end"
            /\ UNCHANGED <<FramingError, Slice, Cursor, LastEnd>>
         \/ /\ Start # Nowhere
            /\ End # Nowhere
            /\ Slice' = [from |-> Start, to |-> End + 1]
            /\ Cursor' = End + 1
            /\ LastEnd' = End + 1
            /\ pc' = "parse"
            /\ UNCHANGED FramingError
  /\ UNCHANGED <<_ParseBufferSize, Input, Results, ErrorCode>>

\* Mutant of splitMessages: the message ends one past its end marker.
splitMessagesBeyond ==
  /\ pc = "split"
  /\ LET Start == Find("open", Cursor)
         End == Find("close", Start)
     IN  /\ Start # Nowhere
         /\ End # Nowhere
         /\ Slice' = [from |-> Start, to |-> End + 2]
         /\ Cursor' = End + 2
         /\ LastEnd' = End + 2
         /\ pc' = "parse"
  /\ UNCHANGED <<_ParseBufferSize, Input, FramingError, Results, ErrorCode>>

(***************************************************************************)
(* splitMessages up to its next co_yield or its end.                       *)
(***************************************************************************)
splitMessages ==
  /\ pc = "split"
  /\ LET Start == Find("open", Cursor)
         End == Find("close", Start)
         torn == Start # Nowhere /\ LastEnd # Nowhere /\ Start # LastEnd
     IN  \/ /\ Start = Nowhere
            /\ pc' = "end"
            /\ UNCHANGED <<FramingError, Slice, Cursor, LastEnd>>
         \/ /\ torn
            /\ FramingError' = TRUE
            /\ pc' = "end"
            /\ UNCHANGED <<Slice, Cursor, LastEnd>>
         \/ /\ Start # Nowhere
            /\ ~torn
            /\ End = Nowhere
            /\ pc' = "end"
            /\ UNCHANGED <<FramingError, Slice, Cursor, LastEnd>>
         \/ /\ Start # Nowhere
            /\ ~torn
            /\ End # Nowhere
            /\ Slice' = [from |-> Start, to |-> End + 1]
            /\ Cursor' = End + 1
            /\ LastEnd' = End + 1
            /\ pc' = "parse"
            /\ UNCHANGED FramingError
  /\ UNCHANGED <<_ParseBufferSize, Input, Results, ErrorCode>>

-----------------------------------------------------------------------------
(***************************************************************************)
(* parseMessage: Xerces' syntax pass, then its validation against          *)
(* <!ELEMENT NLAP (Request | Response)>.  The result is its error code.    *)
(***************************************************************************)
Symbols(slice) == SubSeq(Input, slice.from + 1, slice.to)

parseMessage(slice) ==
  LET content == SubSeq(Input, slice.from + 2, slice.to - 1)
  IN  IF Range(content) \cap {"open", "broken"} # {} THEN "syntax"
      ELSE IF content # <<"leaf">> THEN "content"
      ELSE "none"

\* Mutant of ProcessSlice: an invalid message is left out and the loop goes on.
ProcessSliceSkipping ==
  /\ pc = "parse"
  /\ Results' = IF parseMessage(Slice) = "none" THEN Append(Results, Slice)
                ELSE Results
  /\ ErrorCode' = IF parseMessage(Slice) = "none" THEN ErrorCode
                  ELSE parseMessage(Slice)
  /\ pc' = "split"
  /\ UNCHANGED <<_ParseBufferSize, Input, Cursor, LastEnd, Slice, FramingError>>

\* The body of parse's loop: the first invalid message ends the call.
ProcessSlice ==
  /\ pc = "parse"
  /\ \/ /\ parseMessage(Slice) # "none"
        /\ ErrorCode' = parseMessage(Slice)
        /\ Results' = <<>>
        /\ pc' = "done"
     \/ /\ parseMessage(Slice) = "none"
        /\ Results' = Append(Results, Slice)
        /\ pc' = "split"
        /\ UNCHANGED ErrorCode
  /\ UNCHANGED <<_ParseBufferSize, Input, Cursor, LastEnd, Slice, FramingError>>

\* parse behind its loop.
Finish ==
  /\ pc = "end"
  /\ ErrorCode' = IF FramingError THEN "framing" ELSE ErrorCode
  /\ Results' = IF FramingError THEN <<>> ELSE Results
  /\ pc' = "done"
  /\ UNCHANGED <<_ParseBufferSize, Input, Cursor, LastEnd, Slice, FramingError>>

Next ==
  \/ \E n \in ParseBufferSize : setParseBufferSize(n)
  \/ \E buf \in Buffers : Begin(buf)
  \/ splitMessages
  \/ ProcessSlice
  \/ Return
  \/ Finish

Spec == Init /\ [][Next]_vars

-----------------------------------------------------------------------------
Offset == 0 .. Len(Input)

SliceType == [from : Offset, to : Offset]

TypeOK ==
  /\ _ParseBufferSize \in ParseBufferSize
  /\ pc \in {"idle", "split", "parse", "end", "done"}
  /\ Input \in Seq(Symbol)
  /\ Cursor \in Offset
  /\ LastEnd \in Offset \cup {Nowhere}
  /\ Slice \in SliceType
  /\ FramingError \in BOOLEAN
  /\ Results \in Seq(SliceType)
  /\ ErrorCode \in {"none", "syntax", "content", "framing"}

\* n valid messages, one behind the other, with no start marker before them.
Valid == <<"open", "leaf", "close">>

NthSlice(lead, k) ==
  [from |-> lead + Len(Valid) * (k - 1), to |-> lead + Len(Valid) * k]

Chain(lead, n) ==
  /\ lead + Len(Valid) * n <= Len(Input)
  /\ "open" \notin Range(SubSeq(Input, 1, lead))
  /\ \A k \in 1 .. n : Symbols(NthSlice(lead, k)) = Valid

\* Behind them no other message starts, or one that is incomplete.
Clean(lead, n) ==
  LET tail == SubSeq(Input, lead + Len(Valid) * n + 1, Len(Input))
  IN  /\ Chain(lead, n)
      /\ \/ "open" \notin Range(tail)
         \/ tail[1] = "open" /\ "close" \notin Range(tail)

(***************************************************************************)
(* parse is all or nothing and misses no message: it succeeds exactly for  *)
(* the buffers that hold adjacent valid messages, and returns each of them *)
(* in order; for every other buffer it reports an error and no result.     *)
(***************************************************************************)
ParseExact ==
  pc = "done" =>
    LET fits == Len(Input) <= _ParseBufferSize
    IN  IF ErrorCode = "none"
        THEN /\ fits
             /\ \E lead, n \in Offset :
                  /\ Clean(lead, n)
                  /\ Results = [k \in 1 .. n |-> NthSlice(lead, k)]
        ELSE /\ Results = <<>>
             /\ ~(fits /\ \E lead, n \in Offset : Clean(lead, n))

(***************************************************************************)
(* The error code is that of the first fault in the buffer: all messages   *)
(* before it are valid, and it is an invalid message with this code or a   *)
(* start marker that does not follow the message before it.                *)
(***************************************************************************)
FirstFaultReported ==
  pc = "done" /\ ErrorCode # "none" /\ Len(Input) <= _ParseBufferSize =>
    \E lead, n \in Offset :
      /\ Chain(lead, n)
      /\ LET at == lead + Len(Valid) * n
             tail == SubSeq(Input, at + 1, Len(Input))
             message == Symbols(Slice)
         IN  IF ErrorCode = "framing"
             THEN n > 0 /\ tail[1] # "open" /\ "open" \in Range(tail)
             ELSE /\ Slice.from = at
                  /\ message[1] = "open"
                  /\ message[Len(message)] = "close"
                  /\ parseMessage(Slice) = ErrorCode
=============================================================================
