--------------------------- MODULE ServerLoopProofs ---------------------------
(***************************************************************************)
(* Proofs about ServerLoop, for any number of connections, descriptors,    *)
(* buffer segments, events of a batch and bytes.                           *)
(***************************************************************************)
EXTENDS ServerLoop, ListLemmas

-----------------------------------------------------------------------------
(***************************************************************************)
(* The inductive invariant.  The five invariants of ServerLoop are part of *)
(* it; the rest says how the kernel's tables, the lists and the program    *)
(* counter hang together.                                                  *)
(***************************************************************************)
Reading == {"read", "append", "erase", "close"}

\* The kernel: a descriptor belongs to one open connection, the backlog holds
\* every queued connection once, and read() returns only what was sent.
KernelInv ==
  /\ \A c, d \in Conn : fd[c] = fd[d] /\ fd[c] # 0 => c = d
  /\ \A c \in Conn : fd[c] # 0 <=> state[c] = "open"
  /\ \A j \in 1 .. Len(backlog) : state[backlog[j]] = "queued"
  /\ IsInjective(backlog)
  /\ \A c \in Conn : taken[c] <= sent[c]
  /\ \A c \in Conn : state[c] \in {"new", "queued"} => taken[c] = 0

\* The epoll lists: registered descriptors are open, a descriptor is on the
\* ready list once, and the batch is empty between two calls of epoll_wait.
ListInv ==
  /\ registered \subseteq Used
  /\ IsInjective(ready)
  /\ pc \notin Reading \cup {"event"} => events = <<>> /\ ReadFD = 0

\* What the program counter says of the local variables.
ControlInv ==
  /\ pc = "accept" => backlog # <<>>
  /\ pc \in {"addClient", "epoll_ctl"} => ClientFD \in Used
  /\ pc = "addClient" => \A c \in Conn : fd[c] = ClientFD => taken[c] = 0
  /\ pc \in Reading => ReadFD \in registered
  /\ \A f \in FD : Clients[f] # NoClient =>
       \E k \in Segment : Clients[f]._ReceiveBuffer = k * ReadMax

\* The bytes read() returned are still where it put them when they are copied.
Landed ==
  pc = "append" =>
    \A c \in Conn :
      fd[c] = ReadFD =>
        /\ RcvBytes <= taken[c]
        /\ Received(Clients[ReadFD]._ReceiveBuffer, RcvBytes) =
             [k \in 1 .. RcvBytes |-> <<c, taken[c] - RcvBytes + k>>]

Inv ==
  /\ TypeOK
  /\ KernelInv
  /\ ListInv
  /\ ControlInv
  /\ RegistryAgrees
  /\ EventsCurrent
  /\ NothingStranded
  /\ Landed
  /\ StreamsIntact

-----------------------------------------------------------------------------
(***************************************************************************)
(* Descriptors and buffers.                                                *)
(***************************************************************************)
\* Descriptor 0 stands for none.
LEMMA ZeroIsFree == 0 \notin FD
  BY LoopAssumption DEF FD

\* A segment lies inside the memory MemoryManager allocated, all of it.
LEMMA SegmentInside ==
  ASSUME NEW k \in Segment, NEW m \in 0 .. ReadMax - 1
  PROVE  k * ReadMax + m \in Address
<1>1. SegmentCount \in Nat /\ ReadMax \in Nat /\ k \in Nat /\ k + 1 <= SegmentCount
  BY LoopAssumption DEF Segment
<1>2. (k + 1) * ReadMax <= SegmentCount * ReadMax
  <2>1. PICK d \in Nat : SegmentCount = (k + 1) + d
    <3>1. SegmentCount - (k + 1) \in Nat /\ SegmentCount = (k + 1) + (SegmentCount - (k + 1))
      BY <1>1
    <3> QED  BY <3>1
  <2>2. SegmentCount * ReadMax = (k + 1) * ReadMax + d * ReadMax
    BY <1>1, <2>1
  <2>3. d * ReadMax \in Nat /\ (k + 1) * ReadMax \in Nat
    BY <1>1
  <2> QED  BY <2>2, <2>3
<1>3. (k + 1) * ReadMax = k * ReadMax + ReadMax
  BY <1>1
<1>4. k * ReadMax \in Nat /\ SegmentCount * ReadMax \in Nat /\ m \in Nat /\ m < ReadMax
  BY <1>1
<1> QED  BY <1>1, <1>2, <1>3, <1>4 DEF Address

\* getNextMemPointer hands out the start of a segment, and stays in range.
LEMMA NextSegment ==
  ASSUME SegmentOffset \in Segment
  PROVE  /\ getMemPointer(SegmentOffset) = SegmentOffset * ReadMax
         /\ getMemPointer(SegmentOffset) \in Address
         /\ NextOffset \in Segment
<1>1. SegmentOffset < SegmentCount /\ SegmentOffset \in Nat
      /\ SegmentCount \in Nat \ {0} /\ ReadMax \in Nat \ {0}
  BY LoopAssumption DEF Segment
<1>2. getMemPointer(SegmentOffset) = SegmentOffset * ReadMax
  BY <1>1 DEF getMemPointer
<1>3. SegmentOffset * ReadMax + 0 \in Address /\ SegmentOffset * ReadMax \in Int
  BY <1>1, SegmentInside
<1>4. SegmentOffset * ReadMax \in Address
  BY <1>3
<1>5. NextOffset \in Segment
  BY <1>1 DEF NextOffset, Segment
<1> QED  BY <1>2, <1>4, <1>5

-----------------------------------------------------------------------------
(***************************************************************************)
(* The invariant holds initially, and each action keeps it.                *)
(***************************************************************************)
LEMMA InvInit == Init => Inv
<1> SUFFICES ASSUME Init PROVE Inv
  OBVIOUS
<1>1. TypeOK
  BY LoopAssumption DEF Init, TypeOK, Segment
<1>2. Used = {} /\ Range(events) = {} /\ Range(ready) = {}
  BY DEF Init, Used, Range
<1>3. KernelInv
  BY DEF Init, KernelInv, IsInjective
<1>4. ListInv
  BY <1>2 DEF Init, ListInv, IsInjective, Reading
<1>5. ControlInv
  BY DEF Init, ControlInv, Reading
<1>6. RegistryAgrees
  BY <1>2 DEF Init, RegistryAgrees
<1>7. EventsCurrent
  BY <1>2 DEF Init, EventsCurrent
<1>8. NothingStranded
  BY DEF Init, NothingStranded
<1>9. Landed
  BY DEF Init, Landed
<1>10. StreamsIntact
  BY DEF Init, StreamsIntact
<1> QED  BY <1>1, <1>3, <1>4, <1>5, <1>6, <1>7, <1>8, <1>9, <1>10 DEF Inv

\* A new connection joins the backlog, once, with nothing read from it.
LEMMA InvConnect == ASSUME Inv, NEW c \in Conn, Connect(c) PROVE Inv'
<1> USE DEF Inv, Connect, server, receive
<1>0. backlog' \in Seq(Conn) /\ Len(backlog') = Len(backlog) + 1
      /\ (\A j \in 1 .. Len(backlog) : backlog'[j] = backlog[j])
      /\ backlog'[Len(backlog) + 1] = c
  BY AppendProperties DEF TypeOK
<1>1. TypeOK'
  BY <1>0 DEF TypeOK
<1>2. Used' = Used
  BY DEF Used
<1>3. KernelInv'
  <2>1. c \notin Range(backlog)
    <3>1. backlog \in Seq(Conn)
      BY DEF TypeOK
    <3>2. state[c] = "new" /\ \A j \in 1 .. Len(backlog) : state[backlog[j]] = "queued"
      BY DEF KernelInv
    <3> QED  BY <3>1, <3>2, RangeMember
  <2>2. IsInjective(backlog')
    BY <2>1, AppendMembers DEF TypeOK, KernelInv
  <2>3. \A j \in 1 .. Len(backlog') : state'[backlog'[j]] = "queued"
    <3>1. Len(backlog) \in Nat /\ \A j \in 1 .. Len(backlog) : backlog[j] \in Conn
      BY DEF TypeOK
    <3>2. state' = [state EXCEPT ![c] = "queued"] /\ DOMAIN state = Conn
      BY DEF TypeOK
    <3> QED  BY <1>0, <3>1, <3>2 DEF KernelInv
  <2> QED  BY <2>2, <2>3 DEF TypeOK, KernelInv
<1>4. ListInv'
  BY <1>2 DEF ListInv
<1>5. ControlInv'
  BY <1>0, <1>2 DEF ControlInv
<1>6. RegistryAgrees'
  BY <1>2 DEF RegistryAgrees
<1>7. EventsCurrent'
  BY DEF EventsCurrent
<1>8. NothingStranded'
  BY DEF NothingStranded, Readable
<1>9. Landed'
  BY DEF Landed, Received
<1>10. StreamsIntact'
  BY DEF StreamsIntact
<1> QED  BY <1>1, <1>3, <1>4, <1>5, <1>6, <1>7, <1>8, <1>9, <1>10

\* What arrives at a connection: its descriptor is on the ready list now, if
\* it is registered, and the list has no other new member and no duplicate.
LEMMA WakeEffect ==
  ASSUME Inv, NEW c \in Conn, Wake(c)
  PROVE  /\ ready' \in Seq(FD)
         /\ IsInjective(ready')
         /\ Range(ready) \subseteq Range(ready')
         /\ Range(ready') \subseteq registered
         /\ fd[c] \in registered => fd[c] \in Range(ready')
<1>1. ready \in Seq(FD) /\ registered \subseteq FD
  BY DEF Inv, TypeOK
<1>2. IsInjective(ready) /\ Range(ready) \subseteq registered
  BY DEF Inv, ListInv, EventsCurrent
<1>3. CASE fd[c] \in registered \ Range(ready)
  <2>1. ready' = Append(ready, fd[c]) /\ fd[c] \in FD
    BY <1>1, <1>3 DEF Wake
  <2> QED  BY <1>1, <1>2, <1>3, <2>1, AppendMembers
<1>4. CASE fd[c] \notin registered \ Range(ready)
  BY <1>1, <1>2, <1>4 DEF Wake
<1> QED  BY <1>3, <1>4

\* Something arrives: only the peer's side and the ready list change.
LEMMA InvArrival ==
  ASSUME Inv, NEW c \in Conn, Wake(c),
         sent' \in [Conn -> 0 .. MaxSend],
         ending' \in [Conn -> {"no", "fin", "rst"}],
         \A d \in Conn : sent[d] <= sent'[d],
         \A d \in Conn : d # c => sent'[d] = sent[d] /\ ending'[d] = ending[d],
         UNCHANGED <<state, backlog, fd, taken, registered, server>>
  PROVE  Inv'
<1> USE DEF Inv, server, receive
<1>0. /\ ready' \in Seq(FD)
      /\ IsInjective(ready')
      /\ Range(ready) \subseteq Range(ready')
      /\ Range(ready') \subseteq registered
      /\ fd[c] \in registered => fd[c] \in Range(ready')
  BY WakeEffect
<1>1. TypeOK'
  BY <1>0 DEF TypeOK
<1>2. Used' = Used
  BY DEF Used
<1>3. KernelInv'
  <2>1. \A d \in Conn : taken[d] \in Int /\ sent[d] \in Int /\ sent'[d] \in Int
    BY LoopAssumption DEF TypeOK
  <2>2. \A d \in Conn : taken[d] <= sent'[d]
    BY <2>1 DEF KernelInv
  <2> QED  BY <2>2 DEF KernelInv
<1>4. ListInv'
  BY <1>0, <1>2 DEF ListInv
<1>5. ControlInv'
  BY <1>2 DEF ControlInv
<1>6. RegistryAgrees'
  BY <1>2 DEF RegistryAgrees
<1>7. EventsCurrent'
  <2>1. \A f \in registered : Clients[f] # NoClient \/ (pc = "close" /\ f = ReadFD)
    BY DEF RegistryAgrees
  <2> QED  BY <1>0, <2>1 DEF EventsCurrent
<1>8. NothingStranded'
  BY <1>0 DEF NothingStranded, Readable
<1>9. Landed'
  BY DEF Landed, Received
<1>10. StreamsIntact'
  BY DEF StreamsIntact
<1> QED  BY <1>1, <1>3, <1>4, <1>5, <1>6, <1>7, <1>8, <1>9, <1>10

\* Bytes that arrive at a registered descriptor put it on the ready list.
LEMMA InvSend == ASSUME Inv, NEW c \in Conn, Send(c) PROVE Inv'
<1>1. sent \in [Conn -> 0 .. MaxSend] /\ ending \in [Conn -> {"no", "fin", "rst"}]
      /\ MaxSend \in Nat
  BY LoopAssumption DEF Inv, TypeOK
<1>2. sent' = [sent EXCEPT ![c] = sent[c] + 1] /\ sent[c] < MaxSend /\ ending' = ending
  BY DEF Send
<1>3. sent' \in [Conn -> 0 .. MaxSend] /\ \A d \in Conn : sent[d] <= sent'[d]
  BY <1>1, <1>2
<1>4. \A d \in Conn : d # c => sent'[d] = sent[d] /\ ending'[d] = ending[d]
  BY <1>1, <1>2
<1>5. Wake(c) /\ UNCHANGED <<state, backlog, fd, taken, registered, server>>
  BY DEF Send
<1> QED  BY <1>1, <1>2, <1>3, <1>4, <1>5, InvArrival

\* So does the end of a connection: it stays to be read and then closed.
LEMMA InvEnd == ASSUME Inv, NEW c \in Conn, End(c) PROVE Inv'
<1>1. sent \in [Conn -> 0 .. MaxSend] /\ ending \in [Conn -> {"no", "fin", "rst"}]
      /\ MaxSend \in Nat
  BY LoopAssumption DEF Inv, TypeOK
<1>2. PICK e \in {"fin", "rst"} : ending' = [ending EXCEPT ![c] = e]
  BY DEF End
<1>3. sent' = sent /\ \A d \in Conn : sent[d] <= sent'[d]
  BY <1>1 DEF End
<1>4. /\ ending' \in [Conn -> {"no", "fin", "rst"}]
      /\ \A d \in Conn : d # c => sent'[d] = sent[d] /\ ending'[d] = ending[d]
  BY <1>1, <1>2, <1>3
<1>5. Wake(c) /\ UNCHANGED <<state, backlog, fd, taken, registered, server>>
  BY DEF End
<1> QED  BY <1>1, <1>3, <1>4, <1>5, InvArrival

\* The SIGTERM handler changes the flag of the loop and nothing else.
LEMMA InvTerminate == ASSUME Inv, Terminate PROVE Inv'
<1> USE DEF Inv, Terminate, kernel, receive
<1>1. TypeOK'
  BY DEF TypeOK
<1>2. Used' = Used
  BY DEF Used
<1>3. KernelInv'
  BY DEF KernelInv
<1>4. ListInv'
  BY <1>2 DEF ListInv
<1>5. ControlInv'
  BY <1>2 DEF ControlInv
<1>6. RegistryAgrees'
  BY <1>2 DEF RegistryAgrees
<1>7. EventsCurrent'
  BY DEF EventsCurrent
<1>8. NothingStranded'
  BY DEF NothingStranded, Readable
<1>9. Landed'
  BY DEF Landed, Received
<1>10. StreamsIntact'
  BY DEF StreamsIntact
<1> QED  BY <1>1, <1>3, <1>4, <1>5, <1>6, <1>7, <1>8, <1>9, <1>10

\* Between two batches a step from one place of the loop to another, with
\* nothing else changed, keeps the invariant.
LEMMA InvMove ==
  ASSUME Inv,
         pc \in {"loop", "poll", "accept", "epoll_wait"},
         pc' \in {"loop", "poll", "accept", "epoll_wait", "exit"},
         pc' = "accept" => backlog # <<>>,
         UNCHANGED <<kernel, RunServer, ClientFD, Clients, SegmentOffset,
                     receive, events, ReadFD>>
  PROVE  Inv'
<1> USE DEF Inv, kernel, receive
<1>1. TypeOK'
  BY DEF TypeOK
<1>2. Used' = Used
  BY DEF Used
<1>3. KernelInv'
  BY DEF KernelInv
<1>4. ListInv'
  BY <1>2 DEF ListInv, Reading
<1>5. ControlInv'
  BY <1>2 DEF ControlInv, Reading
<1>6. RegistryAgrees'
  BY <1>2 DEF RegistryAgrees
<1>7. EventsCurrent'
  BY DEF EventsCurrent
<1>8. NothingStranded'
  BY DEF NothingStranded, Readable
<1>9. Landed'
  BY DEF Landed
<1>10. StreamsIntact'
  BY DEF StreamsIntact
<1> QED  BY <1>1, <1>3, <1>4, <1>5, <1>6, <1>7, <1>8, <1>9, <1>10

\* The loop test changes only the program counter.
LEMMA InvLoop == ASSUME Inv, Loop PROVE Inv'
  BY InvMove DEF Loop

\* poll looks at the backlog and changes only the program counter.
LEMMA InvPoll == ASSUME Inv, Poll PROVE Inv'
  BY InvMove DEF Poll

\* accept() makes the first queued connection open, under a descriptor that
\* no open connection has.
LEMMA AcceptEffect ==
  ASSUME Inv, Accept, Used # FD
  PROVE  \E f \in FD \ Used :
           /\ ClientFD' = f
           /\ fd' = [fd EXCEPT ![Head(backlog)] = f]
<1> DEFINE f == CHOOSE g \in FD \ Used : \A h \in FD \ Used : g <= h
<1>1. Used \subseteq FD
  BY DEF Inv, TypeOK, Used
<1>2. FD \ Used # {} /\ FD \ Used \subseteq Nat
  <2>1. FD \subseteq Nat
    BY DEF FD
  <2> QED  BY <1>1, <2>1
<1>3. \E g \in FD \ Used : \A h \in FD \ Used : g <= h
  BY <1>2, LowestExists
<1>4. f \in FD \ Used
  BY <1>3
<1>5. ClientFD' = f /\ fd' = [fd EXCEPT ![Head(backlog)] = f]
  BY DEF Accept
<1> QED  BY <1>4, <1>5

\* accept gives a descriptor that nobody uses to the oldest of the backlog.
LEMMA InvAccept == ASSUME Inv, Accept PROVE Inv'
<1> USE DEF Inv
<1>a. CASE Used = FD
  <2>1. /\ pc = "accept" /\ pc' = "epoll_wait"
        /\ UNCHANGED <<kernel, RunServer, ClientFD, Clients, SegmentOffset,
                       receive, events, ReadFD>>
    BY <1>a DEF Accept, kernel
  <2> QED  BY <2>1, InvMove
<1>b. CASE Used # FD
  <2> DEFINE c == Head(backlog)
  <2>a. PICK f \in FD \ Used :
           /\ ClientFD' = f
           /\ fd' = [fd EXCEPT ![c] = f]
    BY <1>b, AcceptEffect
  <2>b. /\ state' = [state EXCEPT ![c] = "open"]
        /\ backlog' = Tail(backlog)
        /\ pc = "accept" /\ pc' = "addClient"
        /\ UNCHANGED <<sent, taken, ending, registered, ready, RunServer,
                       Clients, SegmentOffset, receive, events, ReadFD>>
    BY <1>b DEF Accept
  <2>c. /\ backlog \in Seq(Conn) /\ backlog # <<>>
        /\ fd \in [Conn -> FD \cup {0}]
        /\ f \in Nat /\ f # 0
    BY <2>b DEF TypeOK, ControlInv, FD
  <2>d. /\ c \in Conn /\ c = backlog[1]
        /\ backlog' \in Seq(Conn)
        /\ Range(backlog) = Range(backlog') \cup {c}
        /\ IsInjective(backlog')
        /\ c \notin Range(backlog')
    BY <2>b, <2>c, TailMembers DEF KernelInv
  <2>e. state[c] = "queued"
    <3>1. 1 \in 1 .. Len(backlog)
      BY <2>c, EmptySeq
    <3> QED  BY <2>d, <3>1 DEF KernelInv
  <2>f. /\ fd[c] = 0 /\ taken[c] = 0
        /\ \A d \in Conn : fd[d] # f
        /\ \A d \in Conn : d # c => fd'[d] = fd[d]
        /\ fd'[c] = f
    BY <2>a, <2>c, <2>d, <2>e DEF KernelInv, Used
  <2> HIDE DEF c
  <2>1. TypeOK'
    BY <2>a, <2>b, <2>c, <2>d DEF TypeOK, receive
  <2>2. Used' = Used \cup {f}
    BY <2>c, <2>d, <2>f DEF Used
  <2>3. KernelInv'
    <3>0. \A d, e \in Conn : fd[d] = fd[e] /\ fd[d] # 0 => d = e
      BY DEF KernelInv
    <3>1. \A d, e \in Conn : fd'[d] = fd'[e] /\ fd'[d] # 0 => d = e
      BY <2>d, <2>f, <3>0
    <3>2. \A d \in Conn : fd'[d] # 0 <=> state'[d] = "open"
      BY <2>b, <2>c, <2>f DEF KernelInv, TypeOK
    <3>3. ASSUME NEW j \in 1 .. Len(backlog')
          PROVE  state'[backlog'[j]] = "queued"
      <4>1. backlog'[j] \in Range(backlog') /\ backlog'[j] \in Conn
        BY <2>d, RangeMember
      <4>2. backlog'[j] # c /\ \E k \in 1 .. Len(backlog) : backlog[k] = backlog'[j]
        BY <2>c, <2>d, <4>1, RangeMember
      <4>3. state[backlog'[j]] = "queued"
        BY <4>2 DEF KernelInv
      <4> QED  BY <2>b, <4>1, <4>2, <4>3 DEF TypeOK
    <3>4. \A d \in Conn : taken'[d] <= sent'[d]
      BY <2>b DEF KernelInv
    <3>5. \A d \in Conn : state'[d] \in {"new", "queued"} => taken'[d] = 0
      BY <2>b, <2>d DEF KernelInv, TypeOK
    <3> QED  BY <2>d, <3>1, <3>2, <3>3, <3>4, <3>5 DEF KernelInv
  <2>4. ListInv'
    BY <2>b, <2>2 DEF ListInv, Reading
  <2>5. ControlInv'
    <3>1. \A d \in Conn : fd'[d] = f => taken'[d] = 0
      BY <2>b, <2>f
    <3> QED  BY <2>a, <2>b, <2>2, <3>1 DEF ControlInv, Reading
  <2>6. RegistryAgrees'
    BY <2>a, <2>b, <2>2 DEF RegistryAgrees
  <2>7. EventsCurrent'
    BY <2>b DEF EventsCurrent
  <2>8. NothingStranded'
    <3>1. f \notin registered
      BY DEF ListInv
    <3> QED  BY <2>b, <2>f, <3>1 DEF NothingStranded, Readable
  <2>9. Landed'
    BY <2>b DEF Landed
  <2>10. StreamsIntact'
    <3>1. Clients[f] = NoClient
      BY <2>b DEF RegistryAgrees
    <3> QED  BY <2>b, <2>f, <3>1 DEF StreamsIntact
  <2> QED  BY <2>1, <2>3, <2>4, <2>5, <2>6, <2>7, <2>8, <2>9, <2>10
<1> QED  BY <1>a, <1>b

\* addClient makes the map entry of the descriptor accept returned.
LEMMA InvAddClient == ASSUME Inv, AddClient PROVE Inv'
<1> USE DEF Inv
<1> DEFINE new == [_ReceiveBuffer |-> getMemPointer(SegmentOffset), in |-> <<>>]
<1>a. /\ pc = "addClient" /\ pc' = "epoll_ctl"
      /\ SegmentOffset' = NextOffset
      /\ UNCHANGED <<kernel, RunServer, ClientFD, receive, events, ReadFD>>
  BY DEF AddClient
<1>b. /\ ClientFD \in FD /\ ClientFD \in Used
      /\ Clients \in [FD -> Client \cup {NoClient}]
      /\ SegmentOffset \in Segment
  BY <1>a DEF ControlInv, TypeOK, Used
<1>c. Clients[ClientFD] = NoClient
  BY <1>a, <1>b DEF RegistryAgrees
<1>d. Clients' = [Clients EXCEPT ![ClientFD] = new]
  BY <1>c DEF AddClient
<1>e. /\ new \in Client /\ new # NoClient
      /\ new._ReceiveBuffer = SegmentOffset * ReadMax
      /\ new.in = <<>>
      /\ NextOffset \in Segment
  <2>1. getMemPointer(SegmentOffset) \in Address /\ NextOffset \in Segment
        /\ getMemPointer(SegmentOffset) = SegmentOffset * ReadMax
    BY <1>b, NextSegment
  <2>2. new \in Client
    BY <2>1 DEF Client
  <2> QED  BY <2>1, <2>2, LoopAssumption
<1> HIDE DEF new
<1>f. /\ Clients' \in [FD -> Client \cup {NoClient}]
      /\ Clients'[ClientFD] = new
      /\ \A f \in FD : f # ClientFD => Clients'[f] = Clients[f]
  BY <1>b, <1>d, <1>e
<1>1. TypeOK'
  BY <1>a, <1>e, <1>f DEF TypeOK, kernel, receive
<1>2. Used' = Used
  BY <1>a DEF Used, kernel
<1>3. KernelInv'
  BY <1>a DEF KernelInv, kernel
<1>4. ListInv'
  BY <1>a, <1>2 DEF ListInv, Reading, kernel
<1>5. ControlInv'
  <2>1. \A f \in FD : Clients'[f] # NoClient =>
          \E k \in Segment : Clients'[f]._ReceiveBuffer = k * ReadMax
    BY <1>b, <1>e, <1>f DEF ControlInv
  <2> QED  BY <1>a, <1>b, <1>2, <2>1 DEF ControlInv, Reading, kernel
<1>6. RegistryAgrees'
  BY <1>a, <1>b, <1>c, <1>e, <1>f, <1>2 DEF RegistryAgrees, kernel
<1>7. EventsCurrent'
  BY <1>a, <1>e, <1>f DEF EventsCurrent, kernel, TypeOK
<1>8. NothingStranded'
  BY <1>a DEF NothingStranded, Readable, kernel
<1>9. Landed'
  BY <1>a DEF Landed
<1>10. StreamsIntact'
  <2> SUFFICES ASSUME NEW c \in Conn, fd[c] # 0, Clients'[fd[c]] # NoClient
               PROVE  Clients'[fd[c]].in = [k \in 1 .. taken[c] |-> <<c, k>>]
    BY <1>a DEF StreamsIntact, kernel
  <2>1. CASE fd[c] = ClientFD
    <3>1. taken[c] = 0
      BY <1>a, <2>1 DEF ControlInv
    <3>2. [k \in 1 .. 0 |-> <<c, k>>] = <<>>
      OBVIOUS
    <3> QED  BY <1>e, <1>f, <2>1, <3>1, <3>2
  <2>2. CASE fd[c] # ClientFD
    <3>1. fd[c] \in FD
      BY DEF TypeOK
    <3> QED  BY <1>a, <1>f, <2>2, <3>1 DEF StreamsIntact
  <2> QED  BY <2>1, <2>2
<1> QED  BY <1>1, <1>3, <1>4, <1>5, <1>6, <1>7, <1>8, <1>9, <1>10

\* The connection behind an open descriptor is the one that holds it.
LEMMA PeerHolds ==
  ASSUME Inv, NEW f \in Used
  PROVE  /\ Peer(f) \in Conn /\ fd[Peer(f)] = f /\ f # 0
         /\ \A d \in Conn : fd[d] = f => d = Peer(f)
<1>1. \E c \in Conn : fd[c] = f
  BY DEF Used
<1>2. Peer(f) \in Conn /\ fd[Peer(f)] = f
  BY <1>1 DEF Peer
<1>3. f # 0
  BY DEF Used
<1> QED  BY <1>2, <1>3 DEF Inv, KernelInv

\* Bytes that came before the registration are announced by it.
LEMMA InvEpollAdd == ASSUME Inv, EpollAdd PROVE Inv'
<1> USE DEF Inv
<1>a. /\ pc = "epoll_ctl" /\ pc' = "epoll_wait" /\ ClientFD' = 0
      /\ registered' = registered \cup {ClientFD}
      /\ ready' = IF Readable(Peer(ClientFD)) THEN Append(ready, ClientFD) ELSE ready
      /\ UNCHANGED <<state, backlog, fd, sent, taken, ending, RunServer,
                     Clients, SegmentOffset, receive, events, ReadFD>>
  BY DEF EpollAdd
<1>b. /\ ClientFD \in FD /\ ClientFD \in Used
      /\ ready \in Seq(FD) /\ registered \subseteq FD
      /\ IsInjective(ready) /\ Range(ready) \subseteq registered
  BY <1>a DEF ControlInv, TypeOK, Used, ListInv, EventsCurrent
<1>c. ClientFD \notin registered /\ Clients[ClientFD] # NoClient
  BY <1>a, <1>b DEF RegistryAgrees
<1>d. /\ ready' \in Seq(FD) /\ IsInjective(ready')
      /\ Range(ready) \subseteq Range(ready')
      /\ Range(ready') \subseteq Range(ready) \cup {ClientFD}
      /\ Readable(Peer(ClientFD)) => ClientFD \in Range(ready')
  <2>1. CASE Readable(Peer(ClientFD))
    BY <1>a, <1>b, <1>c, <2>1, AppendMembers
  <2>2. CASE ~Readable(Peer(ClientFD))
    BY <1>a, <1>b, <2>2
  <2> QED  BY <2>1, <2>2
<1>1. TypeOK'
  BY <1>a, <1>b, <1>d DEF TypeOK, receive
<1>2. Used' = Used
  BY <1>a DEF Used
<1>3. KernelInv'
  BY <1>a DEF KernelInv
<1>4. ListInv'
  BY <1>a, <1>b, <1>d, <1>2 DEF ListInv, Reading
<1>5. ControlInv'
  BY <1>a DEF ControlInv, Reading
<1>6. RegistryAgrees'
  BY <1>a, <1>b, <1>c, <1>2 DEF RegistryAgrees
<1>7. EventsCurrent'
  BY <1>a, <1>b, <1>c, <1>d DEF EventsCurrent
<1>8. NothingStranded'
  <2>1. \A d \in Conn : fd[d] = ClientFD => d = Peer(ClientFD)
    BY <1>b, PeerHolds
  <2> QED  BY <1>a, <1>d, <2>1 DEF NothingStranded, Readable
<1>9. Landed'
  BY <1>a DEF Landed
<1>10. StreamsIntact'
  BY <1>a DEF StreamsIntact
<1> QED  BY <1>1, <1>3, <1>4, <1>5, <1>6, <1>7, <1>8, <1>9, <1>10

\* epoll_wait moves a part of the ready list to the batch.
LEMMA InvEpollWait == ASSUME Inv, EpollWait PROVE Inv'
<1> USE DEF Inv
<1>a. pc = "epoll_wait" /\ events = <<>> /\ ReadFD = 0
  BY DEF EpollWait, ListInv, Reading
<1>b. CASE UNCHANGED <<events, ready>> /\ pc' = "loop"
  <2>1. UNCHANGED <<kernel, RunServer, ClientFD, Clients, SegmentOffset,
                    receive, events, ReadFD>>
    BY <1>b DEF EpollWait, kernel
  <2> QED  BY <1>a, <1>b, <2>1, InvMove
<1>c. CASE ~(UNCHANGED <<events, ready>> /\ pc' = "loop")
  <2> DEFINE n == IF Len(ready) < EventMax THEN Len(ready) ELSE EventMax
  <2>a. /\ events' = SubSeq(ready, 1, n)
        /\ ready' = SubSeq(ready, n + 1, Len(ready))
        /\ pc' = IF n > 0 THEN "event" ELSE "loop"
        /\ UNCHANGED <<state, backlog, fd, sent, taken, ending, registered,
                       RunServer, ClientFD, Clients, SegmentOffset, receive,
                       ReadFD>>
    BY <1>c DEF EpollWait
  <2>b. /\ ready \in Seq(FD) /\ IsInjective(ready)
        /\ Range(ready) \subseteq registered /\ registered \subseteq FD
    BY DEF TypeOK, ListInv, EventsCurrent
  <2>c. n \in 0 .. Len(ready)
    BY <2>b, LoopAssumption
  <2>d. /\ events' \in Seq(FD) /\ ready' \in Seq(FD)
        /\ Len(events') = n
        /\ Range(ready) = Range(events') \cup Range(ready')
        /\ IsInjective(events') /\ IsInjective(ready')
    BY <2>a, <2>b, <2>c, SplitMembers
  <2>e. /\ pc' \in {"event", "loop"}
        /\ pc' = "loop" => events' = <<>>
    BY <2>a, <2>c, <2>d, EmptySeq
  <2> HIDE DEF n
  <2>1. TypeOK'
    BY <2>a, <2>d, <2>e DEF TypeOK, receive
  <2>2. Used' = Used
    BY <2>a DEF Used
  <2>3. KernelInv'
    BY <2>a DEF KernelInv
  <2>4. ListInv'
    BY <1>a, <2>a, <2>d, <2>e, <2>2 DEF ListInv, Reading
  <2>5. ControlInv'
    BY <2>a, <2>e DEF ControlInv, Reading
  <2>6. RegistryAgrees'
    BY <1>a, <2>a, <2>e, <2>2 DEF RegistryAgrees
  <2>7. EventsCurrent'
    <3>1. Range(events') \cup Range(ready') \subseteq registered'
      BY <2>a, <2>b, <2>d
    <3>2. /\ \A f \in Range(ready) : Clients[f] # NoClient
      BY <1>a DEF EventsCurrent
    <3>3. \A j, k \in 1 .. Len(events') : events'[j] = events'[k] => j = k
      BY <2>d DEF IsInjective
    <3>4. ReadFD' \notin Range(events')
      <4>1. 0 \notin registered /\ ReadFD' = 0
        BY <1>a, <2>a, <2>b DEF FD
      <4> QED  BY <2>b, <2>d, <4>1
    <3> QED  BY <2>a, <2>d, <3>1, <3>2, <3>3, <3>4 DEF EventsCurrent
  <2>8. NothingStranded'
    <3>1. Range(events) = {}
      BY <1>a DEF Range
    <3> QED  BY <1>a, <2>a, <2>d, <3>1 DEF NothingStranded, Readable
  <2>9. Landed'
    BY <2>e DEF Landed
  <2>10. StreamsIntact'
    BY <1>a, <2>a, <2>e DEF StreamsIntact
  <2> QED  BY <2>1, <2>3, <2>4, <2>5, <2>6, <2>7, <2>8, <2>9, <2>10
<1> QED  BY <1>b, <1>c

\* The next event is taken from the batch; its client is live.
LEMMA InvNextEvent == ASSUME Inv, NextEvent PROVE Inv'
<1> USE DEF Inv
<1>a. /\ pc = "event"
      /\ UNCHANGED <<kernel, RunServer, ClientFD, Clients, SegmentOffset, receive>>
  BY DEF NextEvent
<1>b. /\ events \in Seq(FD) /\ IsInjective(events)
      /\ Range(events) \subseteq registered
      /\ \A f \in Range(events) : Clients[f] # NoClient
  <2>1. events \in Seq(FD) /\ DOMAIN events = 1 .. Len(events)
    BY DEF TypeOK
  <2>2. IsInjective(events)
    BY <2>1 DEF EventsCurrent, IsInjective
  <2> QED  BY <2>1, <2>2 DEF EventsCurrent
<1>c. Used' = Used
  BY <1>a DEF Used, kernel
<1>d. KernelInv'
  BY <1>a DEF KernelInv, kernel
<1>e. CASE events = <<>>
  <2>1. pc' = "loop" /\ ReadFD' = 0 /\ events' = events /\ Range(events) = {}
    BY <1>e DEF NextEvent, Range
  <2>2. TypeOK'
    BY <1>a, <2>1 DEF TypeOK, kernel, receive
  <2>3. ListInv' /\ ControlInv'
    BY <1>a, <1>c, <1>e, <2>1 DEF ListInv, ControlInv, Reading, kernel
  <2>4. RegistryAgrees'
    BY <1>a, <1>c, <2>1 DEF RegistryAgrees, kernel
  <2>5. EventsCurrent'
    BY <1>a, <2>1 DEF EventsCurrent, kernel
  <2>6. NothingStranded'
    BY <1>a, <2>1 DEF NothingStranded, Readable, kernel
  <2>7. Landed' /\ StreamsIntact'
    BY <1>a, <2>1 DEF Landed, StreamsIntact, kernel, receive
  <2> QED  BY <1>d, <2>2, <2>3, <2>4, <2>5, <2>6, <2>7
<1>f. CASE events # <<>>
  <2>0. /\ events' = Tail(events) /\ ReadFD' = Head(events)
        /\ Head(events) \in FD /\ events' \in Seq(FD)
        /\ Range(events) = Range(events') \cup {ReadFD'}
        /\ IsInjective(events') /\ ReadFD' \notin Range(events')
    <3>1. events' = Tail(events) /\ ReadFD' = Head(events)
      BY <1>f DEF NextEvent
    <3> QED  BY <1>b, <1>f, <3>1, TailMembers
  <2>1. ReadFD' \in registered /\ Clients[ReadFD'] # NoClient /\ pc' = "read"
    BY <1>b, <1>f, <2>0 DEF NextEvent
  <2>2. TypeOK'
    BY <1>a, <2>0, <2>1 DEF TypeOK, kernel, receive
  <2>3. ListInv' /\ ControlInv'
    BY <1>a, <1>c, <2>0, <2>1 DEF ListInv, ControlInv, Reading, kernel
  <2>4. RegistryAgrees'
    BY <1>a, <1>c, <2>1 DEF RegistryAgrees, kernel
  <2>5. EventsCurrent'
    <3>1. \A j, k \in 1 .. Len(events') : events'[j] = events'[k] => j = k
      <4>1. events' \in Seq(FD) /\ DOMAIN events' = 1 .. Len(events')
        BY <2>0
      <4> QED  BY <2>0, <4>1 DEF IsInjective
    <3>2. \A f \in Range(ready) : Clients[f] # NoClient
      BY <1>a DEF EventsCurrent
    <3>3. Range(events') \subseteq registered /\ Range(ready) \subseteq registered
      BY <1>b, <2>0 DEF EventsCurrent
    <3>4. \A f \in Range(events') : Clients[f] # NoClient
      BY <1>b, <2>0
    <3> QED  BY <1>a, <2>0, <3>1, <3>2, <3>3, <3>4 DEF EventsCurrent, kernel
  <2>6. NothingStranded'
    BY <1>a, <2>0, <2>1 DEF NothingStranded, Readable, kernel
  <2>7. Landed' /\ StreamsIntact'
    BY <1>a, <2>1 DEF Landed, StreamsIntact, kernel, receive
  <2> QED  BY <1>d, <2>2, <2>3, <2>4, <2>5, <2>6, <2>7
<1> QED  BY <1>e, <1>f

\* read finds nothing: the edge is used up, or the connection has ended.
LEMMA InvReadNothing == ASSUME Inv, ReadNothing PROVE Inv'
<1> USE DEF Inv
<1> DEFINE c == Peer(ReadFD)
<1>a. /\ pc = "read" /\ pc' \in {"event", "erase"}
      /\ UNCHANGED <<kernel, RunServer, ClientFD, Clients, SegmentOffset,
                     receive, events, ReadFD>>
      /\ pc' = "event" => ending[c] = "no" /\ taken[c] = sent[c]
  BY DEF ReadNothing
<1>b. ReadFD \in registered /\ ReadFD \in Used
  BY <1>a DEF ControlInv, ListInv, Reading
<1>c. \A d \in Conn : fd[d] = ReadFD => d = c
  BY <1>b, PeerHolds
<1>d. c \in Conn
  BY <1>b, PeerHolds
<1> HIDE DEF c
<1>1. TypeOK'
  BY <1>a DEF TypeOK, kernel, receive
<1>2. Used' = Used
  BY <1>a DEF Used, kernel
<1>3. KernelInv'
  BY <1>a DEF KernelInv, kernel
<1>4. ListInv'
  BY <1>a, <1>2 DEF ListInv, Reading, kernel
<1>5. ControlInv'
  BY <1>a, <1>b DEF ControlInv, Reading, kernel
<1>6. RegistryAgrees'
  BY <1>a, <1>2 DEF RegistryAgrees, kernel
<1>7. EventsCurrent'
  BY <1>a DEF EventsCurrent, kernel
<1>8. NothingStranded'
  <2>1. pc' = "event" => ~Readable(c)
    BY <1>a, <1>d DEF Readable, TypeOK
  <2> QED  BY <1>a, <1>c, <2>1 DEF NothingStranded, Readable, kernel
<1>9. Landed' /\ StreamsIntact'
  BY <1>a DEF Landed, StreamsIntact, kernel, receive
<1> QED  BY <1>1, <1>3, <1>4, <1>5, <1>6, <1>7, <1>8, <1>9

\* Between NextEvent and close() the descriptor at hand is registered and open,
\* and until the client is erased the map has a Client with a whole segment.
LEMMA ReadingClient ==
  ASSUME Inv, pc \in Reading
  PROVE  /\ ReadFD \in FD /\ ReadFD \in Used /\ ReadFD \in registered
         /\ Peer(ReadFD) \in Conn /\ fd[Peer(ReadFD)] = ReadFD
         /\ \A d \in Conn : fd[d] = ReadFD => d = Peer(ReadFD)
         /\ pc # "close" =>
              /\ Clients[ReadFD] \in Client /\ Clients[ReadFD] # NoClient
              /\ \E k \in Segment : Clients[ReadFD]._ReceiveBuffer = k * ReadMax
<1>1. ReadFD \in registered /\ ReadFD \in Used /\ ReadFD \in FD
  BY DEF Inv, ControlInv, ListInv, TypeOK
<1>2. /\ Peer(ReadFD) \in Conn /\ fd[Peer(ReadFD)] = ReadFD
      /\ \A d \in Conn : fd[d] = ReadFD => d = Peer(ReadFD)
  BY <1>1, PeerHolds
<1>3. pc # "close" => Clients[ReadFD] # NoClient
  BY <1>1 DEF Inv, RegistryAgrees
<1>4. Clients[ReadFD] # NoClient =>
        /\ Clients[ReadFD] \in Client
        /\ \E k \in Segment : Clients[ReadFD]._ReceiveBuffer = k * ReadMax
  BY <1>1 DEF Inv, TypeOK, ControlInv
<1> QED  BY <1>1, <1>2, <1>3, <1>4

\* A read() of n bytes puts the next n bytes of the peer into the buffer and
\* leaves the rest of the memory alone.
LEMMA ReadDataEffect ==
  ASSUME Inv, ReadData
  PROVE  \E n \in 1 .. ReadMax :
           LET c == Peer(ReadFD)
               at == Clients[ReadFD]._ReceiveBuffer
           IN  /\ taken[c] + n <= sent[c]
               /\ RcvBytes' = n
               /\ taken' = [taken EXCEPT ![c] = taken[c] + n]
               /\ memory' \in [Address -> Byte \cup {<<>>}]
               /\ \A k \in 1 .. n : memory'[at + k - 1] = <<c, taken[c] + k>>
<1> DEFINE c == Peer(ReadFD)
           at == Clients[ReadFD]._ReceiveBuffer
<1>1. PICK n \in 1 .. ReadMax :
        /\ taken[c] + n <= sent[c]
        /\ memory' = [a \in Address |-> IF a \in at .. at + n - 1
                                        THEN <<c, taken[c] + a - at + 1>>
                                        ELSE memory[a]]
        /\ RcvBytes' = n
        /\ taken' = [taken EXCEPT ![c] = taken[c] + n]
  BY DEF ReadData
<1>2. pc = "read"
  BY DEF ReadData
<1>3. c \in Conn /\ \E k \in Segment : at = k * ReadMax
  BY <1>2, ReadingClient DEF Reading
<1>4. PICK s \in Segment : at = s * ReadMax
  BY <1>3
<1>5. taken[c] \in Nat /\ at \in Nat /\ n \in Nat /\ n <= ReadMax /\ ReadMax \in Nat
  <2>1. s \in Nat /\ ReadMax \in Nat
    BY LoopAssumption DEF Segment
  <2>2. taken \in [Conn -> 0 .. MaxSend] /\ MaxSend \in Nat
    BY LoopAssumption DEF Inv, TypeOK
  <2>3. s * ReadMax \in Nat
    BY <2>1
  <2> QED  BY <1>3, <1>4, <2>1, <2>2, <2>3
<1>6. memory \in [Address -> Byte \cup {<<>>}]
  BY DEF Inv, TypeOK
<1> HIDE DEF c, at
<1>7. \A a \in at .. at + n - 1 : a \in Address
  <2> SUFFICES ASSUME NEW a \in at .. at + n - 1 PROVE a \in Address
    OBVIOUS
  <2>1. a - at \in 0 .. ReadMax - 1 /\ a = at + (a - at)
    BY <1>5
  <2>2. s * ReadMax + (a - at) \in Address
    BY <2>1, SegmentInside
  <2> QED  BY <1>4, <2>1, <2>2
<1>9. \A a \in at .. at + n - 1 : <<c, taken[c] + a - at + 1>> \in Byte
  BY <1>3, <1>5 DEF Byte
<1>10. memory' \in [Address -> Byte \cup {<<>>}]
  BY <1>1, <1>6, <1>9
<1>11. ASSUME NEW k \in 1 .. n
       PROVE  memory'[at + k - 1] = <<c, taken[c] + k>>
  <2>1. /\ at + k - 1 \in at .. at + n - 1
        /\ taken[c] + (at + k - 1) - at + 1 = taken[c] + k
    BY <1>5
  <2> QED  BY <1>1, <1>7, <2>1
<1> QED  BY <1>1, <1>10, <1>11 DEF c, at

\* read puts the next bytes into the segment of the client being read.
LEMMA InvReadData == ASSUME Inv, ReadData PROVE Inv'
<1> USE DEF Inv
<1> DEFINE c == Peer(ReadFD)
           at == Clients[ReadFD]._ReceiveBuffer
<1>a. /\ pc = "read" /\ pc' = "append"
      /\ UNCHANGED <<state, backlog, fd, sent, ending, registered, ready,
                     RunServer, ClientFD, Clients, SegmentOffset, events, ReadFD>>
  BY DEF ReadData
<1>b. PICK n \in 1 .. ReadMax :
        /\ taken[c] + n <= sent[c]
        /\ RcvBytes' = n
        /\ taken' = [taken EXCEPT ![c] = taken[c] + n]
        /\ memory' \in [Address -> Byte \cup {<<>>}]
        /\ \A k \in 1 .. n : memory'[at + k - 1] = <<c, taken[c] + k>>
  BY ReadDataEffect
<1>c. /\ c \in Conn /\ fd[c] = ReadFD /\ ReadFD \in FD /\ ReadFD \in registered
      /\ \A d \in Conn : fd[d] = ReadFD => d = c
  BY <1>a, ReadingClient DEF Reading
<1>d. /\ taken \in [Conn -> 0 .. MaxSend] /\ sent \in [Conn -> 0 .. MaxSend]
      /\ MaxSend \in Nat /\ ReadMax \in Nat /\ n \in Nat
      /\ taken[c] \in Nat /\ sent[c] \in Nat /\ sent[c] <= MaxSend
  BY <1>c, LoopAssumption DEF TypeOK
<1> HIDE DEF c, at
<1>e. /\ taken' \in [Conn -> 0 .. MaxSend]
      /\ taken'[c] = taken[c] + n
      /\ \A d \in Conn : d # c => taken'[d] = taken[d]
  BY <1>b, <1>c, <1>d
<1>1. TypeOK'
  <2>1. RcvBytes' \in 0 .. ReadMax
    BY <1>b, <1>d
  <2> QED  BY <1>a, <1>b, <1>e, <2>1 DEF TypeOK
<1>2. Used' = Used
  BY <1>a DEF Used
<1>3. KernelInv'
  <2>1. \A d \in Conn : taken'[d] <= sent[d]
    BY <1>b, <1>c, <1>e DEF KernelInv
  <2>2. state[c] = "open"
    <3>1. \A d \in Conn : fd[d] # 0 <=> state[d] = "open"
      BY DEF KernelInv
    <3>2. ReadFD # 0
      BY <1>c, ZeroIsFree
    <3> QED  BY <1>c, <3>1, <3>2
  <2> QED  BY <1>a, <1>e, <2>1, <2>2 DEF KernelInv
<1>4. ListInv'
  BY <1>a, <1>2 DEF ListInv, Reading
<1>5. ControlInv'
  BY <1>a, <1>c DEF ControlInv, Reading
<1>6. RegistryAgrees'
  BY <1>a, <1>2 DEF RegistryAgrees
<1>7. EventsCurrent'
  BY <1>a DEF EventsCurrent
<1>8. NothingStranded'
  BY <1>a, <1>c, <1>e DEF NothingStranded, Readable
<1>9. Landed'
  <2>1. Received(Clients[ReadFD]._ReceiveBuffer, RcvBytes)' =
          [k \in 1 .. n |-> memory'[at + k - 1]]
    BY <1>a, <1>b DEF Received, at
  <2>2. \A k \in 1 .. n : memory'[at + k - 1] = <<c, taken'[c] - n + k>>
    BY <1>b, <1>d, <1>e
  <2>3. Received(Clients[ReadFD]._ReceiveBuffer, RcvBytes)' =
          [k \in 1 .. n |-> <<c, taken'[c] - n + k>>]
    BY <2>1, <2>2
  <2>4. n <= taken'[c]
    BY <1>d, <1>e
  <2>5. \A d \in Conn : fd'[d] = ReadFD' => d = c
    BY <1>a, <1>c
  <2> QED  BY <1>b, <2>3, <2>4, <2>5 DEF Landed
<1>10. StreamsIntact'
  <2> SUFFICES ASSUME NEW d \in Conn, fd[d] # 0, Clients[fd[d]] # NoClient
               PROVE  Clients[fd[d]].in =
                        [k \in 1 .. IF ReadFD = fd[d] THEN taken'[d] - n
                                                      ELSE taken'[d] |-> <<d, k>>]
    BY <1>a, <1>b DEF StreamsIntact
  <2>1. Clients[fd[d]].in = [k \in 1 .. taken[d] |-> <<d, k>>]
    BY <1>a DEF StreamsIntact
  <2>2. CASE fd[d] = ReadFD
    <3>1. d = c /\ taken'[c] - n = taken[c]
      BY <1>c, <1>d, <1>e, <2>2
    <3> QED  BY <2>1, <2>2, <3>1
  <2>3. CASE fd[d] # ReadFD
    BY <1>c, <1>e, <2>1, <2>3
  <2> QED  BY <2>2, <2>3
<1> QED  BY <1>1, <1>3, <1>4, <1>5, <1>6, <1>7, <1>8, <1>9, <1>10

\* The first m bytes of a peer followed by the next r are its first m + r.
LEMMA StreamGrows ==
  ASSUME NEW c \in Conn, NEW m \in Nat, NEW r \in Nat
  PROVE  /\ [k \in 1 .. m |-> <<c, k>>] \o [k \in 1 .. r |-> <<c, m + k>>] =
              [k \in 1 .. m + r |-> <<c, k>>]
         /\ [k \in 1 .. m + r |-> <<c, k>>] \in Seq(Byte)
<1> DEFINE a == [k \in 1 .. m |-> <<c, k>>]
           b == [k \in 1 .. r |-> <<c, m + k>>]
           t == [k \in 1 .. m + r |-> <<c, k>>]
<1>1. /\ a \in Seq(Byte) /\ Len(a) = m /\ \A k \in 1 .. m : a[k] = <<c, k>>
      /\ b \in Seq(Byte) /\ Len(b) = r /\ \A k \in 1 .. r : b[k] = <<c, m + k>>
      /\ t \in Seq(Byte) /\ Len(t) = m + r /\ \A k \in 1 .. m + r : t[k] = <<c, k>>
  BY DEF Byte
<1> HIDE DEF a, b, t
<1>2. /\ a \o b \in Seq(Byte) /\ Len(a \o b) = m + r
      /\ \A k \in 1 .. m + r : (a \o b)[k] = IF k <= m THEN a[k] ELSE b[k - m]
  BY <1>1, ConcatProperties
<1>3. ASSUME NEW k \in 1 .. m + r  PROVE (a \o b)[k] = t[k]
  <2>1. CASE k <= m
    <3>1. k \in 1 .. m
      BY <2>1
    <3> QED  BY <1>1, <1>2, <2>1, <3>1
  <2>2. CASE ~(k <= m)
    <3>1. k - m \in 1 .. r /\ m + (k - m) = k
      BY <2>2
    <3> QED  BY <1>1, <1>2, <2>2, <3>1
  <2> QED  BY <2>1, <2>2
<1>4. a \o b = t
  BY <1>1, <1>2, <1>3, SeqEqual
<1> QED  BY <1>1, <1>4 DEF a, b, t

\* The bytes copied to the parser are those that read has just put there.
LEMMA InvAppendBuffer == ASSUME Inv, AppendBuffer PROVE Inv'
<1> USE DEF Inv
<1> DEFINE c == Peer(ReadFD)
           new == [Clients[ReadFD] EXCEPT !.in = [k \in 1 .. taken[c] |-> <<c, k>>]]
<1>a. /\ pc = "append" /\ pc' = "read" /\ RcvBytes' = 0
      /\ UNCHANGED <<kernel, RunServer, ClientFD, SegmentOffset, memory, events,
                     ReadFD>>
  BY DEF AppendBuffer
<1>b. /\ c \in Conn /\ fd[c] = ReadFD /\ ReadFD \in FD /\ ReadFD \in registered
      /\ \A d \in Conn : fd[d] = ReadFD => d = c
      /\ Clients[ReadFD] \in Client /\ Clients[ReadFD] # NoClient
      /\ \E k \in Segment : Clients[ReadFD]._ReceiveBuffer = k * ReadMax
  BY <1>a, ReadingClient DEF Reading
<1>c. /\ taken[c] \in Nat /\ RcvBytes \in Nat /\ RcvBytes <= taken[c]
      /\ taken[c] - RcvBytes \in Nat
      /\ (taken[c] - RcvBytes) + RcvBytes = taken[c]
      /\ ReadFD # 0
  <2>0. taken \in [Conn -> 0 .. MaxSend] /\ RcvBytes \in 0 .. ReadMax
    BY DEF TypeOK
  <2> HIDE DEF c
  <2>1. taken[c] \in 0 .. MaxSend
    BY <1>b, <2>0
  <2>2. taken[c] \in Nat /\ RcvBytes \in Nat
    BY <2>0, <2>1
  <2>3. RcvBytes <= taken[c]
    BY <1>a, <1>b DEF Landed
  <2>4. taken[c] - RcvBytes \in Nat /\ (taken[c] - RcvBytes) + RcvBytes = taken[c]
    BY <2>2, <2>3
  <2>5. ReadFD # 0
    BY <1>b, ZeroIsFree
  <2> QED  BY <2>2, <2>3, <2>4, <2>5
<1>d. /\ Clients[ReadFD].in = [k \in 1 .. taken[c] - RcvBytes |-> <<c, k>>]
      /\ Received(Clients[ReadFD]._ReceiveBuffer, RcvBytes) =
           [k \in 1 .. RcvBytes |-> <<c, (taken[c] - RcvBytes) + k>>]
  BY <1>a, <1>b, <1>c DEF Landed, StreamsIntact
<1>e. /\ Clients[ReadFD].in \o Received(Clients[ReadFD]._ReceiveBuffer, RcvBytes) =
           [k \in 1 .. taken[c] |-> <<c, k>>]
      /\ [k \in 1 .. taken[c] |-> <<c, k>>] \in Seq(Byte)
  <2> DEFINE m == taken[c] - RcvBytes
  <2>1. /\ [k \in 1 .. m |-> <<c, k>>] \o [k \in 1 .. RcvBytes |-> <<c, m + k>>] =
             [k \in 1 .. m + RcvBytes |-> <<c, k>>]
        /\ [k \in 1 .. m + RcvBytes |-> <<c, k>>] \in Seq(Byte)
    BY <1>b, <1>c, StreamGrows
  <2> QED  BY <1>c, <1>d, <2>1
<1>f. Clients' = [Clients EXCEPT ![ReadFD] = new]
  BY <1>e, Zenon DEF AppendBuffer
<1>g. /\ new \in Client /\ new # NoClient
      /\ new._ReceiveBuffer = Clients[ReadFD]._ReceiveBuffer
      /\ new.in = [k \in 1 .. taken[c] |-> <<c, k>>]
  <2>1. new \in Client
    BY <1>b, <1>e DEF Client
  <2> QED  BY <1>b, <2>1, LoopAssumption DEF Client
<1> HIDE DEF new, c
<1>h. /\ Clients' \in [FD -> Client \cup {NoClient}]
      /\ Clients'[ReadFD] = new
      /\ \A f \in FD : f # ReadFD => Clients'[f] = Clients[f]
  BY <1>b, <1>f, <1>g DEF TypeOK
<1>i. \A f \in FD : Clients'[f] # NoClient <=> Clients[f] # NoClient
  BY <1>b, <1>g, <1>h
<1>1. TypeOK'
  <2>1. RcvBytes' \in 0 .. ReadMax
    BY <1>a, LoopAssumption
  <2> QED  BY <1>a, <1>h, <2>1 DEF TypeOK, kernel
<1>2. Used' = Used
  BY <1>a DEF Used, kernel
<1>3. KernelInv'
  BY <1>a DEF KernelInv, kernel
<1>4. ListInv'
  BY <1>a, <1>2 DEF ListInv, Reading, kernel
<1>5. ControlInv'
  <2>1. \A f \in FD : Clients'[f] # NoClient =>
          \E k \in Segment : Clients'[f]._ReceiveBuffer = k * ReadMax
    BY <1>b, <1>g, <1>h DEF ControlInv
  <2> QED  BY <1>a, <1>b, <2>1 DEF ControlInv, Reading, kernel
<1>6. RegistryAgrees'
  BY <1>a, <1>i, <1>2 DEF RegistryAgrees, kernel
<1>7. EventsCurrent'
  <2>1. registered \subseteq FD
    BY DEF TypeOK
  <2> QED  BY <1>a, <1>i, <2>1 DEF EventsCurrent, kernel
<1>8. NothingStranded'
  BY <1>a DEF NothingStranded, Readable, kernel
<1>9. Landed'
  BY <1>a DEF Landed
<1>10. StreamsIntact'
  <2> SUFFICES ASSUME NEW d \in Conn, fd[d] # 0, Clients'[fd[d]] # NoClient
               PROVE  Clients'[fd[d]].in = [k \in 1 .. taken[d] |-> <<d, k>>]
    BY <1>a DEF StreamsIntact, kernel
  <2>1. CASE fd[d] = ReadFD
    BY <1>b, <1>g, <1>h, <2>1
  <2>2. CASE fd[d] # ReadFD
    <3>1. fd[d] \in FD
      BY DEF TypeOK
    <3> QED  BY <1>a, <1>h, <2>2, <3>1 DEF StreamsIntact
  <2> QED  BY <2>1, <2>2
<1> QED  BY <1>1, <1>3, <1>4, <1>5, <1>6, <1>7, <1>8, <1>9, <1>10

\* The Client goes while its descriptor is still open.
LEMMA InvEraseClient == ASSUME Inv, EraseClient PROVE Inv'
<1> USE DEF Inv
<1>a. /\ pc = "erase" /\ pc' = "close"
      /\ Clients' = [Clients EXCEPT ![ReadFD] = NoClient]
      /\ UNCHANGED <<kernel, RunServer, ClientFD, SegmentOffset, receive, events,
                     ReadFD>>
  BY DEF EraseClient
<1>b. ReadFD \in FD /\ ReadFD \in registered /\ Clients[ReadFD] # NoClient
  BY <1>a, ReadingClient DEF Reading
<1>c. /\ Clients' \in [FD -> Client \cup {NoClient}]
      /\ Clients'[ReadFD] = NoClient
      /\ \A f \in FD : f # ReadFD => Clients'[f] = Clients[f]
  BY <1>a, <1>b DEF TypeOK
<1>1. TypeOK'
  BY <1>a, <1>c DEF TypeOK, kernel, receive
<1>2. Used' = Used
  BY <1>a DEF Used, kernel
<1>3. KernelInv'
  BY <1>a DEF KernelInv, kernel
<1>4. ListInv'
  BY <1>a, <1>2 DEF ListInv, Reading, kernel
<1>5. ControlInv'
  BY <1>a, <1>b, <1>c DEF ControlInv, Reading, kernel
<1>6. RegistryAgrees'
  BY <1>a, <1>b, <1>c, <1>2 DEF RegistryAgrees, kernel
<1>7. EventsCurrent'
  <2>1. registered \subseteq FD
    BY DEF TypeOK
  <2> QED  BY <1>a, <1>c, <2>1 DEF EventsCurrent, kernel
<1>8. NothingStranded'
  BY <1>a DEF NothingStranded, Readable, kernel
<1>9. Landed'
  BY <1>a DEF Landed
<1>10. StreamsIntact'
  <2> SUFFICES ASSUME NEW d \in Conn, fd[d] # 0, Clients'[fd[d]] # NoClient
               PROVE  Clients'[fd[d]].in = [k \in 1 .. taken[d] |-> <<d, k>>]
    BY <1>a DEF StreamsIntact, kernel
  <2>1. fd[d] \in FD /\ fd[d] # ReadFD
    BY <1>c DEF TypeOK
  <2> QED  BY <1>a, <1>c, <2>1 DEF StreamsIntact
<1> QED  BY <1>1, <1>3, <1>4, <1>5, <1>6, <1>7, <1>8, <1>9, <1>10

\* close() takes the descriptor out of the ready list and leaves the others.
LEMMA CloseEffect ==
  ASSUME Inv, CloseFD
  PROVE  /\ ready' \in Seq(FD) /\ IsInjective(ready')
         /\ Range(ready') = Range(ready) \ {ReadFD}
<1>1. ready \in Seq(FD) /\ IsInjective(ready)
  BY DEF Inv, TypeOK, ListInv
<1>2. CASE ReadFD \in Range(ready)
  <2> DEFINE j == CHOOSE k \in 1 .. Len(ready) : ready[k] = ReadFD
  <2>1. \E k \in 1 .. Len(ready) : ready[k] = ReadFD
    BY <1>1, <1>2, RangeMember
  <2>2. j \in 1 .. Len(ready) /\ ready[j] = ReadFD
    BY <2>1
  <2>3. ready' = SubSeq(ready, 1, j - 1) \o SubSeq(ready, j + 1, Len(ready))
    BY <1>2 DEF CloseFD
  <2> HIDE DEF j
  <2> QED  BY <1>1, <2>2, <2>3, RemoveMember
<1>3. CASE ReadFD \notin Range(ready)
  BY <1>1, <1>3 DEF CloseFD
<1> QED  BY <1>2, <1>3

\* close takes the descriptor out of the interest and the ready list.
LEMMA InvCloseFD == ASSUME Inv, CloseFD PROVE Inv'
<1> USE DEF Inv
<1> DEFINE c == Peer(ReadFD)
<1>a. /\ pc = "close" /\ pc' = "event"
      /\ fd' = [fd EXCEPT ![c] = 0]
      /\ state' = [state EXCEPT ![c] = "closed"]
      /\ registered' = registered \ {ReadFD}
      /\ UNCHANGED <<backlog, sent, taken, ending, RunServer, ClientFD, Clients,
                     SegmentOffset, receive, events, ReadFD>>
  BY DEF CloseFD
<1>b. /\ c \in Conn /\ fd[c] = ReadFD /\ ReadFD \in FD /\ ReadFD \in registered
      /\ \A d \in Conn : fd[d] = ReadFD => d = c
  BY <1>a, ReadingClient DEF Reading
<1>c. /\ ready' \in Seq(FD) /\ IsInjective(ready')
      /\ Range(ready') = Range(ready) \ {ReadFD}
  BY CloseEffect
<1> HIDE DEF c
<1>d. /\ ReadFD # 0 /\ fd'[c] = 0 /\ state'[c] = "closed"
      /\ \A d \in Conn : d # c => fd'[d] = fd[d] /\ state'[d] = state[d]
  <2>1. fd \in [Conn -> FD \cup {0}] /\ DOMAIN state = Conn
    BY DEF TypeOK
  <2> QED  BY <1>a, <1>b, <2>1, ZeroIsFree
<1>e. Clients[ReadFD] = NoClient
  BY <1>a, <1>b DEF RegistryAgrees
<1>1. TypeOK'
  BY <1>a, <1>b, <1>c DEF TypeOK, receive
<1>2. Used' = Used \ {ReadFD}
  BY <1>b, <1>d DEF Used
<1>3. KernelInv'
  <2>0. /\ \A d, e \in Conn : fd[d] = fd[e] /\ fd[d] # 0 => d = e
        /\ \A d \in Conn : fd[d] # 0 <=> state[d] = "open"
    BY DEF KernelInv
  <2>1. \A d, e \in Conn : fd'[d] = fd'[e] /\ fd'[d] # 0 => d = e
    BY <1>d, <2>0
  <2>2. \A d \in Conn : fd'[d] # 0 <=> state'[d] = "open"
    BY <1>d, <2>0
  <2>3. state[c] = "open"
    BY <1>b, <1>d DEF KernelInv
  <2>4. \A j \in 1 .. Len(backlog) : backlog[j] # c /\ backlog[j] \in Conn
    BY <2>3 DEF KernelInv, TypeOK
  <2>5. \A j \in 1 .. Len(backlog) : state'[backlog[j]] = "queued"
    BY <1>d, <2>4 DEF KernelInv
  <2>6. \A d \in Conn : state'[d] \in {"new", "queued"} => taken[d] = 0
    BY <1>d DEF KernelInv
  <2> QED  BY <1>a, <2>1, <2>2, <2>5, <2>6 DEF KernelInv
<1>4. ListInv'
  BY <1>a, <1>c, <1>2 DEF ListInv, Reading
<1>5. ControlInv'
  BY <1>a DEF ControlInv, Reading
<1>6. RegistryAgrees'
  BY <1>a, <1>e, <1>2 DEF RegistryAgrees
<1>7. EventsCurrent'
  BY <1>a, <1>c DEF EventsCurrent
<1>8. NothingStranded'
  <2>1. 0 \notin registered
    BY DEF TypeOK, FD
  <2> SUFFICES ASSUME NEW d \in Conn, fd'[d] \in registered', Readable(d)'
               PROVE  fd'[d] \in Range(ready') \cup Range(events')
    BY DEF NothingStranded
  <2>2. /\ d # c /\ fd'[d] = fd[d] /\ fd[d] \in registered /\ fd[d] # ReadFD
        /\ Readable(d)
    <3>1. fd'[d] # 0 /\ fd'[d] \in registered /\ fd'[d] # ReadFD
      BY <1>a, <2>1
    <3>2. d # c
      BY <1>d, <3>1
    <3>3. Readable(d)
      BY <1>a DEF Readable
    <3> QED  BY <1>d, <3>1, <3>2, <3>3
  <2>3. fd[d] \in Range(ready) \cup Range(events)
    BY <2>2 DEF NothingStranded
  <2> QED  BY <1>a, <1>c, <2>2, <2>3
<1>9. Landed'
  BY <1>a DEF Landed
<1>10. StreamsIntact'
  BY <1>a, <1>d DEF StreamsIntact
<1> QED  BY <1>1, <1>3, <1>4, <1>5, <1>6, <1>7, <1>8, <1>9, <1>10

\* Nothing changes.
LEMMA InvStutter == ASSUME Inv, UNCHANGED vars PROVE Inv'
<1> USE DEF Inv, vars, kernel, server, receive
<1>1. TypeOK' /\ KernelInv'
  BY DEF TypeOK, KernelInv
<1>2. Used' = Used
  BY DEF Used
<1>3. ListInv' /\ ControlInv' /\ RegistryAgrees'
  BY <1>2 DEF ListInv, ControlInv, RegistryAgrees
<1>4. EventsCurrent' /\ NothingStranded'
  BY DEF EventsCurrent, NothingStranded, Readable
<1>5. Landed' /\ StreamsIntact'
  BY DEF Landed, Received, StreamsIntact
<1> QED  BY <1>1, <1>3, <1>4, <1>5

\* Every step preserves Inv.
LEMMA InvNext == Inv /\ [Next]_vars => Inv'
<1> SUFFICES ASSUME Inv, [Next]_vars PROVE Inv'
  OBVIOUS
<1>1. ASSUME NEW c \in Conn, Connect(c) \/ Send(c) \/ End(c) PROVE Inv'
  BY <1>1, InvConnect, InvSend, InvEnd
<1>2. ASSUME ServerStep PROVE Inv'
  BY <1>2, InvLoop, InvPoll, InvAccept, InvAddClient, InvEpollAdd, InvEpollWait,
     InvNextEvent, InvReadData, InvReadNothing, InvAppendBuffer, InvEraseClient,
     InvCloseFD DEF ServerStep
<1> QED  BY <1>1, <1>2, InvTerminate, InvStutter DEF Next

-----------------------------------------------------------------------------
(***************************************************************************)
(* The theorems.                                                           *)
(***************************************************************************)
\* Every state the loop, the peers and the kernel reach satisfies Inv.
THEOREM Invariance == Spec => []Inv
  BY InvInit, InvNext, PTL DEF Spec

\* The variables keep their types: every receive buffer starts in the memory
\* that was allocated, and no byte is written outside it.
THEOREM TypeCorrect == Spec => []TypeOK
<1>1. Inv => TypeOK
  BY DEF Inv
<1> QED  BY <1>1, Invariance, PTL

\* Edge-triggered reporting loses nothing: whatever a registered connection
\* has to be read is announced, in the batch at hand, or being read.
THEOREM NoLostEdge == Spec => []NothingStranded
<1>1. Inv => NothingStranded
  BY DEF Inv
<1> QED  BY <1>1, Invariance, PTL

\* Every client's parser is given its own peer's bytes, in order and without
\* gaps, whatever segments and descriptors were reused.
THEOREM StreamsNeverMixed == Spec => []StreamsIntact
<1>1. Inv => StreamsIntact
  BY DEF Inv
<1> QED  BY <1>1, Invariance, PTL

\* Map, open descriptors and interest list agree; no descriptor is leaked.
THEOREM RegistryConsistent == Spec => []RegistryAgrees
<1>1. Inv => RegistryAgrees
  BY DEF Inv
<1> QED  BY <1>1, Invariance, PTL

\* No event of a batch is stale or reported twice.
THEOREM NoStaleEvent == Spec => []EventsCurrent
<1>1. Inv => EventsCurrent
  BY DEF Inv
<1> QED  BY <1>1, Invariance, PTL

=============================================================================
