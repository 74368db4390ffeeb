----------------------------- MODULE ServerLoop -----------------------------
(***************************************************************************)
(* The network process: Server::ServerLoop and acceptClient                *)
(* (src/Server.cpp), ClientHandler (src/ClientHandler.cpp),                *)
(* Client::receiveData (src/Client.cpp) and the receive buffers of         *)
(* MemoryManager (src/MemoryManager.hpp).                                  *)
(*                                                                         *)
(* One thread runs the loop; the peers and the kernel interleave with      *)
(* every system call it makes.  Sockets are registered with EPOLLET: the   *)
(* kernel reports a descriptor when something arrives, not while something *)
(* is there, so a byte left unread without a pending report is never read. *)
(* Descriptors are reused, lowest first; buffer segments are handed out    *)
(* round robin and never given back.                                       *)
(***************************************************************************)
EXTENDS Integers, Sequences, Functions

CONSTANTS
  Conn,          \* connections that peers open
  MaxFD,         \* descriptors left for clients: 1 .. MaxFD
  SegmentCount,  \* CLIENTS_MAX segments of SOCKET_RECEIVE_BUFFER_SIZE bytes
  ReadMax,       \* SOCKET_RECEIVE_BUFFER_SIZE
  EventMax,      \* EPOLL_FD_COUNT_MAX
  MaxSend,       \* bytes a peer sends
  NoClient,      \* the value of Clients where it has no entry
  Failing,       \* system calls that may fail for no reason of the peer's
  Signals        \* whether SIGTERM may arrive

FD == 1 .. MaxFD

Segment == 0 .. SegmentCount - 1

\* The bytes of allocateMemory, counted from MemoryBaseAddress.
Address == 0 .. SegmentCount * ReadMax - 1

Byte == Conn \X Nat

\* A Client object: its receive buffer, and what its parser was given.
Client == [_ReceiveBuffer : Address, in : Seq(Byte)]

ASSUME LoopAssumption ==
  /\ MaxFD \in Nat \ {0}
  /\ SegmentCount \in Nat \ {0}
  /\ ReadMax \in Nat \ {0}
  /\ EventMax \in Nat \ {0}
  /\ MaxSend \in Nat
  /\ Failing \subseteq {"poll", "epoll_wait"}
  /\ Signals \in BOOLEAN
  /\ NoClient \notin Client

\* MemoryManager::getMemPointer; a segment is SOCKET_RECEIVE_BUFFER_SIZE long.
getMemPointer(offset) == IF offset < SegmentCount THEN offset * ReadMax ELSE 0

VARIABLES
  \* the kernel and the peers
  state,         \* of each connection: new, queued, open, closed
  backlog,       \* connections accept() has not yet returned
  fd,            \* the descriptor of an open connection, or 0
  sent,          \* bytes the peer has sent
  taken,         \* bytes read() has returned
  ending,        \* how the peer ended the connection: no, fin, rst
  registered,    \* descriptors in the epoll interest list
  ready,         \* the epoll ready list
  \* the server process
  RunServer,
  pc,            \* the next system call or step
  ClientFD,      \* acceptClient's and addClient's descriptor
  Clients,       \* descriptor -> Client object
  SegmentOffset,
  memory,        \* what MemoryManager allocated; <<>> was never written
  RcvBytes,      \* of receiveData
  events,        \* EpollEvents[i .. FDCount-1]
  ReadFD         \* the descriptor readClientData is at

kernel == <<state, backlog, fd, sent, taken, ending, registered, ready>>

receive == <<memory, RcvBytes>>

server == <<RunServer, pc, ClientFD, Clients, SegmentOffset, receive, events,
            ReadFD>>

vars == <<kernel, server>>

Init ==
  /\ state = [c \in Conn |-> "new"]
  /\ backlog = <<>>
  /\ fd = [c \in Conn |-> 0]
  /\ sent = [c \in Conn |-> 0]
  /\ taken = [c \in Conn |-> 0]
  /\ ending = [c \in Conn |-> "no"]
  /\ registered = {}
  /\ ready = <<>>
  /\ RunServer = TRUE
  /\ pc = "loop"
  /\ ClientFD = 0
  /\ Clients = [f \in FD |-> NoClient]
  /\ SegmentOffset = 0
  /\ memory = [a \in Address |-> <<>>]
  /\ RcvBytes = 0
  /\ events = <<>>
  /\ ReadFD = 0

-----------------------------------------------------------------------------
(***************************************************************************)
(* The kernel.  Byte k of connection c is the pair <<c, k>>.               *)
(***************************************************************************)
Used == {fd[c] : c \in Conn} \ {0}

\* The connection behind an open descriptor.
Peer(f) == CHOOSE c \in Conn : fd[c] = f

Readable(c) == sent[c] > taken[c] \/ ending[c] # "no"

\* Something arrives at c: a registered descriptor joins the ready list.
Wake(c) ==
  ready' = IF fd[c] \in registered \ Range(ready)
           THEN Append(ready, fd[c])
           ELSE ready

Connect(c) ==
  /\ state[c] = "new"
  /\ state' = [state EXCEPT ![c] = "queued"]
  /\ backlog' = Append(backlog, c)
  /\ UNCHANGED <<fd, sent, taken, ending, registered, ready, server>>

Send(c) ==
  /\ state[c] \in {"queued", "open"}
  /\ ending[c] = "no"
  /\ sent[c] < MaxSend
  /\ sent' = [sent EXCEPT ![c] = @ + 1]
  /\ Wake(c)
  /\ UNCHANGED <<state, backlog, fd, taken, ending, registered, server>>

\* The peer closes its side (fin), or the connection is reset (rst).
End(c) ==
  /\ state[c] \in {"queued", "open"}
  /\ ending[c] = "no"
  /\ \E e \in {"fin", "rst"} : ending' = [ending EXCEPT ![c] = e]
  /\ Wake(c)
  /\ UNCHANGED <<state, backlog, fd, sent, taken, registered, server>>

\* Server::terminate, a signal handler: it runs between any two steps.
Terminate ==
  /\ Signals
  /\ RunServer
  /\ RunServer' = FALSE
  /\ UNCHANGED <<kernel, pc, ClientFD, Clients, SegmentOffset, receive, events,
                 ReadFD>>

-----------------------------------------------------------------------------
(***************************************************************************)
(* ServerLoop: test RunServer, poll the listening socket, accept.          *)
(***************************************************************************)
\* Mutant of Loop: RunServer is not looked at.
LoopForever ==
  /\ pc = "loop"
  /\ pc' = "poll"
  /\ UNCHANGED <<kernel, RunServer, ClientFD, Clients, SegmentOffset, receive,
                 events, ReadFD>>

Loop ==
  /\ pc = "loop"
  /\ pc' = IF RunServer THEN "poll" ELSE "exit"
  /\ UNCHANGED <<kernel, RunServer, ClientFD, Clients, SegmentOffset, receive,
                 events, ReadFD>>

Poll ==
  /\ pc = "poll"
  /\ \/ pc' = IF backlog # <<>> THEN "accept" ELSE "epoll_wait"
     \/ "poll" \in Failing /\ pc' = "epoll_wait"
  /\ UNCHANGED <<kernel, RunServer, ClientFD, Clients, SegmentOffset, receive,
                 events, ReadFD>>

\* accept() takes the lowest free descriptor; with none it fails and the
\* connection stays queued.
Accept ==
  /\ pc = "accept"
  /\ \/ /\ Used # FD
        /\ LET f == CHOOSE g \in FD \ Used : \A h \in FD \ Used : g <= h
           IN  /\ ClientFD' = f
               /\ fd' = [fd EXCEPT ![Head(backlog)] = f]
        /\ state' = [state EXCEPT ![Head(backlog)] = "open"]
        /\ backlog' = Tail(backlog)
        /\ pc' = "addClient"
     \/ /\ Used = FD
        /\ pc' = "epoll_wait"
        /\ UNCHANGED <<ClientFD, fd, state, backlog>>
  /\ UNCHANGED <<sent, taken, ending, registered, ready, RunServer, Clients,
                 SegmentOffset, receive, events, ReadFD>>

\* Mutant of NextOffset: the offset wraps one segment too late.
NextOffsetLate ==
  IF SegmentOffset >= SegmentCount THEN 0 ELSE SegmentOffset + 1

\* MemoryManager::getNextMemPointer: round robin.
NextOffset ==
  IF SegmentOffset + 1 >= SegmentCount THEN 0 ELSE SegmentOffset + 1

(***************************************************************************)
(* addClient: getNextMemPointer, a Client with an empty request buffer,    *)
(* Clients.emplace (which keeps an entry that is there), then epoll_ctl,   *)
(* which reports at once a descriptor that is readable by then.            *)
(***************************************************************************)
AddClient ==
  /\ pc = "addClient"
  /\ Clients' = [Clients EXCEPT ![ClientFD] =
                   IF @ = NoClient
                   THEN [_ReceiveBuffer |-> getMemPointer(SegmentOffset), in |-> <<>>]
                   ELSE @]
  /\ SegmentOffset' = NextOffset
  /\ pc' = "epoll_ctl"
  /\ UNCHANGED <<kernel, RunServer, ClientFD, receive, events, ReadFD>>

EpollAdd ==
  /\ pc = "epoll_ctl"
  /\ registered' = registered \cup {ClientFD}
  /\ ready' = IF Readable(Peer(ClientFD)) THEN Append(ready, ClientFD) ELSE ready
  /\ ClientFD' = 0
  /\ pc' = "epoll_wait"
  /\ UNCHANGED <<state, backlog, fd, sent, taken, ending, RunServer, Clients,
                 SegmentOffset, receive, events, ReadFD>>

(***************************************************************************)
(* processClients: epoll_wait with a zero timeout hands over at most       *)
(* EventMax descriptors, which leave the ready list (EPOLLET).  The kernel *)
(* skips those drained since; the model reports them too, which only costs *)
(* a read() that finds nothing.                                            *)
(***************************************************************************)
EpollWait ==
  /\ pc = "epoll_wait"
  /\ \/ LET n == IF Len(ready) < EventMax THEN Len(ready) ELSE EventMax
        IN  /\ events' = SubSeq(ready, 1, n)
            /\ ready' = SubSeq(ready, n + 1, Len(ready))
            /\ pc' = IF n > 0 THEN "event" ELSE "loop"
     \/ /\ "epoll_wait" \in Failing
        /\ pc' = "loop"
        /\ UNCHANGED <<events, ready>>
  /\ UNCHANGED <<state, backlog, fd, sent, taken, ending, registered, RunServer,
                 ClientFD, Clients, SegmentOffset, receive, ReadFD>>

\* Mutant of NextEvent: the index is not advanced before the client is read.
NextEventAgain ==
  /\ pc = "event"
  /\ events # <<>>
  /\ ReadFD' = Head(events)
  /\ pc' = "read"
  /\ UNCHANGED <<kernel, RunServer, ClientFD, Clients, SegmentOffset, receive,
                 events>>

\* readClientData: the next event, or the end of the batch.
NextEvent ==
  /\ pc = "event"
  /\ \/ /\ events = <<>>
        /\ pc' = "loop"
        /\ ReadFD' = 0
        /\ UNCHANGED events
     \/ /\ events # <<>>
        /\ ReadFD' = Head(events)
        /\ events' = Tail(events)
        /\ pc' = IF Clients[Head(events)] # NoClient THEN "read" ELSE "event"
  /\ UNCHANGED <<kernel, RunServer, ClientFD, Clients, SegmentOffset, receive>>

-----------------------------------------------------------------------------
(***************************************************************************)
(* Client::receiveData: read() until EAGAIN (keep the client), EOF or a    *)
(* hard error (drop it).  EINTR counts as EAGAIN.                          *)
(***************************************************************************)
ReadData ==
  /\ pc = "read"
  /\ LET c == Peer(ReadFD)
     IN  /\ ending[c] # "rst"
         /\ \E n \in 1 .. ReadMax :
              /\ taken[c] + n <= sent[c]
              /\ LET at == Clients[ReadFD]._ReceiveBuffer
                 IN  memory' = [a \in Address |->
                                  IF a \in at .. at + n - 1
                                  THEN <<c, taken[c] + a - at + 1>>
                                  ELSE memory[a]]
              /\ RcvBytes' = n
              /\ taken' = [taken EXCEPT ![c] = @ + n]
  /\ pc' = "append"
  /\ UNCHANGED <<state, backlog, fd, sent, ending, registered, ready, RunServer,
                 ClientFD, Clients, SegmentOffset, events, ReadFD>>

\* Mutant of ReadNothing: end of file is taken for "no data yet".
ReadNothingNoEOF ==
  /\ pc = "read"
  /\ LET c == Peer(ReadFD)
     IN  \/ ending[c] # "rst" /\ taken[c] = sent[c] /\ pc' = "event"
         \/ ending[c] = "rst" /\ pc' = "erase"
  /\ UNCHANGED <<kernel, RunServer, ClientFD, Clients, SegmentOffset, receive,
                 events, ReadFD>>

\* read returns 0, would block, or fails hard.  EINTR, which the code treats
\* as would-block, does not come from a read that never sleeps.
ReadNothing ==
  /\ pc = "read"
  /\ LET c == Peer(ReadFD)
     IN  \/ ending[c] = "no" /\ taken[c] = sent[c] /\ pc' = "event"
         \/ ending[c] = "fin" /\ taken[c] = sent[c] /\ pc' = "erase"
         \/ ending[c] = "rst" /\ pc' = "erase"
  /\ UNCHANGED <<kernel, RunServer, ClientFD, Clients, SegmentOffset, receive,
                 events, ReadFD>>

\* The n bytes at address at.
Received(at, n) == [k \in 1 .. n |-> memory[at + k - 1]]

\* Mutant of AppendBuffer: one read per event.
AppendBufferOnce ==
  /\ pc = "append"
  /\ Clients' = [Clients EXCEPT ![ReadFD].in =
                   @ \o Received(Clients[ReadFD]._ReceiveBuffer, RcvBytes)]
  /\ RcvBytes' = 0
  /\ pc' = "event"
  /\ UNCHANGED <<kernel, RunServer, ClientFD, SegmentOffset, memory, events,
                 ReadFD>>

\* appendBuffer(_ReceiveBuffer, RcvBytes): the parser copies the bytes.
AppendBuffer ==
  /\ pc = "append"
  /\ Clients' = [Clients EXCEPT ![ReadFD].in =
                   @ \o Received(Clients[ReadFD]._ReceiveBuffer, RcvBytes)]
  /\ RcvBytes' = 0
  /\ pc' = "read"
  /\ UNCHANGED <<kernel, RunServer, ClientFD, SegmentOffset, memory, events,
                 ReadFD>>

\* Mutant of EraseClient: the client stays in the map.
EraseClientKept ==
  /\ pc = "erase"
  /\ pc' = "close"
  /\ UNCHANGED <<kernel, RunServer, ClientFD, Clients, SegmentOffset, receive,
                 events, ReadFD>>

EraseClient ==
  /\ pc = "erase"
  /\ Clients' = [Clients EXCEPT ![ReadFD] = NoClient]
  /\ pc' = "close"
  /\ UNCHANGED <<kernel, RunServer, ClientFD, SegmentOffset, receive, events,
                 ReadFD>>

\* Mutant of CloseFD: the descriptor is not closed.
CloseFDMissing ==
  /\ pc = "close"
  /\ pc' = "event"
  /\ UNCHANGED <<kernel, RunServer, ClientFD, Clients, SegmentOffset, receive,
                 events, ReadFD>>

\* close() also takes the descriptor out of the epoll lists.
CloseFD ==
  /\ pc = "close"
  /\ LET c == Peer(ReadFD)
     IN  /\ fd' = [fd EXCEPT ![c] = 0]
         /\ state' = [state EXCEPT ![c] = "closed"]
  /\ registered' = registered \ {ReadFD}
  /\ ready' = IF ReadFD \in Range(ready)
              THEN LET j == CHOOSE k \in 1 .. Len(ready) : ready[k] = ReadFD
                   IN  SubSeq(ready, 1, j - 1) \o SubSeq(ready, j + 1, Len(ready))
              ELSE ready
  /\ pc' = "event"
  /\ UNCHANGED <<backlog, sent, taken, ending, RunServer, ClientFD, Clients,
                 SegmentOffset, receive, events, ReadFD>>

ServerStep ==
  \/ Loop \/ Poll \/ Accept \/ AddClient \/ EpollAdd \/ EpollWait \/ NextEvent
  \/ ReadData \/ ReadNothing \/ AppendBuffer \/ EraseClient \/ CloseFD

Next ==
  \/ \E c \in Conn : Connect(c) \/ Send(c) \/ End(c)
  \/ Terminate
  \/ ServerStep

Spec == Init /\ [][Next]_vars

\* The loop never blocks (both waits have a zero timeout).
FairSpec == Spec /\ WF_vars(ServerStep)

-----------------------------------------------------------------------------
TypeOK ==
  /\ state \in [Conn -> {"new", "queued", "open", "closed"}]
  /\ backlog \in Seq(Conn)
  /\ fd \in [Conn -> FD \cup {0}]
  /\ sent \in [Conn -> 0 .. MaxSend]
  /\ taken \in [Conn -> 0 .. MaxSend]
  /\ ending \in [Conn -> {"no", "fin", "rst"}]
  /\ registered \subseteq FD
  /\ ready \in Seq(FD)
  /\ RunServer \in BOOLEAN
  /\ pc \in {"loop", "poll", "accept", "addClient", "epoll_ctl", "epoll_wait",
             "event", "read", "append", "erase", "close", "exit"}
  /\ ClientFD \in FD \cup {0}
  /\ Clients \in [FD -> Client \cup {NoClient}]
  /\ SegmentOffset \in Segment
  /\ memory \in [Address -> Byte \cup {<<>>}]
  /\ RcvBytes \in 0 .. ReadMax
  /\ events \in Seq(FD)
  /\ ReadFD \in FD \cup {0}

(***************************************************************************)
(* Nothing is left behind the edge: when a registered connection has bytes *)
(* or its end to be read, its descriptor is on the ready list, in the      *)
(* batch being processed, or the one receiveData is reading now.           *)
(***************************************************************************)
NothingStranded ==
  \A c \in Conn :
    fd[c] \in registered /\ Readable(c) =>
      \/ fd[c] \in Range(ready) \cup Range(events)
      \/ fd[c] = ReadFD /\ pc \in {"read", "append", "erase", "close"}

(***************************************************************************)
(* Every Client's parser gets the bytes its own peer sent, in order and    *)
(* without gaps, although segments are shared once more than SegmentCount  *)
(* clients have come and descriptors name one client after another.        *)
(***************************************************************************)
StreamsIntact ==
  \A c \in Conn :
    fd[c] # 0 /\ Clients[fd[c]] # NoClient =>
      Clients[fd[c]].in =
        [k \in 1 .. IF pc = "append" /\ ReadFD = fd[c]
                    THEN taken[c] - RcvBytes
                    ELSE taken[c] |-> <<c, k>>]

(***************************************************************************)
(* The client map agrees with the kernel: it has an entry exactly for the  *)
(* open descriptors, but for the one addClient is about to insert and the  *)
(* one about to be closed; the registered ones are those in the map, but   *)
(* for the one about to be registered.  No descriptor is leaked.           *)
(***************************************************************************)
RegistryAgrees ==
  LET mapped == {f \in FD : Clients[f] # NoClient}
      adding == IF pc = "addClient" THEN {ClientFD} ELSE {}
      closing == IF pc = "close" THEN {ReadFD} ELSE {}
      unregistered == IF pc = "epoll_ctl" THEN {ClientFD} ELSE {}
  IN  /\ mapped = Used \ (adding \cup closing)
      /\ registered \ closing = mapped \ unregistered

(***************************************************************************)
(* No event is stale: every descriptor still to be processed belongs to an *)
(* open connection of the map, so the lookup in readClientData never fails *)
(* and never finds the client of a later connection with the same number;  *)
(* no descriptor is reported twice in a batch.                             *)
(***************************************************************************)
EventsCurrent ==
  /\ Range(events) \cup Range(ready) \subseteq registered
  /\ \A f \in Range(events) : Clients[f] # NoClient
  /\ \A f \in Range(ready) :
       Clients[f] # NoClient \/ (pc = "close" /\ f = ReadFD)
  /\ \A j, k \in 1 .. Len(events) : events[j] = events[k] => j = k
  /\ ReadFD \notin Range(events)

(***************************************************************************)
(* Every byte that reaches an accepted connection is read, unless the peer *)
(* resets the connection or the server is told to stop.                    *)
(***************************************************************************)
DataIsRead ==
  \A c \in Conn : \A n \in 1 .. MaxSend :
    (state[c] = "open" /\ sent[c] >= n)
      ~> (taken[c] >= n \/ ending[c] = "rst" \/ ~RunServer)

(***************************************************************************)
(* Every connection its peer ended is closed, so its descriptor is free    *)
(* again, unless the server is told to stop.                               *)
(***************************************************************************)
EndedIsClosed ==
  \A c \in Conn :
    ending[c] # "no" ~> (state[c] = "closed" \/ ~RunServer)

(***************************************************************************)
(* After SIGTERM the loop ends (for peers that send finitely many bytes:   *)
(* receiveData itself never looks at RunServer).                           *)
(***************************************************************************)
StopsOnSignal == ~RunServer ~> pc = "exit"
=============================================================================
