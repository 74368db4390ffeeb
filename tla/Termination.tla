----------------------------- MODULE Termination -----------------------------
(***************************************************************************)
(* Termination of the main server and its child processes: Server::        *)
(* addChildPID, terminateChildren and terminate (src/Server.cpp), the      *)
(* handler of ASProcessHandler (src/ASProcessHandler.cpp).                 *)
(*                                                                         *)
(* The main server forks children, registers each, and goes to its loop.   *)
(* A child starts with a copy of the parent's memory and signal handler    *)
(* and installs its own.  A signal handler runs between any two steps of   *)
(* its process, to its end, with SIGTERM blocked; one more SIGTERM may be  *)
(* pending.  The code that forks is commented out in src/ (lines 74-175):  *)
(* Fork and the order of a child's steps are taken from there.             *)
(***************************************************************************)
EXTENDS Integers, Sequences, SequencesExt

CONSTANTS
  Main,         \* the main server
  Pid,          \* the children it may fork
  MaxSignals    \* SIGTERMs sent from outside

ASSUME TerminationAssumption == Main \notin Pid /\ MaxSignals \in Nat

Process == Pid \cup {Main}

VARIABLES
  pc,          \* of each process: none, setup, addChildPID, loop, exited
  handler,     \* the class whose terminate() handles SIGTERM
  RunServer,   \* the classes whose static flag of this name is still true
  ChildPIDs,   \* each process has its copy of the vector
  forked,      \* the child the main server is registering
  pending,     \* processes with a SIGTERM pending
  todo,        \* the rest of terminateChildren's loop
  inside,      \* processes inside Server::terminate
  outside,     \* SIGTERMs sent from outside so far
  \* history
  registered,  \* the children registered by the main server, in order
  passes,      \* how often it has run terminateChildren
  signalled,   \* the children it signalled in the last pass, in order
  torn         \* a handler has run in the middle of push_back

vars == <<pc, handler, RunServer, ChildPIDs, forked, pending, todo, inside,
          outside, registered, passes, signalled, torn>>

history == <<registered, passes, signalled, torn>>

Init ==
  /\ pc = [p \in Process |-> IF p = Main THEN "setup" ELSE "none"]
  /\ handler = [p \in Process |-> "Server"]
  /\ RunServer = [p \in Process |-> {"Server", "ASProcessHandler"}]
  /\ ChildPIDs = [p \in Process |-> <<>>]
  /\ forked = Main
  /\ pending = {}
  /\ todo = [p \in Process |-> <<>>]
  /\ inside = {}
  /\ outside = 0
  /\ registered = <<>>
  /\ passes = 0
  /\ signalled = <<>>
  /\ torn = FALSE

Alive(p) == pc[p] \notin {"none", "exited"}

\* The program of p goes on: it exists and is not interrupted.
Runs(p) == Alive(p) /\ p \notin inside

-----------------------------------------------------------------------------
(***************************************************************************)
(* The main server.  push_back may be interrupted: what the handler sees   *)
(* then, and whether its reversal survives, depends on how far it got.     *)
(***************************************************************************)
Fork(c) ==
  /\ pc[Main] = "setup"
  /\ Runs(Main)
  /\ pc[c] = "none"
  /\ pc' = [pc EXCEPT ![Main] = "addChildPID", ![c] = "setup"]
  /\ forked' = c
  /\ RunServer' = [RunServer EXCEPT ![c] = RunServer[Main]]
  /\ ChildPIDs' = [ChildPIDs EXCEPT ![c] = ChildPIDs[Main]]
  /\ UNCHANGED <<handler, pending, todo, inside, outside, history>>

addChildPID ==
  /\ pc[Main] = "addChildPID"
  /\ Runs(Main)
  /\ \E before \in {ChildPIDs[Main]}
                     \cup (IF torn THEN {Reverse(ChildPIDs[Main])} ELSE {}) :
       ChildPIDs' = [ChildPIDs EXCEPT ![Main] = Append(before, forked)]
  /\ registered' = Append(registered, forked)
  /\ forked' = Main
  /\ pc' = [pc EXCEPT ![Main] = "setup"]
  /\ UNCHANGED <<handler, RunServer, pending, todo, inside, outside, passes,
                 signalled, torn>>

EnterLoop ==
  /\ pc[Main] = "setup"
  /\ Runs(Main)
  /\ pc' = [pc EXCEPT ![Main] = "loop"]
  /\ UNCHANGED <<handler, RunServer, ChildPIDs, forked, pending, todo, inside,
                 outside, history>>

\* A child replaces the inherited handler and goes to its loop.
setTerminationHandler(c) ==
  /\ pc[c] = "setup"
  /\ Runs(c)
  /\ handler' = [handler EXCEPT ![c] = "ASProcessHandler"]
  /\ pc' = [pc EXCEPT ![c] = "loop"]
  /\ UNCHANGED <<RunServer, ChildPIDs, forked, pending, todo, inside, outside,
                 history>>

\* Mutant of LoopFlag: one flag for both loops.
LoopFlagServer(p) == "Server"

\* The flag that while (RunServer) tests: each file has its own static one.
LoopFlag(p) == IF p = Main THEN "Server" ELSE "ASProcessHandler"

Exit(p) ==
  /\ pc[p] = "loop"
  /\ Runs(p)
  /\ LoopFlag(p) \notin RunServer[p]
  /\ pc' = [pc EXCEPT ![p] = "exited"]
  /\ pending' = pending \ {p}
  /\ UNCHANGED <<handler, RunServer, ChildPIDs, forked, todo, inside, outside,
                 history>>

-----------------------------------------------------------------------------
(***************************************************************************)
(* The handlers.                                                           *)
(***************************************************************************)
Signal(p) ==
  /\ outside < MaxSignals
  /\ Alive(p)
  /\ outside' = outside + 1
  /\ pending' = pending \cup {p}
  /\ UNCHANGED <<pc, handler, RunServer, ChildPIDs, forked, todo, inside,
                 history>>

\* Mutant of Seen: the vector is not reversed.
SeenForward(p) == {ChildPIDs[p]}

(***************************************************************************)
(* What terminateChildren's loop runs over: the vector, reversed in place. *)
(* In the middle of push_back it is the vector of before or after, or      *)
(* storage that is no longer the vector's.                                 *)
(***************************************************************************)
Seen(p) ==
  {Reverse(ChildPIDs[p])}
    \cup IF p = Main /\ pc[Main] = "addChildPID"
         THEN {Reverse(Append(ChildPIDs[Main], forked)), <<>>}
         ELSE {}

\* Server::terminate, in the main server or in a child that inherited it.
terminate(p) ==
  /\ Runs(p)
  /\ p \in pending
  /\ handler[p] = "Server"
  /\ RunServer' = [RunServer EXCEPT ![p] = @ \ {"Server"}]
  /\ \E pids \in Seen(p) : todo' = [todo EXCEPT ![p] = pids]
  /\ ChildPIDs' = IF p = Main /\ pc[Main] = "addChildPID" THEN ChildPIDs
                  ELSE [ChildPIDs EXCEPT ![p] = todo'[p]]
  /\ inside' = inside \cup {p}
  /\ pending' = pending \ {p}
  /\ IF p = Main
     THEN /\ passes' = passes + 1
          /\ signalled' = <<>>
          /\ torn' = (torn \/ pc[Main] = "addChildPID")
          /\ UNCHANGED registered
     ELSE UNCHANGED history
  /\ UNCHANGED <<pc, handler, forked, outside>>

\* ASProcessHandler::terminate.
terminateChild(c) ==
  /\ Runs(c)
  /\ c \in pending
  /\ handler[c] = "ASProcessHandler"
  /\ RunServer' = [RunServer EXCEPT ![c] = @ \ {"ASProcessHandler"}]
  /\ pending' = pending \ {c}
  /\ UNCHANGED <<pc, handler, ChildPIDs, forked, todo, inside, outside, history>>

\* One round of terminateChildren: kill() and a pause.
KillNext(p) ==
  /\ p \in inside
  /\ todo[p] # <<>>
  /\ LET c == Head(todo[p])
     IN  /\ pending' = IF Alive(c) THEN pending \cup {c} ELSE pending
         /\ signalled' = IF p = Main THEN Append(signalled, c) ELSE signalled
  /\ todo' = [todo EXCEPT ![p] = Tail(@)]
  /\ UNCHANGED <<pc, handler, RunServer, ChildPIDs, forked, inside, outside,
                 registered, passes, torn>>

Resume(p) ==
  /\ p \in inside
  /\ todo[p] = <<>>
  /\ inside' = inside \ {p}
  /\ UNCHANGED <<pc, handler, RunServer, ChildPIDs, forked, pending, todo,
                 outside, history>>

Step(p) ==
  \/ p = Main /\ (addChildPID \/ EnterLoop)
  \/ p # Main /\ (setTerminationHandler(p) \/ terminateChild(p))
  \/ terminate(p) \/ KillNext(p) \/ Resume(p) \/ Exit(p)

Next ==
  \/ \E c \in Pid : Fork(c)
  \/ \E p \in Process : Step(p) \/ Signal(p)

Spec == Init /\ [][Next]_vars

\* Every process is scheduled, and a pending signal is delivered.
FairSpec == Spec /\ \A p \in Process : WF_vars(Step(p))

-----------------------------------------------------------------------------
TypeOK ==
  /\ pc \in [Process -> {"none", "setup", "addChildPID", "loop", "exited"}]
  /\ handler \in [Process -> {"Server", "ASProcessHandler"}]
  /\ RunServer \in [Process -> SUBSET {"Server", "ASProcessHandler"}]
  /\ ChildPIDs \in [Process -> Seq(Pid)]
  /\ todo \in [Process -> Seq(Pid)]
  /\ forked \in Process
  /\ pending \subseteq {p \in Process : Alive(p)}
  /\ inside \subseteq {p \in Process : Alive(p) /\ handler[p] = "Server"}
  /\ outside \in 0 .. MaxSignals

(***************************************************************************)
(* "sends SIGTERM to those PIDs in reverse registration order", "Children  *)
(* receive SIGTERM before parent exits": every pass of terminateChildren   *)
(* signals each registered child exactly once, the first pass the last     *)
(* registered child first, and the main server does not leave its loop     *)
(* before the pass is over.  Children registered after the pass are not    *)
(* covered, nor is a pass that interrupts push_back.                       *)
(***************************************************************************)
PassComplete ==
  passes > 0 /\ ~torn =>
    LET pass == signalled \o todo[Main]
        known == SubSeq(registered, 1, Len(pass))
    IN  /\ IsInjective(pass)
        /\ ToSet(pass) = ToSet(known)
        /\ passes = 1 => pass = Reverse(known)
        /\ Main \in inside => Len(pass) = Len(registered)
        /\ pc[Main] = "exited" => todo[Main] = <<>>

(***************************************************************************)
(* "SIGTERM propagates from parent to registered children", "All active    *)
(* loops exit cleanly": the main server ends after a SIGTERM, and a child  *)
(* in its loop, with its own handler, ends once a pass over it has begun.  *)
(* A child that still has the inherited handler is not covered: its        *)
(* Server::terminate sets the flag that its own loop does not test.        *)
(***************************************************************************)
SignalledEnd ==
  /\ Main \in pending ~> pc[Main] = "exited"
  /\ \A c \in Pid :
       (pc[c] = "loop" /\ c \in ToSet(todo[Main])) ~> pc[c] = "exited"
=============================================================================
