------------------------ MODULE SmallComponentProofs ------------------------
(***************************************************************************)
(* Proofs about three small components that share nothing: Termination,    *)
(* for any children and any number of signals; HTTPGenerator, for every    *)
(* body length, every set of headers and texts, and every way the socket   *)
(* cuts the message into writes; and Vector, for vectors and lists of      *)
(* indexes of any length.                                                  *)
(***************************************************************************)
EXTENDS Termination, HTTPGenerator, Vector, ListLemmas, FiniteSetTheorems, TLAPS

-----------------------------------------------------------------------------
(***************************************************************************)
(* Termination.                                                            *)
(***************************************************************************)
-----------------------------------------------------------------------------
(***************************************************************************)
(* The inductive invariant.                                                *)
(***************************************************************************)
\* The types of the history variables, which TypeOK leaves out.
HistoryOK ==
  /\ registered \in Seq(Pid)
  /\ signalled \in Seq(Pid)
  /\ passes \in Nat
  /\ torn \in BOOLEAN

\* A registered child has been forked, and is registered once; while the main
\* server registers a child, that child is not yet in the list.
ForkedInv ==
  /\ IsInjective(registered)
  /\ \A c \in Range(registered) : pc[c] # "none"
  /\ pc[Main] = "addChildPID" =>
       /\ forked \in Pid
       /\ pc[forked] # "none"
       /\ forked \notin Range(registered)

\* Until a handler runs in the middle of push_back the main server's vector
\* holds the registered children, once each; before the first pass also in
\* their order.
VectorInv ==
  ~torn =>
    /\ IsInjective(ChildPIDs[Main])
    /\ Range(ChildPIDs[Main]) = Range(registered)
    /\ Len(ChildPIDs[Main]) = Len(registered)
    /\ passes = 0 => ChildPIDs[Main] = registered

\* terminateChildren is over when the handler returns.
TodoInv == Main \notin inside => todo[Main] = <<>>

\* A pass never reaches further than what was registered when it began.
PassInv ==
  passes > 0 /\ ~torn =>
    LET pass == signalled \o todo[Main]
        known == SubSeq(registered, 1, Len(pass))
    IN  /\ Len(pass) <= Len(registered)
        /\ IsInjective(pass)
        /\ Range(pass) = Range(known)
        /\ passes = 1 => pass = Reverse(known)
        /\ Main \in inside => Len(pass) = Len(registered)

Inv ==
  /\ TypeOK
  /\ HistoryOK
  /\ ForkedInv
  /\ VectorInv
  /\ TodoInv
  /\ PassInv

-----------------------------------------------------------------------------
\* std::reverse keeps the length and the members, each as often as before.
LEMMA ReverseMembers ==
  ASSUME NEW S, NEW s \in Seq(S)
  PROVE  /\ Reverse(s) \in Seq(S)
         /\ Len(Reverse(s)) = Len(s)
         /\ Range(Reverse(s)) = Range(s)
         /\ IsInjective(s) => IsInjective(Reverse(s))
<1> DEFINE n == Len(s)
           r == Reverse(s)
<1>1. n \in Nat /\ DOMAIN s = 1 .. n /\ \A i \in 1 .. n : s[i] \in S
  OBVIOUS
<1>2. \A i \in 1 .. n : (n - i) + 1 \in 1 .. n /\ (n - ((n - i) + 1)) + 1 = i
  BY <1>1
<1>3. r = [i \in 1 .. n |-> s[(n - i) + 1]]
  BY DEF Reverse
<1> HIDE DEF r, n
<1>4. /\ r \in Seq(S) /\ Len(r) = n /\ DOMAIN r = 1 .. n
      /\ \A i \in 1 .. n : r[i] = s[(n - i) + 1]
  BY <1>1, <1>2, <1>3
<1>5. ASSUME NEW e  PROVE e \in Range(r) <=> e \in Range(s)
  <2>1. e \in Range(r) <=> \E i \in 1 .. n : s[(n - i) + 1] = e
    <3>1. e \in Range(r) <=> \E i \in 1 .. n : r[i] = e
      BY <1>4, RangeMember
    <3> QED  BY <1>4, <3>1
  <2>2. e \in Range(s) <=> \E i \in 1 .. n : s[i] = e
    BY <1>1 DEF Range
  <2>3. ASSUME NEW i \in 1 .. n, s[i] = e
        PROVE  \E j \in 1 .. n : s[(n - j) + 1] = e
    <3>1. (n - i) + 1 \in 1 .. n /\ s[(n - ((n - i) + 1)) + 1] = e
      BY <1>2, <2>3
    <3> QED  BY <3>1
  <2>4. ASSUME NEW i \in 1 .. n, s[(n - i) + 1] = e
        PROVE  \E j \in 1 .. n : s[j] = e
    BY <1>2, <2>4
  <2> QED  BY <2>1, <2>2, <2>3, <2>4
<1>6. ASSUME IsInjective(s)  PROVE IsInjective(r)
  <2>1. ASSUME NEW i \in 1 .. n, NEW j \in 1 .. n, r[i] = r[j]
        PROVE  i = j
    <3>1. (n - i) + 1 = (n - j) + 1
      BY <1>1, <1>2, <1>4, <1>6, <2>1 DEF IsInjective
    <3> QED  BY <1>1, <3>1
  <2> QED  BY <1>4, <2>1 DEF IsInjective
<1> QED  BY <1>4, <1>5, <1>6 DEF r, n

\* The set of a sequence's elements, as SequencesExt and Functions name it.
LEMMA ToSetIsRange == ASSUME NEW s PROVE ToSet(s) = Range(s)
  BY DEF ToSet, Range

\* Before the first fork there are no children, signals or passes.
LEMMA InvInit == Init => Inv
<1> SUFFICES ASSUME Init PROVE Inv
  OBVIOUS
<1>1. TypeOK
  BY TerminationAssumption DEF Init, TypeOK, Process, Alive
<1>2. HistoryOK
  <2>1. registered = <<>> /\ signalled = <<>> /\ passes = 0 /\ torn = FALSE
    BY DEF Init
  <2> QED  BY <2>1, EmptySeq DEF HistoryOK
<1>3. Range(registered) = {} /\ IsInjective(registered)
  BY DEF Init, Range, IsInjective
<1>4. ForkedInv
  BY <1>3 DEF Init, ForkedInv, Process
<1>5. VectorInv
  BY <1>3 DEF Init, VectorInv, Process
<1>6. TodoInv /\ PassInv
  BY DEF Init, TodoInv, PassInv, Process
<1> QED  BY <1>1, <1>2, <1>4, <1>5, <1>6 DEF Inv

\* A step that leaves the main server's lists and its handler's loop alone
\* keeps what the invariant says of them.
LEMMA ListsKept ==
  ASSUME Inv, UNCHANGED history,
         ChildPIDs'[Main] = ChildPIDs[Main], todo'[Main] = todo[Main],
         Main \in inside' <=> Main \in inside
  PROVE  HistoryOK' /\ VectorInv' /\ TodoInv' /\ PassInv'
<1>1. HistoryOK'
  BY DEF Inv, HistoryOK, history
<1>2. VectorInv'
  BY DEF Inv, VectorInv, history
<1>3. TodoInv'
  BY DEF Inv, TodoInv
<1>4. PassInv'
  BY DEF Inv, PassInv, history
<1> QED  BY <1>1, <1>2, <1>3, <1>4

\* A forked child is not registered yet.
LEMMA InvFork == ASSUME Inv, NEW c \in Pid, Fork(c) PROVE Inv'
<1>a. /\ pc[Main] = "setup" /\ pc[c] = "none"
      /\ pc' = [pc EXCEPT ![Main] = "addChildPID", ![c] = "setup"]
      /\ forked' = c
      /\ RunServer' = [RunServer EXCEPT ![c] = RunServer[Main]]
      /\ ChildPIDs' = [ChildPIDs EXCEPT ![c] = ChildPIDs[Main]]
      /\ UNCHANGED <<handler, pending, todo, inside, outside, history>>
  BY DEF Fork
<1>b. c \in Process /\ Main \in Process /\ c # Main
  BY TerminationAssumption DEF Process
<1>c. /\ pc \in [Process -> {"none", "setup", "addChildPID", "loop", "exited"}]
      /\ ChildPIDs \in [Process -> Seq(Pid)]
  BY DEF Inv, TypeOK
<1>d. /\ pc'[Main] = "addChildPID" /\ pc'[c] = "setup"
      /\ \A p \in Process : p # Main /\ p # c => pc'[p] = pc[p]
      /\ \A p \in Process : pc[p] # "none" => pc'[p] # "none"
      /\ \A p \in Process : Alive(p) => Alive(p)'
  BY <1>a, <1>b, <1>c DEF Alive
<1>1. TypeOK'
  <2>1. pc' \in [Process -> {"none", "setup", "addChildPID", "loop", "exited"}]
    BY <1>a, <1>b, <1>c
  <2>2. RunServer' \in [Process -> SUBSET {"Server", "ASProcessHandler"}]
    BY <1>a, <1>b DEF Inv, TypeOK
  <2>3. ChildPIDs' \in [Process -> Seq(Pid)]
    BY <1>a, <1>b, <1>c
  <2>4. /\ pending' \subseteq {p \in Process : Alive(p)'}
        /\ inside' \subseteq {p \in Process : Alive(p)' /\ handler'[p] = "Server"}
    BY <1>a, <1>d DEF Inv, TypeOK
  <2> QED  BY <1>a, <1>b, <2>1, <2>2, <2>3, <2>4 DEF Inv, TypeOK
<1>2. HistoryOK' /\ VectorInv' /\ TodoInv' /\ PassInv'
  <2>1. ChildPIDs'[Main] = ChildPIDs[Main]
    BY <1>a, <1>b, <1>c
  <2> QED  BY <1>a, <2>1, ListsKept
<1>3. ForkedInv'
  <2>1. Range(registered) \subseteq Process
    BY RangeMember DEF Inv, HistoryOK, Process
  <2>2. registered' = registered
    BY <1>a DEF history
  <2>3. c \notin Range(registered)
    BY <1>a DEF Inv, ForkedInv
  <2> QED  BY <1>a, <1>d, <2>1, <2>2, <2>3 DEF Inv, ForkedInv
<1> QED  BY <1>1, <1>2, <1>3 DEF Inv

\* A child is registered behind those before it, and once.
LEMMA InvAddChildPID == ASSUME Inv, addChildPID PROVE Inv'
<1>a. PICK list \in {ChildPIDs[Main]}
                        \cup (IF torn THEN {Reverse(ChildPIDs[Main])} ELSE {}) :
        ChildPIDs' = [ChildPIDs EXCEPT ![Main] = Append(list, forked)]
  BY DEF addChildPID
<1>b. /\ pc[Main] = "addChildPID" /\ Runs(Main)
      /\ registered' = Append(registered, forked)
      /\ forked' = Main
      /\ pc' = [pc EXCEPT ![Main] = "setup"]
      /\ UNCHANGED <<handler, RunServer, pending, todo, inside, outside, passes,
                     signalled, torn>>
  BY DEF addChildPID
<1>c. /\ Main \in Process
      /\ pc \in [Process -> {"none", "setup", "addChildPID", "loop", "exited"}]
      /\ ChildPIDs \in [Process -> Seq(Pid)]
      /\ ChildPIDs[Main] \in Seq(Pid)
      /\ registered \in Seq(Pid) /\ IsInjective(registered)
      /\ forked \in Pid /\ forked \notin Range(registered) /\ pc[forked] # "none"
  BY <1>b DEF Inv, TypeOK, HistoryOK, ForkedInv, Process
<1>d. /\ list \in Seq(Pid)
      /\ ~torn => list = ChildPIDs[Main]
  <2>1. Reverse(ChildPIDs[Main]) \in Seq(Pid)
    BY <1>c, ReverseMembers
  <2> QED  BY <1>a, <1>c, <2>1
<1>e. /\ ChildPIDs' \in [Process -> Seq(Pid)]
      /\ ChildPIDs'[Main] = Append(list, forked)
  <2>1. Append(list, forked) \in Seq(Pid)
    BY <1>c, <1>d, AppendProperties
  <2> QED  BY <1>a, <1>c, <2>1
<1>f. /\ registered' \in Seq(Pid)
      /\ Len(registered') = Len(registered) + 1
      /\ Range(registered') = Range(registered) \cup {forked}
      /\ IsInjective(registered')
  BY <1>b, <1>c, AppendMembers, AppendProperties
<1>g. /\ pc'[Main] = "setup"
      /\ \A p \in Process : p # Main => pc'[p] = pc[p]
      /\ \A p \in Process : pc[p] # "none" => pc'[p] # "none"
      /\ \A p \in Process : Alive(p) => Alive(p)'
  BY <1>b, <1>c DEF Alive
<1>1. TypeOK'
  <2>1. pc' \in [Process -> {"none", "setup", "addChildPID", "loop", "exited"}]
    BY <1>b, <1>c
  <2>2. /\ pending' \subseteq {p \in Process : Alive(p)'}
        /\ inside' \subseteq {p \in Process : Alive(p)' /\ handler'[p] = "Server"}
    BY <1>b, <1>g DEF Inv, TypeOK
  <2> QED  BY <1>b, <1>c, <1>e, <2>1, <2>2 DEF Inv, TypeOK
<1>2. HistoryOK'
  BY <1>b, <1>f DEF Inv, HistoryOK
<1>3. ForkedInv'
  <2>1. forked \in Process /\ Range(registered) \subseteq Process
    <3>1. Range(registered) \subseteq Pid
      BY <1>c DEF Range
    <3> QED  BY <1>c, <3>1 DEF Process
  <2> QED  BY <1>c, <1>f, <1>g, <2>1 DEF Inv, ForkedInv
<1>4. VectorInv'
  <2> SUFFICES ASSUME ~torn
               PROVE  /\ IsInjective(ChildPIDs'[Main])
                      /\ Range(ChildPIDs'[Main]) = Range(registered')
                      /\ Len(ChildPIDs'[Main]) = Len(registered')
                      /\ passes = 0 => ChildPIDs'[Main] = registered'
    BY <1>b DEF VectorInv
  <2>1. /\ IsInjective(ChildPIDs[Main])
        /\ Range(ChildPIDs[Main]) = Range(registered)
        /\ Len(ChildPIDs[Main]) = Len(registered)
        /\ passes = 0 => ChildPIDs[Main] = registered
    BY DEF Inv, VectorInv
  <2>2. ChildPIDs'[Main] = Append(ChildPIDs[Main], forked)
    BY <1>d, <1>e
  <2>3. /\ Range(ChildPIDs'[Main]) = Range(ChildPIDs[Main]) \cup {forked}
        /\ IsInjective(ChildPIDs'[Main])
        /\ Len(ChildPIDs'[Main]) = Len(ChildPIDs[Main]) + 1
    BY <1>c, <2>1, <2>2, AppendMembers, AppendProperties
  <2> QED  BY <1>b, <1>f, <2>1, <2>2, <2>3
<1>5. TodoInv'
  BY <1>b DEF Inv, TodoInv
<1>6. PassInv'
  <2> DEFINE pass == signalled \o todo[Main]
  <2> SUFFICES ASSUME passes > 0, ~torn
               PROVE  /\ Len(pass) <= Len(registered')
                      /\ IsInjective(pass)
                      /\ Range(pass) = Range(SubSeq(registered', 1, Len(pass)))
                      /\ passes = 1 =>
                           pass = Reverse(SubSeq(registered', 1, Len(pass)))
                      /\ Main \notin inside
    BY <1>b DEF PassInv
  <2>1. /\ Len(pass) <= Len(registered)
        /\ IsInjective(pass)
        /\ Range(pass) = Range(SubSeq(registered, 1, Len(pass)))
        /\ passes = 1 => pass = Reverse(SubSeq(registered, 1, Len(pass)))
    BY DEF Inv, PassInv
  <2>2. pass \in Seq(Pid)
    <3>1. signalled \in Seq(Pid) /\ todo[Main] \in Seq(Pid)
      BY <1>c DEF Inv, TypeOK, HistoryOK
    <3> QED  BY <3>1, ConcatProperties
  <2> HIDE DEF pass
  <2>3. Len(pass) \in 0 .. Len(registered) /\ Len(pass) <= Len(registered')
    BY <1>c, <1>f, <2>1, <2>2
  <2>4. SubSeq(registered', 1, Len(pass)) = SubSeq(registered, 1, Len(pass))
    BY <1>b, <1>c, <2>3, PrefixKept
  <2>5. Main \notin inside
    BY <1>b DEF Runs
  <2> QED  BY <2>1, <2>3, <2>4, <2>5
<1> QED  BY <1>1, <1>2, <1>3, <1>4, <1>5, <1>6 DEF Inv

\* Steps that keep every process that has been forked forked, start no new
\* registration and leave the list of registered children alone.
LEMMA ForkedKept ==
  ASSUME Inv, registered' = registered, forked' = forked,
         \A p \in Process : pc[p] # "none" => pc'[p] # "none",
         pc'[Main] = "addChildPID" => pc[Main] = "addChildPID"
  PROVE  ForkedInv'
<1>1. Range(registered) \subseteq Process
  <2>1. registered \in Seq(Pid)
    BY DEF Inv, HistoryOK
  <2>2. Range(registered) \subseteq Pid
    BY <2>1 DEF Range
  <2> QED  BY <2>2 DEF Process
<1>2. pc[Main] = "addChildPID" => forked \in Process
  BY DEF Inv, TypeOK
<1> QED  BY <1>1, <1>2 DEF Inv, ForkedInv

\* Entering the loop changes only the program counter of the server.
LEMMA InvEnterLoop == ASSUME Inv, EnterLoop PROVE Inv'
<1>a. /\ pc[Main] = "setup" /\ pc' = [pc EXCEPT ![Main] = "loop"]
      /\ UNCHANGED <<handler, RunServer, ChildPIDs, forked, pending, todo, inside,
                     outside, history>>
  BY DEF EnterLoop
<1>b. /\ Main \in Process
      /\ pc \in [Process -> {"none", "setup", "addChildPID", "loop", "exited"}]
  BY DEF Inv, TypeOK, Process
<1>c. /\ pc' \in [Process -> {"none", "setup", "addChildPID", "loop", "exited"}]
      /\ pc'[Main] = "loop"
      /\ \A p \in Process : pc[p] # "none" => pc'[p] # "none"
      /\ \A p \in Process : Alive(p) => Alive(p)'
  BY <1>a, <1>b DEF Alive
<1>1. TypeOK'
  <2>1. /\ pending' \subseteq {p \in Process : Alive(p)'}
        /\ inside' \subseteq {p \in Process : Alive(p)' /\ handler'[p] = "Server"}
    BY <1>a, <1>c DEF Inv, TypeOK
  <2> QED  BY <1>a, <1>c, <2>1 DEF Inv, TypeOK
<1>2. HistoryOK' /\ VectorInv' /\ TodoInv' /\ PassInv'
  BY <1>a, ListsKept
<1>3. ForkedInv'
  BY <1>a, <1>c, ForkedKept DEF history
<1> QED  BY <1>1, <1>2, <1>3 DEF Inv

\* A child's own handler does not touch what the main server knows.
LEMMA InvSetTerminationHandler ==
  ASSUME Inv, NEW c \in Process, c # Main, setTerminationHandler(c) PROVE Inv'
<1>a. /\ pc[c] = "setup" /\ c \notin inside
      /\ handler' = [handler EXCEPT ![c] = "ASProcessHandler"]
      /\ pc' = [pc EXCEPT ![c] = "loop"]
      /\ UNCHANGED <<RunServer, ChildPIDs, forked, pending, todo, inside, outside,
                     history>>
  BY DEF setTerminationHandler, Runs
<1>b. /\ Main \in Process
      /\ pc \in [Process -> {"none", "setup", "addChildPID", "loop", "exited"}]
      /\ handler \in [Process -> {"Server", "ASProcessHandler"}]
  BY DEF Inv, TypeOK, Process
<1>c. /\ pc' \in [Process -> {"none", "setup", "addChildPID", "loop", "exited"}]
      /\ handler' \in [Process -> {"Server", "ASProcessHandler"}]
      /\ pc'[Main] = pc[Main]
      /\ \A p \in Process : pc[p] # "none" => pc'[p] # "none"
      /\ \A p \in Process : Alive(p) => Alive(p)'
      /\ \A p \in Process : p # c => handler'[p] = handler[p]
  BY <1>a, <1>b DEF Alive
<1>1. TypeOK'
  <2>1. /\ pending' \subseteq {p \in Process : Alive(p)'}
        /\ inside' \subseteq {p \in Process : Alive(p)' /\ handler'[p] = "Server"}
    BY SMTT(30), <1>a, <1>c DEF Inv, TypeOK
  <2> QED  BY <1>a, <1>c, <2>1 DEF Inv, TypeOK
<1>2. HistoryOK' /\ VectorInv' /\ TodoInv' /\ PassInv'
  BY <1>a, ListsKept
<1>3. ForkedInv'
  BY <1>a, <1>c, ForkedKept DEF history
<1> QED  BY <1>1, <1>2, <1>3 DEF Inv

\* A process leaves its loop with no handler at work.
LEMMA InvExit == ASSUME Inv, NEW p \in Process, Exit(p) PROVE Inv'
<1>a. /\ pc[p] = "loop" /\ p \notin inside
      /\ pc' = [pc EXCEPT ![p] = "exited"]
      /\ pending' = pending \ {p}
      /\ UNCHANGED <<handler, RunServer, ChildPIDs, forked, todo, inside, outside,
                     history>>
  BY DEF Exit, Runs
<1>b. /\ Main \in Process
      /\ pc \in [Process -> {"none", "setup", "addChildPID", "loop", "exited"}]
  BY DEF Inv, TypeOK, Process
<1>c. /\ pc' \in [Process -> {"none", "setup", "addChildPID", "loop", "exited"}]
      /\ pc'[Main] = "addChildPID" => pc[Main] = "addChildPID"
      /\ \A q \in Process : pc[q] # "none" => pc'[q] # "none"
      /\ \A q \in Process : q # p => (Alive(q) => Alive(q)')
  BY <1>a, <1>b DEF Alive
<1>1. TypeOK'
  <2>1. /\ pending' \subseteq {q \in Process : Alive(q)'}
        /\ inside' \subseteq {q \in Process : Alive(q)' /\ handler'[q] = "Server"}
    BY <1>a, <1>c DEF Inv, TypeOK
  <2> QED  BY <1>a, <1>c, <2>1 DEF Inv, TypeOK
<1>2. HistoryOK' /\ VectorInv' /\ TodoInv' /\ PassInv'
  BY <1>a, ListsKept
<1>3. ForkedInv'
  BY <1>a, <1>c, ForkedKept DEF history
<1> QED  BY <1>1, <1>2, <1>3 DEF Inv

\* A signal is pending until its handler runs.
LEMMA InvSignal == ASSUME Inv, NEW p \in Process, Signal(p) PROVE Inv'
<1>a. /\ outside < MaxSignals /\ Alive(p)
      /\ outside' = outside + 1
      /\ pending' = pending \cup {p}
      /\ UNCHANGED <<pc, handler, RunServer, ChildPIDs, forked, todo, inside,
                     history>>
  BY DEF Signal
<1>1. TypeOK'
  <2>1. outside' \in 0 .. MaxSignals
    BY <1>a, TerminationAssumption DEF Inv, TypeOK
  <2>2. \A q \in Process : Alive(q)' = Alive(q)
    BY <1>a DEF Alive
  <2>3. /\ pending' \subseteq {q \in Process : Alive(q)'}
        /\ inside' \subseteq {q \in Process : Alive(q)' /\ handler'[q] = "Server"}
    BY <1>a, <2>2 DEF Inv, TypeOK
  <2> QED  BY <1>a, <2>1, <2>3 DEF Inv, TypeOK
<1>2. HistoryOK' /\ VectorInv' /\ TodoInv' /\ PassInv'
  BY <1>a, ListsKept
<1>3. ForkedInv'
  BY <1>a, ForkedKept DEF history
<1> QED  BY <1>1, <1>2, <1>3 DEF Inv

\* A child's handler does not touch what the main server knows.
LEMMA InvTerminateChild ==
  ASSUME Inv, NEW c \in Process, terminateChild(c) PROVE Inv'
<1>a. /\ RunServer' = [RunServer EXCEPT ![c] = @ \ {"ASProcessHandler"}]
      /\ pending' = pending \ {c}
      /\ UNCHANGED <<pc, handler, ChildPIDs, forked, todo, inside, outside, history>>
  BY DEF terminateChild
<1>1. TypeOK'
  <2>1. RunServer' \in [Process -> SUBSET {"Server", "ASProcessHandler"}]
    BY <1>a DEF Inv, TypeOK
  <2>2. \A q \in Process : Alive(q)' = Alive(q)
    BY <1>a DEF Alive
  <2>3. /\ pending' \subseteq {q \in Process : Alive(q)'}
        /\ inside' \subseteq {q \in Process : Alive(q)' /\ handler'[q] = "Server"}
    BY <1>a, <2>2 DEF Inv, TypeOK
  <2> QED  BY <1>a, <2>1, <2>3 DEF Inv, TypeOK
<1>2. HistoryOK' /\ VectorInv' /\ TodoInv' /\ PassInv'
  BY <1>a, ListsKept
<1>3. ForkedInv'
  BY <1>a, ForkedKept DEF history
<1> QED  BY <1>1, <1>2, <1>3 DEF Inv

\* Whatever terminateChildren's loop runs over is a list of children; outside
\* push_back it is the vector reversed.
LEMMA SeenLists ==
  ASSUME Inv, NEW p \in Process
  PROVE  /\ Seen(p) \subseteq Seq(Pid)
         /\ ~(p = Main /\ pc[Main] = "addChildPID") =>
              Seen(p) = {Reverse(ChildPIDs[p])}
<1>1. ChildPIDs[p] \in Seq(Pid) /\ ChildPIDs[Main] \in Seq(Pid)
  BY DEF Inv, TypeOK, Process
<1>2. Reverse(ChildPIDs[p]) \in Seq(Pid)
  BY <1>1, ReverseMembers
<1>3. CASE p = Main /\ pc[Main] = "addChildPID"
  <2>1. forked \in Pid
    BY <1>3 DEF Inv, ForkedInv
  <2>2. Append(ChildPIDs[Main], forked) \in Seq(Pid)
    BY <1>1, <2>1, AppendProperties
  <2>3. Reverse(Append(ChildPIDs[Main], forked)) \in Seq(Pid)
    BY <2>2, ReverseMembers
  <2>4. <<>> \in Seq(Pid)
    OBVIOUS
  <2> QED  BY <1>2, <1>3, <2>3, <2>4 DEF Seen
<1>4. CASE ~(p = Main /\ pc[Main] = "addChildPID")
  BY <1>2, <1>4 DEF Seen
<1> QED  BY <1>3, <1>4

\* terminate reverses the vector and sets out to signal all of it.
LEMMA InvTerminate == ASSUME Inv, NEW p \in Process, terminate(p) PROVE Inv'
<1>a. /\ Runs(p) /\ handler[p] = "Server"
      /\ RunServer' = [RunServer EXCEPT ![p] = @ \ {"Server"}]
      /\ ChildPIDs' = IF p = Main /\ pc[Main] = "addChildPID" THEN ChildPIDs
                      ELSE [ChildPIDs EXCEPT ![p] = todo'[p]]
      /\ inside' = inside \cup {p}
      /\ pending' = pending \ {p}
      /\ UNCHANGED <<pc, handler, forked, outside>>
  BY DEF terminate
<1>b. PICK pids \in Seen(p) : todo' = [todo EXCEPT ![p] = pids]
  BY DEF terminate
<1>c. /\ Main \in Process
      /\ ChildPIDs \in [Process -> Seq(Pid)]
      /\ todo \in [Process -> Seq(Pid)]
      /\ pids \in Seq(Pid)
  BY SeenLists DEF Inv, TypeOK, Process
<1>d. todo' \in [Process -> Seq(Pid)] /\ todo'[p] = pids
      /\ (p # Main => todo'[Main] = todo[Main])
  BY <1>b, <1>c
<1>e. ChildPIDs' \in [Process -> Seq(Pid)]
      /\ (p # Main => ChildPIDs'[Main] = ChildPIDs[Main])
      /\ (p = Main /\ pc[Main] # "addChildPID" => ChildPIDs'[Main] = pids)
  BY <1>a, <1>c, <1>d
<1>1. TypeOK'
  <2>1. RunServer' \in [Process -> SUBSET {"Server", "ASProcessHandler"}]
    BY <1>a DEF Inv, TypeOK
  <2>2. \A q \in Process : Alive(q)' = Alive(q)
    BY <1>a DEF Alive
  <2>3. /\ pending' \subseteq {q \in Process : Alive(q)'}
        /\ inside' \subseteq {q \in Process : Alive(q)' /\ handler'[q] = "Server"}
    BY <1>a, <2>2 DEF Inv, TypeOK, Runs
  <2> QED  BY <1>a, <1>d, <1>e, <2>1, <2>3 DEF Inv, TypeOK
<1>2. registered' = registered
  BY SMTT(30) DEF terminate, history
<1>3. ForkedInv'
  BY <1>a, <1>2, ForkedKept
<1>4. CASE p # Main
  <2>1. UNCHANGED history
    BY SMTT(30), <1>4 DEF terminate
  <2>2. HistoryOK' /\ VectorInv' /\ TodoInv' /\ PassInv'
    BY <1>4, <1>a, <1>d, <1>e, <2>1, ListsKept
  <2> QED  BY SMTT(30), <1>1, <1>3, <2>2 DEF Inv
<1>5. CASE p = Main
  <2>1. /\ passes' = passes + 1 /\ signalled' = <<>>
        /\ torn' = (torn \/ pc[Main] = "addChildPID")
    BY <1>5 DEF terminate
  <2>2. HistoryOK'
    <3>1. torn' \in BOOLEAN
      BY <2>1
    <3>2. signalled' \in Seq(Pid)
      BY SMTT(30), <2>1
    <3> QED  BY <1>2, <2>1, <3>1, <3>2 DEF Inv, HistoryOK
  <2>3. TodoInv'
    BY SMTT(30), <1>5, <1>a DEF TodoInv
  <2>4. CASE torn'
    BY <1>1, <1>3, <2>2, <2>3, <2>4 DEF Inv, VectorInv, PassInv
  <2>5. CASE ~torn'
    <3> DEFINE v == ChildPIDs[Main]
    <3>1. ~torn /\ pc[Main] # "addChildPID"
      BY <2>1, <2>5
    <3>2. pids = Reverse(v)
      BY <1>5, <3>1, SeenLists
    <3>3. /\ v \in Seq(Pid) /\ IsInjective(v)
          /\ Range(v) = Range(registered) /\ Len(v) = Len(registered)
          /\ passes = 0 => v = registered
          /\ passes \in Nat /\ registered \in Seq(Pid)
      BY <1>c, <3>1 DEF Inv, VectorInv, HistoryOK
    <3> HIDE DEF v
    <3>4. /\ IsInjective(pids) /\ Range(pids) = Range(registered)
          /\ Len(pids) = Len(registered)
      BY <3>2, <3>3, ReverseMembers
    <3>5. ChildPIDs'[Main] = pids
      BY <1>5, <1>e, <3>1
    <3>6. VectorInv'
      BY <1>2, <2>1, <3>3, <3>4, <3>5 DEF VectorInv
    <3>7. (signalled \o todo[Main])' = pids
      <4>1. signalled' = <<>> /\ todo'[Main] = pids
        BY <1>5, <1>d, <2>1
      <4> QED  BY <1>c, <4>1, ConcatEmptySeq
    <3>8. SubSeq(registered, 1, Len(pids)) = registered
      BY <3>3, <3>4, SubSeqFull
    <3>9. passes' = 1 => pids = Reverse(registered)
      BY <2>1, <3>2, <3>3
    <3>10. Len(pids) <= Len(registered)
      BY <3>3, <3>4
    <3>11. PassInv'
      BY <1>2, <3>4, <3>7, <3>8, <3>9, <3>10 DEF PassInv
    <3> QED  BY <1>1, <1>3, <2>2, <2>3, <3>6, <3>11 DEF Inv
  <2> QED  BY <2>4, <2>5
<1> QED  BY <1>4, <1>5

\* The child signalled next is the next of the vector.
LEMMA InvKillNext == ASSUME Inv, NEW p \in Process, KillNext(p) PROVE Inv'
<1> DEFINE c == Head(todo[p])
<1>a. /\ p \in inside /\ todo[p] # <<>>
      /\ pending' = IF Alive(c) THEN pending \cup {c} ELSE pending
      /\ signalled' = IF p = Main THEN Append(signalled, c) ELSE signalled
      /\ todo' = [todo EXCEPT ![p] = Tail(todo[p])]
      /\ UNCHANGED <<pc, handler, RunServer, ChildPIDs, forked, inside, outside,
                     registered, passes, torn>>
  BY DEF KillNext
<1>b. /\ Main \in Process
      /\ todo \in [Process -> Seq(Pid)]
      /\ todo[p] \in Seq(Pid) /\ todo[Main] \in Seq(Pid)
      /\ signalled \in Seq(Pid)
  BY DEF Inv, TypeOK, HistoryOK, Process
<1>c. c \in Pid /\ c \in Process /\ Tail(todo[p]) \in Seq(Pid)
  <2>1. c \in Pid /\ Tail(todo[p]) \in Seq(Pid)
    BY <1>a, <1>b, TailMembers
  <2> QED  BY <2>1 DEF Process
<1>d. /\ todo' \in [Process -> Seq(Pid)]
      /\ todo'[p] = Tail(todo[p])
      /\ p # Main => todo'[Main] = todo[Main]
  BY SMTT(30), <1>a, <1>b, <1>c
<1> HIDE DEF c
<1>1. TypeOK'
  <2>1. \A q \in Process : Alive(q)' = Alive(q)
    BY <1>a DEF Alive
  <2>2. /\ pending' \subseteq {q \in Process : Alive(q)'}
        /\ inside' \subseteq {q \in Process : Alive(q)' /\ handler'[q] = "Server"}
    BY <1>a, <1>c, <2>1 DEF Inv, TypeOK
  <2> QED  BY <1>a, <1>d, <2>2 DEF Inv, TypeOK
<1>2. ForkedInv'
  BY <1>a, ForkedKept
<1>3. VectorInv'
  BY <1>a DEF Inv, VectorInv
<1>4. HistoryOK'
  <2>1. signalled' \in Seq(Pid)
    <3>1. Append(signalled, c) \in Seq(Pid)
      BY <1>b, <1>c, AppendProperties
    <3> QED  BY <1>a, <1>b, <3>1
  <2> QED  BY <1>a, <2>1 DEF Inv, HistoryOK
<1>5. TodoInv'
  BY <1>a, <1>d DEF Inv, TodoInv
<1>6. (signalled \o todo[Main])' = signalled \o todo[Main]
  <2>1. CASE p = Main
    <3>1. Append(signalled, Head(todo[Main])) \o Tail(todo[Main]) =
            signalled \o todo[Main]
      BY <1>a, <1>b, <2>1, MoveHead
    <3> QED  BY <1>a, <1>d, <2>1, <3>1 DEF c
  <2>2. CASE p # Main
    BY SMTT(30), <1>a, <1>d, <2>2
  <2> QED  BY <2>1, <2>2
<1>7. PassInv'
  BY <1>a, <1>6 DEF Inv, PassInv
<1> QED  BY <1>1, <1>2, <1>3, <1>4, <1>5, <1>7 DEF Inv

\* The handler returns when all children have been signalled.
LEMMA InvResume == ASSUME Inv, NEW p \in Process, Resume(p) PROVE Inv'
<1>a. /\ p \in inside /\ todo[p] = <<>>
      /\ inside' = inside \ {p}
      /\ UNCHANGED <<pc, handler, RunServer, ChildPIDs, forked, pending, todo,
                     outside, history>>
  BY DEF Resume
<1>1. TypeOK'
  <2>1. \A q \in Process : Alive(q)' = Alive(q)
    BY <1>a DEF Alive
  <2>2. /\ pending' \subseteq {q \in Process : Alive(q)'}
        /\ inside' \subseteq {q \in Process : Alive(q)' /\ handler'[q] = "Server"}
    BY SMTT(30), <1>a, <2>1 DEF Inv, TypeOK
  <2> QED  BY <1>a, <2>2 DEF Inv, TypeOK
<1>2. ForkedInv'
  BY <1>a, ForkedKept DEF history
<1>3. HistoryOK' /\ VectorInv'
  BY <1>a DEF Inv, HistoryOK, VectorInv, history
<1>4. TodoInv'
  BY <1>a DEF Inv, TodoInv
<1>5. PassInv'
  BY <1>a DEF Inv, PassInv, history
<1> QED  BY <1>1, <1>2, <1>3, <1>4, <1>5 DEF Inv

\* Inv speaks of the variables only.
LEMMA InvStutter == ASSUME Inv, UNCHANGED vars PROVE Inv'
<1>1. TypeOK'
  BY DEF Inv, TypeOK, Alive, vars
<1>2. HistoryOK' /\ VectorInv' /\ TodoInv' /\ PassInv'
  BY ListsKept DEF vars, history
<1>3. ForkedInv'
  BY ForkedKept DEF vars
<1> QED  BY <1>1, <1>2, <1>3 DEF Inv

\* Every step preserves Inv.
LEMMA InvNext == Inv /\ [Next]_vars => Inv'
<1> SUFFICES ASSUME Inv, [Next]_vars PROVE Inv'
  OBVIOUS
<1>1. ASSUME NEW c \in Pid, Fork(c) PROVE Inv'
  BY <1>1, InvFork
<1>2. ASSUME NEW p \in Process, Step(p) PROVE Inv'
  BY <1>2, InvAddChildPID, InvEnterLoop, InvSetTerminationHandler,
     InvTerminateChild, InvTerminate, InvKillNext, InvResume, InvExit DEF Step
<1>3. ASSUME NEW p \in Process, Signal(p) PROVE Inv'
  BY SMTT(30), <1>3, InvSignal
<1> QED  BY <1>1, <1>2, <1>3, InvStutter DEF Next

\* What the invariant says of a pass: each registered child is in it once, the
\* first pass runs from the last registered child to the first, and the main
\* server does not exit before the pass is over.
LEMMA InvPassComplete == Inv => PassComplete
<1> SUFFICES ASSUME Inv, passes > 0, ~torn
             PROVE  LET pass == signalled \o todo[Main]
                        known == SubSeq(registered, 1, Len(pass))
                    IN  /\ IsInjective(pass)
                        /\ ToSet(pass) = ToSet(known)
                        /\ passes = 1 => pass = Reverse(known)
                        /\ Main \in inside => Len(pass) = Len(registered)
                        /\ pc[Main] = "exited" => todo[Main] = <<>>
  BY DEF PassComplete
<1>1. pc[Main] = "exited" => todo[Main] = <<>>
  BY DEF Inv, TypeOK, TodoInv, Alive
<1> QED  BY <1>1, ToSetIsRange DEF Inv, PassInv

-----------------------------------------------------------------------------
\* Every state that the processes and the signals reach satisfies Inv.
THEOREM Invariance == Spec => []Inv
  BY InvInit, InvNext, PTL DEF Spec

\* The variables keep their types; a signal is pending only for a process that
\* is alive, and only Server::terminate is ever inside its loop.
THEOREM TypeCorrect == Spec => []TypeOK
<1>1. Inv => TypeOK
  BY DEF Inv
<1> QED  BY <1>1, Invariance, PTL

\* terminateChildren signals every registered child once, the first time in
\* reverse registration order, and the main server waits for it to end.
THEOREM PassesComplete == Spec => []PassComplete
  BY InvPassComplete, Invariance, PTL

-----------------------------------------------------------------------------
(***************************************************************************)
(* HTTPGenerator.                                                          *)
(***************************************************************************)
(***************************************************************************)
(* The inductive invariant.  While a message is built nothing of it has    *)
(* been written; from MsgSetBodyRef on the bytes left of the body are its  *)
(* length, from MsgGenerate on those of the header; while it is sent, each *)
(* pointer and the bytes behind it stay inside the buffer, and the bytes   *)
(* before the pointer have been written.                                   *)
(***************************************************************************)
Building ==
  phase \in {"build", "body"} =>
    /\ _SendType = "header"
    /\ _HeaderPointer = 0
    /\ _BodyPointer = 0
    /\ wireHeader = {}
    /\ wireBody = {}

BodySet == phase = "body" => _BodyRemainingBytes = _BodyLength

Sending ==
  phase = "send" =>
    /\ _SendType \in {"header", "body"}
    /\ _HeaderPointer + _HeaderRemainingBytes <= _HeaderLength
    /\ _BodyPointer + _BodyRemainingBytes <= _BodyLength

GeneratorInv == GeneratorTypeOK /\ Building /\ BodySet /\ Sending /\ SentBeforePointer

-----------------------------------------------------------------------------
\* A fresh generator, whatever its uninitialised members hold, satisfies it.
LEMMA GeneratorInvInit == GeneratorInit => GeneratorInv
  BY GeneratorAssumption
  DEF GeneratorInit, GeneratorInv, GeneratorTypeOK, Building, BodySet, Sending, SentBeforePointer

\* MsgGenerate computes a length: there are finitely many headers.
LEMMA HeaderLengthType ==
  ASSUME GeneratorTypeOK
  PROVE  _StatusText + LineBytes * Cardinality(Headers) \in Nat
  <1>1. IsFiniteSet(Headers)
    BY GeneratorAssumption, FS_Subset DEF GeneratorTypeOK
  <1>2. Cardinality(Headers) \in Nat
    BY <1>1, FS_CardinalityType
  <1> QED BY <1>2, GeneratorAssumption DEF GeneratorTypeOK

\* Appending a write of n bytes at offset p to the p bytes before it.
LEMMA Extends ==
  ASSUME NEW p \in Nat, NEW n \in Nat
  PROVE  (0 .. p - 1) \cup (p .. p + n - 1) = 0 .. p + n - 1
  OBVIOUS

\* A window that starts n bytes later and is at least n bytes shorter ends
\* no later.
LEMMA WindowShrinks ==
  ASSUME NEW p \in Nat, NEW left \in Nat, NEW length \in Nat, NEW n \in Nat,
         NEW next \in Nat, p + left <= length, next <= left - n
  PROVE  p + n + next <= length
  OBVIOUS

\* Building a message keeps the invariant, one step per operation.
LEMMA GeneratorInvBuild ==
  ASSUME GeneratorInv,
         \/ MsgReset
         \/ \E n \in StatusBytes : MsgSetStatus(n)
         \/ \E h \in HeaderID : MsgAddHeader(h)
         \/ \E n \in BodyLengths : MsgSetBodyRef(n)
         \/ MsgGenerate
         \/ \E s \in {"idle", "sending"} : MsgSetSendStatus(s)
  PROVE  GeneratorInv'
  <1> USE GeneratorAssumption
      DEF GeneratorInv, GeneratorTypeOK, Building, BodySet, Sending, SentBeforePointer, caller
  <1>1. CASE MsgReset
    BY <1>1 DEF MsgReset
  <1>2. CASE \E n \in StatusBytes : MsgSetStatus(n)
    BY <1>2 DEF MsgSetStatus
  <1>3. CASE \E h \in HeaderID : MsgAddHeader(h)
    BY <1>3 DEF MsgAddHeader
  <1>4. CASE \E n \in BodyLengths : MsgSetBodyRef(n)
    BY <1>4 DEF MsgSetBodyRef
  <1>5. CASE MsgGenerate
    <2>1. _HeaderLength' \in Nat
      BY <1>5, HeaderLengthType DEF MsgGenerate
    <2> QED BY <1>5, <2>1 DEF MsgGenerate
  <1>6. CASE \E s \in {"idle", "sending"} : MsgSetSendStatus(s)
    BY SMTT(30), <1>6 DEF MsgSetSendStatus
  <1> QED BY <1>1, <1>2, <1>3, <1>4, <1>5, <1>6

\* A write keeps the invariant.  The bytes left shrink at least by what was
\* written, so the window cannot leave the buffer, although the test for the
\* end of a buffer gives up bytes that were not written.
LEMMA GeneratorInvSend ==
  ASSUME GeneratorInv, SendSome
  PROVE  GeneratorInv'
  <1> USE DEF GeneratorInv, GeneratorTypeOK, Sending, SentBeforePointer
  <1>1. CASE _SendType = "header"
    <2>1. PICK n \in 0 .. _HeaderRemainingBytes, done \in BOOLEAN :
            /\ wireHeader' = wireHeader \cup
                 (_HeaderPointer .. _HeaderPointer + n - 1)
            /\ wireBody' = wireBody
            /\ MsgUpdateSendMetadata(n, done)
            /\ phase' = IF done THEN "done" ELSE "send"
      BY <1>1 DEF SendSome, MsgGetSendMetadata
    <2>2. /\ n \in Nat
          /\ _HeaderPointer' = _HeaderPointer + n
          /\ _HeaderRemainingBytes' \in Nat
          /\ _HeaderRemainingBytes' <= _HeaderRemainingBytes - n
          /\ _SendType' \in {"header", "body"}
          /\ phase' = "send"
          /\ UNCHANGED <<_BodyPointer, _BodyRemainingBytes>>
      BY <1>1, <2>1 DEF MsgUpdateSendMetadata
    <2>3. wireHeader' = 0 .. _HeaderPointer' - 1
      BY <2>1, <2>2, Extends DEF SendSome
    <2>4. /\ phase = "send"
          /\ UNCHANGED <<_SendStatus, _StatusText, Headers, _HeaderLength,
                         _BodyLength>>
      BY DEF SendSome
    <2>5. GeneratorTypeOK'
      BY <2>1, <2>2, <2>3, <2>4
    <2>6. Building' /\ BodySet'
      BY <2>2 DEF Building, BodySet
    <2>7. Sending'
      <3>1. _HeaderPointer + n + _HeaderRemainingBytes' <= _HeaderLength
        BY <2>2, <2>4, WindowShrinks
      <3> QED BY <2>2, <2>4, <3>1
    <2>8. SentBeforePointer'
      BY <2>1, <2>2, <2>3, <2>4
    <2> QED BY <2>5, <2>6, <2>7, <2>8
  <1>2. CASE _SendType = "body"
    <2>1. PICK n \in 0 .. _BodyRemainingBytes, done \in BOOLEAN :
            /\ wireBody' = wireBody \cup
                 (_BodyPointer .. _BodyPointer + n - 1)
            /\ wireHeader' = wireHeader
            /\ MsgUpdateSendMetadata(n, done)
            /\ phase' = IF done THEN "done" ELSE "send"
      BY <1>2 DEF SendSome, MsgGetSendMetadata
    <2>2. /\ n \in Nat
          /\ _BodyPointer' = _BodyPointer + n
          /\ _BodyRemainingBytes' \in Nat
          /\ _BodyRemainingBytes' <= _BodyRemainingBytes - n
          /\ phase' \in {"send", "done"}
          /\ UNCHANGED <<_SendType, _HeaderPointer, _HeaderRemainingBytes>>
      BY <1>2, <2>1 DEF MsgUpdateSendMetadata
    <2>3. wireBody' = 0 .. _BodyPointer' - 1
      BY <2>1, <2>2, Extends DEF SendSome
    <2>4. /\ phase = "send"
          /\ UNCHANGED <<_SendStatus, _StatusText, Headers, _HeaderLength,
                         _BodyLength>>
      BY DEF SendSome
    <2>5. GeneratorTypeOK'
      BY <2>1, <2>2, <2>3, <2>4
    <2>6. Building' /\ BodySet'
      BY <2>2 DEF Building, BodySet
    <2>7. Sending'
      <3>1. _BodyPointer + n + _BodyRemainingBytes' <= _BodyLength
        BY <2>2, <2>4, WindowShrinks
      <3> QED BY <1>2, <2>2, <2>4, <3>1
    <2>8. SentBeforePointer'
      BY <2>1, <2>2, <2>3, <2>4
    <2> QED BY <2>5, <2>6, <2>7, <2>8
  <1> QED BY <1>1, <1>2 DEF SendSome

\* The invariant is inductive.
LEMMA GeneratorInvNext == GeneratorInv /\ [GeneratorNext]_generator => GeneratorInv'
  <1> SUFFICES ASSUME GeneratorInv, [GeneratorNext]_generator PROVE GeneratorInv'
    OBVIOUS
  <1>1. CASE UNCHANGED generator
    BY <1>1 DEF GeneratorInv, GeneratorTypeOK, Building, BodySet, Sending, SentBeforePointer,
                generator, caller
  <1>2. CASE GeneratorNext
    BY <1>2, GeneratorInvBuild, GeneratorInvSend DEF GeneratorNext
  <1> QED BY SMTT(30), <1>1, <1>2

\* The inductive invariant holds in every state.
THEOREM GeneratorInvariant == GeneratorSpec => []GeneratorInv
  BY GeneratorInvInit, GeneratorInvNext, PTL DEF GeneratorSpec

(***************************************************************************)
(* The window MsgGetSendMetadata offers never leaves the message, for      *)
(* every sequence of messages and partial writes.                          *)
(***************************************************************************)
THEOREM WindowStaysInMessage == GeneratorSpec => []WindowInMessage
  <1>1. GeneratorInv => WindowInMessage
    BY DEF GeneratorInv, GeneratorTypeOK, Sending, WindowInMessage, MsgGetSendMetadata
  <1> QED BY <1>1, GeneratorInvariant, PTL

(***************************************************************************)
(* What has been written of header and body is exactly what lies before    *)
(* their pointers: no byte is written twice or skipped within a buffer.    *)
(***************************************************************************)
THEOREM WrittenBeforePointer == GeneratorSpec => []SentBeforePointer
  <1>1. GeneratorInv => SentBeforePointer
    BY DEF GeneratorInv
  <1> QED BY <1>1, GeneratorInvariant, PTL

(***************************************************************************)
(* Type correctness: the byte counters never underflow.                    *)
(***************************************************************************)
THEOREM GeneratorTypeCorrect == GeneratorSpec => []GeneratorTypeOK
  <1>1. GeneratorInv => GeneratorTypeOK
    BY DEF GeneratorInv
  <1> QED BY <1>1, GeneratorInvariant, PTL

-----------------------------------------------------------------------------
(***************************************************************************)
(* Vector: erasing several elements.                                       *)
(***************************************************************************)

\* An ascending list stays ascending and loses exactly the element erased.
LEMMA WithoutAscending ==
  ASSUME NEW n \in Nat, NEW s \in Seq(0 .. n - 1), Ascending(s),
         NEW p \in 1 .. Len(s)
  PROVE  /\ Without(s, p) \in Seq(0 .. n - 1)
         /\ Len(Without(s, p)) = Len(s) - 1
         /\ \A j \in 1 .. Len(s) - 1 :
              Without(s, p)[j] = IF j < p THEN s[j] ELSE s[j + 1]
         /\ Ascending(Without(s, p))
         /\ Range(Without(s, p)) = Range(s) \ {s[p]}
<1> DEFINE t == Without(s, p)
<1>0. Len(s) \in Nat /\ p \in Nat /\ DOMAIN s = 1 .. Len(s)
  BY SMTT(30)
<1>1. /\ t \in Seq(0 .. n - 1) /\ Len(t) = Len(s) - 1
      /\ DOMAIN t = 1 .. Len(s) - 1
      /\ \A j \in 1 .. Len(s) - 1 : t[j] = IF j < p THEN s[j] ELSE s[j + 1]
  BY RemovePlaces DEF Without
<1>2. \A j, k \in 1 .. Len(s) : j < k => s[j] < s[k]
  BY <1>0 DEF Ascending
<1>3. \A j \in 1 .. Len(s) : s[j] \in Int
  OBVIOUS
<1>4. IsInjective(s)
  BY <1>0, <1>2, <1>3 DEF IsInjective
<1>5. Range(t) = Range(s) \ {s[p]}
  BY <1>4, RemoveMember DEF Without
<1> HIDE DEF t
<1>6. ASSUME NEW j \in 1 .. Len(s) - 1, NEW k \in 1 .. Len(s) - 1, j < k
      PROVE  t[j] < t[k]
  <2> DEFINE x == IF j < p THEN j ELSE j + 1
             y == IF k < p THEN k ELSE k + 1
  <2>1. x \in 1 .. Len(s) /\ y \in 1 .. Len(s) /\ x < y
    BY <1>0, <1>6
  <2>2. t[j] = s[x] /\ t[k] = s[y]
    BY <1>1
  <2> QED BY <2>1, <2>2, <1>2
<1>7. Ascending(t)
  BY <1>1, <1>6 DEF Ascending
<1> QED BY <1>1, <1>5, <1>7 DEF t

\* What erase has done to the vector when it comes to the index at it: the
\* first erase_count indexes were obeyed and the others skipped, and behind
\* the last element erased every element has moved by erase_count.
EraseInv ==
  erasing =>
    /\ before \in Nat
    /\ EraseElements \in Seq(0 .. before - 1)
    /\ elements \in Seq(0 .. before - 1)
    /\ it \in 1 .. Len(EraseElements) + 1
    /\ erase_count \in 0 .. it - 1
    /\ undefined = FALSE
    /\ Ascending(EraseElements)
    /\ Ascending(elements)
    /\ Len(elements) = before - erase_count
    /\ Range(elements) =
         (0 .. before - 1) \ {EraseElements[j] : j \in 1 .. erase_count}
    /\ \A j \in 1 .. erase_count :
         j - 1 <= EraseElements[j] /\ EraseElements[j] + j - 1 <= before
    /\ \A j \in erase_count + 1 .. it - 1 :
         EraseElements[j] > before - erase_count
    /\ \A p \in 1 .. Len(elements) :
         (\A j \in 1 .. erase_count : EraseElements[j] < p - 1 + erase_count)
           => elements[p] = p - 1 + erase_count

\* A call starts with all indexes ahead and nothing moved.
LEMMA CallEraseInv ==
  ASSUME NEW n \in Nat, NEW indexes \in Seq(0 .. n - 1), Ascending(indexes),
         CallErase(n, indexes)
  PROVE  EraseInv'
<1> DEFINE e == [k \in 1 .. n |-> k - 1]
<1>1. /\ before' = n /\ EraseElements' = indexes /\ elements' = e
      /\ it' = 1 /\ erase_count' = 0 /\ undefined' = FALSE
  BY DEF CallErase
<1>2. Len(indexes) \in Nat
  OBVIOUS
<1>3. e \in Seq(0 .. n - 1) /\ Len(e) = n /\ DOMAIN e = 1 .. n
  OBVIOUS
<1>4. \A k \in 1 .. n : e[k] = k - 1
  OBVIOUS
<1> HIDE DEF e
<1>5. Ascending(e)
  BY <1>3, <1>4 DEF Ascending
<1>6. Range(e) = 0 .. n - 1
  <2>1. ASSUME NEW x \in 0 .. n - 1  PROVE x \in Range(e)
    <3>1. x + 1 \in 1 .. n /\ (x + 1) - 1 = x
      OBVIOUS
    <3> QED BY <3>1, <1>3, <1>4, RangeMember
  <2>2. ASSUME NEW x \in Range(e)  PROVE x \in 0 .. n - 1
    <3>1. PICK k \in 1 .. n : e[k] = x
      BY <1>3, RangeMember
    <3> QED BY <3>1, <1>4
  <2> QED BY <2>1, <2>2
<1>7. (0 .. n - 1) \ {indexes[j] : j \in 1 .. 0} = 0 .. n - 1
  BY SMTT(30)
<1> QED BY <1>1, <1>2, <1>3, <1>4, <1>5, <1>6, <1>7 DEF EraseInv

\* An index beyond the end the vector has by now is skipped, and so are all
\* the ones behind it.
LEMMA SkipInv ==
  ASSUME EraseInv, EraseRound, ~(EraseElements[it] <= Len(elements))
  PROVE  EraseInv'
<1>1. /\ erasing /\ erasing' = erasing /\ it' = it + 1 /\ before' = before
      /\ EraseElements' = EraseElements /\ elements' = elements
      /\ erase_count' = erase_count /\ undefined' = undefined
      /\ it <= Len(EraseElements)
  BY DEF EraseRound
<1>2. /\ it \in 1 .. Len(EraseElements) /\ Len(EraseElements) \in Nat
      /\ EraseElements[it] \in Nat /\ before \in Nat
      /\ erase_count \in 0 .. it - 1 /\ Len(elements) = before - erase_count
  BY <1>1 DEF EraseInv
<1>3. \A j \in erase_count + 1 .. it : EraseElements[j] > before - erase_count
  <2>1. \A j \in erase_count + 1 .. it - 1 : EraseElements[j] > before - erase_count
    BY <1>1 DEF EraseInv
  <2>2. EraseElements[it] > before - erase_count
    BY <1>2
  <2> QED BY <1>2, <2>1, <2>2
<1>4. it + 1 \in 1 .. Len(EraseElements) + 1 /\ erase_count \in 0 .. (it + 1) - 1
      /\ (it + 1) - 1 = it
  BY <1>2
<1> QED BY <1>1, <1>3, <1>4 DEF EraseInv

\* An index that is obeyed is the next one after those obeyed before, and
\* its element stands erase_count places further down.
LEMMA ObeyInv ==
  ASSUME EraseInv, EraseRound, EraseElements[it] <= Len(elements)
  PROVE  EraseInv'
<1> DEFINE c == erase_count
           x == EraseElements[it]
           E == EraseElements
           at == x - c
<1>1. /\ erasing /\ erasing' = erasing /\ it' = it + 1 /\ before' = before
      /\ EraseElements' = E /\ it <= Len(E)
      /\ elements' = Without(elements, at + 1)
      /\ erase_count' = c + 1
      /\ undefined' = (undefined \/ at \notin 0 .. Len(elements) - 1)
  BY DEF EraseRound, EraseAtIndex
<1>2. /\ it \in 1 .. Len(E) /\ Len(E) \in Nat /\ E \in Seq(0 .. before - 1)
      /\ before \in Nat /\ c \in 0 .. it - 1 /\ c \in Nat /\ undefined = FALSE
      /\ Len(elements) = before - c /\ elements \in Seq(0 .. before - 1)
      /\ Ascending(elements) /\ Ascending(E) /\ DOMAIN E = 1 .. Len(E)
  <2>1. /\ before \in Nat /\ E \in Seq(0 .. before - 1)
        /\ elements \in Seq(0 .. before - 1) /\ it \in 1 .. Len(E) + 1
        /\ c \in 0 .. it - 1 /\ undefined = FALSE /\ Ascending(E)
        /\ Ascending(elements) /\ Len(elements) = before - c /\ it <= Len(E)
    BY Zenon, <1>1 DEF EraseInv
  <2> HIDE DEF E, c
  <2>2. Len(E) \in Nat /\ DOMAIN E = 1 .. Len(E)
    BY <2>1
  <2>3. it \in 1 .. Len(E) /\ c \in Nat
    BY <2>1, <2>2
  <2> QED BY Zenon, <2>1, <2>2, <2>3
<1>3. x \in 0 .. before - 1
  BY <1>2
<1>4. \A j, k \in 1 .. Len(E) : j < k => E[j] < E[k]
  BY <1>2 DEF Ascending
<1>5. it = c + 1
  <2> SUFFICES ASSUME c < it - 1  PROVE FALSE
    BY <1>2
  <2>1. it - 1 \in c + 1 .. it - 1 /\ it - 1 \in 1 .. Len(E) /\ it - 1 < it
    BY SMTT(30), <1>2
  <2>2. E[it - 1] > before - c
    BY <1>1, <2>1 DEF EraseInv
  <2>3. E[it - 1] < x
    <3> HIDE DEF E
    <3>1. E[it - 1] < E[it]
      BY <1>2, <1>4, <2>1
    <3> QED BY <3>1 DEF E
  <2>4. E[it - 1] \in Int
    BY <1>2, <2>1
  <2> QED BY SMTT(30), <2>2, <2>3, <2>4, <1>2, <1>3
<1>6. \A j \in 1 .. c : j \in 1 .. Len(E) /\ E[j] < x /\ E[j] \in Int
  BY <1>2, <1>4, <1>5
<1>7. c <= x
  <2>1. CASE c = 0
    BY <2>1, <1>3
  <2>2. CASE c > 0
    <3>1. c \in 1 .. c /\ c - 1 <= E[c]
      BY <1>1, <1>2, <2>2 DEF EraseInv
    <3> QED BY SMTT(30), <3>1, <1>2, <1>3, <1>6
  <2> QED BY <2>1, <2>2, <1>2
<1>8. at \in 0 .. Len(elements) - 1 /\ at + 1 \in 1 .. Len(elements)
  <2> HIDE DEF x, c
  <2> QED BY <1>2, <1>3, <1>7
<1>9. elements[at + 1] = x
  <2>1. (at + 1) - 1 + c = x
    BY SMTT(30), <1>2, <1>3
  <2>2. \A p \in 1 .. Len(elements) :
          (\A j \in 1 .. c : E[j] < p - 1 + c) => elements[p] = p - 1 + c
    BY SMTT(30), <1>1 DEF EraseInv
  <2> HIDE DEF at, x, c, E
  <2> QED BY <2>1, <2>2, <1>6, <1>8
<1>10. /\ elements' \in Seq(0 .. before - 1)
       /\ Len(elements') = Len(elements) - 1
       /\ \A j \in 1 .. Len(elements) - 1 :
            elements'[j] = IF j < at + 1 THEN elements[j] ELSE elements[j + 1]
       /\ Ascending(elements')
       /\ Range(elements') = Range(elements) \ {x}
  <2> HIDE DEF at, x, c, E
  <2>1. /\ Without(elements, at + 1) \in Seq(0 .. before - 1)
        /\ Len(Without(elements, at + 1)) = Len(elements) - 1
        /\ \A j \in 1 .. Len(elements) - 1 :
             Without(elements, at + 1)[j] =
               IF j < at + 1 THEN elements[j] ELSE elements[j + 1]
        /\ Ascending(Without(elements, at + 1))
        /\ Range(Without(elements, at + 1)) = Range(elements) \ {elements[at + 1]}
    <3> DEFINE p == at + 1
    <3>1. /\ before \in Nat /\ elements \in Seq(0 .. before - 1)
          /\ Ascending(elements) /\ p \in 1 .. Len(elements)
      BY SMTT(30), <1>2, <1>8
    <3> HIDE DEF p
    <3>2. /\ Without(elements, p) \in Seq(0 .. before - 1)
          /\ Len(Without(elements, p)) = Len(elements) - 1
          /\ \A j \in 1 .. Len(elements) - 1 :
               Without(elements, p)[j] =
                 IF j < p THEN elements[j] ELSE elements[j + 1]
          /\ Ascending(Without(elements, p))
          /\ Range(Without(elements, p)) = Range(elements) \ {elements[p]}
      BY SMTT(30), <3>1, WithoutAscending
    <3> QED BY <3>2 DEF p
  <2> QED BY <1>1, <1>9, <2>1
<1>11. Range(elements') = (0 .. before - 1) \ {E[j] : j \in 1 .. c + 1}
  <2>1. Range(elements) = (0 .. before - 1) \ {E[j] : j \in 1 .. c}
    BY <1>1 DEF EraseInv
  <2>2. {E[j] : j \in 1 .. c + 1} = {E[j] : j \in 1 .. c} \cup {x}
    <3>1. 1 .. c + 1 = (1 .. c) \cup {c + 1}
      BY <1>2
    <3> QED BY <3>1, <1>5
  <2> HIDE DEF at, x, c, E
  <2> QED BY <2>1, <2>2, <1>10
<1>12. \A j \in 1 .. c + 1 : j - 1 <= E[j] /\ E[j] + j - 1 <= before
  <2>1. \A j \in 1 .. c : j - 1 <= E[j] /\ E[j] + j - 1 <= before
    BY <1>1 DEF EraseInv
  <2>2. (c + 1) - 1 <= E[c + 1] /\ E[c + 1] + (c + 1) - 1 <= before
    BY <1>2, <1>3, <1>5, <1>7
  <2>3. \A j \in 1 .. c + 1 : j \in 1 .. c \/ j = c + 1
    BY <1>2
  <2> HIDE DEF at, x, E, c
  <2> QED BY <2>1, <2>2, <2>3
<1>13. ASSUME NEW p \in 1 .. Len(elements'),
              \A j \in 1 .. c + 1 : E[j] < p - 1 + (c + 1)
       PROVE  elements'[p] = p - 1 + (c + 1)
  <2>1. x < p + c /\ p \in 1 .. Len(elements) - 1
    BY <1>2, <1>5, <1>10, <1>13
  <2>2. at + 1 <= p /\ p + 1 \in 1 .. Len(elements) /\ (p + 1) - 1 + c = p - 1 + (c + 1)
    BY <1>2, <1>3, <2>1
  <2>3. elements'[p] = elements[p + 1]
    <3> HIDE DEF at
    <3>1. at \in Int
      BY <1>2, <1>3 DEF at
    <3> QED BY <1>10, <2>1, <2>2, <3>1
  <2>4. \A j \in 1 .. c : E[j] < (p + 1) - 1 + c
    <3> TAKE j \in 1 .. c
    <3>1. j \in 1 .. c + 1
      BY SMTT(30), <1>2
    <3> QED BY <3>1, <1>13, <2>2
  <2>5. elements[p + 1] = (p + 1) - 1 + c
    BY <1>1, <2>2, <2>4 DEF EraseInv
  <2> QED BY SMTT(30), <2>2, <2>3, <2>5
<1>14. c + 1 \in 0 .. (it + 1) - 1 /\ it + 1 \in 1 .. Len(E) + 1
       /\ Len(elements') = before - (c + 1)
       /\ (c + 1) + 1 .. (it + 1) - 1 = {}
  BY <1>2, <1>5, <1>10
<1>15. undefined' = FALSE
  BY ZenonT(30), <1>1, <1>2, <1>8
<1> HIDE DEF at, x
<1> QED BY <1>1, <1>2, <1>10, <1>11, <1>12, <1>13, <1>14, <1>15 DEF EraseInv

\* Every step of erase keeps it.
LEMMA EraseInvNext == EraseInv /\ [VectorNext]_vector => EraseInv'
<1> SUFFICES ASSUME EraseInv, [VectorNext]_vector  PROVE EraseInv'
  OBVIOUS
<1>1. CASE UNCHANGED vector
  BY <1>1 DEF vector, EraseInv, Ascending, Range
<1>2. ASSUME NEW n \in 0 .. MaxLength, NEW indexes \in Lists,
             Range(indexes) \subseteq 0 .. n - 1, CallErase(n, indexes)
      PROVE  EraseInv'
  <2>1. n \in Nat /\ Ascending(indexes)
    BY MultiEraseAssumption DEF Lists
  <2>2. PICK m \in 0 .. MaxLength : indexes \in [1 .. m -> 0 .. MaxLength - 1]
    BY DEF Lists
  <2>3. indexes \in [1 .. m -> 0 .. n - 1] /\ m \in Nat
    BY <1>2, <2>2, MultiEraseAssumption DEF Range
  <2>4. indexes \in Seq(0 .. n - 1)
    BY <2>3, IsASeq
  <2> QED BY <1>2, <2>1, <2>4, CallEraseInv
<1>3. CASE EraseRound
  BY SMTT(30), <1>3, SkipInv, ObeyInv
<1>4. CASE EraseReturn
  BY <1>4 DEF EraseReturn, EraseInv
<1> QED BY <1>1, <1>2, <1>3, <1>4 DEF VectorNext

(***************************************************************************)
(* Vector::erase(EraseElements), for a vector and a list of indexes of any *)
(* length: in ascending order they erase exactly the elements meant, as    *)
(* far as erase obeys them, and never reach outside the vector.            *)
(***************************************************************************)
THEOREM EraseIsExact == VectorSpec => []MultiEraseExact
<1>1. VectorInit => EraseInv
  BY SMTT(30) DEF VectorInit, EraseInv
<1>2. EraseInv => MultiEraseExact
  <2> SUFFICES ASSUME EraseInv, erasing  PROVE MultiEraseExact
    BY SMTT(30) DEF MultiEraseExact
  <2> DEFINE E == EraseElements
             c == erase_count
             obeyed == {j \in 1 .. it - 1 : E[j] + j - 1 <= before}
  <2>1. /\ it \in 1 .. Len(E) + 1 /\ c \in 0 .. it - 1 /\ before \in Nat
        /\ E \in Seq(0 .. before - 1) /\ Len(E) \in Nat
        /\ \A j \in 1 .. c : E[j] + j - 1 <= before
        /\ \A j \in c + 1 .. it - 1 : E[j] > before - c
    BY DEF EraseInv
  <2>2. ASSUME NEW j \in 1 .. it - 1  PROVE E[j] + j - 1 <= before <=> j \in 1 .. c
    <3>1. j \in 1 .. Len(E) /\ E[j] \in Int
      BY <2>1
    <3>2. CASE j <= c
      BY <2>1, <3>2
    <3>3. CASE c < j
      <4>1. E[j] > before - c
        BY <2>1, <3>3
      <4> QED BY <2>1, <3>1, <3>3, <4>1
    <3> QED BY <2>1, <3>2, <3>3
  <2>3. obeyed = 1 .. c
    BY <2>1, <2>2
  <2>4. /\ undefined = FALSE /\ Ascending(elements)
        /\ Range(elements) = (0 .. before - 1) \ {E[j] : j \in 1 .. c}
    BY SMTT(30) DEF EraseInv
  <2> QED BY <2>3, <2>4 DEF MultiEraseExact
<1> QED BY <1>1, <1>2, EraseInvNext, PTL DEF VectorSpec
=============================================================================
