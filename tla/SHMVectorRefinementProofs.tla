--------------------- MODULE SHMVectorRefinementProofs ---------------------
(***************************************************************************)
(* SHMVector implements ThreadSafeVector, proved for every instance in     *)
(* which no reserve() argument wraps.                                      *)
(***************************************************************************)
EXTENDS SHMVectorProofs, Sequences

Status == [p \in Process |-> StatusOf(pc[p])]

-----------------------------------------------------------------------------
(***************************************************************************)
(* What the mapped sequence is, with and without a gap.                    *)
(***************************************************************************)

\* Without an erase in progress the elements are the counted segments.
LEMMA ElemsQuiet ==
  ~Destructed /\ ~Shifting /\ size_ \in Nat
    => Elems = [n \in 1 .. size_ |-> mem[n - 1]]
  BY DEF Elems, Gap, NumElems

\* The same, in the state after a step.
LEMMA ElemsQuietPrime ==
  (~Destructed /\ ~Shifting /\ size_ \in Nat
    => Elems = [n \in 1 .. size_ |-> mem[n - 1]])'
  BY ElemsQuiet, PTL

\* During an erase they are the counted segments but the gap.
LEMMA ElemsShifting ==
  LockInv /\ ~Destructed =>
    \A p \in Process : pc[p] = "shift" =>
      Elems = [n \in 1 .. size_ - 1 |->
                 IF n <= i[p] THEN mem[n - 1] ELSE mem[n]]
  <1> SUFFICES ASSUME LockInv, ~Destructed, NEW p \in Process, pc[p] = "shift"
               PROVE  Elems = [n \in 1 .. size_ - 1 |->
                        IF n <= i[p] THEN mem[n - 1] ELSE mem[n]]
    OBVIOUS
  <1>1. \A q \in Process : pc[q] = "shift" => q = p
    BY DEF LockInv, MutualExclusion, InCS, Critical
  <1>2. p = CHOOSE q \in Process : pc[q] = "shift"
    BY <1>1
  <1>3. Shifting /\ Gap = i[p]
    BY <1>2 DEF Shifting, Gap
  <1> QED
    BY <1>3 DEF Elems, NumElems

\* The same, in the state after a step.
LEMMA ElemsShiftingPrime ==
  (LockInv /\ ~Destructed =>
    \A p \in Process : pc[p] = "shift" =>
      Elems = [n \in 1 .. size_ - 1 |->
                 IF n <= i[p] THEN mem[n - 1] ELSE mem[n]])'
  BY ElemsShifting, PTL

\* A live process inside a call has not been overtaken by the destructor.
LEMMA CallerSeesVector ==
  ASSUME DataInv, NEW p \in Running, pc[p] # "gone"
  PROVE  ~Destructed
  BY DEF DataInv, LocalsAgree

\* Under the lock nobody else shifts.
LEMMA HolderNotShifting ==
  ASSUME LockInv, NEW p \in Process, InCS(p), pc[p] # "shift"
  PROVE  ~Shifting
  BY DEF LockInv, MutualExclusion, InCS, Critical, Shifting

\* A destroyed vector has no elements.
LEMMA ElemsDestructed == Destructed => Elems = <<>>
  BY DEF Elems, NumElems

\* The same, in the state after a step.
LEMMA ElemsDestructedPrime == (Destructed => Elems = <<>>)'
  BY ElemsDestructed, PTL

\* A step that touches neither the segments nor the gap keeps the elements.
LEMMA ElemsUnchanged ==
  ASSUME LockInv, LockInv', DataInv,
         UNCHANGED <<mem, size_>>,
         Destructed' <=> Destructed,
         \A q \in Process : pc'[q] = "shift" <=> pc[q] = "shift",
         \A q \in Process : pc[q] = "shift" => i'[q] = i[q]
  PROVE  Elems' = Elems
  <1>1. CASE Destructed
    BY <1>1, ElemsDestructed, ElemsDestructedPrime
  <1>2. CASE ~Destructed /\ ~Shifting
    <2>1. ~Shifting'
      BY <1>2 DEF Shifting
    <2> QED
      BY <1>2, <2>1, ElemsQuiet, ElemsQuietPrime DEF DataInv, TypeOK
  <1>3. CASE ~Destructed /\ Shifting
    <2>1. PICK p \in Process : pc[p] = "shift"
      BY <1>3 DEF Shifting
    <2>2. Elems = [n \in 1 .. size_ - 1 |->
                     IF n <= i[p] THEN mem[n - 1] ELSE mem[n]]
      BY <1>3, <2>1, ElemsShifting
    <2>3. Elems' = [n \in 1 .. size_' - 1 |->
                      IF n <= i'[p] THEN mem'[n - 1] ELSE mem'[n]]
      BY <1>3, <2>1, ElemsShiftingPrime
    <2> QED
      BY <2>1, <2>2, <2>3
  <1> QED
    BY <1>1, <1>2, <1>3

-----------------------------------------------------------------------------
(***************************************************************************)
(* The steps that take no effect on the abstract vector.                   *)
(***************************************************************************)
Ctx == VectorInv /\ LockInv' /\ DataInv'

\* Spinning, constructing, releasing, reading the reference: stuttering.
LEMMA SilentSteps ==
  ASSUME Ctx, NEW p \in Running,
         Acquire(p) \/ Release(p) \/ Deref(p) \/ Crash(p)
  PROVE  UNCHANGED Vector!vars
  <1> USE DEF Ctx, VectorInv, LockInv, DataInv, TypeOK, LocalsAgree, Running,
              Goto, locals, Labels, Critical, LockOps
  <1>1. pc' = pc \/ \E l \in Labels \ {"idle", "gone", "shift"} :
          pc' = [pc EXCEPT ![p] = l] /\ StatusOf(l) = StatusOf(pc[p])
    BY DEF Acquire, Release, Deref, Crash, StatusOf
  <1>2. pc[p] # "shift" \/ pc' = pc
    BY DEF Acquire, Release, Deref, Crash
  <1>3. UNCHANGED <<mem, size_, capacity_, op, arg, val, i, res>>
    BY DEF Acquire, Release, Deref, Crash
  <1>4. pc[p] # "gone"
    BY DEF Acquire, Release, Deref, Crash
  <1>5. Elems' = Elems
    <2>1. \A q \in Process : pc'[q] = "shift" <=> pc[q] = "shift"
      BY <1>1, <1>2
    <2>2. Destructed' <=> Destructed
      BY <1>1, <1>4 DEF Destructed
    <2> QED
      BY <1>3, <2>1, <2>2, ElemsUnchanged
  <1>6. \A q \in Process : StatusOf(pc'[q]) = StatusOf(pc[q])
    BY <1>1
  <1>7. [q \in Process |-> StatusOf(pc[q])]' = [q \in Process |-> StatusOf(pc[q])]
    BY <1>6
  <1> QED
    BY <1>3, <1>5, <1>7 DEF Vector!vars

\* The new element is not one of the elements until it is counted.
LEMMA ConstructSilent ==
  ASSUME Ctx, NEW p \in Running, Construct(p)
  PROVE  UNCHANGED Vector!vars
  <1> USE DEF Ctx, VectorInv, LockInv, DataInv, TypeOK, Running, Goto, locals,
              Construct
  <1>1. ~Destructed /\ ~Shifting
    BY CallerSeesVector, HolderNotShifting DEF InCS, Critical
  <1>2. ~Destructed' /\ ~Shifting'
    BY <1>1 DEF Destructed, Shifting
  <1>3. Elems' = Elems
    BY <1>1, <1>2, ElemsQuiet, ElemsQuietPrime
  <1>4. [q \in Process |-> StatusOf(pc[q])]' = [q \in Process |-> StatusOf(pc[q])]
    BY DEF StatusOf
  <1> QED
    BY <1>3, <1>4 DEF Vector!vars

\* Moving the gap up, or dropping it at the end, keeps the elements.
LEMMA ShiftSilent ==
  ASSUME Ctx, NEW p \in Running, ShiftStep(p)
  PROVE  UNCHANGED Vector!vars
  <1> USE DEF Ctx, VectorInv, LockInv, DataInv, TypeOK, LocalsAgree, Running,
              Goto, locals
  <1>1. ~Destructed
    BY CallerSeesVector DEF ShiftStep
  <1>2. Elems = [n \in 1 .. size_ - 1 |->
                   IF n <= i[p] THEN mem[n - 1] ELSE mem[n]]
    BY <1>1, ElemsShifting DEF ShiftStep
  <1>3. CASE i[p] < size_ - 1
    <2>1. ~Destructed' /\ pc'[p] = "shift"
      BY <1>1, <1>3 DEF ShiftStep, Destructed
    <2>2. Elems' = [n \in 1 .. size_' - 1 |->
                      IF n <= i'[p] THEN mem'[n - 1] ELSE mem'[n]]
      <3>1. LockInv' /\ p \in Process
        OBVIOUS
      <3> HIDE DEF Ctx, VectorInv, LockInv, DataInv, Running
      <3> QED BY <2>1, <3>1, ElemsShiftingPrime, Zenon
    <2>3. /\ mem' = [mem EXCEPT ![i[p]] = mem[i[p] + 1], ![i[p] + 1] = Raw]
          /\ i'[p] = i[p] + 1
          /\ UNCHANGED <<size_, pc, capacity_, op, arg, val, res>>
      BY <1>3 DEF ShiftStep
    <2>4. i[p] \in Slot /\ i[p] + 1 \in Slot
      BY <1>3, CountedInRegion DEF InRegion
    <2>5. ASSUME NEW n \in 1 .. size_ - 1
          PROVE  (IF n <= i'[p] THEN mem'[n - 1] ELSE mem'[n])
                   = (IF n <= i[p] THEN mem[n - 1] ELSE mem[n])
      <3>1. n - 1 \in Slot /\ n \in Slot
        BY CountedInRegion DEF InRegion
      <3>2. \A s \in Slot : s # i[p] /\ s # i[p] + 1 => mem'[s] = mem[s]
        BY <2>3
      <3>3. mem'[i[p]] = mem[i[p] + 1]
        BY <2>3, <2>4
      <3>4. i[p] \in Nat
        OBVIOUS
      <3>5. CASE n <= i[p]
        BY <2>3, <3>1, <3>2, <3>4, <3>5
      <3>6. CASE n = i[p] + 1
        BY <2>3, <3>3, <3>4, <3>6
      <3>7. CASE n > i[p] + 1
        BY <2>3, <3>1, <3>2, <3>4, <3>7
      <3> QED
        BY <3>4, <3>5, <3>6, <3>7
    <2>6. Elems' = [n \in 1 .. size_ - 1 |->
                      IF n <= i'[p] THEN mem'[n - 1] ELSE mem'[n]]
      BY <2>2, <2>3
    <2>7. Elems' = Elems
      BY <1>2, <2>5, <2>6
    <2> QED
      BY <2>3, <2>7 DEF Vector!vars
  <1>4. CASE i[p] >= size_ - 1
    <2>1. /\ size_' = size_ - 1 /\ i[p] = size_ - 1
          /\ pc' = [pc EXCEPT ![p] = "unlock"]
          /\ UNCHANGED <<mem, capacity_, op, arg, val, res>>
      BY <1>4 DEF ShiftStep
    <2>2. ~Destructed' /\ ~Shifting'
      BY <1>1, <2>1 DEF ShiftStep, Destructed, Shifting, MutualExclusion, InCS,
                        Critical
    <2>3. Elems' = [n \in 1 .. size_' |-> mem'[n - 1]]
      BY <2>2, ElemsQuietPrime
    <2>4. Elems' = Elems
      BY <1>2, <2>1, <2>3
    <2>5. [q \in Process |-> StatusOf(pc[q])]'
            = [q \in Process |-> StatusOf(pc[q])]
      BY <2>1 DEF StatusOf, ShiftStep
    <2> QED
      BY <2>1, <2>4, <2>5 DEF Vector!vars
  <1> QED
    BY <1>3, <1>4

-----------------------------------------------------------------------------
(***************************************************************************)
(* Invocation and response.                                                *)
(***************************************************************************)

\* The mapped status moves with the program counter.
LEMMA StatusMoves ==
  ASSUME pc \in [Process -> Labels], NEW p \in Process, NEW l \in Labels,
         pc' = [pc EXCEPT ![p] = l]
  PROVE  Status' = [Status EXCEPT ![p] = StatusOf(l)]
  BY DEF Status

\* A call is an invocation.
LEMMA CallsInvoke ==
  ASSUME Ctx, NEW p \in Running, Calls(p)
  PROVE  Vector!Invoke(p)
  <1> USE DEF Ctx, VectorInv, LockInv, DataInv, TypeOK, Running, Goto
  <1>1. PICK o \in AllOps \ {"~SHMVector"}, a \in Nat,
             v \in Element \cup {Raw}, l \in {"fast", "spin", "capacity"} :
               Call(p, o, a, v, l)
    BY VectorAssumption DEF Calls, AllOps
  <1> USE <1>1 DEF Call
  <1>2. Elems' = Elems
    <2>1. \A q \in Process : pc'[q] = "shift" <=> pc[q] = "shift"
      OBVIOUS
    <2>2. Destructed' <=> Destructed
      BY DEF Destructed
    <2> QED
      BY <2>1, <2>2, ElemsUnchanged
  <1>3. Status' = [Status EXCEPT ![p] = "called"] /\ Status[p] = "idle"
    BY StatusMoves DEF StatusOf, Status, Labels
  <1>4. op'[p] \in AllOps \ {"~SHMVector"}
    OBVIOUS
  <1> QED
    BY <1>2, <1>3, <1>4 DEF Vector!Invoke, Vector!Move, Status, AllOps

\* A return is a response.
LEMMA ReturnResponds ==
  ASSUME Ctx, NEW p \in Running, Return(p)
  PROVE  Vector!Respond(p)
  <1> USE DEF Ctx, VectorInv, LockInv, DataInv, TypeOK, Running, Goto, Outcome,
              Return
  <1>1. Elems' = Elems
    <2>1. \A q \in Process : pc'[q] = "shift" <=> pc[q] = "shift"
      OBVIOUS
    <2>2. Destructed' <=> Destructed
      BY DEF Destructed
    <2>3. \A q \in Process : pc[q] = "shift" => i'[q] = i[q]
      OBVIOUS
    <2> QED
      BY <2>1, <2>2, <2>3, ElemsUnchanged
  <1>2. Status' = [Status EXCEPT ![p] = "idle"] /\ Status[p] = "done"
    BY StatusMoves DEF StatusOf, Status, Labels
  <1> QED
    BY <1>1, <1>2 DEF Vector!Respond, Vector!Move, Status

-----------------------------------------------------------------------------
(***************************************************************************)
(* The steps in which a call takes effect.                                 *)
(***************************************************************************)

\* A step of a call of o from a "called" label to a "done" one, with outcome
\* r, is the effect of o.
LEMMA EffectStep ==
  ASSUME LockInv, DataInv, NEW p \in Running, NEW o, NEW r, NEW l \in Labels,
         op[p] = o, UNCHANGED op, res' = [res EXCEPT ![p] = r],
         pc' = [pc EXCEPT ![p] = l],
         StatusOf(pc[p]) = "called", StatusOf(l) = "done"
  PROVE  Vector!Effect(p, o, r)
  <1>1. Status' = [Status EXCEPT ![p] = "done"] /\ Status[p] = "called"
    BY StatusMoves DEF Status, LockInv, Running
  <1> QED
    BY <1>1 DEF Vector!Effect, Vector!Move, Status

\* A holder that does not shift sees the counted segments as the elements.
LEMMA HolderElems ==
  ASSUME VectorInv, NEW p \in Running, InCS(p), pc[p] # "shift"
  PROVE  /\ ~Destructed /\ ~Shifting
         /\ Elems = [n \in 1 .. size_ |-> mem[n - 1]]
         /\ Elems \in Seq(Element \cup {Raw})
         /\ Len(Elems) = size_
  <1> USE DEF VectorInv, DataInv, TypeOK, Running
  <1>1. ~Destructed
    BY CallerSeesVector DEF InCS, Critical
  <1>2. ~Shifting
    BY HolderNotShifting
  <1>3. Elems = [n \in 1 .. size_ |-> mem[n - 1]]
    BY <1>1, <1>2, ElemsQuiet
  <1>4. \A n \in 1 .. size_ : mem[n - 1] \in Element \cup {Raw}
    BY CountedInRegion DEF InRegion
  <1>5. Elems \in Seq(Element \cup {Raw}) /\ Len(Elems) = size_
    BY <1>3, <1>4
  <1> QED
    BY <1>1, <1>2, <1>3, <1>5

\* A step between labels other than shift that leaves the segments alone
\* keeps the elements.
LEMMA ElemsKept ==
  ASSUME Ctx, NEW p \in Running, NEW l \in Labels, pc' = [pc EXCEPT ![p] = l],
         pc[p] \notin {"shift", "gone"}, l \notin {"shift", "gone"},
         UNCHANGED <<mem, size_, i>>
  PROVE  Elems' = Elems
  <1> USE DEF Ctx, VectorInv, DataInv, TypeOK, Running
  <1>1. \A q \in Process : pc'[q] = "shift" <=> pc[q] = "shift"
    OBVIOUS
  <1>2. Destructed' <=> Destructed
    BY DEF Destructed
  <1> QED
    BY <1>1, <1>2, ElemsUnchanged

\* The unlocked fast path of reserve takes effect at its read.
LEMMA ReserveFastEffect ==
  ASSUME Ctx, NEW p \in Running, ReserveFast(p)
  PROVE  Vector!ReserveOk(p) \/ UNCHANGED Vector!vars
  <1> USE DEF Ctx, VectorInv, Running, Goto, Outcome
  <1>1. /\ pc[p] = "fast" /\ op[p] = "reserve"
        /\ UNCHANGED <<mem, size_, capacity_, op, arg, val, i>>
    BY DEF ReserveFast, DataInv, LocalsAgree
  <1>2. /\ capacity_ \in Nat /\ arg[p] \in Nat
        /\ capacity_ * SegmentSize <= MemoryBytes
    BY DEF DataInv, TypeOK, InRegion
  <1>3. CASE arg[p] <= capacity_
    <2>0. ~(arg[p] > capacity_)
      BY <1>2, <1>3
    <2>1. /\ res' = [res EXCEPT ![p] = "ok"]
          /\ pc' = [pc EXCEPT ![p] = "done"]
      BY <2>0, Zenon DEF ReserveFast
    <2>2. Vector!Effect(p, "reserve", "ok")
      BY <1>1, <2>1, EffectStep DEF StatusOf, Labels
    <2>3. Elems' = Elems
      BY <1>1, <2>1, ElemsKept DEF Labels
    <2> QED
      BY <1>1, <1>2, <1>3, <2>2, <2>3 DEF Vector!ReserveOk
  <1>4. CASE arg[p] > capacity_
    <2>0. ~(arg[p] <= capacity_)
      BY <1>2, <1>4
    <2>1. pc' = [pc EXCEPT ![p] = "spin"] /\ UNCHANGED res
      BY <2>0, Zenon DEF ReserveFast
    <2>2. Elems' = Elems
      BY <1>1, <2>1, ElemsKept DEF Labels
    <2>3. [q \in Process |-> StatusOf(pc[q])]'
            = [q \in Process |-> StatusOf(pc[q])]
      BY <1>1, <2>1 DEF StatusOf, LockInv
    <2> QED
      BY <1>1, <2>1, <2>2, <2>3 DEF Vector!vars
  <1> QED
    BY <1>2, <1>3, <1>4

\* The locked body of reserve.
LEMMA ReserveEffect ==
  ASSUME NoWrap, Ctx, NEW p \in Running, Reserve(p)
  PROVE  Vector!ReserveOk(p) \/ Vector!ReserveBadAlloc(p)
  <1> USE DEF Ctx, VectorInv, Running, Goto, Outcome
  <1>1. /\ pc[p] = "reserve" /\ op[p] = "reserve" /\ arg[p] \in Count
        /\ pc' = [pc EXCEPT ![p] = "unlock"]
        /\ UNCHANGED <<mem, size_, op, arg, val, i>>
    BY DEF Reserve, DataInv, LocalsAgree
  <1>2. Elems' = Elems
    BY <1>1, ElemsKept DEF Labels, Critical
  <1>3. /\ capacity_ \in Nat /\ arg[p] \in Nat
        /\ capacity_ * SegmentSize <= MemoryBytes
        /\ Fits(arg[p]) <=> arg[p] * SegmentSize <= MemoryBytes
    BY <1>1, ReserveFits DEF DataInv, TypeOK, InRegion
  <1>4. CASE /\ res' = [res EXCEPT ![p] = "ok"]
             /\ \/ capacity_' = capacity_ /\ arg[p] <= capacity_
                \/ capacity_' = arg[p] /\ arg[p] > capacity_ /\ Fits(arg[p])
    <2>1. Vector!Effect(p, "reserve", "ok")
      BY <1>1, <1>4, EffectStep DEF StatusOf, Labels, Critical
    <2> QED
      BY <1>1, <1>2, <1>3, <1>4, <2>1 DEF Vector!ReserveOk
  <1>5. CASE res' = [res EXCEPT ![p] = "bad_alloc"] /\ ~Fits(arg[p])
             /\ capacity_' = capacity_
    <2>1. Vector!Effect(p, "reserve", "bad_alloc")
      BY <1>1, <1>5, EffectStep DEF StatusOf, Labels, Critical
    <2>2. arg[p] * SegmentSize > MemoryBytes
      BY <1>3, <1>5, VectorAssumption
    <2> QED
      BY <1>1, <1>2, <1>5, <2>1, <2>2 DEF Vector!ReserveBadAlloc
  <1>6. \/ /\ res' = [res EXCEPT ![p] = "ok"]
           /\ \/ capacity_' = capacity_ /\ arg[p] <= capacity_
              \/ capacity_' = arg[p] /\ arg[p] > capacity_ /\ Fits(arg[p])
        \/ /\ res' = [res EXCEPT ![p] = "bad_alloc"]
           /\ ~Fits(arg[p])
           /\ capacity_' = capacity_
    BY DEF Reserve
  <1> QED
    BY <1>4, <1>5, <1>6

\* push_back grows, fails, or goes on to construct.
LEMMA PushBackEffect ==
  ASSUME Ctx, NEW p \in Running, PushBack(p)
  PROVE  Vector!Grow \/ Vector!PushBadAlloc(p) \/ UNCHANGED Vector!vars
  <1> USE DEF Ctx, VectorInv, Running, Goto, Outcome
  <1>1. /\ pc[p] = "push_back" /\ op[p] = "push_back"
        /\ UNCHANGED <<mem, size_, op, arg, val, i>>
    BY DEF PushBack, DataInv, LocalsAgree
  <1>2. /\ capacity_ \in Nat /\ size_ \in Nat /\ size_ <= capacity_
        /\ capacity_ * SegmentSize <= MemoryBytes
        /\ pc \in [Process -> Labels]
    BY DEF DataInv, TypeOK, InRegion
  <1>3. Len(Elems) = size_
    BY <1>1, HolderElems DEF InCS, Critical
  <1>4. CASE /\ pc' = [pc EXCEPT ![p] = "construct"]
             /\ UNCHANGED res
             /\ \/ capacity_' = capacity_
                \/ capacity_' = new_capacity /\ Fits(new_capacity)
    <2>1. Elems' = Elems
      BY <1>1, <1>4, ElemsKept DEF Labels, Critical
    <2>2. [q \in Process |-> StatusOf(pc[q])]'
            = [q \in Process |-> StatusOf(pc[q])]
      BY <1>1, <1>2, <1>4 DEF StatusOf
    <2>3. capacity_' = capacity_ \/ Vector!Grow
      BY <1>1, <1>2, <1>4, <2>1, <2>2, DoublingFits DEF Vector!Grow
    <2> QED
      BY <1>1, <1>4, <2>1, <2>2, <2>3 DEF Vector!vars
  <1>5. CASE pc' = [pc EXCEPT ![p] = "unlock"] /\ size_ >= capacity_
             /\ ~Fits(new_capacity) /\ res' = [res EXCEPT ![p] = "bad_alloc"]
             /\ capacity_' = capacity_
    <2>1. Vector!Effect(p, "push_back", "bad_alloc")
      BY <1>1, <1>5, EffectStep DEF StatusOf, Labels, Critical
    <2>2. Elems' = Elems
      BY <1>1, <1>5, ElemsKept DEF Labels, Critical
    <2>3. \/ 2 * size_ * SegmentSize > MemoryBytes
          \/ SegmentSize > MemoryBytes
      <3>1. new_capacity = (IF size_ = 0 THEN 1 ELSE 2 * size_)
        BY <1>2, <1>5, DoublingFits
      <3>2. new_capacity * SegmentSize > MemoryBytes
        BY <1>2, <1>5, <3>1, DoublingRejects
      <3>3. CASE size_ = 0
        BY <3>1, <3>2, <3>3, VectorAssumption
      <3>4. CASE size_ # 0
        BY <3>1, <3>2, <3>4
      <3> QED BY <3>3, <3>4
    <2>4. Len(Elems) = capacity_
      BY <1>2, <1>3, <1>5
    <2> QED
      BY <1>1, <1>3, <1>5, <2>1, <2>2, <2>3, <2>4 DEF Vector!PushBadAlloc
  <1>6. \/ /\ pc' = [pc EXCEPT ![p] = "construct"]
           /\ UNCHANGED res
           /\ \/ capacity_' = capacity_
              \/ capacity_' = new_capacity /\ Fits(new_capacity)
        \/ /\ pc' = [pc EXCEPT ![p] = "unlock"]
           /\ size_ >= capacity_
           /\ ~Fits(new_capacity)
           /\ res' = [res EXCEPT ![p] = "bad_alloc"]
           /\ capacity_' = capacity_
    BY DEF PushBack
  <1> QED
    BY <1>4, <1>5, <1>6

\* push_back takes effect when size_ counts the new element.
LEMMA IncrementEffect ==
  ASSUME Ctx, NEW p \in Running, IncrementSize(p)
  PROVE  Vector!PushOk(p)
  <1> USE DEF Ctx, VectorInv, Running, Goto, Outcome, IncrementSize
  <1>1. /\ op[p] = "push_back" /\ val[p] \in Element
        /\ size_ \in Nat /\ size_ < capacity_
        /\ pc \in [Process -> Labels]
    BY DEF DataInv, TypeOK, LocalsAgree, InRegion
  <1>2. Vector!Effect(p, "push_back", "ok")
    BY <1>1, EffectStep DEF StatusOf, Labels, Critical
  <1>3. /\ ~Destructed /\ ~Shifting /\ Len(Elems) = size_
        /\ Elems = [n \in 1 .. size_ |-> mem[n - 1]]
        /\ Elems \in Seq(Element \cup {Raw})
    BY HolderElems DEF InCS, Critical
  <1>4. ~Destructed' /\ ~Shifting'
    BY <1>1, <1>3 DEF Destructed, Shifting
  <1>5. Elems' = [n \in 1 .. size_ + 1 |-> mem[n - 1]]
    BY <1>1, <1>4, ElemsQuietPrime
  <1>6. mem[size_] = val[p]
    BY DEF DataInv, LocalsAgree
  <1>7. Elems' = Append(Elems, val[p])
    BY <1>1, <1>3, <1>5, <1>6
  <1> QED
    BY <1>1, <1>2, <1>3, <1>7 DEF Vector!PushOk

\* at() finds the element or refuses the index.
LEMMA AtEffect ==
  ASSUME Ctx, NEW p \in Running, At(p)
  PROVE  Vector!AtOk(p) \/ Vector!OutOfRange(p)
  <1> USE DEF Ctx, VectorInv, Running, Goto, Outcome
  <1>1. /\ pc[p] = "at" /\ op[p] = "at" /\ arg[p] \in Nat /\ size_ \in Nat
        /\ pc' = [pc EXCEPT ![p] = "unlock"]
        /\ UNCHANGED <<mem, size_, capacity_, op, arg, i>>
    BY DEF At, DataInv, TypeOK, LocalsAgree
  <1>2. Len(Elems) = size_ /\ Elems = [n \in 1 .. size_ |-> mem[n - 1]]
    BY <1>1, HolderElems DEF InCS, Critical
  <1>3. Elems' = Elems
    BY <1>1, ElemsKept DEF Labels, Critical
  <1>4. CASE arg[p] >= size_
    <2> ~(arg[p] < size_)
      BY <1>1, <1>4
    <2>0. res' = [res EXCEPT ![p] = "out_of_range"] /\ UNCHANGED val
      BY Zenon DEF At
    <2>1. Vector!Effect(p, "at", "out_of_range")
      BY <1>1, <2>0, EffectStep DEF StatusOf, Labels, Critical
    <2> QED
      BY <1>1, <1>2, <1>3, <1>4, <2>0, <2>1 DEF Vector!OutOfRange
  <1>5. CASE arg[p] < size_
    <2> ~(arg[p] >= size_)
      BY <1>1, <1>5
    <2>0. /\ res' = [res EXCEPT ![p] = "ok"]
          /\ val' = [val EXCEPT ![p] = mem[arg[p]]]
      BY Zenon DEF At
    <2>1. Vector!Effect(p, "at", "ok")
      BY <1>1, <2>0, EffectStep DEF StatusOf, Labels, Critical
    <2>2. mem[arg[p]] = Elems[arg[p] + 1]
      BY <1>1, <1>2, <1>5
    <2>3. val' = [val EXCEPT ![p] = Elems[arg[p] + 1]]
      BY <2>0, <2>2
    <2> QED
      BY <1>1, <1>2, <1>3, <1>5, <2>1, <2>3 DEF Vector!AtOk
  <1> QED
    BY <1>1, <1>4, <1>5

\* size() and capacity() report the abstract numbers.
LEMMA SizeEffect ==
  ASSUME Ctx, NEW p \in Running, Size(p)
  PROVE  Vector!SizeOk(p)
  <1> USE DEF Ctx, VectorInv, Running, Goto, Outcome, Size
  <1>0. op[p] = "size"
    BY DEF DataInv, LocalsAgree
  <1>1. Vector!Effect(p, "size", "ok")
    BY <1>0, EffectStep DEF StatusOf, Labels, Critical
  <1>2. Elems' = Elems
    BY ElemsKept DEF Labels, Critical
  <1>3. Len(Elems) = size_
    BY HolderElems DEF InCS, Critical
  <1> QED
    BY <1>1, <1>2, <1>3 DEF Vector!SizeOk

\* capacity() takes effect at its unlocked read.
LEMMA CapacityEffect ==
  ASSUME Ctx, NEW p \in Running, Capacity(p)
  PROVE  Vector!CapacityOk(p)
  <1> USE DEF Ctx, VectorInv, Running, Goto, Outcome, Capacity
  <1>0. op[p] = "capacity"
    BY DEF DataInv, LocalsAgree
  <1>1. Vector!Effect(p, "capacity", "ok")
    BY <1>0, EffectStep DEF StatusOf, Labels
  <1>2. Elems' = Elems
    BY ElemsKept DEF Labels
  <1> QED
    BY <1>1, <1>2 DEF Vector!CapacityOk

\* Destroying the element at an index in range removes it.
LEMMA DestroyRemoves ==
  ASSUME Ctx, NEW p \in Running, NEW k \in Nat, k < size_,
         pc[p] \in {"eraseAt", "getNextElement"}, Destroy(p, k),
         UNCHANGED size_
  PROVE  /\ Len(Elems) = size_
         /\ Elems = [n \in 1 .. size_ |-> mem[n - 1]]
         /\ Elems' = [n \in 1 .. Len(Elems) - 1 |->
                        IF n <= k THEN Elems[n] ELSE Elems[n + 1]]
  <1> USE DEF Ctx, VectorInv, Running, Goto, Outcome, Destroy
  <1>1. /\ ~Destructed /\ Len(Elems) = size_ /\ size_ \in Nat
        /\ Elems = [n \in 1 .. size_ |-> mem[n - 1]]
    BY HolderElems DEF InCS, Critical, DataInv, TypeOK
  <1>2. pc'[p] = "shift" /\ i'[p] = k /\ ~Destructed'
    BY <1>1 DEF DataInv, TypeOK, Destructed
  <1>3. Elems' = [n \in 1 .. size_ - 1 |->
                    IF n <= k THEN mem'[n - 1] ELSE mem'[n]]
    BY <1>2, ElemsShiftingPrime
  <1>4. \A n \in 1 .. size_ - 1 :
          (IF n <= k THEN mem'[n - 1] ELSE mem'[n])
            = (IF n <= k THEN Elems[n] ELSE Elems[n + 1])
    <2> SUFFICES ASSUME NEW n \in 1 .. size_ - 1
                 PROVE  (IF n <= k THEN mem'[n - 1] ELSE mem'[n])
                          = (IF n <= k THEN Elems[n] ELSE Elems[n + 1])
      OBVIOUS
    <2>1. n - 1 \in Slot /\ n \in Slot
      BY <1>1, CountedInRegion DEF DataInv, TypeOK, InRegion
    <2>2. \A s \in Slot : s # k => mem'[s] = mem[s]
      BY DEF DataInv, TypeOK
    <2>3. Elems[n] = mem[n - 1] /\ Elems[n + 1] = mem[n]
      BY <1>1
    <2> QED
      BY <2>1, <2>2, <2>3
  <1> QED
    BY <1>1, <1>3, <1>4

\* eraseAt removes the element at its index or refuses the index.
LEMMA EraseEffect ==
  ASSUME Ctx, NEW p \in Running, EraseAt(p)
  PROVE  Vector!EraseOk(p) \/ Vector!OutOfRange(p)
  <1> USE DEF Ctx, VectorInv, Running, Goto, Outcome
  <1>1. /\ pc[p] = "eraseAt" /\ op[p] = "eraseAt"
        /\ arg[p] \in Nat /\ size_ \in Nat
        /\ UNCHANGED <<size_, capacity_, op, arg, val>>
    BY DEF EraseAt, DataInv, TypeOK, LocalsAgree
  <1>2. CASE arg[p] >= size_
    <2>0. ~(arg[p] < size_)
      BY <1>1, <1>2
    <2>1. /\ res' = [res EXCEPT ![p] = "out_of_range"]
          /\ pc' = [pc EXCEPT ![p] = "done"]
          /\ UNCHANGED <<mem, i>>
      BY <2>0, Zenon DEF EraseAt
    <2>2. Vector!Effect(p, "eraseAt", "out_of_range")
      BY <1>1, <2>1, EffectStep DEF StatusOf, Labels
    <2>3. Elems' = Elems
      BY <1>1, <2>1, ElemsKept DEF Labels
    <2>4. Len(Elems) = size_
      BY <1>1, HolderElems DEF InCS, Critical
    <2> QED
      BY <1>1, <1>2, <2>2, <2>3, <2>4 DEF Vector!OutOfRange
  <1>3. CASE arg[p] < size_
    <2>0. ~(arg[p] >= size_)
      BY <1>1, <1>3
    <2>1. Destroy(p, arg[p])
      BY <2>0, Zenon DEF EraseAt
    <2>2. /\ res' = [res EXCEPT ![p] = "ok"]
          /\ pc' = [pc EXCEPT ![p] = "shift"]
      BY <2>1 DEF Destroy
    <2>3. Vector!Effect(p, "eraseAt", "ok")
      BY <1>1, <2>2, EffectStep DEF StatusOf, Labels, Critical
    <2>4. /\ Len(Elems) = size_
          /\ Elems' = [n \in 1 .. Len(Elems) - 1 |->
                         IF n <= arg[p] THEN Elems[n] ELSE Elems[n + 1]]
      BY <1>1, <1>3, <2>1, DestroyRemoves
    <2> QED
      BY <1>1, <1>3, <2>3, <2>4 DEF Vector!EraseOk, Vector!RemoveIndex
  <1> QED
    BY <1>1, <1>2, <1>3

\* getNextElement takes the first element or finds none.
LEMMA NextEffect ==
  ASSUME Ctx, NEW p \in Running, GetNextElement(p)
  PROVE  Vector!NextOk(p) \/ Vector!NextEmpty(p)
  <1> USE DEF Ctx, VectorInv, Running, Goto, Outcome
  <1>1. /\ pc[p] = "getNextElement" /\ op[p] = "getNextElement"
        /\ size_ \in Nat
        /\ UNCHANGED <<size_, capacity_, op, arg>>
    BY DEF GetNextElement, DataInv, TypeOK, LocalsAgree
  <1>2. CASE size_ = 0
    <2>1. /\ res' = [res EXCEPT ![p] = "out_of_range"]
          /\ pc' = [pc EXCEPT ![p] = "unlock"]
          /\ UNCHANGED <<mem, i, val>>
      BY <1>1, <1>2 DEF GetNextElement
    <2>2. Vector!Effect(p, "getNextElement", "out_of_range")
      BY <1>1, <2>1, EffectStep DEF StatusOf, Labels, Critical
    <2>3. Elems' = Elems
      BY <1>1, <2>1, ElemsKept DEF Labels, Critical
    <2>4. Len(Elems) = size_ /\ Elems \in Seq(Element \cup {Raw})
      BY <1>1, HolderElems DEF InCS, Critical
    <2>5. Elems = <<>>
      BY <1>2, <2>4
    <2> QED
      BY <1>1, <2>1, <2>2, <2>3, <2>5 DEF Vector!NextEmpty
  <1>3. CASE size_ > 0
    <2>1. Destroy(p, 0) /\ val' = [val EXCEPT ![p] = mem[0]]
      BY <1>1, <1>3 DEF GetNextElement
    <2>2. /\ res' = [res EXCEPT ![p] = "ok"]
          /\ pc' = [pc EXCEPT ![p] = "shift"]
      BY <2>1 DEF Destroy
    <2>3. Vector!Effect(p, "getNextElement", "ok")
      BY <1>1, <2>2, EffectStep DEF StatusOf, Labels, Critical
    <2>4. /\ Len(Elems) = size_
          /\ Elems = [n \in 1 .. size_ |-> mem[n - 1]]
          /\ Elems' = [n \in 1 .. Len(Elems) - 1 |->
                         IF n <= 0 THEN Elems[n] ELSE Elems[n + 1]]
      BY <1>1, <1>3, <2>1, DestroyRemoves
    <2>5. Elems # <<>> /\ Elems[1] = mem[0]
      <3>1. Len(<<>>) = 0
        OBVIOUS
      <3>2. 1 \in 1 .. size_ /\ 1 - 1 = 0
        BY <1>1, <1>3
      <3>3. Elems[1] = mem[1 - 1]
        BY <2>4, <3>2
      <3> QED BY <1>3, <2>4, <3>1, <3>2, <3>3
    <2> QED
      BY <1>1, <2>1, <2>3, <2>4, <2>5 DEF Vector!NextOk, Vector!RemoveIndex
  <1> QED
    BY <1>1, <1>2, <1>3

\* The destructor empties the vector.
LEMMA DestructEffect ==
  ASSUME Ctx, Destruct
  PROVE  Vector!Destruct
  <1> USE DEF Ctx, VectorInv, Running, Destruct, locals
  <1>1. PICK p \in Running : pc[p] = "idle" /\ pc'[p] = "gone"
    BY DEF DataInv, TypeOK
  <1>2. Destructed'
    BY <1>1 DEF Destructed
  <1>3. Elems' = <<>>
    BY <1>2, ElemsDestructedPrime
  <1>4. Status \in [Process -> {"idle", "called", "done", "gone"}]
    BY DEF Status, StatusOf
  <1>5. Status' \in [Process -> {"idle", "called", "done", "gone"}]
    BY DEF Status, StatusOf
  <1>6. \A q \in Process : \/ Status[q] = "idle" /\ Status'[q] = "gone"
                           \/ Status'[q] = Status[q]
    BY DEF Status, StatusOf
  <1>7. Status' # Status
    BY <1>1 DEF Status, StatusOf
  <1> QED
    BY <1>3, <1>5, <1>6, <1>7 DEF Vector!Destruct, Status

-----------------------------------------------------------------------------
\* Every step of the vector is a step of the atomic one, or stutters.
LEMMA StepRefines ==
  ASSUME NoWrap, Ctx, [Next]_vars
  PROVE  [Vector!Next]_(Vector!vars)
  <1>1. ASSUME NEW p \in Running, Calls(p) PROVE Vector!Next
    BY <1>1, CallsInvoke DEF Vector!Next, Vector!Act, Running
  <1>2. ASSUME NEW p \in Running, Step(p)
        PROVE  Vector!Next \/ UNCHANGED Vector!vars
    <2>1. CASE Acquire(p) \/ Release(p) \/ Deref(p)
      BY <2>1, SilentSteps
    <2>2. CASE Construct(p)
      BY <2>2, ConstructSilent
    <2>3. CASE ShiftStep(p)
      BY <2>3, ShiftSilent
    <2>4. CASE PushBack(p)
      BY <2>4, PushBackEffect DEF Vector!Next, Vector!Act, Running
    <2>5. CASE ReserveFast(p)
      BY <2>5, ReserveFastEffect DEF Vector!Next, Vector!Act, Running
    <2>6. ASSUME Vector!Act(p) PROVE Vector!Next
      BY <2>6 DEF Vector!Next, Running
    <2>7. CASE Return(p) \/ Reserve(p) \/ IncrementSize(p) \/ At(p) \/ Size(p)
               \/ Capacity(p) \/ EraseAt(p) \/ GetNextElement(p)
      BY <2>6, <2>7, ReturnResponds, ReserveEffect, IncrementEffect, AtEffect,
         SizeEffect, CapacityEffect, EraseEffect, NextEffect DEF Vector!Act
    <2> QED
      BY <1>2, <2>1, <2>2, <2>3, <2>4, <2>5, <2>7 DEF Step
  <1>3. ASSUME NEW p \in Running, Crash(p) PROVE UNCHANGED Vector!vars
    BY <1>3, SilentSteps
  <1>4. CASE Destruct
    BY <1>4, DestructEffect DEF Vector!Next
  <1>5. CASE UNCHANGED vars
    <2>1. Elems' = Elems
      BY <1>5 DEF vars, Elems, NumElems, Gap, Shifting, Destructed
    <2>2. [q \in Process |-> StatusOf(pc[q])]'
            = [q \in Process |-> StatusOf(pc[q])]
      BY <1>5 DEF vars
    <2> QED
      BY <1>5, <2>1, <2>2 DEF vars, Vector!vars
  <1> QED
    BY <1>1, <1>2, <1>3, <1>4, <1>5 DEF Next

(***************************************************************************)
(* The spinlock-protected vector is linearizable: it implements the atomic *)
(* vector of ThreadSafeVector.                                             *)
(***************************************************************************)
THEOREM VectorLinearizable == ASSUME NoWrap PROVE Spec => Linearizable
  <1>1. Init => Vector!Init
    <2> SUFFICES ASSUME Init PROVE Vector!Init
      OBVIOUS
    <2>1. Elems = <<>>
      BY DEF Init, Elems, NumElems, Shifting, Destructed
    <2> QED
      BY <2>1 DEF Init, Vector!Init, StatusOf
  <1>2. VectorInv /\ VectorInv' /\ [Next]_vars => [Vector!Next]_(Vector!vars)
    BY StepRefines DEF Ctx, VectorInv
  <1> QED
    BY <1>1, <1>2, VectorInvariant, PTL DEF Spec, Linearizable, Vector!Spec
=============================================================================
