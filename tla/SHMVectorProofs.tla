-------------------------- MODULE SHMVectorProofs --------------------------
(***************************************************************************)
(* Machine-checked proofs about SHMVector, for every set of processes and  *)
(* elements, every region and segment size, and every set of arguments.    *)
(***************************************************************************)
EXTENDS SHMVectorRefinement, TLAPS

-----------------------------------------------------------------------------
(***************************************************************************)
(* Arithmetic of segments.                                                 *)
(***************************************************************************)

\* A multiple of the segment size grows with the number of segments.
LEMMA BytesMonotone ==
  ASSUME NEW m \in Nat, NEW n \in Nat, m <= n
  PROVE  m * SegmentSize <= n * SegmentSize
  <1>1. PICK k \in Nat : n = m + k
    <2>1. n - m \in Nat /\ n = m + (n - m)
      OBVIOUS
    <2> QED BY <2>1
  <1>2. n * SegmentSize = m * SegmentSize + k * SegmentSize
    BY <1>1, VectorAssumption
  <1>3. k * SegmentSize \in Nat
    BY <1>1, VectorAssumption
  <1> QED BY <1>2, <1>3, VectorAssumption

\* n segments take at least n bytes.
LEMMA BytesAtLeast ==
  ASSUME NEW n \in Nat
  PROVE  n <= n * SegmentSize
  <1>1. PICK k \in Nat : SegmentSize = 1 + k
    <2>1. SegmentSize - 1 \in Nat /\ SegmentSize = 1 + (SegmentSize - 1)
      BY VectorAssumption
    <2> QED BY <2>1
  <1>2. n * SegmentSize = n + n * k /\ n * k \in Nat
    BY <1>1
  <1> QED BY <1>2

\* The segments below a capacity that fits the region are in the region.
LEMMA SlotBelow ==
  ASSUME NEW n \in Nat, n * SegmentSize <= MemoryBytes,
         NEW s \in Nat, s < n
  PROVE  s \in Slot
  <1>1. (s + 1) * SegmentSize <= n * SegmentSize
    BY BytesMonotone
  <1>2. s + 1 <= (s + 1) * SegmentSize
    BY BytesAtLeast
  <1>3. (s + 1) * SegmentSize \in Nat /\ n * SegmentSize \in Nat
    BY VectorAssumption
  <1>4. (s + 1) * SegmentSize <= MemoryBytes /\ s <= MemoryBytes
    BY <1>1, <1>2, <1>3, VectorAssumption
  <1> QED BY <1>4, VectorAssumption DEF Slot

\* A number below SizeT is its own remainder.
LEMMA NoRemainder ==
  ASSUME NEW n \in Nat, n < SizeT
  PROVE  n % SizeT = n
  BY VectorAssumption

\* reserve's check is exact for arguments that do not wrap.
LEMMA ReserveFits ==
  ASSUME NoWrap, NEW n \in Count
  PROVE  Fits(n) <=> n * SegmentSize <= MemoryBytes
  <1>1. n * SegmentSize \in Nat /\ n * SegmentSize < SizeT
    BY VectorAssumption DEF NoWrap
  <1> QED BY <1>1, NoRemainder DEF Fits

\* push_back's doubling is exact for a capacity that fits the region.
LEMMA DoublingFits ==
  ASSUME capacity_ \in Nat, capacity_ * SegmentSize <= MemoryBytes
  PROVE  /\ new_capacity = IF capacity_ = 0 THEN 1 ELSE 2 * capacity_
         /\ new_capacity \in Nat
         /\ capacity_ < new_capacity
         /\ Fits(new_capacity) => new_capacity * SegmentSize <= MemoryBytes
  <1>1. capacity_ <= capacity_ * SegmentSize /\ capacity_ * SegmentSize \in Nat
    BY BytesAtLeast, VectorAssumption
  <1>2. capacity_ * 2 < SizeT
    BY <1>1, VectorAssumption
  <1>3. new_capacity = IF capacity_ = 0 THEN 1 ELSE 2 * capacity_
    BY <1>2, NoRemainder DEF new_capacity
  <1>4. new_capacity \in Nat /\ capacity_ < new_capacity
    BY <1>3
  <1>5. CASE capacity_ = 0
    <2>1. new_capacity * SegmentSize = SegmentSize
      BY <1>3, <1>5, VectorAssumption
    <2> QED
      BY <2>1, <1>3, <1>4, NoRemainder, VectorAssumption DEF Fits
  <1>6. CASE capacity_ # 0
    <2>1. new_capacity * SegmentSize = 2 * (capacity_ * SegmentSize)
      BY <1>3, <1>6, VectorAssumption
    <2>2. new_capacity * SegmentSize \in Nat
          /\ new_capacity * SegmentSize < SizeT
      BY <2>1, <1>1, VectorAssumption
    <2> QED BY <2>2, <1>3, <1>4, NoRemainder DEF Fits
  <1> QED BY <1>5, <1>6

\* A doubling that push_back rejects does not fit.
LEMMA DoublingRejects ==
  ASSUME capacity_ \in Nat, capacity_ * SegmentSize <= MemoryBytes,
         ~Fits(new_capacity)
  PROVE  new_capacity * SegmentSize > MemoryBytes
  <1>1. capacity_ <= capacity_ * SegmentSize /\ capacity_ * SegmentSize \in Nat
    BY BytesAtLeast, VectorAssumption
  <1>2. new_capacity = IF capacity_ = 0 THEN 1 ELSE 2 * capacity_
    BY DoublingFits
  <1>3. new_capacity * SegmentSize
          = IF capacity_ = 0 THEN SegmentSize ELSE 2 * (capacity_ * SegmentSize)
    BY <1>2, VectorAssumption
  <1>4. new_capacity * SegmentSize \in Nat /\ new_capacity * SegmentSize < SizeT
    BY <1>1, <1>3, VectorAssumption
  <1> QED BY <1>4, NoRemainder, VectorAssumption DEF Fits

-----------------------------------------------------------------------------
(***************************************************************************)
(* The lock.  This part needs nothing about memory or arithmetic.          *)
(***************************************************************************)
LockOps == {"reserve", "push_back", "at", "size", "eraseAt", "getNextElement"}

LockInv ==
  /\ lock_ \in BOOLEAN
  /\ pc \in [Process -> Labels]
  /\ op \in [Process -> AllOps \cup {"none"}]
  /\ \A p \in Process : pc[p] = "fast" => op[p] = "reserve"
  /\ \A p \in Process : pc[p] = "spin" => op[p] \in LockOps
  /\ MutualExclusion

\* The constructor leaves the flag clear and nobody in a call.
LEMMA LockInvInit == Init => LockInv
  BY DEF Init, LockInv, MutualExclusion, InCS, Critical, Labels, AllOps

\* Every step of a call preserves LockInv, one case per action.
LEMMA LockInvStep ==
  ASSUME LockInv, NEW p \in Process, Step(p)
  PROVE  LockInv'
  <1> USE DEF LockInv, MutualExclusion, InCS, Critical, Labels, AllOps,
              LockOps, Goto, Outcome, locals
  <1>1. CASE Acquire(p)
    BY <1>1 DEF Acquire
  <1>2. CASE Release(p)
    BY <1>2 DEF Release
  <1>3. CASE Return(p)
    BY <1>3 DEF Return
  <1>4. CASE ReserveFast(p)
    BY <1>4 DEF ReserveFast
  <1>5. CASE Reserve(p)
    BY <1>5 DEF Reserve
  <1>6. CASE PushBack(p)
    BY <1>6 DEF PushBack
  <1>7. CASE Construct(p)
    BY <1>7 DEF Construct
  <1>8. CASE IncrementSize(p)
    BY <1>8 DEF IncrementSize
  <1>9. CASE At(p)
    BY <1>9 DEF At
  <1>10. CASE Deref(p)
    BY <1>10 DEF Deref
  <1>11. CASE Size(p)
    BY <1>11 DEF Size
  <1>12. CASE Capacity(p)
    BY <1>12 DEF Capacity
  <1>13. CASE EraseAt(p)
    BY <1>13 DEF EraseAt, Destroy
  <1>14. CASE GetNextElement(p)
    BY <1>14 DEF GetNextElement, Destroy
  <1>15. CASE ShiftStep(p)
    BY <1>15 DEF ShiftStep
  <1> QED
    BY <1>1, <1>2, <1>3, <1>4, <1>5, <1>6, <1>7, <1>8, <1>9, <1>10, <1>11,
       <1>12, <1>13, <1>14, <1>15 DEF Step

\* So do calls, crashes and the destructor.
LEMMA LockInvNext == LockInv /\ [Next]_vars => LockInv'
  <1> SUFFICES ASSUME LockInv, [Next]_vars PROVE LockInv'
    OBVIOUS
  <1>1. ASSUME NEW p \in Running, Calls(p) PROVE LockInv'
    BY <1>1 DEF Calls, Call, LockInv, MutualExclusion, InCS, Critical, Labels,
                AllOps, LockOps, Goto, Running
  <1>2. ASSUME NEW p \in Running, Step(p) PROVE LockInv'
    BY <1>2, LockInvStep DEF Running
  <1>3. ASSUME NEW p \in Running, Crash(p) PROVE LockInv'
    BY <1>3 DEF Crash, LockInv, MutualExclusion, InCS, locals
  <1>4. CASE Destruct
    BY <1>4 DEF Destruct, LockInv, MutualExclusion, InCS, Critical, Labels,
                locals
  <1>5. CASE UNCHANGED vars
    BY <1>5 DEF vars, LockInv, MutualExclusion, InCS
  <1> QED
    BY <1>1, <1>2, <1>3, <1>4, <1>5 DEF Next

(***************************************************************************)
(* The spinlock excludes: at most one process is between test_and_set and  *)
(* clear, whatever the arguments, and even when holders crash.             *)
(***************************************************************************)
THEOREM LockExcludes == Spec => []MutualExclusion
  <1>1. LockInv => MutualExclusion
    BY DEF LockInv
  <1> QED
    BY LockInvInit, LockInvNext, <1>1, PTL DEF Spec

(***************************************************************************)
(* Which operation a holder is in.  EntryInv says that the body a process  *)
(* runs first under the lock is the one of the operation it was called     *)
(* for, so that an exit of eraseAt is an exit of a call of eraseAt.        *)
(***************************************************************************)
EntryInv ==
  /\ res \in [Process -> {"none", "ok", "bad_alloc", "out_of_range"}]
  /\ \A p \in Process : pc[p] \in LockOps => op[p] = pc[p]

\* A step enters a body only through Acquire, which jumps to op[p].
LEMMA EntryInvNext == LockInv /\ EntryInv /\ [Next]_vars => EntryInv'
  <1> SUFFICES ASSUME LockInv, EntryInv, [Next]_vars PROVE EntryInv'
    OBVIOUS
  <1> USE DEF LockInv, EntryInv, Labels, Critical, LockOps, Goto, Outcome,
              locals
  <1>1. ASSUME NEW p \in Running, Calls(p) PROVE EntryInv'
    BY <1>1 DEF Calls, Call, Running
  <1>2. ASSUME NEW p \in Running, Step(p) PROVE EntryInv'
    <2>1. CASE Acquire(p) \/ Release(p) \/ Return(p)
      BY <2>1 DEF Acquire, Release, Return, Running
    <2>2. CASE ReserveFast(p) \/ Reserve(p)
      BY <2>2 DEF ReserveFast, Reserve, Running
    <2>3. CASE PushBack(p) \/ Construct(p) \/ IncrementSize(p)
      BY <2>3 DEF PushBack, Construct, IncrementSize, Running
    <2>4. CASE At(p) \/ Deref(p) \/ Size(p) \/ Capacity(p)
      BY <2>4 DEF At, Deref, Size, Capacity, Running
    <2>5. CASE EraseAt(p) \/ GetNextElement(p)
      BY <2>5 DEF EraseAt, GetNextElement, Destroy, Running
    <2>6. CASE ShiftStep(p)
      BY <2>6 DEF ShiftStep, Running
    <2> QED BY <1>2, <2>1, <2>2, <2>3, <2>4, <2>5, <2>6 DEF Step
  <1>3. ASSUME NEW p \in Running, Crash(p) PROVE EntryInv'
    BY <1>3 DEF Crash
  <1>4. CASE Destruct
    BY <1>4 DEF Destruct
  <1>5. CASE UNCHANGED vars
    BY <1>5 DEF vars
  <1> QED BY <1>1, <1>2, <1>3, <1>4, <1>5 DEF Next

\* What a step that leaves a critical section with the flag set must be.
Leaks(p) == InCS(p) /\ ~InCS(p)' /\ lock_'

LeakIsEraseAt(p) == op[p] = "eraseAt" /\ res'[p] = "out_of_range"

\* Release clears the flag; no other step but EraseAt's exception leaves.
LEMMA LeakStep ==
  ASSUME LockInv, EntryInv, [Next]_vars, NEW q \in Process, Leaks(q)
  PROVE  LeakIsEraseAt(q)
  <1> USE DEF LockInv, EntryInv, Labels, Critical, LockOps, Goto, Outcome,
              locals, InCS, Leaks, LeakIsEraseAt
  <1>1. ASSUME NEW p \in Running, Calls(p) PROVE FALSE
    BY <1>1 DEF Calls, Call, Running
  <1>2. ASSUME NEW p \in Running, Step(p) PROVE LeakIsEraseAt(q)
    <2>1. CASE Acquire(p) \/ Release(p) \/ Return(p)
      BY <2>1 DEF Acquire, Release, Return, Running
    <2>2. CASE ReserveFast(p) \/ Reserve(p)
      BY <2>2 DEF ReserveFast, Reserve, Running
    <2>3. CASE PushBack(p) \/ Construct(p) \/ IncrementSize(p)
      BY <2>3 DEF PushBack, Construct, IncrementSize, Running
    <2>4. CASE At(p) \/ Deref(p) \/ Size(p) \/ Capacity(p)
      BY <2>4 DEF At, Deref, Size, Capacity, Running
    <2>5. CASE EraseAt(p) \/ GetNextElement(p)
      BY <2>5 DEF EraseAt, GetNextElement, Destroy, Running
    <2>6. CASE ShiftStep(p)
      BY <2>6 DEF ShiftStep, Running
    <2> QED BY <1>2, <2>1, <2>2, <2>3, <2>4, <2>5, <2>6 DEF Step
  <1>3. ASSUME NEW p \in Running, Crash(p) PROVE FALSE
    BY <1>3 DEF Crash
  <1>4. ~Destruct
    <2>1. SUFFICES ASSUME Destruct PROVE FALSE
      OBVIOUS
    <2>2. q \in Running => pc[q] = "idle"
      BY <2>1 DEF Destruct
    <2> QED BY <2>1, <2>2 DEF Destruct
  <1>5. CASE UNCHANGED vars
    BY <1>5 DEF vars
  <1> QED BY <1>1, <1>2, <1>3, <1>4, <1>5 DEF Next

(***************************************************************************)
(* The out_of_range exception of eraseAt is the only way out of a critical *)
(* section that leaves the flag set, whatever the arguments.               *)
(***************************************************************************)
THEOREM OnlyOneLeak == Spec => OnlyEraseAtLeaks
  <1>1. Init => EntryInv
    BY DEF Init, EntryInv, LockOps
  <1>2. LockInv /\ EntryInv /\ [Next]_vars =>
          [\A p \in Process : InCS(p) /\ ~InCS(p)' /\ lock_' =>
             op[p] = "eraseAt" /\ res'[p] = "out_of_range"]_vars
    BY LeakStep DEF Leaks, LeakIsEraseAt
  <1> QED
    BY LockInvInit, LockInvNext, EntryInvNext, <1>1, <1>2, PTL
    DEF Spec, OnlyEraseAtLeaks

-----------------------------------------------------------------------------
(***************************************************************************)
(* Types, the region and the locals of calls.  They need each other: a     *)
(* segment read is in the region because the index is below size_, and     *)
(* size_ is below the capacity because the lock keeps it there.            *)
(***************************************************************************)
DataInv == TypeOK /\ LocalsAgree /\ InRegion

\* The constructor makes an empty vector of no capacity.
LEMMA DataInvInit == Init => DataInv
  <1> SUFFICES ASSUME Init PROVE DataInv
    OBVIOUS
  <1> USE VectorAssumption DEF Init
  <1>1. TypeOK
    BY DEF TypeOK, Labels
  <1>2. LocalsAgree
    BY DEF LocalsAgree, Destructed
  <1>3. InRegion
    BY DEF InRegion
  <1> QED
    BY <1>1, <1>2, <1>3 DEF DataInv

\* What is below size_ is in the region.
LEMMA CountedInRegion ==
  ASSUME DataInv, NEW s \in Nat, s < capacity_
  PROVE  s \in Slot /\ mem[s] \in Element \cup {Raw}
  BY SlotBelow DEF DataInv, InRegion, TypeOK

\* Every step of a call preserves DataInv, one case per action.
LEMMA DataInvStep ==
  ASSUME NoWrap, LockInv, DataInv, NEW p \in Running, Step(p)
  PROVE  DataInv'
  <1> USE VectorAssumption
      DEF DataInv, TypeOK, LocalsAgree, InRegion, LockInv, MutualExclusion,
          InCS, Critical, Labels, AllOps, LockOps, Destructed, Running, Goto,
          Outcome, locals
  <1>1. CASE Acquire(p)
    <2>1. TypeOK'
      BY <1>1 DEF Acquire
    <2>2. LocalsAgree'
      BY <1>1 DEF Acquire
    <2>3. InRegion'
      BY <1>1 DEF Acquire
    <2> QED BY <2>1, <2>2, <2>3
  <1>2. CASE Release(p)
    <2>1. TypeOK'
      BY <1>2 DEF Release
    <2>2. LocalsAgree'
      BY <1>2 DEF Release
    <2>3. InRegion'
      BY <1>2 DEF Release
    <2> QED BY <2>1, <2>2, <2>3
  <1>3. CASE Return(p)
    <2>1. TypeOK'
      BY <1>3 DEF Return
    <2>2. LocalsAgree'
      BY <1>3 DEF Return
    <2>3. InRegion'
      BY <1>3 DEF Return
    <2> QED BY <2>1, <2>2, <2>3
  <1>4. CASE ReserveFast(p)
    <2>1. TypeOK'
      BY <1>4 DEF ReserveFast
    <2>2. LocalsAgree'
      BY <1>4 DEF ReserveFast
    <2>3. InRegion'
      BY <1>4 DEF ReserveFast
    <2> QED BY <2>1, <2>2, <2>3
  <1>5. CASE Reserve(p)
    <2>1. TypeOK'
      BY <1>5, ReserveFits DEF Reserve
    <2>2. LocalsAgree'
      BY <1>5, ReserveFits DEF Reserve
    <2>3. InRegion'
      BY <1>5, ReserveFits DEF Reserve
    <2> QED BY <2>1, <2>2, <2>3
  <1>6. CASE PushBack(p)
    <2>1. TypeOK'
      BY <1>6, DoublingFits DEF PushBack
    <2>2. LocalsAgree'
      BY <1>6, DoublingFits DEF PushBack
    <2>3. InRegion'
      BY <1>6, DoublingFits DEF PushBack
    <2> QED BY <2>1, <2>2, <2>3
  <1>7. CASE Construct(p)
    <2>1. TypeOK'
      BY <1>7 DEF Construct
    <2>2. LocalsAgree'
      BY <1>7, CountedInRegion DEF Construct
    <2>3. InRegion'
      BY <1>7 DEF Construct
    <2> QED BY <2>1, <2>2, <2>3
  <1>8. CASE IncrementSize(p)
    <2>1. TypeOK'
      BY <1>8 DEF IncrementSize
    <2>2. LocalsAgree'
      BY <1>8 DEF IncrementSize
    <2>3. InRegion'
      BY <1>8 DEF IncrementSize
    <2> QED BY <2>1, <2>2, <2>3
  <1>9. CASE At(p)
    <2>1. TypeOK'
      BY <1>9, CountedInRegion DEF At
    <2>2. LocalsAgree'
      BY <1>9 DEF At
    <2>3. InRegion'
      BY <1>9 DEF At
    <2> QED BY <2>1, <2>2, <2>3
  <1>10. CASE Deref(p)
    <2>1. TypeOK'
      BY <1>10 DEF Deref
    <2>2. LocalsAgree'
      BY <1>10 DEF Deref
    <2>3. InRegion'
      BY <1>10 DEF Deref
    <2> QED BY <2>1, <2>2, <2>3
  <1>11. CASE Size(p)
    <2>1. TypeOK'
      BY <1>11 DEF Size
    <2>2. LocalsAgree'
      BY <1>11 DEF Size
    <2>3. InRegion'
      BY <1>11 DEF Size
    <2> QED BY <2>1, <2>2, <2>3
  <1>12. CASE Capacity(p)
    <2>1. TypeOK'
      BY <1>12 DEF Capacity
    <2>2. LocalsAgree'
      BY <1>12 DEF Capacity
    <2>3. InRegion'
      BY <1>12 DEF Capacity
    <2> QED BY <2>1, <2>2, <2>3
  <1>13. CASE EraseAt(p)
    <2>1. TypeOK'
      BY <1>13 DEF EraseAt, Destroy
    <2>2. LocalsAgree'
      BY <1>13 DEF EraseAt, Destroy
    <2>3. InRegion'
      BY <1>13 DEF EraseAt, Destroy
    <2> QED BY <2>1, <2>2, <2>3
  <1>14. CASE GetNextElement(p)
    <2>1. TypeOK'
      <3>1. CASE size_ = 0
        BY <1>14, <3>1 DEF GetNextElement, Destroy
      <3>2. CASE size_ > 0
        <4>1. mem[0] \in Element \cup {Raw}
          BY <3>2, CountedInRegion
        <4> QED  BY <1>14, <3>2, <4>1 DEF GetNextElement, Destroy
      <3> QED  BY <3>1, <3>2
    <2>2. LocalsAgree'
      BY <1>14 DEF GetNextElement, Destroy
    <2>3. InRegion'
      BY <1>14 DEF GetNextElement, Destroy
    <2> QED BY <2>1, <2>2, <2>3
  <1>15. CASE ShiftStep(p)
    <2>1. TypeOK'
      <3>1. CASE i[p] < size_ - 1 /\ UNCHANGED size_
        <4>1. i[p] + 1 \in Nat /\ i[p] + 1 < capacity_
          BY <3>1
        <4>2. mem[i[p] + 1] \in Element \cup {Raw}
          BY <4>1, CountedInRegion
        <4>3. mem' \in [Slot -> Element \cup {Raw}]
          BY <1>15, <3>1, <4>2 DEF ShiftStep
        <4> QED  BY <1>15, <3>1, <4>1, <4>3 DEF ShiftStep
      <3>2. CASE i[p] >= size_ - 1 /\ UNCHANGED mem
        BY <1>15, <3>2 DEF ShiftStep
      <3> QED  BY <1>15, <3>1, <3>2 DEF ShiftStep
    <2>2. LocalsAgree'
      BY <1>15 DEF ShiftStep
    <2>3. InRegion'
      BY <1>15 DEF ShiftStep
    <2> QED BY <2>1, <2>2, <2>3
  <1> QED
    BY <1>1, <1>2, <1>3, <1>4, <1>5, <1>6, <1>7, <1>8, <1>9, <1>10, <1>11,
       <1>12, <1>13, <1>14, <1>15 DEF Step

\* So do calls, crashes and the destructor.
LEMMA DataInvNext ==
  NoWrap /\ LockInv /\ DataInv /\ [Next]_vars => DataInv'
  <1> SUFFICES ASSUME NoWrap, LockInv, DataInv, [Next]_vars PROVE DataInv'
    OBVIOUS
  <1> USE VectorAssumption
      DEF DataInv, TypeOK, LocalsAgree, InRegion, Labels, AllOps, Destructed,
          Running, locals
  <1>1. ASSUME NEW p \in Running, Calls(p) PROVE DataInv'
    <2> USE <1>1 DEF Calls, Call, Goto
    <2>1. TypeOK'
      OBVIOUS
    <2>2. LocalsAgree'
      OBVIOUS
    <2>3. InRegion'
      OBVIOUS
    <2> QED  BY <2>1, <2>2, <2>3
  <1>2. ASSUME NEW p \in Running, Step(p) PROVE DataInv'
    BY <1>2, DataInvStep
  <1>3. ASSUME NEW p \in Running, Crash(p) PROVE DataInv'
    BY <1>3 DEF Crash
  <1>4. CASE Destruct
    <2>1. TypeOK'
      BY <1>4 DEF Destruct, Critical
    <2>2. \A q \in Process : pc[q] = "increment" => mem'[size_] = mem[size_]
      BY <1>4, CountedInRegion DEF Destruct
    <2>3. LocalsAgree'
      BY <1>4, <2>2 DEF Destruct, Critical
    <2>4. InRegion'
      BY <1>4 DEF Destruct, Critical
    <2> QED BY <2>1, <2>3, <2>4
  <1>5. CASE UNCHANGED vars
    BY <1>5 DEF vars
  <1> QED
    BY <1>1, <1>2, <1>3, <1>4, <1>5 DEF Next

-----------------------------------------------------------------------------
(***************************************************************************)
(* Object lifetimes.                                                       *)
(***************************************************************************)

\* A step that moves nothing and neither enters nor leaves the three labels
\* the lifetimes depend on keeps them.
LEMMA LiveFrame ==
  ASSUME LiveSegments, UNCHANGED <<mem, size_>>,
         \A q \in Process : /\ pc'[q] = "shift" <=> pc[q] = "shift"
                            /\ pc[q] = "shift" => i'[q] = i[q]
                            /\ pc'[q] = "increment" <=> pc[q] = "increment"
                            /\ pc'[q] = "gone" <=> pc[q] = "gone"
  PROVE  LiveSegments'
  <1>1. Holes' = Holes
    BY DEF Holes
  <1>2. Uncounted' = Uncounted
    BY DEF Uncounted
  <1>3. Counted' = Counted
    BY DEF Counted, Destructed
  <1> QED
    BY <1>1, <1>2, <1>3 DEF LiveSegments

\* The holder of the lock is the only one that can have made a gap or
\* constructed an uncounted element.
LEMMA HolderAlone ==
  ASSUME LockInv, NEW p \in Process, InCS(p)
  PROVE  /\ pc[p] # "shift" => Holes = {}
         /\ pc[p] = "shift" => Holes = {i[p]}
         /\ pc[p] # "increment" => Uncounted = {}
         /\ pc[p] = "increment" => Uncounted = {size_}
  BY DEF LockInv, MutualExclusion, InCS, Holes, Uncounted, Critical

\* After its step too, wherever that has taken it.
LEMMA HolderMoves ==
  ASSUME LockInv, NEW p \in Process, InCS(p),
         NEW label, label # "gone", pc' = [pc EXCEPT ![p] = label]
  PROVE  /\ label # "shift" => Holes' = {}
         /\ label = "shift" => Holes' = {i'[p]}
         /\ label # "increment" => Uncounted' = {}
         /\ label = "increment" => Uncounted' = {size_'}
         /\ Destructed' <=> Destructed
  <1>1. pc \in [Process -> Labels] /\ pc[p] # "gone"
    BY DEF LockInv, InCS, Critical
  <1>2. \A q \in Process : q # p => /\ pc[q] \notin {"shift", "increment"}
                                    /\ pc'[q] = pc[q]
    BY <1>1 DEF LockInv, MutualExclusion, InCS, Critical
  <1>3. pc'[p] = label
    BY <1>1
  <1> QED
    BY <1>1, <1>2, <1>3 DEF Holes, Uncounted, Destructed

\* Destroying a counted element makes it the gap.
LEMMA LiveDestroy ==
  ASSUME LockInv, DataInv, LiveSegments, NEW p \in Process, InCS(p),
         pc[p] \notin {"shift", "increment"}, size_' = size_,
         NEW index \in Nat, index < size_, Destroy(p, index)
  PROVE  LiveSegments'
  <1>1. /\ mem' = [mem EXCEPT ![index] = Raw]
        /\ i'[p] = index
        /\ pc' = [pc EXCEPT ![p] = "shift"]
    BY DEF Destroy, Goto, DataInv, TypeOK
  <1>2. Holes = {} /\ Uncounted = {}
    BY HolderAlone
  <1>3. Holes' = {index} /\ Uncounted' = {} /\ Counted' = Counted
    BY <1>1, HolderMoves, Zenon DEF Counted
  <1>4. mem \in [Slot -> Element \cup {Raw}]
    BY DEF DataInv, TypeOK
  <1> QED
    BY <1>1, <1>2, <1>3, <1>4 DEF LiveSegments

\* One round of the shifting loop moves the gap up by one element; its exit
\* drops the gap with the last count.
LEMMA LiveShift ==
  ASSUME LockInv, DataInv, LiveSegments, NEW p \in Process, ShiftStep(p)
  PROVE  LiveSegments'
  <1>0. pc[p] = "shift" /\ InCS(p)
    BY DEF ShiftStep, InCS, Critical
  <1>1. /\ i[p] \in Nat /\ size_ \in Nat /\ i[p] < size_ /\ size_ <= capacity_
        /\ capacity_ \in Nat
        /\ mem \in [Slot -> Element \cup {Raw}]
        /\ i \in [Process -> Nat] /\ pc \in [Process -> Labels]
    BY <1>0 DEF DataInv, TypeOK, LocalsAgree, InRegion
  <1>2. Holes = {i[p]} /\ Uncounted = {}
    BY <1>0, HolderAlone
  <1>3. CASE i[p] < size_ - 1
    <2>1. /\ mem' = [mem EXCEPT ![i[p]] = mem[i[p] + 1], ![i[p] + 1] = Raw]
          /\ i'[p] = i[p] + 1 /\ size_' = size_
          /\ pc' = [pc EXCEPT ![p] = "shift"]
      BY <1>0, <1>1, <1>3 DEF ShiftStep
    <2>2. Holes' = {i[p] + 1} /\ Uncounted' = {} /\ Counted' = Counted
      BY <1>0, <2>1, HolderMoves, Zenon DEF Counted
    <2>3. i[p] \in Slot /\ i[p] + 1 \in Slot
      BY <1>1, <1>3, CountedInRegion
    <2>4. i[p] + 1 \in Counted <=> i[p] \in Counted
      BY <1>1, <1>3 DEF Counted
    <2> QED
      BY <1>1, <1>2, <2>1, <2>2, <2>3, <2>4 DEF LiveSegments
  <1>4. CASE i[p] >= size_ - 1
    <2>0. "unlock" # "shift" /\ "unlock" # "increment"
      OBVIOUS
    <2>1. pc' = [pc EXCEPT ![p] = "unlock"]
      BY <1>1, <1>4 DEF ShiftStep, Goto
    <2>2. mem' = mem /\ size_' = size_ - 1
      BY <1>1, <1>4 DEF ShiftStep
    <2>3. Holes' = {}
      BY <1>0, <2>0, <2>1, HolderMoves, Zenon
    <2>4. Uncounted' = {}
      BY <1>0, <2>0, <2>1, HolderMoves, Zenon
    <2>5. Destructed' <=> Destructed
      BY <1>0, <2>1, HolderMoves, Zenon
    <2>6. Counted' = Counted \ {i[p]}
      BY <1>1, <1>4, <2>2, <2>5 DEF Counted
    <2> QED
      BY <1>2, <2>2, <2>3, <2>4, <2>6 DEF LiveSegments
  <1> QED
    BY <1>1, <1>3, <1>4

\* push_back constructs in the first free segment and counts it afterwards.
LEMMA LiveConstruct ==
  ASSUME LockInv, DataInv, LiveSegments, NEW p \in Process, Construct(p)
  PROVE  LiveSegments'
  <1>1. /\ pc[p] = "construct" /\ InCS(p)
        /\ size_ \in Nat /\ size_ < capacity_ /\ capacity_ \in Nat
        /\ mem \in [Slot -> Element \cup {Raw}]
        /\ val[p] \in Element
    BY DEF Construct, InCS, Critical, DataInv, TypeOK, LocalsAgree, InRegion
  <1>2. /\ mem' = [mem EXCEPT ![size_] = val[p]] /\ size_' = size_
        /\ pc' = [pc EXCEPT ![p] = "increment"]
    BY DEF Construct, Goto
  <1>3. Holes = {} /\ Uncounted = {}
    BY <1>1, HolderAlone
  <1>4. Holes' = {} /\ Uncounted' = {size_} /\ Counted' = Counted
    BY <1>1, <1>2, HolderMoves, Zenon DEF Counted
  <1>5. size_ \in Slot /\ val[p] # Raw
    BY <1>1, CountedInRegion, VectorAssumption
  <1> QED
    BY <1>1, <1>2, <1>3, <1>4, <1>5 DEF LiveSegments

\* Only a live process counts, and none is in a call after the destructor.
LEMMA LiveIncrement ==
  ASSUME LockInv, DataInv, LiveSegments, NEW p \in Running, IncrementSize(p)
  PROVE  LiveSegments'
  <1>0. "unlock" # "shift" /\ "unlock" # "increment"
    OBVIOUS
  <1>1. p \in Process /\ pc[p] = "increment" /\ InCS(p)
    BY DEF IncrementSize, InCS, Critical, Running
  <1>2. size_ \in Nat /\ ~Destructed
    BY <1>1 DEF DataInv, TypeOK, LocalsAgree
  <1>3. pc' = [pc EXCEPT ![p] = "unlock"]
    BY DEF IncrementSize, Goto
  <1>4. size_' = size_ + 1 /\ mem' = mem
    BY DEF IncrementSize
  <1>5. Holes = {} /\ Uncounted = {size_}
    BY <1>1, HolderAlone
  <1>6. Holes' = {}
    BY <1>0, <1>1, <1>3, HolderMoves, Zenon
  <1>7. Uncounted' = {}
    BY <1>0, <1>1, <1>3, HolderMoves, Zenon
  <1>8. Destructed' <=> Destructed
    BY <1>1, <1>3, HolderMoves, Zenon
  <1>9. Counted = 0 .. size_ - 1 /\ Counted' = 0 .. size_
    BY <1>2, <1>4, <1>8 DEF Counted
  <1> QED
    BY <1>2, <1>4, <1>5, <1>6, <1>7, <1>9 DEF LiveSegments

\* Every step of a call preserves LiveSegments, one case per action.
LEMMA LiveStep ==
  ASSUME LockInv, DataInv, LiveSegments, NEW p \in Running, Step(p)
  PROVE  LiveSegments'
  <1>0. /\ p \in Process /\ pc \in [Process -> Labels]
        /\ i \in [Process -> Nat] /\ arg[p] \in Nat /\ size_ \in Nat
        /\ pc[p] = "spin" => op[p] \in LockOps
    BY DEF Running, LockInv, DataInv, TypeOK
  <1> USE <1>0 DEF Goto, locals
  <1>1. CASE Acquire(p)
    BY <1>1, LiveFrame DEF Acquire, LockOps
  <1>2. CASE Release(p)
    BY <1>2, LiveFrame DEF Release
  <1>3. CASE Return(p)
    BY <1>3, LiveFrame DEF Return
  <1>4. CASE ReserveFast(p)
    BY <1>4, LiveFrame DEF ReserveFast
  <1>5. CASE Reserve(p)
    BY <1>5, LiveFrame DEF Reserve
  <1>6. CASE PushBack(p)
    BY <1>6, LiveFrame DEF PushBack
  <1>7. CASE Construct(p)
    BY <1>7, LiveConstruct
  <1>8. CASE IncrementSize(p)
    BY <1>8, LiveIncrement
  <1>9. CASE At(p)
    BY <1>9, LiveFrame DEF At
  <1>10. CASE Deref(p)
    BY <1>10, LiveFrame DEF Deref
  <1>11. CASE Size(p)
    BY <1>11, LiveFrame DEF Size
  <1>12. CASE Capacity(p)
    BY <1>12, LiveFrame DEF Capacity
  <1>13. CASE EraseAt(p)
    <2>1. CASE arg[p] >= size_
      BY <1>13, <2>1, LiveFrame DEF EraseAt
    <2>2. CASE arg[p] < size_
      BY <1>13, <2>2, LiveDestroy DEF EraseAt, InCS, Critical
    <2> QED BY <2>1, <2>2
  <1>14. CASE GetNextElement(p)
    <2>1. CASE size_ = 0
      BY <1>14, <2>1, LiveFrame DEF GetNextElement
    <2>2. CASE size_ > 0
      BY <1>14, <2>2, LiveDestroy DEF GetNextElement, InCS, Critical
    <2> QED BY <2>1, <2>2
  <1>15. CASE ShiftStep(p)
    BY <1>15, LiveShift
  <1> QED
    BY <1>1, <1>2, <1>3, <1>4, <1>5, <1>6, <1>7, <1>8, <1>9, <1>10, <1>11,
       <1>12, <1>13, <1>14, <1>15 DEF Step

\* The empty vector has no live segment.
LEMMA LiveInit == Init => LiveSegments
  BY DEF Init, LiveSegments, Holes, Uncounted, Counted, Destructed

\* Calls, crashes and the destructor preserve LiveSegments.
LEMMA LiveNext ==
  LockInv /\ DataInv /\ LiveSegments /\ [Next]_vars => LiveSegments'
  <1> SUFFICES ASSUME LockInv, DataInv, LiveSegments, [Next]_vars
               PROVE  LiveSegments'
    OBVIOUS
  <1>0. /\ pc \in [Process -> Labels] /\ size_ \in Nat
        /\ mem \in [Slot -> Element \cup {Raw}]
    BY DEF DataInv, TypeOK
  <1>1. ASSUME NEW p \in Running, Calls(p) PROVE LiveSegments'
    BY <1>0, <1>1, LiveFrame DEF Calls, Call, Goto, Running
  <1>2. ASSUME NEW p \in Running, Step(p) PROVE LiveSegments'
    BY <1>2, LiveStep
  <1>3. ASSUME NEW p \in Running, Crash(p) PROVE LiveSegments'
    BY <1>3, LiveFrame DEF Crash, locals
  <1>4. CASE Destruct
    <2>1. /\ mem' = [s \in Slot |-> IF s < size_ THEN Raw ELSE mem[s]]
          /\ size_' = size_ /\ i' = i
          /\ pc' = [q \in Process |-> IF q \in Running THEN "gone" ELSE pc[q]]
          /\ Running \subseteq Process /\ Running # {}
          /\ \A q \in Running : pc[q] = "idle"
      BY <1>4 DEF Destruct, locals, Running
    <2>2. Holes' = Holes /\ Uncounted' = Uncounted
      BY <1>0, <2>1 DEF Holes, Uncounted
    <2>3. Counted' = {} /\ Counted = 0 .. size_ - 1
      BY <1>0, <2>1 DEF Counted, Destructed, DataInv, LocalsAgree
    <2>4. \A s \in Uncounted : s >= size_
      BY <1>0 DEF Uncounted
    <2>5. Slot \subseteq Nat
      BY VectorAssumption DEF Slot
    <2> QED
      BY <1>0, <2>1, <2>2, <2>3, <2>4, <2>5 DEF LiveSegments
  <1>5. CASE UNCHANGED vars
    BY <1>5, LiveFrame DEF vars, locals
  <1> QED
    BY <1>1, <1>2, <1>3, <1>4, <1>5 DEF Next

-----------------------------------------------------------------------------
(***************************************************************************)
(* The capacity.                                                           *)
(***************************************************************************)

\* No step lowers the capacity.
LEMMA CapacityStep ==
  NoWrap /\ DataInv /\ [Next]_vars => capacity_' >= capacity_
  <1> SUFFICES ASSUME NoWrap, DataInv, [Next]_vars
               PROVE  capacity_' >= capacity_
    OBVIOUS
  <1> USE DEF DataInv, TypeOK, InRegion, LocalsAgree
  <1>1. ASSUME NEW p \in Running, Calls(p) PROVE capacity_' = capacity_
    BY <1>1 DEF Calls, Call
  <1>2. ASSUME NEW p \in Running, Step(p) PROVE capacity_' >= capacity_
    <2>1. CASE Reserve(p)
      BY <2>1 DEF Reserve, Running
    <2>2. CASE PushBack(p)
      BY <2>2, DoublingFits DEF PushBack
    <2>3. CASE ~Reserve(p) /\ ~PushBack(p)
      <3>1. capacity_' = capacity_
        BY <1>2, <2>3, Zenon DEF Step, Acquire, Release, Return, ReserveFast,
           Construct, IncrementSize, At, Deref, Size, Capacity, EraseAt,
           GetNextElement, ShiftStep
      <3> QED BY <3>1
    <2> QED BY <2>1, <2>2, <2>3
  <1>3. ASSUME NEW p \in Running, Crash(p) PROVE capacity_' = capacity_
    BY <1>3 DEF Crash
  <1>4. Destruct => capacity_' = capacity_
    BY DEF Destruct
  <1>5. UNCHANGED vars => capacity_' = capacity_
    BY DEF vars
  <1> QED
    BY <1>1, <1>2, <1>3, <1>4, <1>5 DEF Next

\* What reserve() granted stays granted.
LEMMA ReserveKeptNext ==
  NoWrap /\ DataInv /\ DataInv' /\ ReserveKept /\ [Next]_vars => ReserveKept'
  <1> SUFFICES ASSUME NoWrap, DataInv, DataInv', ReserveKept, [Next]_vars
               PROVE  ReserveKept'
    OBVIOUS
  <1>0. capacity_' >= capacity_
    BY CapacityStep
  <1>types. /\ capacity_ \in Nat /\ capacity_' \in Nat
            /\ arg \in [Process -> Nat]
            /\ op \in [Process -> AllOps \cup {"none"}]
            /\ res \in [Process -> {"none", "ok", "bad_alloc", "out_of_range"}]
            /\ pc \in [Process -> Labels]
            /\ Running \subseteq Process
    BY DEF DataInv, TypeOK, Running
  <1>agree. \A q \in Process :
              /\ pc[q] \in {"fast", "reserve"} => op[q] = "reserve"
              /\ pc[q] \in {"push_back", "construct", "increment"} =>
                   op[q] = "push_back"
              /\ pc[q] \in {"at", "size", "capacity", "eraseAt",
                            "getNextElement"} => op[q] = pc[q]
              /\ pc[q] \notin {"shift", "unlock", "deref", "done"} =>
                   res[q] = "none"
    BY DEF DataInv, LocalsAgree
  <1> USE <1>0, <1>types, <1>agree DEF ReserveKept, locals, Goto, Outcome
  <1>1. ASSUME NEW p \in Running, Calls(p) PROVE ReserveKept'
    <2>1. pc[p] = "idle" /\ UNCHANGED <<capacity_, res>>
      BY <1>1, Zenon DEF Calls, Call
    <2>2. \A q \in Process \ {p} : op'[q] = op[q] /\ arg'[q] = arg[q]
      BY <1>1 DEF Calls, Call
    <2>3. res[p] = "none"
      BY <2>1
    <2> QED BY <2>1, <2>2, <2>3
  <1>2. ASSUME NEW p \in Running, Step(p) PROVE ReserveKept'
    <2>1. CASE Reserve(p)
      BY <2>1 DEF Reserve
    <2>2. CASE ReserveFast(p)
      BY <2>2 DEF ReserveFast
    <2>3. CASE PushBack(p)
      BY <2>3 DEF PushBack
    <2>4. CASE Acquire(p) \/ Release(p) \/ Return(p) \/ Construct(p)
      BY <2>4 DEF Acquire, Release, Return, Construct
    <2>5. CASE IncrementSize(p) \/ At(p) \/ Deref(p)
      BY <2>5 DEF IncrementSize, At, Deref
    <2>9. CASE Size(p) \/ Capacity(p)
      BY <2>9 DEF Size, Capacity
    <2>6. CASE EraseAt(p)
      BY <2>6 DEF EraseAt, Destroy
    <2>7. CASE GetNextElement(p)
      BY <2>7 DEF GetNextElement, Destroy
    <2>8. CASE ShiftStep(p)
      BY <2>8 DEF ShiftStep
    <2> QED
      BY <1>2, <2>1, <2>2, <2>3, <2>4, <2>5, <2>6, <2>7, <2>8, <2>9 DEF Step
  <1>3. ASSUME NEW p \in Running, Crash(p) PROVE ReserveKept'
    BY <1>3 DEF Crash
  <1>4. CASE Destruct
    BY <1>4 DEF Destruct
  <1>5. CASE UNCHANGED vars
    BY <1>5 DEF vars
  <1> QED
    BY <1>1, <1>2, <1>3, <1>4, <1>5 DEF Next

-----------------------------------------------------------------------------
(***************************************************************************)
(* The theorems about memory hold when no reserve() argument wraps.        *)
(***************************************************************************)
VectorInv == LockInv /\ DataInv /\ LiveSegments /\ ReserveKept

\* The inductive invariant, from the lemmas above.
THEOREM VectorInvariant ==
  ASSUME NoWrap
  PROVE  Spec => []VectorInv
  <1>1. Init => VectorInv
    <2>1. Init => ReserveKept
      BY DEF Init, ReserveKept
    <2> QED
      BY <2>1, LockInvInit, DataInvInit, LiveInit DEF VectorInv
  <1>2. VectorInv /\ [Next]_vars => VectorInv'
    BY LockInvNext, DataInvNext, LiveNext, ReserveKeptNext DEF VectorInv
  <1> QED
    BY <1>1, <1>2, PTL DEF Spec

(***************************************************************************)
(* Every variable keeps its type: in particular no segment outside the     *)
(* region is read and size_ never goes below zero.                         *)
(***************************************************************************)
THEOREM TypeCorrect == ASSUME NoWrap PROVE Spec => []TypeOK
  <1>1. VectorInv => TypeOK
    BY DEF VectorInv, DataInv
  <1> QED BY <1>1, VectorInvariant, PTL

(***************************************************************************)
(* Every element lies in the shared region.                                *)
(***************************************************************************)
THEOREM StaysInRegion == ASSUME NoWrap PROVE Spec => []InRegion
  <1>1. VectorInv => InRegion
    BY DEF VectorInv, DataInv
  <1> QED BY <1>1, VectorInvariant, PTL

(***************************************************************************)
(* Constructed segments are the counted ones, gap and newcomer apart.      *)
(***************************************************************************)
THEOREM LifetimesExact == ASSUME NoWrap PROVE Spec => []LiveSegments
  <1>1. VectorInv => LiveSegments
    BY DEF VectorInv
  <1> QED BY <1>1, VectorInvariant, PTL

(***************************************************************************)
(* A granted reservation is never withdrawn.                               *)
(***************************************************************************)
THEOREM ReservationsKept == ASSUME NoWrap PROVE Spec => []ReserveKept
  <1>1. VectorInv => ReserveKept
    BY DEF VectorInv
  <1> QED BY <1>1, VectorInvariant, PTL

(***************************************************************************)
(* The capacity never shrinks.                                             *)
(***************************************************************************)
THEOREM CapacityNeverShrinks == ASSUME NoWrap PROVE Spec => CapacityGrows
  <1>1. VectorInv /\ [Next]_vars => [capacity_' >= capacity_]_capacity_
    BY CapacityStep DEF VectorInv
  <1> QED BY <1>1, VectorInvariant, PTL DEF Spec, CapacityGrows
=============================================================================
