------------------------------ MODULE SHMVector ------------------------------
(***************************************************************************)
(* SHMVector<T> (src/SHMVector.hpp): a vector in an externally provided    *)
(* memory region, shared by threads and processes and guarded by an        *)
(* atomic_flag spinlock.  Every operation is a sequence of steps of one    *)
(* process, so that the steps of different processes interleave: the       *)
(* unlocked accesses (the fast path of reserve, capacity(), the use of the *)
(* reference at() returns) run while another process is anywhere in its    *)
(* critical section, and a process may die between any two steps.          *)
(*                                                                         *)
(* A failed test_and_set changes nothing and is a stuttering step.  The    *)
(* racy reads are of one aligned machine word: they return the value of    *)
(* the moment, which is what the generated load instruction does.          *)
(***************************************************************************)
EXTENDS Integers

CONSTANTS
  Process,      \* threads and processes that call the vector
  Element,      \* values of type T
  Raw,          \* content of a segment that holds no constructed T
  SegmentSize,  \* segment_size_bytes_
  MemoryBytes,  \* memory_total_bytes_
  SizeT,        \* number of values of a size_t (2^64 in the code)
  Ops,          \* the operations these clients call
  Index,        \* the indexes they pass to at() and eraseAt()
  Count,        \* the element counts they pass to reserve()
  Crashable     \* the processes that may die in the middle of a call

ASSUME VectorAssumption ==
  /\ SegmentSize \in Nat \ {0}     \* lines 56-58: the constructor throws
  /\ MemoryBytes \in Nat \ {0}     \* lines 62-64
  /\ SizeT \in Nat
  /\ SegmentSize < SizeT           \* it is a size_t
  /\ 2 * MemoryBytes < SizeT       \* no region is half the address space
  /\ Index \subseteq Nat
  /\ Count \subseteq Nat
  /\ Crashable \subseteq Process
  /\ Raw \notin Element

VARIABLES
  lock_,        \* the atomic_flag
  size_,
  capacity_,
  mem,          \* the segments of the region
  pc,           \* the next step of each process
  op,           \* the operation it is in
  arg,          \* its index or count argument, and the count size() returns
  val,          \* the element pushed, taken, or designated by a reference
  i,            \* loop variable of eraseAt_unlocked: the destroyed segment
  res,          \* how the call ends
  crashed       \* the processes that died

vars == <<lock_, size_, capacity_, mem, pc, op, arg, val, i, res, crashed>>

locals == <<op, arg, val, i, res>>

(***************************************************************************)
(* The segments that lie wholly inside the region (get_element_ptr).       *)
(***************************************************************************)
Slot == {s \in 0 .. MemoryBytes : (s + 1) * SegmentSize <= MemoryBytes}

(***************************************************************************)
(* total_bytes and the check against the region, in size_t arithmetic.     *)
(***************************************************************************)
Fits(n) == (n * SegmentSize) % SizeT <= MemoryBytes

new_capacity == IF capacity_ = 0 THEN 1 ELSE (capacity_ * 2) % SizeT

AllOps == {"reserve", "push_back", "at", "size", "capacity", "eraseAt",
           "getNextElement", "~SHMVector"}

\* The steps a process takes between winning the lock and clearing it.
Critical == {"reserve", "push_back", "at", "size", "eraseAt",
             "getNextElement", "construct", "increment", "shift", "unlock"}

Labels == Critical \cup {"idle", "fast", "capacity", "spin", "deref", "done",
                         "gone"}

Goto(p, label) == pc' = [pc EXCEPT ![p] = label]

Outcome(p, r) == res' = [res EXCEPT ![p] = r]

Init ==
  /\ lock_ = FALSE
  /\ size_ = 0
  /\ capacity_ = 0
  /\ mem = [s \in Slot |-> Raw]
  /\ pc = [p \in Process |-> "idle"]
  /\ op = [p \in Process |-> "none"]
  /\ arg = [p \in Process |-> 0]
  /\ val = [p \in Process |-> Raw]
  /\ i = [p \in Process |-> 0]
  /\ res = [p \in Process |-> "none"]
  /\ crashed = {}

-----------------------------------------------------------------------------
(***************************************************************************)
(* A client calls an operation.  reserve() and capacity() start without    *)
(* the lock, every other operation starts by spinning on it.               *)
(***************************************************************************)
Call(p, o, a, v, label) ==
  /\ pc[p] = "idle"
  /\ o \in Ops
  /\ op' = [op EXCEPT ![p] = o]
  /\ arg' = [arg EXCEPT ![p] = a]
  /\ val' = [val EXCEPT ![p] = v]
  /\ Goto(p, label)
  /\ UNCHANGED <<lock_, size_, capacity_, mem, i, res, crashed>>

Calls(p) ==
  \/ \E n \in Count : Call(p, "reserve", n, Raw, "fast")
  \/ \E v \in Element : Call(p, "push_back", 0, v, "spin")
  \/ \E a \in Index : Call(p, "at", a, Raw, "spin")
  \/ \E a \in Index : Call(p, "eraseAt", a, Raw, "spin")
  \/ Call(p, "size", 0, Raw, "spin")
  \/ Call(p, "capacity", 0, Raw, "capacity")
  \/ Call(p, "getNextElement", 0, Raw, "spin")

\* Mutant of Acquire: the flag is set without looking at it.
AcquireUntested(p) ==
  /\ pc[p] = "spin"
  /\ lock_' = TRUE
  /\ Goto(p, op[p])
  /\ UNCHANGED <<size_, capacity_, mem, locals, crashed>>

\* while (lock_.test_and_set(...)): the iteration that finds the flag clear.
Acquire(p) ==
  /\ pc[p] = "spin"
  /\ ~lock_
  /\ lock_' = TRUE
  /\ Goto(p, op[p])
  /\ UNCHANGED <<size_, capacity_, mem, locals, crashed>>

\* lock_.clear(...), after which at() hands its reference to the caller.
Release(p) ==
  /\ pc[p] = "unlock"
  /\ lock_' = FALSE
  /\ Goto(p, IF op[p] = "at" /\ res[p] = "ok" THEN "deref" ELSE "done")
  /\ UNCHANGED <<size_, capacity_, mem, locals, crashed>>

\* The call returns or its exception reaches the caller.
Return(p) ==
  /\ pc[p] = "done"
  /\ Goto(p, "idle")
  /\ op' = [op EXCEPT ![p] = "none"]
  /\ arg' = [arg EXCEPT ![p] = 0]
  /\ val' = [val EXCEPT ![p] = Raw]
  /\ i' = [i EXCEPT ![p] = 0]
  /\ Outcome(p, "none")
  /\ UNCHANGED <<lock_, size_, capacity_, mem, crashed>>

-----------------------------------------------------------------------------
(***************************************************************************)
(* reserve(element_count): the unlocked test, and the locked body.         *)
(***************************************************************************)
ReserveFast(p) ==
  /\ pc[p] = "fast"
  /\ \/ /\ arg[p] <= capacity_
        /\ Outcome(p, "ok")
        /\ Goto(p, "done")
     \/ /\ arg[p] > capacity_
        /\ Goto(p, "spin")
        /\ UNCHANGED res
  /\ UNCHANGED <<lock_, size_, capacity_, mem, op, arg, val, i, crashed>>

\* Mutant of Reserve: the second test of the capacity is missing.
ReserveOnce(p) ==
  /\ pc[p] = "reserve"
  /\ Fits(arg[p])
  /\ capacity_' = arg[p]
  /\ Outcome(p, "ok")
  /\ Goto(p, "unlock")
  /\ UNCHANGED <<lock_, size_, mem, op, arg, val, i, crashed>>

Reserve(p) ==
  /\ pc[p] = "reserve"
  /\ \/ /\ arg[p] <= capacity_
        /\ Outcome(p, "ok")
        /\ UNCHANGED capacity_
     \/ /\ arg[p] > capacity_
        /\ ~Fits(arg[p])
        /\ Outcome(p, "bad_alloc")
        /\ UNCHANGED capacity_
     \/ /\ arg[p] > capacity_
        /\ Fits(arg[p])
        /\ capacity_' = arg[p]
        /\ Outcome(p, "ok")
  /\ Goto(p, "unlock")
  /\ UNCHANGED <<lock_, size_, mem, op, arg, val, i, crashed>>

\* Mutant of PushBack: it grows only once size_ has passed the capacity.
PushBackLate(p) ==
  /\ pc[p] = "push_back"
  /\ capacity_' = IF size_ > capacity_ THEN new_capacity ELSE capacity_
  /\ Goto(p, "construct")
  /\ UNCHANGED <<lock_, size_, mem, op, arg, val, i, res, crashed>>

(***************************************************************************)
(* push_back(element): grow, construct, count.                             *)
(***************************************************************************)
PushBack(p) ==
  /\ pc[p] = "push_back"
  /\ \/ /\ size_ < capacity_
        /\ Goto(p, "construct")
        /\ UNCHANGED <<capacity_, res>>
     \/ /\ size_ >= capacity_
        /\ ~Fits(new_capacity)
        /\ Outcome(p, "bad_alloc")
        /\ Goto(p, "unlock")
        /\ UNCHANGED capacity_
     \/ /\ size_ >= capacity_
        /\ Fits(new_capacity)
        /\ capacity_' = new_capacity
        /\ Goto(p, "construct")
        /\ UNCHANGED res
  /\ UNCHANGED <<lock_, size_, mem, op, arg, val, i, crashed>>

Construct(p) ==
  /\ pc[p] = "construct"
  /\ mem' = [mem EXCEPT ![size_] = val[p]]
  /\ Goto(p, "increment")
  /\ UNCHANGED <<lock_, size_, capacity_, locals, crashed>>

IncrementSize(p) ==
  /\ pc[p] = "increment"
  /\ size_' = size_ + 1
  /\ Outcome(p, "ok")
  /\ Goto(p, "unlock")
  /\ UNCHANGED <<lock_, capacity_, mem, op, arg, val, i, crashed>>

(***************************************************************************)
(* at(index): the reference is formed under the lock; the caller uses it   *)
(* after the lock is released.  val records the element it designated.     *)
(***************************************************************************)
At(p) ==
  /\ pc[p] = "at"
  /\ \/ /\ arg[p] >= size_
        /\ Outcome(p, "out_of_range")
        /\ UNCHANGED val
     \/ /\ arg[p] < size_
        /\ val' = [val EXCEPT ![p] = mem[arg[p]]]
        /\ Outcome(p, "ok")
  /\ Goto(p, "unlock")
  /\ UNCHANGED <<lock_, size_, capacity_, mem, op, arg, i, crashed>>

\* The caller reads mem[arg[p]] through the reference.
Deref(p) ==
  /\ pc[p] = "deref"
  /\ Goto(p, "done")
  /\ UNCHANGED <<lock_, size_, capacity_, mem, locals, crashed>>

Size(p) ==
  /\ pc[p] = "size"
  /\ arg' = [arg EXCEPT ![p] = size_]
  /\ Outcome(p, "ok")
  /\ Goto(p, "unlock")
  /\ UNCHANGED <<lock_, size_, capacity_, mem, op, val, i, crashed>>

Capacity(p) ==
  /\ pc[p] = "capacity"
  /\ arg' = [arg EXCEPT ![p] = capacity_]
  /\ Outcome(p, "ok")
  /\ Goto(p, "done")
  /\ UNCHANGED <<lock_, size_, capacity_, mem, op, val, i, crashed>>

-----------------------------------------------------------------------------
(***************************************************************************)
(* eraseAt_unlocked(index) for an index in range: the element is destroyed *)
(* here and ShiftStep closes the gap.                                      *)
(***************************************************************************)
Destroy(p, index) ==
  /\ mem' = [mem EXCEPT ![index] = Raw]
  /\ i' = [i EXCEPT ![p] = index]
  /\ Outcome(p, "ok")
  /\ Goto(p, "shift")

(***************************************************************************)
(* The out_of_range exception leaves eraseAt before it clears the flag:    *)
(* the process goes on to its caller and the lock stays set.               *)
(***************************************************************************)
EraseAt(p) ==
  /\ pc[p] = "eraseAt"
  /\ \/ /\ arg[p] >= size_
        /\ Outcome(p, "out_of_range")
        /\ Goto(p, "done")
        /\ UNCHANGED <<mem, i>>
     \/ /\ arg[p] < size_
        /\ Destroy(p, arg[p])
  /\ UNCHANGED <<lock_, size_, capacity_, op, arg, val, crashed>>

\* Mutant of GetNextElement: the test for an empty vector is missing.
GetNextElementUntested(p) ==
  /\ pc[p] = "getNextElement"
  /\ val' = [val EXCEPT ![p] = mem[0]]
  /\ Destroy(p, 0)
  /\ UNCHANGED <<lock_, size_, capacity_, op, arg, crashed>>

\* Mutant of GetNextElement: the last element is copied, the first removed.
GetNextElementLast(p) ==
  /\ pc[p] = "getNextElement"
  /\ size_ > 0
  /\ val' = [val EXCEPT ![p] = mem[size_ - 1]]
  /\ Destroy(p, 0)
  /\ UNCHANGED <<lock_, size_, capacity_, op, arg, crashed>>

\* Mutant of GetNextElement: out_of_range is thrown with the flag set.
GetNextElementThrowsLocked(p) ==
  /\ pc[p] = "getNextElement"
  /\ size_ = 0
  /\ Outcome(p, "out_of_range")
  /\ Goto(p, "done")
  /\ UNCHANGED <<lock_, size_, capacity_, mem, op, arg, val, i, crashed>>

GetNextElement(p) ==
  /\ pc[p] = "getNextElement"
  /\ \/ /\ size_ = 0
        /\ Outcome(p, "out_of_range")
        /\ Goto(p, "unlock")
        /\ UNCHANGED <<mem, i, val>>
     \/ /\ size_ > 0
        /\ val' = [val EXCEPT ![p] = mem[0]]
        /\ Destroy(p, 0)
  /\ UNCHANGED <<lock_, size_, capacity_, op, arg, crashed>>

\* Mutant of ShiftStep: the loop stops one element early.
ShiftStepShort(p) ==
  /\ pc[p] = "shift"
  /\ \/ /\ i[p] < size_ - 2
        /\ mem' = [mem EXCEPT ![i[p]] = mem[i[p] + 1], ![i[p] + 1] = Raw]
        /\ i' = [i EXCEPT ![p] = i[p] + 1]
        /\ UNCHANGED <<size_, pc>>
     \/ /\ i[p] >= size_ - 2
        /\ size_' = size_ - 1
        /\ Goto(p, "unlock")
        /\ UNCHANGED <<mem, i>>
  /\ UNCHANGED <<lock_, capacity_, op, arg, val, res, crashed>>

\* Mutant of ShiftStep: the loop variable is not advanced.
ShiftStepStuck(p) ==
  /\ pc[p] = "shift"
  /\ \/ /\ i[p] < size_ - 1
        /\ mem' = [mem EXCEPT ![i[p]] = mem[i[p] + 1]]
        /\ UNCHANGED <<size_, pc>>
     \/ /\ i[p] >= size_ - 1
        /\ size_' = size_ - 1
        /\ Goto(p, "unlock")
        /\ UNCHANGED mem
  /\ UNCHANGED <<lock_, capacity_, i, op, arg, val, res, crashed>>

\* One iteration of the shifting loop, or its exit and --size_.
ShiftStep(p) ==
  /\ pc[p] = "shift"
  /\ \/ /\ i[p] < size_ - 1
        /\ mem' = [mem EXCEPT ![i[p]] = mem[i[p] + 1], ![i[p] + 1] = Raw]
        /\ i' = [i EXCEPT ![p] = i[p] + 1]
        /\ UNCHANGED <<size_, pc>>
     \/ /\ i[p] >= size_ - 1
        /\ size_' = size_ - 1
        /\ Goto(p, "unlock")
        /\ UNCHANGED <<mem, i>>
  /\ UNCHANGED <<lock_, capacity_, op, arg, val, res, crashed>>

-----------------------------------------------------------------------------
(***************************************************************************)
(* The destructor takes no lock.  It runs when no call is in progress,     *)
(* and nobody calls the vector afterwards.                                 *)
(***************************************************************************)
Running == Process \ crashed

Destruct ==
  /\ "~SHMVector" \in Ops
  /\ Running # {}
  /\ \A p \in Running : pc[p] = "idle"
  /\ mem' = [s \in Slot |-> IF s < size_ THEN Raw ELSE mem[s]]
  /\ pc' = [p \in Process |-> IF p \in Running THEN "gone" ELSE pc[p]]
  /\ UNCHANGED <<lock_, size_, capacity_, locals, crashed>>

\* A process is killed in the middle of a call; its peers see only memory.
Crash(p) ==
  /\ p \in Crashable
  /\ pc[p] \notin {"idle", "gone"}
  /\ crashed' = crashed \cup {p}
  /\ UNCHANGED <<lock_, size_, capacity_, mem, pc, locals>>

\* What a process does inside a call.
Step(p) ==
  \/ Acquire(p) \/ Release(p) \/ Return(p)
  \/ ReserveFast(p) \/ Reserve(p)
  \/ PushBack(p) \/ Construct(p) \/ IncrementSize(p)
  \/ At(p) \/ Deref(p) \/ Size(p) \/ Capacity(p)
  \/ EraseAt(p) \/ GetNextElement(p) \/ ShiftStep(p)

Next ==
  \/ \E p \in Running : Calls(p) \/ Step(p) \/ Crash(p)
  \/ Destruct

Spec == Init /\ [][Next]_vars

\* The scheduler runs every live thread; it promises nothing about who wins
\* the flag, and clients need not call.
Fairness == \A p \in Process : WF_vars(p \in Running /\ Step(p))

FairSpec == Spec /\ Fairness

-----------------------------------------------------------------------------
(***************************************************************************)
(* The state as the properties see it.                                     *)
(***************************************************************************)
InCS(p) == pc[p] \in Critical

Destructed == \E p \in Process : pc[p] = "gone"

\* The segment an unfinished eraseAt_unlocked has destroyed.
Holes == {i[p] : p \in {q \in Process : pc[q] = "shift"}}

\* The segment push_back has filled and not yet counted.
Uncounted == {size_ : p \in {q \in Process : pc[q] = "increment"}}

Counted == IF Destructed THEN {} ELSE 0 .. size_ - 1

-----------------------------------------------------------------------------
TypeOK ==
  /\ lock_ \in BOOLEAN
  /\ size_ \in Nat
  /\ capacity_ \in Nat
  /\ mem \in [Slot -> Element \cup {Raw}]
  /\ pc \in [Process -> Labels]
  /\ op \in [Process -> AllOps \cup {"none"}]
  /\ arg \in [Process -> Nat]
  /\ val \in [Process -> Element \cup {Raw}]
  /\ i \in [Process -> Nat]
  /\ res \in [Process -> {"none", "ok", "bad_alloc", "out_of_range"}]
  /\ crashed \in SUBSET Process

(***************************************************************************)
(* The spinlock works: two processes are never between test_and_set and    *)
(* clear at the same time, and the flag is set while one is.  Crashed      *)
(* processes count: they died there.                                       *)
(***************************************************************************)
MutualExclusion ==
  /\ \A p, q \in Process : InCS(p) /\ InCS(q) => p = q
  /\ \A p \in Process : InCS(p) => lock_

(***************************************************************************)
(* The local state of a call agrees with its next step: a process is in    *)
(* the body of the operation it called, has an outcome only once it is     *)
(* decided, shifts from a gap inside the vector, and counts the element it *)
(* has constructed.  After the destructor no live process is in a call.    *)
(***************************************************************************)
LocalsAgree ==
  /\ \A p \in Process :
       /\ pc[p] \in {"fast", "reserve"} => op[p] = "reserve"
       /\ op[p] = "reserve" => arg[p] \in Count
       /\ pc[p] \in {"push_back", "construct", "increment"} =>
            op[p] = "push_back"
       /\ pc[p] \in {"at", "size", "capacity", "eraseAt", "getNextElement"} =>
            op[p] = pc[p]
       /\ pc[p] = "spin" =>
            op[p] \in {"reserve", "push_back", "at", "size", "eraseAt",
                      "getNextElement"}
       /\ pc[p] \notin {"shift", "unlock", "deref", "done"} => res[p] = "none"
       /\ pc[p] \notin {"idle", "gone"} /\ op[p] = "push_back" =>
            val[p] \in Element
       /\ pc[p] = "shift" => i[p] < size_
       /\ pc[p] = "increment" => mem[size_] = val[p]
  /\ Destructed => \A p \in Running : pc[p] = "gone"

(***************************************************************************)
(* No reserve() argument is so large that its size in bytes wraps.         *)
(***************************************************************************)
NoWrap == \A n \in Count : n * SegmentSize < SizeT

(***************************************************************************)
(* Every element lies in the shared region: push_back's doubling and       *)
(* reserve never accept a capacity the region cannot hold, size_ never     *)
(* passes the capacity, and push_back constructs below it.                 *)
(***************************************************************************)
InRegion ==
  /\ size_ <= capacity_
  /\ \A p \in Process :
       pc[p] \in {"construct", "increment"} => size_ < capacity_
  /\ capacity_ * SegmentSize <= MemoryBytes

(***************************************************************************)
(* Object lifetimes: the segments that hold a constructed T are exactly    *)
(* the counted ones, but for the gap of an erase in progress and the       *)
(* element push_back has constructed and not yet counted.  Nothing is      *)
(* constructed over a live object, nothing is destroyed twice, and the     *)
(* destructor leaves nothing alive.                                        *)
(***************************************************************************)
LiveSegments ==
  \A s \in Slot :
    mem[s] # Raw <=> s \in (Counted \ Holes) \cup Uncounted

(***************************************************************************)
(* A reserve(n) that returned normally, by the unlocked fast path or under *)
(* the lock, leaves room for n elements whatever ran since.                *)
(***************************************************************************)
ReserveKept ==
  \A p \in Process :
    op[p] = "reserve" /\ res[p] = "ok" => arg[p] <= capacity_

(***************************************************************************)
(* The capacity never shrinks: what makes the unlocked read of capacity_   *)
(* in reserve and capacity() safe to act on.                               *)
(***************************************************************************)
CapacityGrows == [][capacity_' >= capacity_]_capacity_

(***************************************************************************)
(* A process leaves its critical section with the flag set in one case     *)
(* only: the out_of_range exception of eraseAt.                            *)
(***************************************************************************)
OnlyEraseAtLeaks ==
  [][\A p \in Process :
       InCS(p) /\ ~InCS(p)' /\ lock_' =>
         op[p] = "eraseAt" /\ res'[p] = "out_of_range"]_vars

(***************************************************************************)
(* The lock comes free again and again (no holder keeps it forever).       *)
(***************************************************************************)
LockReleased == []<>(~lock_)

\* The flag is set and nobody is left to clear it.
Abandoned == lock_ /\ \A p \in Running : ~InCS(p)

(***************************************************************************)
(* When a process spins, some call returns, unless the process dies or the *)
(* lock is abandoned: the spinlock may starve one, but never everybody.    *)
(***************************************************************************)
SomeCallReturns ==
  \A p \in Process :
    pc[p] = "spin"
      ~> (p \in crashed \/ Abandoned \/ \E q \in Process : pc[q] = "done")
=============================================================================
