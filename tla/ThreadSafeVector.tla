-------------------------- MODULE ThreadSafeVector --------------------------
(***************************************************************************)
(* What SHMVector promises its callers (doc/SHMVector.rst: "All SHMVector  *)
(* operations use an std::atomic_flag spinlock, making them safe for       *)
(* multi-threaded ... multi-process access"): a sequence of elements on    *)
(* which every call takes effect at one instant between its invocation     *)
(* and its response, with the outcome a sequential vector would give.      *)
(***************************************************************************)
EXTENDS Integers, Sequences

CONSTANTS Process, Element, Raw, SegmentSize, MemoryBytes

VARIABLES
  elems,     \* the elements, in order
  cap,       \* capacity()
  status,    \* idle, called (invoked, not yet in effect), done, gone
  op, arg, val, res

vars == <<elems, cap, status, op, arg, val, res>>

Init ==
  /\ elems = <<>>
  /\ cap = 0
  /\ status = [p \in Process |-> "idle"]
  /\ op = [p \in Process |-> "none"]
  /\ arg = [p \in Process |-> 0]
  /\ val = [p \in Process |-> Raw]
  /\ res = [p \in Process |-> "none"]

Move(p, from, to) ==
  /\ status[p] = from
  /\ status' = [status EXCEPT ![p] = to]

Invoke(p) ==
  /\ Move(p, "idle", "called")
  /\ op' = [op EXCEPT ![p] = op'[p]]
  /\ op'[p] \in {"reserve", "push_back", "at", "size", "capacity", "eraseAt",
                 "getNextElement"}
  /\ arg' = [arg EXCEPT ![p] = arg'[p]]
  /\ arg'[p] \in Nat
  /\ val' = [val EXCEPT ![p] = val'[p]]
  /\ val'[p] \in Element \cup {Raw}
  /\ UNCHANGED <<elems, cap, res>>

Respond(p) ==
  /\ Move(p, "done", "idle")
  /\ op' = [op EXCEPT ![p] = "none"]
  /\ arg' = [arg EXCEPT ![p] = 0]
  /\ val' = [val EXCEPT ![p] = Raw]
  /\ res' = [res EXCEPT ![p] = "none"]
  /\ UNCHANGED <<elems, cap>>

\* The instant operation o takes effect, with outcome r.
Effect(p, o, r) ==
  /\ op[p] = o
  /\ Move(p, "called", "done")
  /\ res' = [res EXCEPT ![p] = r]
  /\ UNCHANGED op

RemoveIndex(k) ==
  elems' = [n \in 1 .. Len(elems) - 1 |->
              IF n <= k THEN elems[n] ELSE elems[n + 1]]

-----------------------------------------------------------------------------
\* Room is made before it is filled, and never taken back.
Grow ==
  /\ cap' \in Nat
  /\ cap' > cap
  /\ cap' * SegmentSize <= MemoryBytes
  /\ UNCHANGED <<elems, status, op, arg, val, res>>

ReserveOk(p) ==
  /\ Effect(p, "reserve", "ok")
  /\ cap' \in Nat
  /\ cap' >= cap
  /\ cap' >= arg[p]
  /\ cap' * SegmentSize <= MemoryBytes
  /\ UNCHANGED <<elems, arg, val>>

ReserveBadAlloc(p) ==
  /\ Effect(p, "reserve", "bad_alloc")
  /\ arg[p] * SegmentSize > MemoryBytes
  /\ UNCHANGED <<elems, cap, arg, val>>

PushOk(p) ==
  /\ Effect(p, "push_back", "ok")
  /\ Len(elems) < cap
  /\ elems' = Append(elems, val[p])
  /\ UNCHANGED <<cap, arg, val>>

\* push_back fails only when it is more than half full (or one segment does
\* not fit at all).
PushBadAlloc(p) ==
  /\ Effect(p, "push_back", "bad_alloc")
  /\ Len(elems) = cap
  /\ \/ 2 * Len(elems) * SegmentSize > MemoryBytes
     \/ SegmentSize > MemoryBytes
  /\ UNCHANGED <<elems, cap, arg, val>>

AtOk(p) ==
  /\ Effect(p, "at", "ok")
  /\ arg[p] < Len(elems)
  /\ val' = [val EXCEPT ![p] = elems[arg[p] + 1]]
  /\ UNCHANGED <<elems, cap, arg>>

EraseOk(p) ==
  /\ Effect(p, "eraseAt", "ok")
  /\ arg[p] < Len(elems)
  /\ RemoveIndex(arg[p])
  /\ UNCHANGED <<cap, arg, val>>

\* at() and eraseAt() refuse exactly the indexes that are not there.
OutOfRange(p) ==
  /\ Effect(p, "at", "out_of_range") \/ Effect(p, "eraseAt", "out_of_range")
  /\ arg[p] >= Len(elems)
  /\ UNCHANGED <<elems, cap, arg, val>>

NextOk(p) ==
  /\ Effect(p, "getNextElement", "ok")
  /\ elems # <<>>
  /\ val' = [val EXCEPT ![p] = elems[1]]
  /\ RemoveIndex(0)
  /\ UNCHANGED <<cap, arg>>

NextEmpty(p) ==
  /\ Effect(p, "getNextElement", "out_of_range")
  /\ elems = <<>>
  /\ UNCHANGED <<elems, cap, arg, val>>

SizeOk(p) ==
  /\ Effect(p, "size", "ok")
  /\ arg' = [arg EXCEPT ![p] = Len(elems)]
  /\ UNCHANGED <<elems, cap, val>>

CapacityOk(p) ==
  /\ Effect(p, "capacity", "ok")
  /\ arg' = [arg EXCEPT ![p] = cap]
  /\ UNCHANGED <<elems, cap, val>>

\* The vector is destroyed when no live caller is inside it.
Destruct ==
  /\ elems' = <<>>
  /\ status' \in [Process -> {"idle", "called", "done", "gone"}]
  /\ \A p \in Process :
       \/ status[p] = "idle" /\ status'[p] = "gone"
       \/ status'[p] = status[p]
  /\ status' # status
  /\ UNCHANGED <<cap, op, arg, val, res>>

Act(p) ==
  \/ Invoke(p) \/ Respond(p) \/ ReserveOk(p) \/ ReserveBadAlloc(p)
  \/ PushOk(p) \/ PushBadAlloc(p) \/ AtOk(p) \/ EraseOk(p) \/ OutOfRange(p)
  \/ NextOk(p) \/ NextEmpty(p) \/ SizeOk(p) \/ CapacityOk(p)

Next == (\E p \in Process : Act(p)) \/ Grow \/ Destruct

Spec == Init /\ [][Next]_vars
=============================================================================
