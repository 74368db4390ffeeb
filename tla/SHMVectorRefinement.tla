------------------------ MODULE SHMVectorRefinement ------------------------
(***************************************************************************)
(* SHMVector implements ThreadSafeVector.  A call takes effect             *)
(*   - push_back:               when size_ counts the new element,         *)
(*   - eraseAt, getNextElement: when the element is destroyed (the gap the *)
(*                              shifting loop moves up is not an element), *)
(*   - at, size, reserve:       in the locked body,                        *)
(*   - reserve's fast path and capacity(): at their unlocked read.         *)
(***************************************************************************)
EXTENDS SHMVector

Shifting == \E p \in Process : pc[p] = "shift"

\* The gap, or the end of the vector when there is none.
Gap == IF Shifting THEN i[CHOOSE p \in Process : pc[p] = "shift"] ELSE size_

NumElems ==
  IF Destructed THEN 0 ELSE IF Shifting THEN size_ - 1 ELSE size_

Elems ==
  [n \in 1 .. NumElems |-> IF n <= Gap THEN mem[n - 1] ELSE mem[n]]

StatusOf(label) ==
  IF label \in {"idle", "gone"} THEN label
  ELSE IF label \in {"shift", "unlock", "deref", "done"} THEN "done"
  ELSE "called"

Vector ==
  INSTANCE ThreadSafeVector
    WITH elems <- Elems,
         cap <- capacity_,
         status <- [p \in Process |-> StatusOf(pc[p])]

(***************************************************************************)
(* Every behaviour of the shared vector, crashes of its callers included,  *)
(* is one of the atomic vector: no element is lost, duplicated or          *)
(* reordered, and every result is one a sequential vector would give.      *)
(***************************************************************************)
Linearizable == Vector!Spec
=============================================================================
