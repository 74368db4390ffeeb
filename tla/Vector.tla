------------------------------- MODULE Vector -------------------------------
(***************************************************************************)
(* Vector<T>::erase (src/Vector.hpp): erases the elements at several       *)
(* indexes of a vector, each index counted before any of them was erased.  *)
(* Nothing else in the class differs from std::vector.                     *)
(***************************************************************************)
EXTENDS Integers, Sequences, Functions

CONSTANT MaxLength   \* length of the longest vector erase is called on

ASSUME MultiEraseAssumption == MaxLength \in Nat

VARIABLES
  erasing,        \* erase is running
  elements,
  EraseElements,  \* the indexes, in ascending order
  it,
  erase_count,
  before,         \* history: the length of the vector at the call
  undefined       \* history: an iterator outside the vector was erased

vector == <<erasing, elements, EraseElements, it, erase_count, before, undefined>>

Ascending(s) == \A j, k \in DOMAIN s : j < k => s[j] < s[k]

Lists ==
  {list \in UNION {[1 .. m -> 0 .. MaxLength - 1] : m \in 0 .. MaxLength} :
     Ascending(list)}

VectorInit ==
  /\ erasing = FALSE
  /\ elements = <<>>
  /\ EraseElements = <<>>
  /\ it = 1
  /\ erase_count = 0
  /\ before = 0
  /\ undefined = FALSE

\* A call on a vector of n elements; an element is its original index.
CallErase(n, indexes) ==
  /\ ~erasing
  /\ erasing' = TRUE
  /\ elements' = [k \in 1 .. n |-> k - 1]
  /\ EraseElements' = indexes
  /\ it' = 1
  /\ erase_count' = 0
  /\ before' = n
  /\ undefined' = FALSE

\* vector<T>::erase of the p-th element
Without(s, p) == SubSeq(s, 1, p - 1) \o SubSeq(s, p + 1, Len(s))

\* Mutant of EraseAtIndex: what was erased before is not accounted for.
EraseAtIndexUnadjusted(index) ==
  /\ elements' = Without(elements, index + 1)
  /\ erase_count' = erase_count + 1
  /\ undefined' = (undefined \/ index \notin 0 .. Len(elements) - 1)

\* The position is moved by what was erased before.  Outside the vector the
\* behaviour is undefined.
EraseAtIndex(index) ==
  LET at == index - erase_count
  IN  /\ elements' = Without(elements, at + 1)
      /\ erase_count' = erase_count + 1
      /\ undefined' = (undefined \/ at \notin 0 .. Len(elements) - 1)

\* One round of the loop; the bound is the end the vector has by now.
EraseRound ==
  /\ erasing
  /\ it <= Len(EraseElements)
  /\ IF EraseElements[it] <= Len(elements) THEN EraseAtIndex(EraseElements[it])
     ELSE UNCHANGED <<elements, erase_count, undefined>>
  /\ it' = it + 1
  /\ UNCHANGED <<erasing, EraseElements, before>>

EraseReturn ==
  /\ erasing
  /\ it > Len(EraseElements)
  /\ erasing' = FALSE
  /\ elements' = <<>>
  /\ EraseElements' = <<>>
  /\ it' = 1
  /\ erase_count' = 0
  /\ before' = 0
  /\ undefined' = FALSE

VectorNext ==
  \/ \E n \in 0 .. MaxLength, indexes \in Lists :
       Range(indexes) \subseteq 0 .. n - 1 /\ CallErase(n, indexes)
  \/ EraseRound
  \/ EraseReturn

VectorSpec == VectorInit /\ [][VectorNext]_vector

(***************************************************************************)
(* For indexes of the vector in ascending order, the erase is defined, and *)
(* it has erased, of the indexes it has come to, exactly those it obeys    *)
(* and kept all other elements in order.  It obeys the k-th index (from 0) *)
(* if it is at most the length less k, so that lists which stay away from  *)
(* the end are obeyed to the letter.                                       *)
(***************************************************************************)
MultiEraseExact ==
  erasing =>
    LET obeyed == {EraseElements[k] : k \in {j \in 1 .. it - 1 :
                                               EraseElements[j] + j - 1 <= before}}
    IN  /\ ~undefined
        /\ Ascending(elements)
        /\ Range(elements) = (0 .. before - 1) \ obeyed
=============================================================================
