------------------------------ MODULE LogStore ------------------------------
(***************************************************************************)
(* The ring buffer of src/internal/logstore/logstore.go that the dashboard *)
(* reads: Add writes at `next` and wraps, List reads backwards from it.    *)
(* Both hold the store's mutex, so each is one step, and List changes      *)
(* nothing: it is the operator List.                                       *)
(***************************************************************************)
EXTENDS Integers, Sequences

CONSTANTS
  Entries,    \* the entries that may be added
  Blank,      \* the zero Entry of a fresh slot
  Requested   \* the argument of NewStore

ASSUME StoreAssumption == Requested \in Int

capacity == IF Requested <= 0 THEN 500 ELSE Requested

VARIABLES entries, next, full

vars == <<entries, next, full>>

Init ==
  /\ entries = [i \in 0..(capacity - 1) |-> Blank]
  /\ next = 0
  /\ full = FALSE

(* Variants with a plausible bug: each breaks a property.                  *)
RunsPastTheEnd(i) == i + 1

KeepsTheLastSlot(i) == IF i + 1 >= capacity - 1 THEN 0 ELSE i + 1

After(i) == (i + 1) % capacity

Add(e) ==
  /\ entries' = [entries EXCEPT ![next] = e]
  /\ next' = After(next)
  /\ full' = (full \/ next' = 0)

Next == \E e \in Entries : Add(e)

Spec == Init /\ [][Next]_vars

(* lenLocked.                                                              *)
Length == IF full THEN capacity ELSE next

(* The index of the i-th newest entry, and the entries in that order.      *)
Slot(i) == (next - i + capacity) % capacity

List == [i \in 1..Length |-> entries[Slot(i)]]

-----------------------------------------------------------------------------
(* Properties.                                                             *)

(* The next slot is one of the ring, and every slot holds an entry.        *)
TypeOK ==
  /\ entries \in [0..(capacity - 1) -> Entries \cup {Blank}]
  /\ next \in 0..(capacity - 1)
  /\ full \in BOOLEAN

(* List shows the last `capacity` entries added, newest first, before the  *)
(* ring wraps, when it does and ever after; no blank slot is ever listed.  *)
Log == INSTANCE BoundedLog WITH log <- List, Size <- capacity

ImplementsBoundedLog == Log!Spec
=============================================================================
