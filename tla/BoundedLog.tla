----------------------------- MODULE BoundedLog -----------------------------
(***************************************************************************)
(* What src/internal/logstore/logstore.go promises: the store holds the    *)
(* Size most recent entries, newest first.                                 *)
(***************************************************************************)
EXTENDS Naturals, Sequences

CONSTANTS Entries, Size

VARIABLE log

(* The log after e, the oldest entry dropped when there is no room.        *)
With(e) ==
  [i \in 1..(IF Len(log) < Size THEN Len(log) + 1 ELSE Size) |->
     IF i = 1 THEN e ELSE log[i - 1]]

Init == log = <<>>

Add == \E e \in Entries : log' = With(e)

Spec == Init /\ [][Add]_log
=============================================================================
