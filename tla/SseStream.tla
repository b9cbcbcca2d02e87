----------------------------- MODULE SseStream -----------------------------
(***************************************************************************)
(* What the pump of src/internal/proxy/sse.go promises of one stream: the  *)
(* client gets the upstream's chunks in order and without a gap, nothing   *)
(* after the outcome, and a stream is complete only when the upstream      *)
(* ended it and every chunk of it has been delivered.                      *)
(***************************************************************************)
EXTENDS Naturals, Sequences, SequencesExt

CONSTANT Chunks   \* what the upstream may send

VARIABLES
  offered,    \* the chunks the upstream has sent
  ended,      \* "no", "eof", or "broken"
  delivered,  \* the chunks the client has got
  outcome     \* "none", "complete", or "failed"

vars == <<offered, ended, delivered, outcome>>

Init ==
  /\ offered = <<>>
  /\ ended = "no"
  /\ delivered = <<>>
  /\ outcome = "none"

(* The last chunk may come together with the end.                          *)
Offer ==
  /\ ended = "no"
  /\ \/ \E c \in Chunks : offered' = Append(offered, c)
     \/ UNCHANGED offered
  /\ ended' \in {"no", "eof", "broken"}
  /\ UNCHANGED <<delivered, outcome>>

Deliver ==
  /\ outcome = "none"
  /\ \E n \in 1..Len(offered) :
        /\ IsPrefix(delivered, SubSeq(offered, 1, n))
        /\ delivered' = SubSeq(offered, 1, n)
  /\ UNCHANGED <<offered, ended, outcome>>

Complete ==
  /\ outcome = "none"
  /\ ended = "eof"
  /\ delivered = offered
  /\ outcome' = "complete"
  /\ UNCHANGED <<offered, ended, delivered>>

Fail ==
  /\ outcome = "none"
  /\ outcome' = "failed"
  /\ UNCHANGED <<offered, ended, delivered>>

Next == Offer \/ Deliver \/ Complete \/ Fail

Spec == Init /\ [][Next]_vars
=============================================================================
