--------------------------- MODULE MCModelHealth ---------------------------
(***************************************************************************)
(* Two models and a ladder of three steps.  One tick is the 30s of the     *)
(* ladder's first step; the exhaustion lock is as long as the third step   *)
(* and the degradation lock as long as the second, as in the code.         *)
(***************************************************************************)
EXTENDS ModelHealth

MCLadder == <<1, 2, 4>>
=============================================================================
