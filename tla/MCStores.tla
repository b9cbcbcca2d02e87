------------------------------ MODULE MCStores ------------------------------
(* An answer without cookies; one with a cleared cookie, one that is not   *)
(* the WAF's and one that is kept; and one that brings a second name and   *)
(* the first anew, so that a merge replaces and appends.                   *)
EXTENDS Stores, TLC

Cookie(name, value) == [name |-> name, value |-> value]

MCWafNames == {"acw_tc", "cdn_sec_tc"}

MCSetCookies ==
  {<<>>,
   <<Cookie("acw_tc", ""), Cookie("session", "1"), Cookie("cdn_sec_tc", "1")>>,
   <<Cookie("acw_tc", "1"), Cookie("cdn_sec_tc", "1")>>}

Symmetry == Permutations(Requests)

=============================================================================
