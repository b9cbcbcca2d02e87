----------------------------- MODULE Recursion -----------------------------
(***************************************************************************)
(* Induction and recursion on the natural numbers, in a form that needs no *)
(* operator as a parameter: what the proofs about loops over a list or a   *)
(* buffer rest on.                                                         *)
(***************************************************************************)
EXTENDS FiniteSetTheorems, SequenceTheorems, WellFoundedInduction, TLAPS

(* A set of numbers has a least one.                                       *)
LEMMA Minimum ==
  ASSUME NEW T \in SUBSET Nat, T # {}
  PROVE  \E n \in T : \A m \in T : n <= m
<1>1. PICK n \in T : \A m \in T : ~ (<<m, n>> \in OpToRel(<, Nat))
  BY NatLessThanWellFounded, WFMin
<1>2. \A m \in T : ~ (m < n)
  BY <1>1 DEF OpToRel
<1> QED BY <1>2

(* What holds of 0, and of n + 1 if of n, holds of every number ...        *)
LEMMA Induct ==
  ASSUME NEW T, 0 \in T, \A n \in Nat : n \in T => n + 1 \in T
  PROVE  Nat \subseteq T
<1>1. SUFFICES ASSUME Nat \ T # {} PROVE FALSE
  OBVIOUS
<1>2. PICK n \in Nat \ T : \A m \in Nat \ T : n <= m
  BY <1>1, Minimum
<1>3. n # 0 /\ n - 1 \in Nat /\ n - 1 \in T
  BY <1>2
<1> QED BY <1>2, <1>3

(* ... and what goes from one round of a loop to the next, of all of them. *)
LEMMA BoundedInduct ==
  ASSUME NEW n \in Nat, NEW T, 0 \in T,
         \A k \in 1..n : k - 1 \in T => k \in T
  PROVE  \A k \in 0..n : k \in T
<1> DEFINE U == {k \in Nat : k <= n => k \in T}
<1>1. 0 \in U /\ \A k \in Nat : k \in U => k + 1 \in U
  <2>1. ASSUME NEW k \in Nat, k \in U, k + 1 <= n PROVE k + 1 \in T
    <3>1. k + 1 \in 1..n /\ (k + 1) - 1 = k /\ k \in T
      BY <2>1
    <3> QED BY <3>1
  <2> QED BY <2>1
<1>2. Nat \subseteq U
  <2> HIDE DEF U
  <2> QED BY <1>1, Induct
<1> QED BY <1>2

(* A loop over a value of X: what it has made of base after its k-th round.*)
LoopRuns(n, X, base, step) ==
  \E f \in [0..n -> X] :
    /\ f[0] = base
    /\ \A k \in 1..n : f[k] = step[<<k, f[k - 1]>>]

(* A loop whose rounds keep to X has its results there.                    *)
LEMMA LoopDefined ==
  ASSUME NEW n \in Nat, NEW X, NEW base \in X,
         NEW step \in [(1..n) \X X -> X]
  PROVE  LoopRuns(n, X, base, step)
<1> DEFINE Runs(f, m) ==
             /\ f[0] = base
             /\ \A k \in 1..m : f[k] = step[<<k, f[k - 1]>>]
           T == {m \in Nat : m <= n => \E f \in [0..m -> X] : Runs(f, m)}
<1>1. 0 \in T
  <2>1. [k \in 0..0 |-> base] \in [0..0 -> X]
        /\ Runs([k \in 0..0 |-> base], 0)
    OBVIOUS
  <2> QED BY <2>1
<1>2. ASSUME NEW m \in Nat, m \in T
      PROVE  m + 1 \in T
  <2> SUFFICES ASSUME m + 1 <= n
               PROVE  \E f \in [0..(m + 1) -> X] : Runs(f, m + 1)
    OBVIOUS
  <2>1. PICK f \in [0..m -> X] : Runs(f, m)
    BY <1>2
  <2> DEFINE g == [k \in 0..(m + 1) |->
                     IF k = m + 1 THEN step[<<k, f[m]>>] ELSE f[k]]
  <2>2. <<m + 1, f[m]>> \in (1..n) \X X
    OBVIOUS
  <2>3. g \in [0..(m + 1) -> X]
    BY <2>2
  <2>4. g[0] = base
    BY <2>1
  <2>5. ASSUME NEW k \in 1..(m + 1)
        PROVE  g[k] = step[<<k, g[k - 1]>>]
    <3>1. k - 1 \in 0..m /\ g[k - 1] = f[k - 1]
      OBVIOUS
    <3>2. CASE k = m + 1
      BY <3>1, <3>2
    <3>3. CASE k \in 1..m
      BY <2>1, <3>1, <3>3
    <3> QED BY <3>2, <3>3
  <2> QED BY <2>3, <2>4, <2>5
<1>3. n \in T
  <2> HIDE DEF T
  <2> QED BY <1>1, <1>2, Induct
<1> QED BY <1>3 DEF LoopRuns
=============================================================================
