--------------------------- MODULE BreakerProofs ---------------------------
(***************************************************************************)
(* Theorems about the circuit breaker, for any number of concurrent        *)
(* requests, any threshold, cooldown and integer width.                    *)
(***************************************************************************)
EXTENDS Breaker, Recursion

LEMMA UnboundedIsNat ==
  ASSUME NEW n \in Threshold .. MaxFails
  PROVE  Unbounded(n) \in Nat /\ 2 ^ Width \in Nat \ {0}
<1>1. n - Threshold \in 0 .. MaxFails
  BY ThresholdAssumption, BoundAssumption
<1>2. 2 ^ (n - Threshold) \in Nat
  BY <1>1, PowerAssumption
<1> QED
  BY <1>2, CooldownAssumption, WidthAssumption DEF Unbounded

(* A cooldown is an integer and never longer than the cap.                 *)
LEMMA CooldownBounded ==
  ASSUME NEW n \in Threshold .. MaxFails
  PROVE  /\ Shifted(n) \in Int /\ CooldownMs(n) \in Int
         /\ CooldownMs(n) <= MaxCooldown
<1>1. PICK wanted, range : wanted = Unbounded(n) /\ range = 2 ^ Width
  OBVIOUS
<1>2. wanted \in Nat /\ range \in Nat \ {0}
  BY <1>1, UnboundedIsNat
<1>3. wanted % range \in Int
  BY <1>2
<1>4. Shifted(n) \in Int
  BY <1>1, <1>2, <1>3 DEF Shifted
<1> QED
  BY <1>4, CooldownAssumption DEF CooldownMs

-----------------------------------------------------------------------------
(* The inductive invariant: the types, and what a pending opening knows.   *)
TypeInv == TypeOK /\ OpeningWarranted

LEMMA TypeInvInit == Init => TypeInv
BY ThresholdAssumption, CooldownAssumption, BoundAssumption
DEF Init, TypeInv, TypeOK, OpeningWarranted, Elapsed

LEMMA TypeInvNext == TypeInv /\ [Next]_vars => TypeInv'
<1> SUFFICES ASSUME TypeInv, [Next]_vars PROVE TypeInv'
  OBVIOUS
<1>0. MaxFails \in Nat /\ Threshold \in Nat \ {0} /\ MaxCooldown \in Nat
  BY ThresholdAssumption, CooldownAssumption, BoundAssumption
<1> USE <1>0 DEF TypeInv, TypeOK, OpeningWarranted, Elapsed
<1>1. CASE Tick
  BY <1>1 DEF Tick, Earlier, IsOpen
<1>2. ASSUME NEW r \in Requests, Admit(r) PROVE TypeInv'
  BY <1>2 DEF Admit
<1>3. ASSUME NEW r \in Requests, Neither(r) PROVE TypeInv'
  BY <1>3 DEF Neither
<1>4. ASSUME NEW r \in Requests, RecordSuccess(r) PROVE TypeInv'
  BY <1>4 DEF RecordSuccess, Remember
<1>5. ASSUME NEW r \in Requests, FailureAdd(r) PROVE TypeInv'
  BY <1>5 DEF FailureAdd, Remember
<1>6. ASSUME NEW r \in Requests, FailureClock(r) PROVE TypeInv'
  <2>1. CooldownMs(fails[r]) \in Int /\ CooldownMs(fails[r]) <= MaxCooldown
    BY <1>6, CooldownBounded DEF FailureClock
  <2> QED
    BY <1>6, <2>1 DEF FailureClock
<1>7. ASSUME NEW r \in Requests, FailureStore(r) PROVE TypeInv'
  BY <1>7 DEF FailureStore
<1>8. CASE UNCHANGED vars
  BY <1>8 DEF vars
<1> QED
  BY <1>1, <1>2, <1>3, <1>4, <1>5, <1>6, <1>7, <1>8 DEF Next, Step

LEMMA TypeInvariant == Spec => []TypeInv
BY TypeInvInit, TypeInvNext, PTL DEF Spec

(* The variables keep their types; in particular no interleaving of the    *)
(* stores leaves the circuit open for longer than the cap (breaker.go:44). *)
THEOREM TypeCorrect == Spec => []TypeOK
<1>1. TypeInv => TypeOK
  BY DEF TypeInv
<1> QED
  BY <1>1, TypeInvariant, PTL

-----------------------------------------------------------------------------
(* The count never runs ahead of the failures at the end of the history.   *)
THEOREM CountCovered == Spec => []CountIsARun
<1>1. Init => CountIsARun
  BY ThresholdAssumption DEF Init, CountIsARun
<1>2. TypeInv /\ CountIsARun /\ [Next]_vars => CountIsARun'
  <2> SUFFICES ASSUME TypeInv, CountIsARun, [Next]_vars PROVE CountIsARun'
    OBVIOUS
  <2>0. Threshold \in Nat \ {0} /\ consecutiveFails \in Nat
    BY ThresholdAssumption, BoundAssumption DEF TypeInv, TypeOK
  <2> USE <2>0 DEF CountIsARun
  <2>1. ASSUME NEW r \in Requests, RecordSuccess(r) PROVE CountIsARun'
    BY <2>1 DEF RecordSuccess
  <2>2. ASSUME NEW r \in Requests, FailureAdd(r) PROVE CountIsARun'
    BY <2>2 DEF FailureAdd, Remember
  <2>3. CASE UNCHANGED <<consecutiveFails, recent>>
    BY <2>3
  <2> QED
    BY <2>1, <2>2, <2>3
    DEF Next, Step, Tick, Admit, Neither, FailureClock, FailureStore, vars
<1> QED
  BY <1>1, <1>2, TypeInvariant, PTL DEF Spec

(* "open after 5 consecutive failures" (breaker.go:12), whatever the       *)
(* interleaving: no request sets out to open the circuit unless the last   *)
(* Threshold recorded outcomes were failures.                              *)
THEOREM OnlyConsecutiveFailuresOpen == Spec => OpensOnConsecutiveFailures
<1> DEFINE Warranted == \A r \in Requests :
             pc[r] = "flight" /\ pc'[r] = "clock"
               => \A i \in 1 .. Threshold : recent'[i] = "failure"
<1>1. TypeInv /\ TypeInv' /\ CountIsARun' /\ [Next]_vars => [Warranted]_vars
  <2> SUFFICES ASSUME TypeInv, TypeInv', CountIsARun', [Next]_vars,
                      NEW r \in Requests, pc[r] = "flight", pc'[r] = "clock"
               PROVE  \A i \in 1 .. Threshold : recent'[i] = "failure"
    OBVIOUS
  <2>1. FailureAdd(r) /\ consecutiveFails' >= Threshold
    BY DEF Next, Step, Tick, Admit, Neither, RecordSuccess, FailureAdd,
           FailureClock, FailureStore, vars, TypeInv, TypeOK
  <2>2. consecutiveFails' \in Nat /\ Threshold \in Nat \ {0}
    BY ThresholdAssumption, BoundAssumption DEF TypeInv, TypeOK
  <2> QED
    BY <2>1, <2>2 DEF CountIsARun
<1> QED
  BY <1>1, CountCovered, TypeInvariant, PTL DEF Spec, OpensOnConsecutiveFailures

-----------------------------------------------------------------------------
(* The cooldown of each count.                                             *)
InWidth(n) == 2 * Unbounded(n) < 2 ^ Width

FirstOverflow(n) == ~InWidth(n) /\ Unbounded(n) < 2 ^ Width

AllShiftedOut(n) == n - Threshold >= Width

LEMMA ShiftInWidth ==
  ASSUME NEW n \in Threshold .. MaxFails
  PROVE  /\ InWidth(n) => Shifted(n) = Unbounded(n)
         /\ FirstOverflow(n) => Shifted(n) < 0
<1>1. PICK wanted, range : wanted = Unbounded(n) /\ range = 2 ^ Width
  OBVIOUS
<1>2. wanted \in Nat /\ range \in Nat \ {0}
  BY <1>1, UnboundedIsNat
<1>3. wanted < range => wanted % range = wanted
  BY <1>2
<1> QED
  BY <1>1, <1>2, <1>3 DEF Shifted, InWidth, FirstOverflow

LEMMA WidthDivides ==
  ASSUME NEW k \in 0 .. MaxFails, k >= Width
  PROVE  \E q \in Nat : 2 ^ k = 2 ^ Width * q
<1> DEFINE T == {d \in 0 .. k - Width : \E q \in Nat :
                   2 ^ (Width + d) = 2 ^ Width * q}
<1>1. k - Width \in Nat /\ Width \in Nat /\ MaxFails \in Nat
  BY BoundAssumption, WidthAssumption
<1>2. 0 \in T
  <2>1. Width + 0 = Width /\ 2 ^ Width = 2 ^ Width * 1
    BY WidthAssumption
  <2> QED
    BY <1>1, <2>1
<1>3. ASSUME NEW d \in 1 .. k - Width, d - 1 \in T PROVE d \in T
  <2>1. PICK q \in Nat : 2 ^ (Width + (d - 1)) = 2 ^ Width * q
    BY <1>3
  <2>2. PICK e \in 0 .. MaxFails : e = Width + (d - 1) /\ e + 1 = Width + d
    BY <1>1
  <2>3. 2 ^ (e + 1) = 2 * (2 ^ Width * q)
    BY <2>1, <2>2, PowerAssumption
  <2>4. 2 * (2 ^ Width * q) = 2 ^ Width * (2 * q) /\ 2 * q \in Nat
    BY WidthAssumption
  <2>5. 2 ^ (Width + d) = 2 ^ Width * (2 * q)
    BY <2>2, <2>3, <2>4
  <2>6. \E p \in Nat : 2 ^ (Width + d) = 2 ^ Width * p
    BY <2>4, <2>5
  <2> QED
    BY <1>1, <2>6
<1>4. k - Width \in T
  <2> HIDE DEF T
  <2> QED
    BY <1>1, <1>2, <1>3, BoundedInduct
<1>5. Width + (k - Width) = k
  BY <1>1
<1> QED
  BY <1>4, <1>5

LEMMA ShiftedOut ==
  ASSUME NEW n \in Threshold .. MaxFails, AllShiftedOut(n)
  PROVE  Shifted(n) = 0
<1>1. PICK k \in 0 .. MaxFails : k = n - Threshold /\ k >= Width
  BY ThresholdAssumption, BoundAssumption DEF AllShiftedOut
<1>2. PICK q \in Nat : 2 ^ k = 2 ^ Width * q
  BY <1>1, WidthDivides
<1>3. PICK range \in Nat \ {0} : range = 2 ^ Width
  BY WidthAssumption
<1>4. PICK p \in Nat : p = BaseCooldown * q
  BY CooldownAssumption
<1>5. Unbounded(n) = range * p
  <2>1. Unbounded(n) = BaseCooldown * (range * q)
    BY <1>1, <1>2, <1>3 DEF Unbounded
  <2> QED
    BY <1>4, <2>1, CooldownAssumption
<1>6. (range * p) % range = 0
  OBVIOUS
<1>7. Unbounded(n) % range = 0
  BY <1>5, <1>6
<1> QED
  BY <1>3, <1>7 DEF Shifted

(* The circuit opens for the documented min(60s << (fails-5), 600s)        *)
(* (breaker.go:44) unless the shift leaves the integer, and how often the  *)
(* upstream fails in a row is not bounded.  The first count that is too    *)
(* large gives a cooldown below 0, so that the circuit is not opened, and  *)
(* from the count on at which all bits are shifted out the cooldown is 0   *)
(* for ever (breaker.go:49).                                               *)
THEOREM CooldownOfEachCount ==
  Spec => [](/\ \/ DocumentedCooldown
                \/ \E r \in Requests : pc[r] = "clock" /\ ~InWidth(fails[r])
             /\ \A r \in Requests : pc[r] = "clock" =>
                  /\ FirstOverflow(fails[r]) => CooldownMs(fails[r]) < 0
                  /\ AllShiftedOut(fails[r]) => CooldownMs(fails[r]) = 0)
<1> DEFINE Overflow == \E r \in Requests :
                         pc[r] = "clock" /\ ~InWidth(fails[r])
           Lost == \A r \in Requests : pc[r] = "clock" =>
                     /\ FirstOverflow(fails[r]) => CooldownMs(fails[r]) < 0
                     /\ AllShiftedOut(fails[r]) => CooldownMs(fails[r]) = 0
<1>1. ASSUME TypeInv, NEW r \in Requests, pc[r] = "clock"
      PROVE  fails[r] \in Threshold .. MaxFails
  BY <1>1 DEF TypeInv, OpeningWarranted
<1>2. TypeInv => DocumentedCooldown \/ Overflow
  BY <1>1, ShiftInWidth DEF DocumentedCooldown, CooldownMs
<1>3. TypeInv => Lost
  <2> SUFFICES ASSUME TypeInv, NEW r \in Requests, pc[r] = "clock"
               PROVE  /\ FirstOverflow(fails[r]) => CooldownMs(fails[r]) < 0
                      /\ AllShiftedOut(fails[r]) => CooldownMs(fails[r]) = 0
    OBVIOUS
  <2>1. fails[r] \in Threshold .. MaxFails
    BY <1>1
  <2>2. FirstOverflow(fails[r]) => Shifted(fails[r]) < 0
    BY <2>1, ShiftInWidth
  <2>3. AllShiftedOut(fails[r]) => Shifted(fails[r]) = 0
    BY <2>1, ShiftedOut
  <2>4. /\ Shifted(fails[r]) < 0 => CooldownMs(fails[r]) < 0
        /\ Shifted(fails[r]) = 0 => CooldownMs(fails[r]) = 0
    <3>1. Shifted(fails[r]) \in Int /\ MaxCooldown \in Nat
      BY <2>1, CooldownBounded, CooldownAssumption
    <3> QED
      BY <3>1 DEF CooldownMs
  <2> QED
    BY <2>2, <2>3, <2>4
<1> QED
  BY <1>2, <1>3, TypeInvariant, PTL
=============================================================================
