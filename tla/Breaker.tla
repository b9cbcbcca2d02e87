------------------------------ MODULE Breaker ------------------------------
(***************************************************************************)
(* The upstream circuit breaker (src/internal/resilience/breaker.go) and   *)
(* the gate ServeProxy puts in front of it.  The breaker is two atomic     *)
(* integers and no lock: a failing request adds to the count, reads the    *)
(* clock and stores the expiry in three separate steps, so the steps of    *)
(* concurrent requests interleave.                                         *)
(*                                                                         *)
(* Timestamps are kept relative to the clock: openFor is                   *)
(* openUntilMs - now, and -1 stands for every expiry already in the past.  *)
(* A tick lowers every running timer by one.  Nothing in the code compares *)
(* an expiry with anything but the clock, so no behaviour is lost and the  *)
(* clock needs no bound.                                                   *)
(***************************************************************************)
EXTENDS Integers, FiniteSets

CONSTANTS
  Requests,       \* the goroutines that serve client requests
  Threshold,      \* failThreshold
  BaseCooldown,   \* baseCooldownMs, in ticks
  MaxCooldown,    \* maxCooldownMs, in ticks
  Width,          \* number of bits of the shifted integer (64 in the code)
  MaxFails        \* bound on the number of consecutive failures explored

ASSUME RequestsAssumption == IsFiniteSet(Requests)
ASSUME ThresholdAssumption == Threshold \in Nat \ {0}
ASSUME CooldownAssumption == BaseCooldown \in Nat /\ MaxCooldown \in Nat
ASSUME WidthAssumption == Width \in Nat \ {0} /\ 2 ^ Width \in Nat \ {0}
ASSUME BoundAssumption == MaxFails \in Nat

(* What powers of two are; the provers know nothing of exponents.          *)
ASSUME PowerAssumption ==
  \A n \in 0 .. MaxFails : 2 ^ n \in Nat /\ 2 ^ (n + 1) = 2 * 2 ^ n

VARIABLES
  consecutiveFails,   \* Breaker.consecutiveFails
  openFor,            \* Breaker.openUntilMs, relative to the clock
  pc,                 \* where each request is
  fails,              \* RecordFailure's local variable fails
  expiry,             \* the argument of the pending openUntilMs.Store
  recent              \* history: the outcomes since start-up, the last
                      \* Threshold of them, oldest first

vars == <<consecutiveFails, openFor, pc, fails, expiry, recent>>

Elapsed == -1

(* 60s << (fails-5), in unbounded integers ...                             *)
Unbounded(n) == BaseCooldown * 2 ^ (n - Threshold)

(* ... and as an int64 in two's complement.                                *)
Shifted(n) ==
  LET low == Unbounded(n) % 2 ^ Width
  IN  IF 2 * low >= 2 ^ Width THEN low - 2 ^ Width ELSE low

(***************************************************************************)
(* Variants with a plausible bug; each property has one that breaks it.    *)
(***************************************************************************)
UncappedCooldown(n) == Shifted(n)

LateCooldown(n) ==
  IF Shifted(n + 1) > MaxCooldown THEN MaxCooldown ELSE Shifted(n + 1)

(* The cooldown after the n-th consecutive failure, capped.                *)
CooldownMs(n) ==
  IF Shifted(n) > MaxCooldown THEN MaxCooldown ELSE Shifted(n)

IsOpen == openFor >= 0

Remember(outcome) ==
  recent' = [i \in 1 .. Threshold |->
               IF i < Threshold THEN recent[i + 1] ELSE outcome]

Init ==
  /\ consecutiveFails = 0
  /\ openFor = Elapsed
  /\ pc = [r \in Requests |-> "idle"]
  /\ fails = [r \in Requests |-> 0]
  /\ expiry = [r \in Requests |-> Elapsed]
  /\ recent = [i \in 1 .. Threshold |-> "none"]

AdmitAlways(r) ==
  /\ pc[r] = "idle"
  /\ pc' = [pc EXCEPT ![r] = "flight"]
  /\ UNCHANGED <<consecutiveFails, openFor, fails, expiry, recent>>

(***************************************************************************)
(* ServeProxy: a request passes the gate only while the circuit is closed. *)
(* A rejected request answers 503 circuit_open and changes nothing here.   *)
(***************************************************************************)
Admit(r) ==
  /\ pc[r] = "idle"
  /\ ~IsOpen
  /\ pc' = [pc EXCEPT ![r] = "flight"]
  /\ UNCHANGED <<consecutiveFails, openFor, fails, expiry, recent>>

(* A final 4xx, a content-filter or account-side rejection, a client that  *)
(* went away: the breaker is not told.                                     *)
Neither(r) ==
  /\ pc[r] = "flight"
  /\ pc' = [pc EXCEPT ![r] = "idle"]
  /\ UNCHANGED <<consecutiveFails, openFor, fails, expiry, recent>>

SuccessKeepsCount(r) ==
  /\ pc[r] = "flight"
  /\ Remember("success")
  /\ pc' = [pc EXCEPT ![r] = "idle"]
  /\ UNCHANGED <<consecutiveFails, openFor, fails, expiry>>

OpensOneEarly(r) ==
  /\ pc[r] = "flight"
  /\ consecutiveFails < MaxFails
  /\ consecutiveFails' = consecutiveFails + 1
  /\ fails' = [fails EXCEPT ![r] = consecutiveFails']
  /\ pc' = [pc EXCEPT ![r] =
              IF consecutiveFails' >= Threshold - 1 THEN "clock" ELSE "idle"]
  /\ Remember("failure")
  /\ UNCHANGED <<openFor, expiry>>

RecordSuccess(r) ==
  /\ pc[r] = "flight"
  /\ consecutiveFails' = 0
  /\ Remember("success")
  /\ pc' = [pc EXCEPT ![r] = "idle"]
  /\ UNCHANGED <<openFor, fails, expiry>>

(* RecordFailure, first step: fails := consecutiveFails.Add(1).            *)
FailureAdd(r) ==
  /\ pc[r] = "flight"
  /\ consecutiveFails < MaxFails
  /\ consecutiveFails' = consecutiveFails + 1
  /\ fails' = [fails EXCEPT ![r] = consecutiveFails']
  /\ pc' = [pc EXCEPT ![r] =
              IF consecutiveFails' >= Threshold THEN "clock" ELSE "idle"]
  /\ Remember("failure")
  /\ UNCHANGED <<openFor, expiry>>

(* RecordFailure, second step: time.Now().UnixMilli() + cooldownMs.        *)
FailureClock(r) ==
  /\ pc[r] = "clock"
  /\ expiry' = [expiry EXCEPT ![r] =
                  IF CooldownMs(fails[r]) < 0 THEN Elapsed
                                              ELSE CooldownMs(fails[r])]
  /\ pc' = [pc EXCEPT ![r] = "store"]
  /\ UNCHANGED <<consecutiveFails, openFor, fails, recent>>

(* RecordFailure, last step: openUntilMs.Store, whatever it held before.   *)
FailureStore(r) ==
  /\ pc[r] = "store"
  /\ openFor' = expiry[r]
  /\ expiry' = [expiry EXCEPT ![r] = Elapsed]
  /\ fails' = [fails EXCEPT ![r] = 0]
  /\ pc' = [pc EXCEPT ![r] = "idle"]
  /\ UNCHANGED <<consecutiveFails, recent>>

(* One unit of time passes for the circuit and for computed expiries.      *)
Earlier(t) == IF t = Elapsed THEN Elapsed ELSE t - 1

Tick ==
  /\ IsOpen \/ \E r \in Requests : expiry[r] # Elapsed
  /\ openFor' = Earlier(openFor)
  /\ expiry' = [r \in Requests |-> Earlier(expiry[r])]
  /\ UNCHANGED <<consecutiveFails, pc, fails, recent>>

Step(r) ==
  \/ Admit(r) \/ Neither(r) \/ RecordSuccess(r)
  \/ FailureAdd(r) \/ FailureClock(r) \/ FailureStore(r)

Next == Tick \/ \E r \in Requests : Step(r)

Spec == Init /\ [][Next]_vars

(* Time passes; nothing is assumed of the requests.                        *)
FairSpec == Spec /\ WF_vars(Tick)

-----------------------------------------------------------------------------
(* The types of the variables; openFor never exceeds the documented cap of *)
(* 600s, however the stores of concurrent failures are ordered.            *)
TypeOK ==
  /\ consecutiveFails \in 0 .. MaxFails
  /\ openFor \in Elapsed .. MaxCooldown
  /\ pc \in [Requests -> {"idle", "flight", "clock", "store"}]
  /\ fails \in [Requests -> 0 .. MaxFails]
  /\ expiry \in [Requests -> Elapsed .. MaxCooldown]
  /\ recent \in [1 .. Threshold -> {"none", "success", "failure"}]

(* "open after 5 consecutive failures" (breaker.go:12): a request that is  *)
(* about to open the circuit saw, when it added its own failure, that the  *)
(* last Threshold recorded outcomes of all requests were failures.         *)
OpensOnConsecutiveFailures ==
  [][\A r \in Requests :
       pc[r] = "flight" /\ pc'[r] = "clock"
         => \A i \in 1 .. Threshold : recent'[i] = "failure"]_vars

(* A request on its way to open the circuit has a count that warrants it.  *)
OpeningWarranted ==
  \A r \in Requests :
    pc[r] \in {"clock", "store"} => fails[r] \in Threshold .. MaxFails

(* What makes OpensOnConsecutiveFailures hold: the count is covered by as  *)
(* many failures at the end of the history.                                *)
CountIsARun ==
  \A i \in 1 .. Threshold :
    Threshold - i < consecutiveFails => recent[i] = "failure"

(* breaker.go:44: the circuit opens "for min(60s << (fails-5), 600s),      *)
(* growing with the count".  Stated with unbounded integers.               *)
DocumentedCooldown ==
  \A r \in Requests :
    pc[r] = "clock" =>
      CooldownMs(fails[r]) = (IF Unbounded(fails[r]) > MaxCooldown
                                THEN MaxCooldown ELSE Unbounded(fails[r]))

(* An open circuit closes again: requests in flight may still fail and     *)
(* push the expiry back, but while it is open nobody new is admitted, so   *)
(* the pushing ends.  There is no half-open state that could get stuck.    *)
CircuitCloses == []<>(~IsOpen)
=============================================================================
