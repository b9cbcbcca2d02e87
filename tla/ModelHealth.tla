---------------------------- MODULE ModelHealth ----------------------------
(***************************************************************************)
(* Per-model failure locks (src/internal/models/health.go): the marks that *)
(* request handlers put on a model, and the recovery probes of ProbeLoop.  *)
(* Each access to the two maps holds the mutex, but a probe round takes a  *)
(* snapshot of the expired locks, releases the mutex, waits for upstream   *)
(* answers one by one and applies each of them to whatever lock the model  *)
(* has by then.                                                            *)
(*                                                                         *)
(* As in Breaker, an expiry is kept relative to the clock.                 *)
(***************************************************************************)
EXTENDS Integers, Sequences, FiniteSets

CONSTANTS
  Models,        \* model identifiers; the empty identifier is not one
  Ladder,        \* backoff: the cooldown after the n-th failure, in ticks
  ExhaustLock,   \* exhaustLockMs, in ticks
  DegradeLock,   \* degradeLockMs, in ticks
  MaxCount       \* counts from here on are one: the ladder has ended before

ASSUME ModelsAssumption == IsFiniteSet(Models)
ASSUME LadderAssumption ==
  /\ Len(Ladder) \in Nat \ {0}
  /\ Ladder \in [1 .. Len(Ladder) -> Nat]
ASSUME LockAssumption == ExhaustLock \in Nat /\ DegradeLock \in Nat
ASSUME BoundAssumption == MaxCount \in Nat /\ MaxCount >= Len(Ladder)

None == "none"
ASSUME NoneAssumption == None \notin Models

VARIABLES
  failedUntil,   \* Health.failedUntil: the lock's expiry, relative to now
  failCounts,    \* Health.failCounts
  ticked,        \* the ticker's channel holds a tick
  due,           \* probeOnce's snapshot, the models not yet probed
  probing,       \* the model whose probe is with the upstream
  stopping,      \* ProbeLoop's context is canceled
  stopped        \* ProbeLoop has returned

vars == <<failedUntil, failCounts, ticked, due, probing, stopping, stopped>>

NoEntry == -2    \* the map has no entry for the model
Elapsed == -1    \* it has one, and its time has passed

IsHealthy(m) == failedUntil[m] < 0

ladderIndex(count) == IF count >= Len(Ladder) THEN Len(Ladder) ELSE count

NextCount(m) ==
  IF failCounts[m] < MaxCount THEN failCounts[m] + 1 ELSE MaxCount

Init ==
  /\ failedUntil = [m \in Models |-> NoEntry]
  /\ failCounts = [m \in Models |-> 0]
  /\ ticked = FALSE
  /\ due = {}
  /\ probing = None
  /\ stopping = FALSE
  /\ stopped = FALSE

probeVars == <<ticked, due, probing, stopping, stopped>>

-----------------------------------------------------------------------------
(* The marks of the request handlers, at any time.                         *)

(* A variant: a new lock is added to what is left of the old one.          *)
LocksAddUp(m) ==
  /\ failedUntil' = [failedUntil EXCEPT ![m] = ExhaustLock +
                       IF failedUntil[m] < 0 THEN 0 ELSE failedUntil[m]]
  /\ UNCHANGED <<probeVars, failCounts>>

(* Both MarkFailed, after a live 5xx, and extendLock, after a failed probe.*)
StepUpLadder(m) ==
  /\ failCounts' = [failCounts EXCEPT ![m] = NextCount(m)]
  /\ failedUntil' =
       [failedUntil EXCEPT ![m] = Ladder[ladderIndex(NextCount(m))]]

MarkFailed(m) ==
  /\ StepUpLadder(m)
  /\ UNCHANGED probeVars

MarkExhausted(m) ==
  /\ failedUntil' = [failedUntil EXCEPT ![m] = ExhaustLock]
  /\ UNCHANGED <<probeVars, failCounts>>

MarkDegraded(m) ==
  /\ failedUntil' = [failedUntil EXCEPT ![m] = DegradeLock]
  /\ UNCHANGED <<probeVars, failCounts>>

-----------------------------------------------------------------------------
(* ProbeLoop.                                                              *)

Idle == due = {} /\ probing = None

TickerFires ==
  /\ ~ticked
  /\ ~stopped
  /\ ticked' = TRUE
  /\ UNCHANGED <<failedUntil, failCounts, due, probing, stopping, stopped>>

(* Variants: the snapshot takes every model, or the locks still running.   *)
ProbesEveryModel ==
  /\ ~stopped /\ Idle /\ ticked
  /\ ticked' = FALSE
  /\ due' = Models
  /\ UNCHANGED <<failedUntil, failCounts, probing, stopping, stopped>>

ProbesRunningLocks ==
  /\ ~stopped /\ Idle /\ ticked
  /\ ticked' = FALSE
  /\ due' = {m \in Models : failedUntil[m] >= 0}
  /\ UNCHANGED <<failedUntil, failCounts, probing, stopping, stopped>>

(* The select may take the tick although the context is canceled too.      *)
StartRound ==
  /\ ~stopped
  /\ Idle
  /\ ticked
  /\ ticked' = FALSE
  /\ due' = {m \in Models : failedUntil[m] = Elapsed}
  /\ UNCHANGED <<failedUntil, failCounts, probing, stopping, stopped>>

(* The snapshot is a slice filled in the order of a map iteration: any.    *)
SendProbe(m) ==
  /\ ~stopping
  /\ probing = None
  /\ m \in due
  /\ probing' = m
  /\ due' = due \ {m}
  /\ UNCHANGED <<failedUntil, failCounts, ticked, stopping, stopped>>

(* A variant that forgets the second map.                                  *)
ClearsOnlyTheLock(m) ==
  /\ failedUntil' = [failedUntil EXCEPT ![m] = NoEntry]
  /\ UNCHANGED failCounts

clearLock(m) ==
  /\ failedUntil' = [failedUntil EXCEPT ![m] = NoEntry]
  /\ failCounts' = [failCounts EXCEPT ![m] = 0]

(* 200 or any 4xx; an answer that has come counts after a cancellation too.*)
ProbeAnswered(m) ==
  /\ probing = m
  /\ clearLock(m)
  /\ probing' = None
  /\ UNCHANGED <<ticked, due, stopping, stopped>>

(* 5xx, a transport error, the 8s deadline or the cancellation.            *)
ProbeFailed(m) ==
  /\ probing = m
  /\ StepUpLadder(m)
  /\ probing' = None
  /\ UNCHANGED <<ticked, due, stopping, stopped>>

(* With a canceled context the request fails before it is sent: the rest   *)
(* of the snapshot goes up the ladder, one model after the other.          *)
ProbeRefused(m) ==
  /\ stopping
  /\ probing = None
  /\ m \in due
  /\ StepUpLadder(m)
  /\ due' = due \ {m}
  /\ UNCHANGED <<ticked, probing, stopping, stopped>>

Cancel ==
  /\ ~stopping
  /\ stopping' = TRUE
  /\ UNCHANGED <<failedUntil, failCounts, ticked, due, probing, stopped>>

LoopReturns ==
  /\ stopping
  /\ ~stopped
  /\ Idle
  /\ stopped' = TRUE
  /\ UNCHANGED <<failedUntil, failCounts, ticked, due, probing, stopping>>

-----------------------------------------------------------------------------
Earlier(t) == IF t >= 0 THEN t - 1 ELSE t

Tick ==
  /\ \E m \in Models : failedUntil[m] >= 0
  /\ failedUntil' = [m \in Models |-> Earlier(failedUntil[m])]
  /\ UNCHANGED <<probeVars, failCounts>>

Mark(m) == MarkFailed(m) \/ MarkExhausted(m) \/ MarkDegraded(m)

Probe(m) ==
  SendProbe(m) \/ ProbeAnswered(m) \/ ProbeFailed(m) \/ ProbeRefused(m)

Loop == TickerFires \/ StartRound \/ LoopReturns \/ \E m \in Models : Probe(m)

Next == Tick \/ Cancel \/ Loop \/ \E m \in Models : Mark(m)

Spec == Init /\ [][Next]_vars

(* The ticker, the loop and the probes' deadline are always scheduled.     *)
FairSpec ==
  /\ Spec
  /\ WF_vars(TickerFires)
  /\ WF_vars(StartRound)
  /\ WF_vars(\E m \in Models : SendProbe(m))
  /\ \A m \in Models : WF_vars(ProbeAnswered(m) \/ ProbeFailed(m))

-----------------------------------------------------------------------------
(* The types; no lock is longer than the longest the code knows.           *)
Longest == {ExhaustLock, DegradeLock} \cup {Ladder[i] : i \in 1 .. Len(Ladder)}

IsLock(t) == t >= NoEntry /\ \E most \in Longest : t <= most

TypeOK ==
  /\ failedUntil \in [Models -> Int]
  /\ \A m \in Models : IsLock(failedUntil[m])
  /\ failCounts \in [Models -> 0 .. MaxCount]
  /\ ticked \in BOOLEAN /\ stopping \in BOOLEAN /\ stopped \in BOOLEAN
  /\ due \subseteq Models
  /\ probing \in Models \cup {None}

(* failCounts and failedUntil stay together: a counted model has an entry. *)
(* A count without one would never be probed, so never be cleared, and the *)
(* model's next failure would start high on the ladder.                    *)
CountedIsListed ==
  \A m \in Models : failCounts[m] > 0 => failedUntil[m] # NoEntry

(* A probe always reports on a model that is still in the map, although    *)
(* marks come in while it is away: else the failed probe of a model that   *)
(* recovered would lock it again.                                          *)
ProbedIsListed ==
  \A m \in Models : m \in due \/ probing = m => failedUntil[m] # NoEntry

(* The ladder counts failures since the last recovery (health.go:70): a    *)
(* model without an entry is locked for the first step of it only.         *)
LadderStartsOver ==
  [][\A m \in Models :
       MarkFailed(m) /\ failedUntil[m] = NoEntry
         => failedUntil'[m] = Ladder[1]]_vars

(* A lock that has run out does not linger: the model is probed, or locked *)
(* again by live traffic, unless the proxy stops.                          *)
ExpiredIsProbed ==
  \A m \in Models :
    failedUntil[m] = Elapsed ~> failedUntil[m] # Elapsed \/ stopping
=============================================================================
