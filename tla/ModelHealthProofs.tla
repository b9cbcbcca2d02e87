------------------------- MODULE ModelHealthProofs -------------------------
(***************************************************************************)
(* Theorems about the model locks, for any set of models and any ladder.   *)
(***************************************************************************)
EXTENDS ModelHealth, TLAPS

(* A count picks an entry of the ladder, which is one of the known locks.  *)
LEMMA LadderEntry ==
  ASSUME NEW count \in 1 .. MaxCount
  PROVE  /\ Ladder[ladderIndex(count)] \in Nat
         /\ Ladder[ladderIndex(count)] \in Longest
<1>1. ladderIndex(count) \in 1 .. Len(Ladder)
  BY LadderAssumption, BoundAssumption DEF ladderIndex
<1> QED
  BY <1>1, LadderAssumption DEF Longest

(* Every way an expiry is written or ages keeps it within the bounds.      *)
LEMMA Locks ==
  /\ \A t \in Longest : t \in Nat => IsLock(t)
  /\ \A t \in Int : IsLock(t) => Earlier(t) \in Int /\ IsLock(Earlier(t))
  /\ ExhaustLock \in Longest \cap Nat
  /\ DegradeLock \in Longest \cap Nat
  /\ NoEntry \in Int /\ IsLock(NoEntry)
  /\ \A t \in Nat \cup {Elapsed} : t # NoEntry
  /\ \A t \in Int : Earlier(t) = NoEntry => t = NoEntry
<1>1. Longest \subseteq Nat
  BY LockAssumption, LadderAssumption DEF Longest
<1>2. ExhaustLock \in Longest /\ DegradeLock \in Longest
  BY DEF Longest
<1>3. ASSUME NEW t \in Longest PROVE IsLock(t)
  BY <1>1 DEF IsLock, NoEntry
<1>4. ASSUME NEW t \in Int, IsLock(t)
      PROVE  Earlier(t) \in Int /\ IsLock(Earlier(t))
  BY <1>1, <1>4 DEF IsLock, NoEntry, Earlier
<1>5. IsLock(NoEntry)
  BY <1>1, <1>2 DEF IsLock, NoEntry
<1>6. /\ NoEntry \in Int
      /\ \A t \in Nat \cup {Elapsed} : t # NoEntry
      /\ \A t \in Int : Earlier(t) = NoEntry => t = NoEntry
  BY DEF NoEntry, Elapsed, Earlier
<1> QED
  BY <1>1, <1>2, <1>3, <1>4, <1>5, <1>6

LEMMA StepUpLadderTypes ==
  ASSUME TypeOK, NEW m \in Models, StepUpLadder(m)
  PROVE  /\ failCounts' \in [Models -> 0 .. MaxCount]
         /\ failedUntil' \in [Models -> Int]
         /\ \A o \in Models : IsLock(failedUntil'[o])
         /\ failedUntil'[m] \in Nat
         /\ \A o \in Models \ {m} : /\ failedUntil'[o] = failedUntil[o]
                                    /\ failCounts'[o] = failCounts[o]
<1>1. NextCount(m) \in 1 .. MaxCount
  BY LadderAssumption, BoundAssumption DEF TypeOK, NextCount
<1> DEFINE lock == Ladder[ladderIndex(NextCount(m))]
<1>2. lock \in Nat /\ IsLock(lock)
  BY <1>1, LadderEntry, Locks
<1> HIDE DEF lock
<1>3. failedUntil' = [failedUntil EXCEPT ![m] = lock]
  BY DEF StepUpLadder, lock
<1> QED
  BY <1>1, <1>2, <1>3 DEF StepUpLadder, TypeOK

-----------------------------------------------------------------------------
(* What a round of probes relies on: nobody but the loop removes an entry, *)
(* and the loop removes the one of the model it is probing, which it has   *)
(* already taken from the snapshot.                                        *)
ListedInv == TypeOK /\ CountedIsListed /\ ProbedIsListed /\ probing \notin due

LEMMA ListedInvInit == Init => ListedInv
<1> SUFFICES ASSUME Init PROVE ListedInv
  OBVIOUS
<1>0. MaxCount \in Nat
  BY BoundAssumption
<1>1. TypeOK
  <2>1. \A m \in Models : failedUntil[m] = NoEntry
    BY DEF Init
  <2>2. \A m \in Models : IsLock(failedUntil[m])
    BY <2>1, Locks
  <2>3. failedUntil \in [Models -> Int]
    BY Locks DEF Init
  <2>4. failCounts \in [Models -> 0 .. MaxCount]
    BY <1>0 DEF Init
  <2> QED
    BY <2>2, <2>3, <2>4 DEF Init, TypeOK
<1> QED
  BY <1>1, NoneAssumption
  DEF Init, ListedInv, CountedIsListed, ProbedIsListed

(* The marks of live traffic.                                              *)
LEMMA MarkKeepsListedInv ==
  ASSUME ListedInv, NEW m \in Models, Mark(m)
  PROVE  ListedInv'
<1> USE DEF ListedInv, CountedIsListed, ProbedIsListed, probeVars
<1>1. CASE MarkFailed(m)
  <2>1. StepUpLadder(m)
    BY <1>1 DEF MarkFailed
  <2>2. TypeOK'
    BY <1>1, <2>1, StepUpLadderTypes DEF MarkFailed, TypeOK
  <2> QED
    BY <1>1, <2>1, <2>2, StepUpLadderTypes, Locks DEF MarkFailed
<1>2. ASSUME NEW lock \in Longest \cap Nat,
             failedUntil' = [failedUntil EXCEPT ![m] = lock],
             UNCHANGED <<probeVars, failCounts>>
      PROVE  ListedInv'
  BY <1>2, Locks DEF TypeOK
<1>3. CASE MarkExhausted(m)
  BY <1>2, <1>3, Locks DEF MarkExhausted
<1>4. CASE MarkDegraded(m)
  BY <1>2, <1>4, Locks DEF MarkDegraded
<1> QED
  BY <1>1, <1>3, <1>4 DEF Mark

(* The results of probes.                                                  *)
LEMMA ProbeKeepsListedInv ==
  ASSUME ListedInv, NEW m \in Models, Probe(m)
  PROVE  ListedInv'
<1> USE NoneAssumption
    DEF ListedInv, CountedIsListed, ProbedIsListed
<1>1. CASE SendProbe(m)
  BY <1>1 DEF SendProbe, TypeOK
<1>2. CASE ProbeAnswered(m)
  <2>1. MaxCount \in Nat
    BY BoundAssumption
  <2>2. TypeOK'
    BY <1>2, <2>1, Locks DEF ProbeAnswered, clearLock, TypeOK
  <2>3. \A o \in Models \ {m} : /\ failedUntil'[o] = failedUntil[o]
                              /\ failCounts'[o] = failCounts[o]
    BY <1>2 DEF ProbeAnswered, clearLock, TypeOK
  <2>4. CountedIsListed'
    BY <1>2, <2>3 DEF ProbeAnswered, clearLock, TypeOK
  <2>5. ProbedIsListed' /\ (probing \notin due)'
    BY <1>2, <2>3 DEF ProbeAnswered, TypeOK
  <2> QED
    BY <2>2, <2>4, <2>5
<1>3. CASE ProbeFailed(m)
  <2>1. StepUpLadder(m)
    BY <1>3 DEF ProbeFailed
  <2>2. TypeOK'
    BY <1>3, <2>1, StepUpLadderTypes DEF ProbeFailed, TypeOK
  <2>3. CountedIsListed'
    BY <2>1, StepUpLadderTypes, Locks
  <2>4. ProbedIsListed' /\ (probing \notin due)'
    BY <1>3, <2>1, StepUpLadderTypes DEF ProbeFailed, TypeOK
  <2> QED
    BY <2>2, <2>3, <2>4
<1>4. CASE ProbeRefused(m)
  <2>1. StepUpLadder(m)
    BY <1>4 DEF ProbeRefused
  <2>2. TypeOK'
    BY <1>4, <2>1, StepUpLadderTypes DEF ProbeRefused, TypeOK
  <2>3. CountedIsListed'
    BY <2>1, StepUpLadderTypes, Locks
  <2>4. ProbedIsListed' /\ (probing \notin due)'
    BY <1>4, <2>1, StepUpLadderTypes, Locks DEF ProbeRefused, TypeOK
  <2> QED
    BY <2>2, <2>3, <2>4
<1> QED
  BY <1>1, <1>2, <1>3, <1>4 DEF Probe

LEMMA ListedInvNext == ListedInv /\ [Next]_vars => ListedInv'
<1> SUFFICES ASSUME ListedInv, [Next]_vars PROVE ListedInv'
  OBVIOUS
<1> USE DEF ListedInv, CountedIsListed, ProbedIsListed
<1>1. CASE Tick
  <2>1. TypeOK'
    BY <1>1, Locks DEF Tick, probeVars, TypeOK
  <2>2. ASSUME NEW m \in Models, failedUntil'[m] = NoEntry
        PROVE  failedUntil[m] = NoEntry
    BY <1>1, <2>2, Locks DEF Tick, TypeOK
  <2> QED
    BY <1>1, <2>1, <2>2 DEF Tick, probeVars
<1>2. CASE Cancel
  BY <1>2 DEF Cancel, TypeOK
<1>3. CASE TickerFires
  BY <1>3 DEF TickerFires, TypeOK
<1>4. CASE StartRound
  BY <1>4, NoneAssumption, Locks DEF StartRound, Idle, TypeOK
<1>5. CASE LoopReturns
  BY <1>5 DEF LoopReturns, TypeOK
<1>6. ASSUME NEW m \in Models, Probe(m) PROVE ListedInv'
  BY <1>6, ProbeKeepsListedInv
<1>7. ASSUME NEW m \in Models, Mark(m) PROVE ListedInv'
  BY <1>7, MarkKeepsListedInv
<1>8. CASE UNCHANGED vars
  BY <1>8 DEF vars, TypeOK
<1> QED
  BY <1>1, <1>2, <1>3, <1>4, <1>5, <1>6, <1>7, <1>8 DEF Next, Loop

LEMMA ListedInvariant == Spec => []ListedInv
BY ListedInvInit, ListedInvNext, PTL DEF Spec

(* The maps keep their types and no lock is longer than the longest known. *)
THEOREM TypeCorrect == Spec => []TypeOK
<1>1. ListedInv => TypeOK
  BY DEF ListedInv
<1> QED
  BY <1>1, ListedInvariant, PTL

(* The two maps of health.go:34 never drift apart.                         *)
THEOREM MapsAgree == Spec => []CountedIsListed
<1>1. ListedInv => CountedIsListed
  BY DEF ListedInv
<1> QED
  BY <1>1, ListedInvariant, PTL

(* A late probe result never re-creates the lock of a recovered model,     *)
(* although clearLock and extendLock (health.go:156-162) do not look.      *)
THEOREM NoResurrection == Spec => []ProbedIsListed
<1>1. ListedInv => ProbedIsListed
  BY DEF ListedInv
<1> QED
  BY <1>1, ListedInvariant, PTL

(* The first failure after a recovery costs the first step of the ladder.  *)
THEOREM FreshStart == Spec => LadderStartsOver
<1> DEFINE Fresh == \A m \in Models :
             MarkFailed(m) /\ failedUntil[m] = NoEntry
               => failedUntil'[m] = Ladder[1]
<1>1. ListedInv => Fresh
  <2> SUFFICES ASSUME ListedInv, NEW m \in Models, MarkFailed(m),
                      failedUntil[m] = NoEntry
               PROVE  failedUntil'[m] = Ladder[1]
    OBVIOUS
  <2>1. failCounts[m] = 0
    BY DEF ListedInv, TypeOK, CountedIsListed
  <2>2. ladderIndex(NextCount(m)) = 1
    BY <2>1, LadderAssumption, BoundAssumption DEF NextCount, ladderIndex
  <2> QED
    BY <2>2 DEF MarkFailed, StepUpLadder, ListedInv, TypeOK
<1> QED
  BY <1>1, ListedInvariant, PTL DEF LadderStartsOver
=============================================================================
