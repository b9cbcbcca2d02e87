---------------------------- MODULE StoresProofs ----------------------------
(***************************************************************************)
(* What concurrent requests make of the stores they share (module Stores), *)
(* for any number of requests, answers of any length, and a log of any     *)
(* capacity.  The log implements BoundedLog, as the ring of module LogStore*)
(* does by itself; the counters of the statistics agree; the cookies stay  *)
(* well-formed, and a warm-up's reach the attempt it is made for.          *)
(***************************************************************************)
EXTENDS Stores, Recursion

-----------------------------------------------------------------------------
(* The ring of module LogStore: after an Add, the slot of the i-th newest  *)
(* entry is the one that the (i-1)-th newest had before, and it is not the *)
(* slot written to.                                                        *)

(* The store has room for an entry at least.                               *)
LEMMA CapacityPositive == capacity \in Nat /\ capacity > 0
BY StoreAssumption DEF capacity

(* What the two uses of % compute: a number below twice the modulus loses  *)
(* the modulus once, or not at all.                                        *)
LEMMA ModOnce ==
  ASSUME NEW n \in Nat, n > 0, NEW a \in Nat, a < 2 * n
  PROVE  a % n = IF a < n THEN a ELSE a - n
<1>1. CASE a < n
  BY <1>1
<1>2. CASE a >= n
  <2>1. /\ a % n \in 0..(n - 1)
        /\ a = n * (a \div n) + (a % n)
    OBVIOUS
  <2>2. a \div n \in Int
    OBVIOUS
  <2>3. a \div n = 1
    BY <1>2, <2>1, <2>2
  <2> QED
    BY <1>2, <2>1, <2>3
<1> QED
  BY <1>1, <1>2

(* The next slot: one further, or the first one at the end of the ring.    *)
LEMMA AfterWraps ==
  ASSUME NEW i \in 0..(capacity - 1)
  PROVE  After(i) = IF i + 1 = capacity THEN 0 ELSE i + 1
<1>1. i + 1 \in Nat /\ i + 1 < 2 * capacity
  BY CapacityPositive
<1> QED
  BY <1>1, CapacityPositive, ModOnce DEF After

(* The i-th newest slot: i back from next, round the ring if need be.      *)
LEMMA SlotWraps ==
  ASSUME next \in 0..(capacity - 1), NEW i \in 1..capacity
  PROVE  Slot(i) = IF i <= next THEN next - i ELSE next - i + capacity
<1>1. next - i + capacity \in Nat /\ next - i + capacity < 2 * capacity
  BY CapacityPositive
<1> QED
  BY <1>1, CapacityPositive, ModOnce DEF Slot

LEMMA TypeInit == Init => TypeOK
<1> SUFFICES ASSUME Init
             PROVE  TypeOK
  OBVIOUS
<1>1. next \in 0..(capacity - 1)
  BY CapacityPositive DEF Init
<1>2. entries \in [0..(capacity - 1) -> Entries \cup {Blank}]
  BY DEF Init
<1>3. full \in BOOLEAN
  BY Zenon DEF Init
<1> QED
  BY <1>1, <1>2, <1>3 DEF TypeOK

LEMMA TypeNext == TypeOK /\ [Next]_vars => TypeOK'
<1> SUFFICES ASSUME TypeOK, [Next]_vars
             PROVE  TypeOK'
  OBVIOUS
<1>1. ASSUME NEW e \in Entries, Add(e)
      PROVE  TypeOK'
  <2>1. next' \in 0..(capacity - 1)
    BY <1>1, AfterWraps, CapacityPositive DEF TypeOK, Add
  <2>2. entries' \in [0..(capacity - 1) -> Entries \cup {Blank}]
    BY <1>1 DEF TypeOK, Add
  <2>3. full' \in BOOLEAN
    BY <1>1, Zenon DEF Add
  <2> QED
    BY <2>1, <2>2, <2>3 DEF TypeOK
<1>2. CASE UNCHANGED vars
  BY <1>2 DEF TypeOK, vars
<1> QED
  BY <1>1, <1>2 DEF Next

(* The ring's index stays inside it and every slot holds an entry, for any *)
(* capacity (logstore.go:52-60).                                           *)
THEOREM TypeCorrect == Spec => []TypeOK
BY TypeInit, TypeNext, PTL DEF Spec

(* One more entry is listed after an Add, up to the capacity.              *)
LEMMA AddLengthens ==
  ASSUME TypeOK, NEW e \in Entries, Add(e)
  PROVE  /\ Length \in 0..capacity
         /\ Length' = IF Length < capacity THEN Length + 1 ELSE capacity
<1>1. next' = IF next + 1 = capacity THEN 0 ELSE next + 1
  BY AfterWraps DEF TypeOK, Add
<1>2. full' = (full \/ next' = 0)
  BY DEF Add
<1>3. CASE full
  <2>1. Length = capacity /\ Length' = capacity
    BY <1>2, <1>3, Zenon DEF Length
  <2> QED
    BY <2>1, CapacityPositive
<1>4. CASE ~full
  <2>1. Length = next
    BY <1>4, Zenon DEF Length
  <2>2. Length' = IF next' = 0 THEN capacity ELSE next'
    BY <1>2, <1>4, Zenon DEF Length
  <2> QED
    BY <1>1, <2>1, <2>2, CapacityPositive DEF TypeOK
<1> QED
  BY <1>3, <1>4

(* After an Add the newest slot is the one written to.                     *)
LEMMA AddIsNewest ==
  ASSUME TypeOK, NEW e \in Entries, Add(e)
  PROVE  entries'[Slot(1)'] = e
<1>1. next' = IF next + 1 = capacity THEN 0 ELSE next + 1
  BY AfterWraps DEF TypeOK, Add
<1>2. Slot(1)' = IF 1 <= next' THEN next' - 1 ELSE next' - 1 + capacity
  <2>1. next' - 1 + capacity \in Nat /\ next' - 1 + capacity < 2 * capacity
    BY <1>1, CapacityPositive DEF TypeOK
  <2> QED
    BY <1>1, <2>1, CapacityPositive, ModOnce DEF Slot, TypeOK
<1>3. Slot(1)' = next
  BY <1>1, <1>2, CapacityPositive DEF TypeOK
<1> QED
  BY <1>3 DEF Add, TypeOK

(* Every other entry moves one place back, and keeps its slot.             *)
LEMMA AddShifts ==
  ASSUME TypeOK, NEW e \in Entries, Add(e), NEW i \in 2..capacity
  PROVE  entries'[Slot(i)'] = entries[Slot(i - 1)]
<1>1. next' = IF next + 1 = capacity THEN 0 ELSE next + 1
  BY AfterWraps DEF TypeOK, Add
<1>2. Slot(i)' = IF i <= next' THEN next' - i ELSE next' - i + capacity
  <2>1. next' - i + capacity \in Nat /\ next' - i + capacity < 2 * capacity
    BY <1>1, CapacityPositive DEF TypeOK
  <2> QED
    BY <1>1, <2>1, CapacityPositive, ModOnce DEF Slot, TypeOK
<1>3. Slot(i - 1) = IF i - 1 <= next THEN next - (i - 1)
                                     ELSE next - (i - 1) + capacity
  BY SlotWraps, CapacityPositive DEF TypeOK
<1>4. Slot(i)' = Slot(i - 1)
  BY <1>1, <1>2, <1>3, CapacityPositive DEF TypeOK
<1>5. Slot(i - 1) # next /\ Slot(i - 1) \in 0..(capacity - 1)
  BY <1>3, CapacityPositive DEF TypeOK
<1> QED
  BY <1>4, <1>5 DEF Add, TypeOK

LEMMA RefinesInit == Init => Log!Init
BY CapacityPositive DEF Init, Log!Init, List, Length

LEMMA RefinesNext == TypeOK /\ [Next]_vars => [Log!Add]_List
<1> SUFFICES ASSUME TypeOK, [Next]_vars
             PROVE  [Log!Add]_List
  OBVIOUS
<1>1. ASSUME NEW e \in Entries, Add(e)
      PROVE  Log!Add
  <2> DEFINE n == IF Length < capacity THEN Length + 1 ELSE capacity
  <2>1. Length \in 0..capacity /\ Length' = n
    BY <1>1, AddLengthens
  <2>2. Len(List) = Length
    BY <2>1 DEF List
  <2>3. ASSUME NEW i \in 1..n
        PROVE  entries'[Slot(i)'] = IF i = 1 THEN e ELSE List[i - 1]
    <3>1. CASE i = 1
      BY <1>1, <3>1, AddIsNewest
    <3>2. CASE i # 1
      <4>1. i \in 2..capacity /\ i - 1 \in 1..Length
        BY <2>1, <2>3, <3>2, CapacityPositive
      <4>2. List[i - 1] = entries[Slot(i - 1)]
        BY <4>1 DEF List
      <4> QED
        BY <1>1, <3>2, <4>1, <4>2, AddShifts
    <3> QED
      BY <3>1, <3>2
  <2>4. List' = [i \in 1..n |-> entries'[Slot(i)']]
    BY <2>1 DEF List
  <2>5. List' = [i \in 1..n |-> IF i = 1 THEN e ELSE List[i - 1]]
    BY <2>3, <2>4
  <2> QED
    BY <2>2, <2>5 DEF Log!Add, Log!With
<1>2. CASE UNCHANGED vars
  BY <1>2 DEF vars, List, Length, Slot
<1> QED
  BY <1>1, <1>2 DEF Next

(* What the dashboard lists is always the last `capacity` entries added,   *)
(* newest first: the ring buffer implements the bounded log.               *)
THEOREM Implements == Spec => ImplementsBoundedLog
<1>1. Init /\ [][Next]_vars => Log!Init /\ [][Log!Add]_List
  BY RefinesInit, RefinesNext, TypeInit, TypeNext, PTL
<1> QED
  BY <1>1 DEF Spec, ImplementsBoundedLog, Log!Spec

-----------------------------------------------------------------------------
(* The log under concurrent requests.                                      *)

(* Every step of a request, of a warm-up or of the scheduler adds one entry*)
(* to the log or leaves it alone.                                          *)
LEMMA StepsOfTheLog == [StoresNext]_storesVars => [Next]_vars
<1> SUFFICES ASSUME [StoresNext]_storesVars
             PROVE  [Next]_vars
  OBVIOUS
<1>a. ASSUME NEW r \in Requests, Add(r)
      PROVE  [Next]_vars
  BY <1>a, SharingAssumption DEF Next
<1>b. ASSUME UNCHANGED logVars
      PROVE  [Next]_vars
  BY <1>b DEF logVars, vars
<1>1. CASE TickerFires
  BY <1>1, <1>b DEF TickerFires
<1>2. ASSUME NEW a \in Actors, NEW set \in SetCookies, WarmupAttempt(a, set)
      PROVE  [Next]_vars
  BY <1>2, <1>b DEF WarmupAttempt
<1>3. ASSUME NEW r \in Requests, Reject(r) \/ LogEntry(r)
      PROVE  [Next]_vars
  BY <1>3, <1>a DEF Reject, LogEntry
<1>4. ASSUME NEW r \in Requests,
             \/ Start(r) \/ ReadCookie(r) \/ Gate(r) \/ TransportError(r)
             \/ Leave(r) \/ Reread(r) \/ Result(r)
      PROVE  [Next]_vars
  BY <1>4, <1>b DEF Start, ReadCookie, Gate, TransportError, Leave, Reread,
                    Result
<1>5. ASSUME NEW r \in Requests, NEW set \in SetCookies, Receive(r, set)
      PROVE  [Next]_vars
  BY <1>5, <1>b DEF Receive
<1>6. CASE UNCHANGED storesVars
  BY <1>6, <1>b DEF storesVars
<1> QED BY <1>1, <1>2, <1>3, <1>4, <1>5, <1>6 DEF StoresNext

(* What the dashboard lists is always the newest entries in the order of   *)
(* their Add, however the requests that log, are rejected or leave are     *)
(* interleaved (logstore.go:62-72).                                        *)
THEOREM SharedLogImplements == StoresSpec => ImplementsBoundedLog
<1>1. StoresInit => Init
  BY DEF StoresInit
<1>2. StoresSpec => Spec
  BY <1>1, StepsOfTheLog, PTL DEF StoresSpec, Spec
<1> QED BY <1>2, Implements, PTL

-----------------------------------------------------------------------------
(* The counters.                                                           *)

Labels == {"start", "cookie", "gate", "headers", "warmup", "reread", "ticker",
           "result", "log", "done", "gone"}

Counts ==
  [requests : Nat, successes : Nat, failures : Nat, emptyOutputs : Nat,
   rateLimits : Nat, upstreamErrors : Nat, slowResponses : Nat,
   totalMs : Nat, maxMs : Nat]

OfModel(m, R) == {r \in R : model[r] = m}

(* A request has a model only once it is counted, and the answer that a    *)
(* result is recorded of is not the proxy's own.                           *)
RequestsAgree ==
  /\ pc \in [Actors -> Labels] /\ model \in [Requests -> Models]
  /\ outcome \in [Requests -> Answers \cup {CircuitOpen}]
  /\ \A r \in Requests :
       /\ pc[r] = "start" => model[r] = "unknown"
       /\ pc[r] = "result" => outcome[r] # CircuitOpen

(* CountersAgree, with the sum of the times in place of the mean.          *)
Sums(m, s) ==
  LET results == Cardinality(OfModel(m, Recorded))
  IN  /\ s.requests = IF m = "named" THEN Cardinality(OfModel(m, Requests))
                                     ELSE 0
      /\ s.successes + s.failures = results + s.emptyOutputs
      /\ s.rateLimits + s.upstreamErrors + s.emptyOutputs <= s.failures
      /\ s.slowResponses <= results
      /\ s.totalMs <= results * s.maxMs

CountInv ==
  /\ RequestsAgree
  /\ stats \in [Models -> Counts]
  /\ \A m \in Models : Sums(m, stats[m])

LEMMA OfModelFinite ==
  ASSUME NEW m, NEW R, R \subseteq Requests
  PROVE  /\ IsFiniteSet(OfModel(m, R))
         /\ Cardinality(OfModel(m, R)) \in Nat
         /\ Cardinality(OfModel(m, R)) <= Cardinality(OfModel(m, Requests))
<1>1. /\ OfModel(m, R) \subseteq OfModel(m, Requests)
      /\ OfModel(m, Requests) \subseteq Requests
  BY DEF OfModel
<1> QED BY <1>1, SharingAssumption, FS_Subset, FS_CardinalityType

(* What an answer adds up to: a success or a failure, both if it is empty, *)
(* and one reason at most.                                                 *)
LEMMA AnswerCounts ==
  ASSUME NEW o \in Answers
  PROVE  /\ o.ms \in Nat
         /\ o.empty \in BOOLEAN
         /\ o # CircuitOpen
         /\ IsFailure(o) <=> o.empty \/ ~IsSuccess(o)
         /\ o.empty => IsSuccess(o)
         /\ (o.status = 429 \/ o.status >= 500) => ~IsSuccess(o)
         /\ ~(o.status = 429 /\ o.status >= 500)
<1>1. CASE o = NoAnswer
  BY <1>1 DEF NoAnswer, CircuitOpen, Outcome, IsFailure, IsSuccess
<1>2. CASE o # NoAnswer
  <2>1. /\ o \in [status : {200, 204, 429, 502}, error : BOOLEAN,
                 empty : BOOLEAN, ms : Durations]
        /\ (o.error <=> o.status # 200) /\ (o.empty => o.status = 200)
    BY <1>2 DEF Answers
  <2>2. o.ms \in Nat /\ o.empty \in BOOLEAN /\ o.status \in {200, 204, 429, 502}
    BY <2>1, SharingAssumption
  <2>3. o # CircuitOpen
    BY <2>2 DEF CircuitOpen, Outcome
  <2> QED BY <2>1, <2>2, <2>3 DEF IsFailure, IsSuccess
<1> QED BY <1>1, <1>2

LEMMA CountInit == StoresInit => CountInv
<1> SUFFICES ASSUME StoresInit PROVE CountInv
  OBVIOUS
<1> USE DEF StoresInit
<1>1. RequestsAgree
  <2>1. pc \in [Actors -> {"warmup", "start"}]
    OBVIOUS
  <2>2. \A r \in Requests : pc[r] \in {"warmup", "start"}
    BY <2>1 DEF Actors
  <2>3. outcome \in [Requests -> Answers \cup {CircuitOpen}]
    BY DEF Answers
  <2> QED BY <2>1, <2>2, <2>3 DEF RequestsAgree, Labels, Models
<1>2. stats \in [Models -> Counts]
  BY DEF NoCounts, Counts
<1>3. ASSUME NEW m \in Models
      PROVE  Sums(m, stats[m])
  <2>1. OfModel(m, Recorded) = {}
    BY DEF OfModel, Recorded, Actors
  <2>2. m = "named" => OfModel(m, Requests) = {}
    BY DEF OfModel
  <2>3. /\ Cardinality(OfModel(m, Recorded)) = 0
        /\ m = "named" => Cardinality(OfModel(m, Requests)) = 0
    BY <2>1, <2>2, FS_EmptySet
  <2>4. stats[m] = NoCounts
    BY <1>3
  <2> QED BY <2>3, <2>4 DEF Sums, NoCounts
<1> QED BY <1>1, <1>2, <1>3 DEF CountInv

(* A step that neither begins to count a request nor records a result.     *)
LEMMA Quiet ==
  ASSUME CountInv, RequestsAgree', UNCHANGED <<stats, model>>,
         Recorded' = Recorded
  PROVE  CountInv'
BY DEF CountInv, Sums, OfModel

LEMMA StartCounts ==
  ASSUME CountInv, NEW r \in Requests, Start(r)
  PROVE  CountInv'
<1>1. /\ pc[r] = "start" /\ model[r] = "unknown"
      /\ pc' = [pc EXCEPT ![r] = "cookie"] /\ UNCHANGED outcome
      /\ r \in Actors
  BY DEF Start, Goto, CountInv, RequestsAgree, requestVars, Actors
<1>2. \/ model' = [model EXCEPT ![r] = "named"] /\ CountRequest("named")
      \/ UNCHANGED <<model, stats>>
  BY DEF Start
<1>3. RequestsAgree'
  BY <1>1, <1>2 DEF CountInv, RequestsAgree, Labels, Models
<1>4. Recorded' = Recorded /\ r \notin Recorded
  BY <1>1 DEF Recorded, CountInv, RequestsAgree
<1>5. CASE UNCHANGED <<model, stats>>
  BY <1>3, <1>4, <1>5, Quiet
<1>6. CASE model' = [model EXCEPT ![r] = "named"] /\ CountRequest("named")
  <2>1. /\ stats' = [stats EXCEPT !["named"].requests = @ + 1]
        /\ stats["named"] \in Counts /\ stats["unknown"] \in Counts
    BY <1>6 DEF CountRequest, CountInv, Models
  <2>2. /\ stats' \in [Models -> Counts]
        /\ stats'["unknown"] = stats["unknown"]
        /\ stats'["named"] =
             [stats["named"] EXCEPT !.requests = stats["named"].requests + 1]
    BY <2>1 DEF CountInv, Counts, Models
  <2>3. \A m : OfModel(m, Recorded)' = OfModel(m, Recorded)
    BY <1>4, <1>6 DEF OfModel, CountInv, RequestsAgree, Recorded
  <2>4. /\ OfModel("named", Requests)' = OfModel("named", Requests) \cup {r}
        /\ r \notin OfModel("named", Requests)
    BY <1>1, <1>6 DEF OfModel, CountInv, RequestsAgree
  <2>5. Cardinality(OfModel("named", Requests)') =
          Cardinality(OfModel("named", Requests)) + 1
    BY <2>4, OfModelFinite, FS_AddElement
  <2>6. Sums("unknown", stats["unknown"])'
    BY <2>2, <2>3 DEF CountInv, Sums, Models
  <2>7. Sums("named", stats["named"])'
    BY <2>1, <2>2, <2>3, <2>5 DEF CountInv, Sums, Models, Counts
  <2> QED BY <1>3, <2>2, <2>6, <2>7 DEF CountInv, Models
<1> QED BY <1>2, <1>5, <1>6

(* The sum of the times stays below that of so many greatest times.        *)
LEMMA SumOfTimes ==
  ASSUME NEW n \in Nat, NEW total \in Nat, NEW max \in Nat, NEW ms \in Nat,
         NEW top \in Nat, top >= max, top >= ms, total <= n * max
  PROVE  total + ms <= (n + 1) * top
<1>1. n * max <= n * top
  BY SMTT(30)
<1>2. (n + 1) * top = n * top + top
  BY SMTT(30)
<1>3. n * max \in Nat /\ n * top \in Nat
  BY SMTT(30)
<1> QED BY <1>1, <1>2, <1>3, SMT

LEMMA ResultCounts ==
  ASSUME CountInv, NEW r \in Requests, Result(r)
  PROVE  CountInv'
<1> DEFINE m == model[r]
           o == outcome[r]
           s == stats[m]
           n == Cardinality(OfModel(m, Recorded))
<1>1. /\ pc[r] = "result" /\ r \in Actors
      /\ pc' = [pc EXCEPT ![r] = "log"] /\ UNCHANGED <<model, outcome>>
      /\ CountResult(m, o)
  BY DEF Result, Goto, requestVars, Actors
<1>2. m \in Models /\ o \in Answers /\ s \in Counts
  BY <1>1 DEF CountInv, RequestsAgree
<1>3. RequestsAgree'
  BY <1>1 DEF CountInv, RequestsAgree, Labels
<1>4. Recorded' = Recorded \cup {r} /\ r \notin Recorded
  BY <1>1 DEF Recorded, CountInv, RequestsAgree
<1>5. \A k \in Models : k # m => OfModel(k, Recorded)' = OfModel(k, Recorded)
  BY <1>1, <1>4 DEF OfModel
<1>6. /\ OfModel(m, Recorded') = OfModel(m, Recorded) \cup {r}
      /\ r \notin OfModel(m, Recorded)
  BY <1>4 DEF OfModel
<1>7. Cardinality(OfModel(m, Recorded')) = n + 1 /\ n \in Nat
  BY <1>6, OfModelFinite, FS_AddElement DEF Recorded
<1>8. /\ o.ms \in Nat
      /\ o.empty \in BOOLEAN
      /\ IsFailure(o) <=> o.empty \/ ~IsSuccess(o)
      /\ o.empty => IsSuccess(o)
      /\ (o.status = 429 \/ o.status >= 500) => ~IsSuccess(o)
      /\ ~(o.status = 429 /\ o.status >= 500)
  BY <1>2, AnswerCounts
<1> DEFINE total == s.totalMs + o.ms
           max == IF o.ms > s.maxMs THEN o.ms ELSE s.maxMs
           ok == If(IsSuccess(o), s.successes)
           failed == If(IsFailure(o), s.failures)
           silent == If(o.empty, s.emptyOutputs)
           limited == If(o.status = 429, s.rateLimits)
           broken == If(o.status >= 500, s.upstreamErrors)
           slow == If(o.ms >= slowResponseMs, s.slowResponses)
           t == [s EXCEPT !.totalMs = total, !.maxMs = max, !.successes = ok,
                          !.failures = failed, !.emptyOutputs = silent,
                          !.rateLimits = limited, !.upstreamErrors = broken,
                          !.slowResponses = slow]
<1>9. stats' = [stats EXCEPT ![m] = t]
  BY <1>1 DEF CountResult
<1>10. t \in Counts
  <2>1. \A c, k : k \in Nat => If(c, k) \in Nat
    BY DEF If
  <2>2. /\ ok \in Nat /\ failed \in Nat /\ silent \in Nat
        /\ limited \in Nat /\ broken \in Nat /\ slow \in Nat
    BY <1>2, <2>1 DEF Counts
  <2>3. total \in Nat /\ max \in Nat
    BY <1>2, <1>8 DEF Counts
  <2> HIDE DEF m, o, s, total, max, ok, failed, silent, limited, broken, slow
  <2> QED BY <1>2, <2>2, <2>3 DEF Counts
<1>11. /\ stats' \in [Models -> Counts] /\ stats'[m] = t
       /\ \A k \in Models : k # m => stats'[k] = stats[k]
  <2>1. stats \in [Models -> Counts]
    BY DEF CountInv
  <2> HIDE DEF t, m
  <2> QED BY <1>2, <1>9, <1>10, <2>1
<1>12. Sums(m, s)
  BY <1>2 DEF CountInv
<1>13. ASSUME NEW k \in Models
       PROVE  Sums(k, stats[k])'
  <2>1. OfModel(k, Requests)' = OfModel(k, Requests)
    BY <1>1 DEF OfModel
  <2>2. CASE k # m
    BY <1>5, <1>11, <2>1, <2>2 DEF CountInv, Sums
  <2>3. CASE k = m
    <3>1. Cardinality(OfModel(k, Recorded)') = n + 1
      BY <1>1, <1>7, <2>3 DEF OfModel
    <3>2. t.totalMs <= (n + 1) * t.maxMs
      <4>1. /\ s.totalMs \in Nat /\ s.maxMs \in Nat /\ t.maxMs \in Nat
            /\ t.maxMs >= s.maxMs /\ t.maxMs >= o.ms
            /\ t.totalMs = s.totalMs + o.ms
        BY <1>2, <1>8 DEF Counts
      <4>2. s.totalMs <= n * s.maxMs
        BY <1>12 DEF Sums
      <4> QED BY <1>7, <1>8, <4>1, <4>2, SumOfTimes
    <3>3. /\ t.requests = s.requests
          /\ t.slowResponses <= n + 1
      BY <1>2, <1>7, <1>12 DEF Counts, If, Sums
    <3>4. t.successes + t.failures = n + 1 + t.emptyOutputs
      BY <1>2, <1>7, <1>8, <1>12 DEF Counts, If, Sums
    <3>5. t.rateLimits + t.upstreamErrors + t.emptyOutputs <= t.failures
      BY <1>2, <1>8, <1>12 DEF Counts, If, Sums
    <3> HIDE DEF t, n
    <3>6. stats'[k] = t
      BY <1>11, <2>3
    <3>7. t.requests = IF k = "named" THEN Cardinality(OfModel(k, Requests)')
                                      ELSE 0
      BY <1>12, <2>1, <2>3, <3>3 DEF Sums
    <3> QED BY <3>1, <3>2, <3>3, <3>4, <3>5, <3>6, <3>7 DEF Sums
  <2> QED BY <2>2, <2>3
<1> QED BY <1>3, <1>11, <1>13 DEF CountInv

(* The other steps of a request move it past labels that do not count.     *)
LEMMA MovesAreQuiet ==
  ASSUME CountInv, UNCHANGED <<stats, model>>, NEW a \in Actors,
         NEW l \in Labels, pc' = [pc EXCEPT ![a] = l],
         pc[a] \notin {"log", "done"}, l \notin {"start", "result", "done"},
         l # "log", UNCHANGED outcome
  PROVE  CountInv'
<1>1. RequestsAgree'
  BY DEF CountInv, RequestsAgree
<1>2. Recorded' = Recorded
  BY DEF CountInv, RequestsAgree, Recorded, Actors
<1> QED BY <1>1, <1>2, Quiet

LEMMA GateCounts ==
  ASSUME CountInv, NEW r \in Requests, Gate(r)
  PROVE  CountInv'
<1>1. pc[r] = "gate" /\ r \in Actors /\ UNCHANGED <<stats, model>>
  BY DEF Gate, Actors
<1>2. CASE Goto(r, "headers") /\ UNCHANGED outcome
  BY <1>1, <1>2, MovesAreQuiet DEF Goto, Labels
<1>3. CASE Goto(r, "log") /\ outcome' = [outcome EXCEPT ![r] = CircuitOpen]
  <2>1. RequestsAgree'
    BY <1>1, <1>3 DEF CountInv, RequestsAgree, Goto, Labels
  <2>2. Recorded' = Recorded
    BY <1>1, <1>3 DEF CountInv, RequestsAgree, Recorded, Goto
  <2> QED BY <1>1, <2>1, <2>2, Quiet
<1> QED BY <1>2, <1>3 DEF Gate

LEMMA ConcludeCounts ==
  ASSUME CountInv, UNCHANGED <<stats, model>>, NEW r \in Requests,
         pc[r] = "headers", NEW o \in Answers, Conclude(r, o)
  PROVE  CountInv'
<1>1. /\ pc' = [pc EXCEPT ![r] = "result"] /\ r \in Actors
      /\ outcome' = [outcome EXCEPT ![r] = o]
      /\ o # CircuitOpen
  BY AnswerCounts DEF Conclude, Goto, Actors
<1>2. RequestsAgree'
  BY <1>1 DEF CountInv, RequestsAgree, Labels
<1>3. Recorded' = Recorded
  BY <1>1 DEF CountInv, RequestsAgree, Recorded
<1> QED BY <1>2, <1>3, Quiet

LEMMA LogCounts ==
  ASSUME CountInv, NEW r \in Requests, LogEntry(r)
  PROVE  CountInv'
<1>1. /\ pc[r] = "log" /\ r \in Actors /\ UNCHANGED <<stats, model>>
      /\ pc' = [pc EXCEPT ![r] =
                  IF outcome[r] = CircuitOpen THEN "gone" ELSE "done"]
      /\ outcome' = [outcome EXCEPT ![r] = NoAnswer]
  BY DEF LogEntry, Goto, Actors
<1>2. RequestsAgree'
  BY <1>1 DEF CountInv, RequestsAgree, Labels, Answers
<1>3. Recorded' = Recorded
  BY <1>1 DEF CountInv, RequestsAgree, Recorded
<1> QED BY <1>1, <1>2, <1>3, Quiet

LEMMA CountStep == CountInv /\ [StoresNext]_storesVars => CountInv'
<1> SUFFICES ASSUME CountInv, [StoresNext]_storesVars
             PROVE  CountInv'
  OBVIOUS
<1>a. ASSUME UNCHANGED <<pc, outcome, stats, model>>
      PROVE  CountInv'
  <2>1. RequestsAgree' /\ Recorded' = Recorded
    BY <1>a DEF CountInv, RequestsAgree, Recorded
  <2> QED BY <1>a, <2>1, Quiet
<1>1. CASE TickerFires
  BY <1>1, MovesAreQuiet
     DEF TickerFires, Goto, Labels, Actors, requestVars
<1>2. ASSUME NEW a \in Actors, NEW set \in SetCookies, WarmupAttempt(a, set)
      PROVE  CountInv'
  <2>1. /\ pc[a] = "warmup" /\ UNCHANGED <<stats, model, outcome>>
        /\ \/ UNCHANGED pc
           \/ \E l \in {"ticker", "reread"} : pc' = [pc EXCEPT ![a] = l]
    BY <1>2 DEF WarmupAttempt, Goto
  <2>2. CASE UNCHANGED pc
    BY <1>a, <2>1, <2>2
  <2>3. CASE ~UNCHANGED pc
    BY <2>1, <2>3, MovesAreQuiet DEF Labels
  <2> QED BY <2>2, <2>3
<1>3. ASSUME NEW r \in Requests, Reject(r)
      PROVE  CountInv'
  BY <1>3, <1>a DEF Reject, requestVars
<1>4. ASSUME NEW r \in Requests, ReadCookie(r)
      PROVE  CountInv'
  BY <1>4, MovesAreQuiet DEF ReadCookie, Goto, Labels, Actors
<1>5. ASSUME NEW r \in Requests, Leave(r)
      PROVE  CountInv'
  BY <1>5, MovesAreQuiet DEF Leave, Goto, Labels, Actors
<1>6. ASSUME NEW r \in Requests, Reread(r)
      PROVE  CountInv'
  BY <1>6, MovesAreQuiet DEF Reread, Goto, Labels, Actors
<1>7. ASSUME NEW r \in Requests, NEW set \in SetCookies, Receive(r, set)
      PROVE  CountInv'
  <2>1. pc[r] = "headers" /\ UNCHANGED <<stats, model>> /\ r \in Actors
    BY <1>7 DEF Receive, Actors
  <2>2. CASE Retry(r, set)
    BY <1>a, <2>1, <2>2 DEF Retry
  <2>3. CASE WafBlock(r, set)
    BY <2>1, <2>3, MovesAreQuiet DEF WafBlock, Goto, Labels
  <2>4. ASSUME NEW o \in Answers, Conclude(r, o)
        PROVE  CountInv'
    BY <2>1, <2>4, ConcludeCounts
  <2> QED BY <1>7, <2>2, <2>3, <2>4 DEF Receive
<1>8. ASSUME NEW r \in Requests, TransportError(r)
      PROVE  CountInv'
  <2>1. pc[r] = "headers" /\ UNCHANGED <<stats, model>>
    BY <1>8 DEF TransportError
  <2>2. CASE Retry(r, <<>>)
    BY <1>a, <2>1, <2>2 DEF Retry
  <2>3. CASE Conclude(r, NoAnswer)
    BY <2>1, <2>3, ConcludeCounts DEF Answers
  <2> QED BY <1>8, <2>2, <2>3 DEF TransportError
<1>9. CASE UNCHANGED storesVars
  BY <1>9, <1>a DEF storesVars, requestVars
<1> QED
  BY <1>1, <1>2, <1>3, <1>4, <1>5, <1>6, <1>7, <1>8, <1>9, StartCounts,
     GateCounts, ResultCounts, LogCounts DEF StoresNext

(* A mean of no more than n times max, rounded half up, is at most max.    *)
LEMMA MeanBelowMax ==
  ASSUME NEW s \in Counts, NEW n \in Nat, n <= s.requests,
         s.totalMs <= n * s.maxMs
  PROVE  AvgMs(s) <= s.maxMs
<1> DEFINE q == s.requests
           max == s.maxMs
           sum == s.totalMs + q \div 2
<1>1. q \in Nat /\ max \in Nat /\ s.totalMs \in Nat
  BY DEF Counts
<1>2. CASE q = 0
  BY <1>1, <1>2 DEF AvgMs
<1>3. CASE q > 0
  <2>1. n * max <= q * max /\ q * max \in Nat /\ n * max \in Nat
    BY <1>1, SMTT(30)
  <2>2. q \div 2 \in Nat /\ q \div 2 < q
    BY <1>1, <1>3
  <2>3. sum \in Nat /\ sum < q * max + q
    BY <1>1, <2>1, <2>2
  <2>4. AvgMs(s) = sum \div q
    BY <1>3 DEF AvgMs
  <2> HIDE DEF q, max, sum
  <2>5. sum \div q \in Int /\ q * (sum \div q) <= sum
    BY <1>1, <1>3, <2>3, SMTT(30)
  <2>6. sum \div q <= max
    <3>1. q * (sum \div q) < q * (max + 1)
      BY <1>1, <2>1, <2>3, <2>5, SMTT(30)
    <3>2. sum \div q < max + 1
      BY <1>1, <1>3, <2>5, <3>1, SMTT(30)
    <3> QED BY <1>1, <2>5, <3>2
  <2> QED BY <2>4, <2>6 DEF max
<1> QED BY <1>1, <1>2, <1>3

(* The statistics add up at every moment, however the three calls of each  *)
(* request are interleaved with those of the others (stats.go:53-155).     *)
THEOREM StatisticsAgree == StoresSpec => []CountersAgree
<1>1. StoresInit => CountInv
  BY CountInit
<1>2. CountInv /\ [StoresNext]_storesVars => CountInv'
  BY CountStep
<1>3. CountInv => CountersAgree
  <2> SUFFICES ASSUME CountInv
               PROVE  CountersAgree
    OBVIOUS
  <2>1. ASSUME NEW m \in Models
        PROVE  m = "unknown" => AvgMs(stats[m]) <= stats[m].maxMs
    <3>1. stats[m] \in Counts /\ (m = "unknown" => stats[m].requests = 0)
      BY <2>1 DEF CountInv, Sums
    <3> QED BY <3>1 DEF AvgMs, Counts
  <2>2. ASSUME NEW m \in Models
        PROVE  /\ Cardinality(OfModel(m, Recorded)) \in Nat
               /\ Cardinality(OfModel(m, Recorded)) <=
                    Cardinality(OfModel(m, Requests))
    BY OfModelFinite DEF Recorded
  <2>3. ASSUME NEW m \in Models, m = "named"
        PROVE  AvgMs(stats[m]) <= stats[m].maxMs
    <3>1. stats[m] \in Counts /\ Sums(m, stats[m])
      BY <2>3 DEF CountInv
    <3> QED BY <2>2, <2>3, <3>1, MeanBelowMax DEF Sums
  <2> QED
    BY <2>1, <2>2, <2>3 DEF CountInv, Sums, CountersAgree, OfModel, Models
<1> QED BY <1>1, <1>2, <1>3, PTL DEF StoresSpec

-----------------------------------------------------------------------------
(* The cookies.                                                            *)

Cookies == UNION {ToSet(set) : set \in SetCookies}
Names == {c.name : c \in Cookies}
Lists == Seq(Cookies)

LEMMA SetsOfCookies == \A set \in SetCookies : set \in Lists
<1> SUFFICES ASSUME NEW set \in SetCookies PROVE set \in Lists
  OBVIOUS
<1>1. set \in Seq(ToSet(set)) /\ ToSet(set) \subseteq Cookies
  BY SharingAssumption DEF Cookies
<1> QED BY <1>1 DEF Lists

Wanted(c) == c.name \in WafNames /\ c.value # ""

(* What ExtractWafCookies has after k headers.                             *)
LEMMA ExtractionLoop ==
  ASSUME NEW set \in Lists
  PROVE  \E waf :
           /\ waf[0] = <<>>
           /\ \A k \in 1..Len(set) :
                waf[k] = IF Wanted(set[k]) THEN Append(waf[k - 1], set[k])
                                           ELSE waf[k - 1]
           /\ ExtractWafCookies(set) = waf[Len(set)]
<1> DEFINE extended(k, list) ==
             IF Wanted(set[k]) THEN Append(list, set[k]) ELSE list
           Waf(f) == f = [k \in 0..Len(set) |->
                            IF k = 0 THEN <<>> ELSE extended(k, f[k - 1])]
<1>1. Len(set) \in Nat /\ \A i \in 1..Len(set) : set[i] \in Cookies
  BY DEF Lists
<1>2. \A k \in 1..Len(set), list \in Lists : extended(k, list) \in Lists
  BY <1>1, AppendProperties DEF Lists
<1>3. ExtractWafCookies(set) = (CHOOSE f : Waf(f))[Len(set)]
  BY DEF ExtractWafCookies, Wanted
<1> HIDE DEF extended
<1>4. PICK step \in [(1..Len(set)) \X Lists -> Lists] :
        \A k \in 1..Len(set), list \in Lists :
          step[<<k, list>>] = extended(k, list)
  <2> DEFINE s == [kx \in (1..Len(set)) \X Lists |-> extended(kx[1], kx[2])]
  <2>1. s \in [(1..Len(set)) \X Lists -> Lists]
    BY <1>2
  <2>2. \A k \in 1..Len(set), list \in Lists :
          s[<<k, list>>] = extended(k, list)
    OBVIOUS
  <2> QED BY <2>1, <2>2
<1>5. PICK f \in [0..Len(set) -> Lists] :
        /\ f[0] = <<>>
        /\ \A k \in 1..Len(set) : f[k] = step[<<k, f[k - 1]>>]
  <2>1. <<>> \in Lists
    BY DEF Lists
  <2>2. LoopRuns(Len(set), Lists, <<>>, step)
    BY <1>1, <2>1, LoopDefined
  <2> QED BY <2>2 DEF LoopRuns
<1>6. ASSUME NEW k \in 1..Len(set)
      PROVE  f[k] = extended(k, f[k - 1])
  <2>1. k - 1 \in 0..Len(set) /\ f[k - 1] \in Lists
    BY <1>1
  <2>2. f[k] = step[<<k, f[k - 1]>>]
    BY <1>5
  <2> QED BY <1>4, <2>1, <2>2
<1>7. Waf(f)
  <2>1. f = [k \in 0..Len(set) |-> f[k]]
    BY <1>5
  <2>2. \A k \in 0..Len(set) :
          f[k] = IF k = 0 THEN <<>> ELSE extended(k, f[k - 1])
    BY <1>1, <1>5, <1>6
  <2> QED BY <2>1, <2>2
<1>8. PICK waf : Waf(waf) /\ ExtractWafCookies(set) = waf[Len(set)]
  <2> HIDE DEF Waf
  <2> QED BY <1>3, <1>7
<1>9. /\ waf[0] = <<>>
      /\ \A k \in 1..Len(set) : waf[k] = extended(k, waf[k - 1])
  <2>1. waf = [k \in 0..Len(set) |->
                 IF k = 0 THEN <<>> ELSE extended(k, waf[k - 1])]
    BY <1>8
  <2>2. \A k \in 0..Len(set) :
          waf[k] = IF k = 0 THEN <<>> ELSE extended(k, waf[k - 1])
    BY <2>1
  <2>3. 0 \in 0..Len(set) /\ \A k \in 1..Len(set) : k \in 0..Len(set) /\ k # 0
    BY <1>1
  <2> QED BY <2>2, <2>3
<1> QED BY <1>8, <1>9 DEF extended

LEMMA NamesOfLists ==
  ASSUME NEW list \in Lists
  PROVE  NamesOf(list) \in SUBSET Names
<1>1. \A i \in DOMAIN list : list[i] \in Cookies
  BY LenProperties, ElementOfSeq DEF Lists
<1> QED BY <1>1 DEF NamesOf, Names

(* A taken cookie comes from the answer, has a WAF name and is not empty.  *)
Taken(list, set) ==
  \A i \in DOMAIN list :
    Wanted(list[i]) /\ \E j \in DOMAIN set : list[i] = set[j]

LEMMA Extraction ==
  ASSUME NEW set \in Lists
  PROVE  ExtractWafCookies(set) \in Lists /\ Taken(ExtractWafCookies(set), set)
<1>1. PICK waf :
        /\ waf[0] = <<>>
        /\ \A k \in 1..Len(set) :
             waf[k] = IF Wanted(set[k]) THEN Append(waf[k - 1], set[k])
                                        ELSE waf[k - 1]
        /\ ExtractWafCookies(set) = waf[Len(set)]
  BY ExtractionLoop
<1>2. Len(set) \in Nat /\ DOMAIN set = 1..Len(set)
      /\ \A k \in 1..Len(set) : set[k] \in Cookies
  BY LenProperties, ElementOfSeq DEF Lists
<1> DEFINE T == {k \in 0..Len(set) : waf[k] \in Lists /\ Taken(waf[k], set)}
<1>3. 0 \in T
  <2>1. Taken(<<>>, set) /\ <<>> \in Lists
    BY DEF Taken, Lists
  <2> QED BY <1>1, <1>2, <2>1
<1>4. ASSUME NEW k \in 1..Len(set), k - 1 \in T
      PROVE  k \in T
  <2> DEFINE list == waf[k - 1]
  <2>1. list \in Lists /\ Taken(list, set) /\ k \in 0..Len(set)
    BY <1>2, <1>4
  <2>2. CASE Wanted(set[k])
    <3>1. waf[k] = Append(list, set[k])
      BY <1>1, <2>2
    <3>2. list \in Seq(Cookies) /\ set[k] \in Cookies
      BY <1>2, <2>1 DEF Lists
    <3> HIDE DEF list
    <3>3. /\ DOMAIN list = 1..Len(list) /\ Len(list) \in Nat
          /\ waf[k] \in Lists
          /\ DOMAIN waf[k] = 1..(Len(list) + 1)
          /\ \A i \in 1..Len(list) : waf[k][i] = list[i]
          /\ waf[k][Len(list) + 1] = set[k]
      BY <3>1, <3>2, AppendProperties, LenProperties DEF Lists
    <3>4. ASSUME NEW i \in DOMAIN waf[k]
          PROVE  Wanted(waf[k][i]) /\ \E j \in DOMAIN set : waf[k][i] = set[j]
      <4>1. CASE i = Len(list) + 1
        BY <1>2, <2>2, <3>3, <4>1
      <4>2. CASE i \in 1..Len(list)
        BY <2>1, <3>3, <4>2 DEF Taken, Wanted
      <4> QED BY <3>3, <4>1, <4>2
    <3> QED BY <2>1, <3>3, <3>4 DEF Taken, Wanted
  <2>3. CASE ~Wanted(set[k])
    BY <1>1, <2>1, <2>3
  <2> QED BY <2>2, <2>3
<1>5. Len(set) \in T
  <2> HIDE DEF T
  <2> QED BY <1>2, <1>3, <1>4, BoundedInduct
<1> QED BY <1>1, <1>5

(* What MergeWafCookies has after k cookies.                               *)
LEMMA MergeLoop ==
  ASSUME NEW current \in Lists, NEW fresh \in Lists
  PROVE  \E out :
           /\ out[0] = current
           /\ \A k \in 1..Len(fresh) : out[k] = Merged(out[k - 1], fresh[k])
           /\ MergeWafCookies(current, fresh) = out[Len(fresh)]
<1> DEFINE Out(f) == f = [k \in 0..Len(fresh) |->
                            IF k = 0 THEN current
                                     ELSE Merged(f[k - 1], fresh[k])]
<1>1. Len(fresh) \in Nat /\ \A i \in 1..Len(fresh) : fresh[i] \in Cookies
  BY DEF Lists
<1>2. ASSUME NEW list \in Lists, NEW c \in Cookies
      PROVE  Merged(list, c) \in Lists
  <2>1. Append(list, c) \in Lists
    BY AppendProperties DEF Lists
  <2>2. [i \in DOMAIN list |->
           IF list[i].name = c.name THEN c ELSE list[i]] \in Lists
    <3>1. DOMAIN list = 1..Len(list) /\ Len(list) \in Nat
          /\ \A i \in 1..Len(list) : list[i] \in Cookies
      BY LenProperties, ElementOfSeq DEF Lists
    <3>2. \A i \in 1..Len(list) :
            (IF list[i].name = c.name THEN c ELSE list[i]) \in Cookies
      BY <3>1
    <3> QED BY <3>1, <3>2 DEF Lists
  <2> QED BY <2>1, <2>2 DEF Merged
<1>3. MergeWafCookies(current, fresh) = (CHOOSE f : Out(f))[Len(fresh)]
  BY DEF MergeWafCookies
<1>4. PICK step \in [(1..Len(fresh)) \X Lists -> Lists] :
        \A k \in 1..Len(fresh), list \in Lists :
          step[<<k, list>>] = Merged(list, fresh[k])
  <2> DEFINE s == [kx \in (1..Len(fresh)) \X Lists |->
                     Merged(kx[2], fresh[kx[1]])]
  <2>1. s \in [(1..Len(fresh)) \X Lists -> Lists]
    BY <1>1, <1>2
  <2>2. \A k \in 1..Len(fresh), list \in Lists :
          s[<<k, list>>] = Merged(list, fresh[k])
    OBVIOUS
  <2> QED BY <2>1, <2>2
<1>5. PICK f \in [0..Len(fresh) -> Lists] :
        /\ f[0] = current
        /\ \A k \in 1..Len(fresh) : f[k] = step[<<k, f[k - 1]>>]
  <2>1. LoopRuns(Len(fresh), Lists, current, step)
    BY <1>1, LoopDefined
  <2> QED BY <2>1 DEF LoopRuns
<1>6. ASSUME NEW k \in 1..Len(fresh)
      PROVE  f[k] = Merged(f[k - 1], fresh[k])
  <2>1. k - 1 \in 0..Len(fresh) /\ f[k - 1] \in Lists
    BY <1>1
  <2>2. f[k] = step[<<k, f[k - 1]>>]
    BY <1>5
  <2> QED BY <1>4, <2>1, <2>2
<1>7. Out(f)
  <2>1. f = [k \in 0..Len(fresh) |-> f[k]]
    BY <1>5
  <2>2. \A k \in 0..Len(fresh) :
          f[k] = IF k = 0 THEN current ELSE Merged(f[k - 1], fresh[k])
    BY <1>1, <1>5, <1>6
  <2> QED BY <2>1, <2>2
<1>8. PICK out : Out(out) /\ MergeWafCookies(current, fresh) = out[Len(fresh)]
  <2> HIDE DEF Out
  <2> QED BY <1>3, <1>7
<1>9. /\ out[0] = current
      /\ \A k \in 1..Len(fresh) : out[k] = Merged(out[k - 1], fresh[k])
  <2>1. out = [k \in 0..Len(fresh) |->
                 IF k = 0 THEN current ELSE Merged(out[k - 1], fresh[k])]
    BY <1>8
  <2>2. \A k \in 0..Len(fresh) :
          out[k] = IF k = 0 THEN current ELSE Merged(out[k - 1], fresh[k])
    BY <2>1
  <2>3. /\ 0 \in 0..Len(fresh)
        /\ \A k \in 1..Len(fresh) : k \in 0..Len(fresh) /\ k # 0
    BY <1>1
  <2> QED BY <2>2, <2>3
<1> QED BY <1>8, <1>9

LEMMA MergeStep ==
  ASSUME NEW list \in Lists, WellFormed(list), NEW c \in Cookies, Wanted(c)
  PROVE  /\ Merged(list, c) \in Lists /\ WellFormed(Merged(list, c))
         /\ NamesOf(Merged(list, c)) = NamesOf(list) \cup {c.name}
<1>1. /\ DOMAIN list = 1..Len(list) /\ Len(list) \in Nat
      /\ \A i \in 1..Len(list) : list[i] \in Cookies
  BY LenProperties, ElementOfSeq DEF Lists
<1>2. /\ \A i \in 1..Len(list) : Wanted(list[i])
      /\ Cardinality(NamesOf(list)) = Len(list)
  BY <1>1 DEF WellFormed, Wanted
<1>3. CASE c.name \in NamesOf(list)
  <2> DEFINE new == [i \in 1..Len(list) |->
                       IF list[i].name = c.name THEN c ELSE list[i]]
  <2>1. Merged(list, c) = new
    BY <1>1, <1>3 DEF Merged
  <2>2. /\ \A i \in 1..Len(list) : new[i] \in Cookies /\ Wanted(new[i])
        /\ \A i \in 1..Len(list) : new[i].name = list[i].name
        /\ DOMAIN new = 1..Len(list)
    BY <1>1, <1>2
  <2>3. new \in Lists /\ Len(new) = Len(list)
    BY <1>1, <2>2 DEF Lists
  <2> HIDE DEF new
  <2>4. NamesOf(new) = NamesOf(list)
    BY <1>1, <2>2 DEF NamesOf
  <2> QED BY <1>2, <1>3, <2>1, <2>2, <2>3, <2>4 DEF WellFormed, Wanted
<1>4. CASE c.name \notin NamesOf(list)
  <2> DEFINE new == Append(list, c)
             n == Len(list)
  <2>1. Merged(list, c) = new
    BY <1>4 DEF Merged
  <2>2. /\ new \in Lists /\ Len(new) = n + 1 /\ DOMAIN new = 1..(n + 1)
        /\ \A i \in 1..n : new[i] = list[i]
        /\ new[n + 1] = c
    BY <1>1, AppendProperties, LenProperties DEF Lists
  <2> HIDE DEF new, n
  <2>3. NamesOf(new) = NamesOf(list) \cup {c.name}
    BY <1>1, <2>2 DEF NamesOf, n
  <2>4. IsFiniteSet(NamesOf(list))
    <3> DEFINE f == [i \in 1..n |-> list[i].name]
    <3>1. IsFiniteSet(1..n)
      BY <1>1, FS_Interval DEF n
    <3>2. NamesOf(list) = {f[i] : i \in 1..n}
      BY <1>1 DEF NamesOf, n
    <3>3. f \in Surjection(1..n, NamesOf(list))
      BY <3>2 DEF Surjection
    <3> QED BY <3>1, <3>3, FS_Surjection
  <2>5. Cardinality(NamesOf(new)) = Len(new)
    BY <1>2, <1>4, <2>2, <2>3, <2>4, FS_AddElement DEF n
  <2>6. \A i \in DOMAIN new : Wanted(new[i])
    BY <1>1, <1>2, <2>2 DEF n
  <2> QED BY <2>1, <2>2, <2>3, <2>5, <2>6 DEF WellFormed, Wanted
<1> QED BY <1>3, <1>4

(* A merge keeps every name and adds those of the answer; no name comes    *)
(* twice.                                                                  *)
LEMMA Merging ==
  ASSUME NEW current \in Lists, WellFormed(current), NEW fresh \in Lists,
         \A i \in DOMAIN fresh : Wanted(fresh[i])
  PROVE  LET merged == MergeWafCookies(current, fresh)
         IN  /\ merged \in Lists /\ WellFormed(merged)
             /\ NamesOf(merged) = NamesOf(current) \cup NamesOf(fresh)
<1>1. PICK out :
        /\ out[0] = current
        /\ \A k \in 1..Len(fresh) : out[k] = Merged(out[k - 1], fresh[k])
        /\ MergeWafCookies(current, fresh) = out[Len(fresh)]
  BY MergeLoop
<1>2. Len(fresh) \in Nat /\ DOMAIN fresh = 1..Len(fresh)
      /\ \A k \in 1..Len(fresh) : fresh[k] \in Cookies
  BY LenProperties, ElementOfSeq DEF Lists
<1> DEFINE FirstNames(k) == {fresh[j].name : j \in 1..k}
           T == {k \in 0..Len(fresh) :
                   /\ out[k] \in Lists /\ WellFormed(out[k])
                   /\ NamesOf(out[k]) = NamesOf(current) \cup FirstNames(k)}
<1>3. 0 \in T
  <2>1. FirstNames(0) = {}
    OBVIOUS
  <2> HIDE DEF FirstNames
  <2> QED BY <1>1, <1>2, <2>1
<1>4. ASSUME NEW k \in 1..Len(fresh), k - 1 \in T
      PROVE  k \in T
  <2>1. /\ out[k - 1] \in Lists /\ WellFormed(out[k - 1])
        /\ NamesOf(out[k - 1]) = NamesOf(current) \cup FirstNames(k - 1)
        /\ k \in 0..Len(fresh)
    BY <1>2, <1>4
  <2>2. out[k] = Merged(out[k - 1], fresh[k]) /\ Wanted(fresh[k])
        /\ fresh[k] \in Cookies
    BY <1>1, <1>2
  <2>3. FirstNames(k) = FirstNames(k - 1) \cup {fresh[k].name}
    <3>1. 1..k = 1..(k - 1) \cup {k}
      BY <1>2
    <3> QED BY <3>1
  <2>4. /\ out[k] \in Lists /\ WellFormed(out[k])
        /\ NamesOf(out[k]) = NamesOf(out[k - 1]) \cup {fresh[k].name}
    BY <2>1, <2>2, MergeStep
  <2> HIDE DEF FirstNames
  <2> QED BY <2>1, <2>3, <2>4
<1>5. Len(fresh) \in T
  <2>1. \A k \in 1..Len(fresh) : k - 1 \in T => k \in T
    BY <1>4
  <2> HIDE DEF T
  <2>2. \A k \in 0..Len(fresh) : k \in T
    BY <1>2, <1>3, <2>1, BoundedInduct
  <2> QED BY <1>2, <2>2
<1>6. FirstNames(Len(fresh)) = NamesOf(fresh)
  BY <1>2 DEF NamesOf
<1> QED BY <1>1, <1>5, <1>6
-----------------------------------------------------------------------------
(* The cookies that a request carries.                                     *)

(* A request that waits for a warm-up or its result is at its first        *)
(* attempt, and one that has been through it no longer is, so what it is   *)
(* owed is settled.  The store, which forgets no name, has all of it.      *)
CookieInv ==
  /\ cookies \in Lists /\ WellFormed(cookies)
  /\ header \in [Requests -> Lists]
  /\ due \in [Requests -> SUBSET Names]
  /\ rewarmed \in [Requests -> BOOLEAN]
  /\ attempt \in [Requests -> 0 .. MaxRetries + 1]
  /\ tries \in [Actors -> 0..2]
  /\ \A r \in Requests :
       /\ WellFormed(header[r])
       /\ due[r] \subseteq NamesOf(cookies)
       /\ pc[r] \in {"warmup", "reread"} => attempt[r] = 0
       /\ rewarmed[r] => attempt[r] # 0 /\ due[r] \subseteq NamesOf(header[r])

LEMMA NoCookies ==
  <<>> \in Lists /\ WellFormed(<<>>) /\ NamesOf(<<>>) = {}
<1>1. <<>> \in Lists /\ NamesOf(<<>>) = {}
  BY DEF Lists, NamesOf
<1>2. WellFormed(<<>>)
  BY <1>1, FS_EmptySet DEF WellFormed
<1> QED BY <1>1, <1>2

LEMMA CookieInit == StoresInit => CookieInv
<1> SUFFICES ASSUME StoresInit PROVE CookieInv
  OBVIOUS
<1>3. pc \in [Actors -> {"warmup", "start"}] /\ \A r \in Requests : r \in Actors
  BY DEF StoresInit, Actors
<1> QED
  BY <1>3, NoCookies, SharingAssumption DEF StoresInit, CookieInv, Actors

(* What a step makes of the store when it takes the cookies of an answer.  *)
LEMMA TakenCookies ==
  ASSUME CookieInv, NEW set \in SetCookies \cup {<<>>}
  PROVE  /\ NamesOf(ExtractWafCookies(set)) \in SUBSET Names
         /\ Take(set) =>
              /\ cookies' \in Lists /\ WellFormed(cookies')
              /\ NamesOf(cookies') =
                   NamesOf(cookies) \cup NamesOf(ExtractWafCookies(set))
<1> DEFINE fresh == ExtractWafCookies(set)
<1>1. set \in Lists
  <2>1. <<>> \in Lists
    BY DEF Lists
  <2> QED BY <2>1, SetsOfCookies
<1>2. fresh \in Lists /\ \A i \in DOMAIN fresh : Wanted(fresh[i])
  BY <1>1, Extraction DEF Taken
<1> HIDE DEF fresh
<1>3. NamesOf(fresh) \in SUBSET Names
  BY <1>2, NamesOfLists
<1>4. cookies \in Lists /\ WellFormed(cookies)
  BY DEF CookieInv
<1>5. Take(set) => cookies' = MergeWafCookies(cookies, fresh)
  BY DEF Take, fresh
<1> QED BY <1>2, <1>3, <1>4, <1>5, Merging DEF fresh

(* A request that has ended or gives up knows nothing any more.            *)
LEMMA ForgetKeeps ==
  ASSUME CookieInv, NEW r \in Requests, Forget(r),
         cookies' \in Lists, WellFormed(cookies)',
         NamesOf(cookies) \subseteq NamesOf(cookies'),
         tries' \in [Actors -> 0..2],
         \A q \in Requests : q # r => pc'[q] = pc[q]
  PROVE  CookieInv'
<1>1. /\ attempt' = [attempt EXCEPT ![r] = 0]
      /\ header' = [header EXCEPT ![r] = <<>>]
      /\ due' = [due EXCEPT ![r] = {}]
      /\ rewarmed' = [rewarmed EXCEPT ![r] = FALSE]
  BY DEF Forget
<1>2. /\ header' \in [Requests -> Lists] /\ due' \in [Requests -> SUBSET Names]
      /\ rewarmed' \in [Requests -> BOOLEAN]
      /\ attempt' \in [Requests -> 0 .. MaxRetries + 1]
  BY <1>1, NoCookies, SharingAssumption DEF CookieInv
<1>3. ASSUME NEW q \in Requests
      PROVE  /\ WellFormed(header'[q])
             /\ due'[q] \subseteq NamesOf(cookies')
             /\ pc'[q] \in {"warmup", "reread"} => attempt'[q] = 0
             /\ rewarmed'[q] =>
                  attempt'[q] # 0 /\ due'[q] \subseteq NamesOf(header'[q])
  <2>1. CASE q = r
    BY <1>1, <2>1, NoCookies DEF CookieInv
  <2>2. CASE q # r
    BY <1>1, <2>2 DEF CookieInv
  <2> QED BY <2>1, <2>2
<1> QED BY <1>2, <1>3 DEF CookieInv, WellFormed

(* What an answer brings a request, it is owed from then on, and the store *)
(* has it.                                                                 *)
LEMMA OweKeeps ==
  ASSUME CookieInv, NEW r \in Requests, NEW set \in SetCookies \cup {<<>>},
         Owe(r, set), UNCHANGED <<header, rewarmed>>,
         cookies' \in Lists, WellFormed(cookies)',
         NamesOf(cookies) \subseteq NamesOf(cookies'),
         attempt[r] = 0 =>
           NamesOf(ExtractWafCookies(set)) \subseteq NamesOf(cookies'),
         tries' \in [Actors -> 0..2],
         attempt' \in [Requests -> 0 .. MaxRetries + 1],
         \A q \in Requests :
           /\ q # r => pc'[q] = pc[q] /\ attempt'[q] = attempt[q]
           /\ attempt'[q] >= attempt[q],
         pc'[r] \in {"warmup", "reread"} => attempt'[r] = 0
  PROVE  CookieInv'
<1> DEFINE more == IF attempt[r] = 0 THEN NamesOf(ExtractWafCookies(set))
                                     ELSE {}
<1>1. due' = [due EXCEPT ![r] = due[r] \cup more]
  BY DEF Owe, CookieInv
<1>2. more \in SUBSET Names /\ more \subseteq NamesOf(cookies')
  BY TakenCookies
<1>3. attempt[r] # 0 => more = {}
  OBVIOUS
<1> HIDE DEF more
<1>4. due' \in [Requests -> SUBSET Names]
  BY <1>1, <1>2 DEF CookieInv
<1>5. ASSUME NEW q \in Requests
      PROVE  /\ WellFormed(header'[q])
             /\ due'[q] \subseteq NamesOf(cookies')
             /\ pc'[q] \in {"warmup", "reread"} => attempt'[q] = 0
             /\ rewarmed'[q] =>
                  attempt'[q] # 0 /\ due'[q] \subseteq NamesOf(header'[q])
  <2>1. /\ attempt[q] \in Nat /\ attempt'[q] \in Nat
        /\ attempt[q] # 0 => attempt'[q] # 0
    BY SharingAssumption DEF CookieInv
  <2>2. CASE q = r
    <3>1. due'[r] = due[r] \cup more
      BY <1>1 DEF CookieInv
    <3>2. WellFormed(header'[r]) /\ due'[r] \subseteq NamesOf(cookies')
      BY <1>2, <3>1 DEF CookieInv
    <3>3. rewarmed'[r] =>
            attempt[r] # 0 /\ due'[r] \subseteq NamesOf(header'[r])
      BY <1>3, <3>1 DEF CookieInv
    <3> QED BY <2>1, <2>2, <3>2, <3>3
  <2>3. CASE q # r
    BY <1>1, <2>1, <2>3 DEF CookieInv
  <2> QED BY <2>2, <2>3
<1> QED BY <1>4, <1>5 DEF CookieInv, WellFormed

(* A step that leaves the requests' cookies alone; the store may gain some.*)
LEMMA OthersKeepCookies ==
  ASSUME CookieInv, UNCHANGED <<header, due, rewarmed, attempt>>,
         cookies' \in Lists, WellFormed(cookies)',
         NamesOf(cookies) \subseteq NamesOf(cookies'),
         tries' \in [Actors -> 0..2],
         \A q \in Requests :
           pc'[q] \in {"warmup", "reread"} => attempt[q] = 0
  PROVE  CookieInv'
BY DEF CookieInv, WellFormed

LEMMA StoreKept ==
  ASSUME CookieInv, UNCHANGED cookies
  PROVE  /\ cookies' \in Lists /\ WellFormed(cookies)'
         /\ NamesOf(cookies) \subseteq NamesOf(cookies')
BY DEF CookieInv, WellFormed

LEMMA ReceiveKeepsCookies ==
  ASSUME CookieInv, RequestsAgree, NEW r \in Requests, NEW set \in SetCookies,
         Receive(r, set)
  PROVE  CookieInv'
<1>1. /\ pc[r] = "headers" /\ Take(set) /\ UNCHANGED tries
      /\ tries' \in [Actors -> 0..2] /\ r \in Actors
  BY DEF Receive, CookieInv, Actors
<1>2. /\ cookies' \in Lists /\ WellFormed(cookies')
      /\ NamesOf(cookies') =
           NamesOf(cookies) \cup NamesOf(ExtractWafCookies(set))
  BY <1>1, TakenCookies
<1>3. WellFormed(cookies)'
  BY <1>2 DEF WellFormed
<1>4. CASE Retry(r, set)
  <2>1. /\ attempt[r] < MaxRetries /\ attempt' = [attempt EXCEPT ![r] = @ + 1]
        /\ Owe(r, set) /\ UNCHANGED <<pc, header, rewarmed>>
    BY <1>4 DEF Retry
  <2>2. /\ attempt' \in [Requests -> 0 .. MaxRetries + 1]
        /\ \A q \in Requests : /\ q # r => attempt'[q] = attempt[q]
                               /\ attempt'[q] >= attempt[q]
    BY <2>1, SharingAssumption DEF CookieInv
  <2> QED BY <1>1, <1>2, <1>3, <2>1, <2>2, OweKeeps
<1>5. CASE WafBlock(r, set)
  <2>1. /\ attempt[r] = 0 /\ Goto(r, "warmup") /\ Owe(r, set)
        /\ UNCHANGED <<attempt, header, rewarmed>>
    BY <1>5 DEF WafBlock
  <2>2. /\ attempt' \in [Requests -> 0 .. MaxRetries + 1]
        /\ \A q \in Requests : /\ q # r => attempt'[q] = attempt[q]
                               /\ attempt'[q] >= attempt[q]
    BY <2>1, SharingAssumption DEF CookieInv
  <2>3. \A q \in Requests : q # r => pc'[q] = pc[q]
    BY <2>1 DEF Goto, RequestsAgree, Actors
  <2> QED BY <1>1, <1>2, <1>3, <2>1, <2>2, <2>3, OweKeeps
<1>6. ASSUME NEW o \in Answers, Conclude(r, o)
      PROVE  CookieInv'
  <2>1. Forget(r) /\ \A q \in Requests : q # r => pc'[q] = pc[q]
    BY <1>6 DEF Conclude, Goto, RequestsAgree, Actors
  <2> QED BY <1>1, <1>2, <1>3, <2>1, ForgetKeeps
<1> QED BY <1>4, <1>5, <1>6 DEF Receive

LEMMA TransportErrorKeepsCookies ==
  ASSUME CookieInv, RequestsAgree, NEW r \in Requests, TransportError(r)
  PROVE  CookieInv'
<1>1. /\ pc[r] = "headers" /\ UNCHANGED <<cookies, tries>>
      /\ tries' \in [Actors -> 0..2] /\ r \in Actors
  BY DEF TransportError, CookieInv, Actors
<1>2. /\ cookies' \in Lists /\ WellFormed(cookies)'
      /\ NamesOf(cookies) \subseteq NamesOf(cookies')
  BY <1>1, StoreKept
<1>3. CASE Retry(r, <<>>)
  <2>1. /\ attempt[r] < MaxRetries /\ attempt' = [attempt EXCEPT ![r] = @ + 1]
        /\ Owe(r, <<>>) /\ UNCHANGED <<pc, header, rewarmed>>
    BY <1>3 DEF Retry
  <2>2. /\ attempt' \in [Requests -> 0 .. MaxRetries + 1]
        /\ \A q \in Requests : /\ q # r => attempt'[q] = attempt[q]
                               /\ attempt'[q] >= attempt[q]
    BY <2>1, SharingAssumption DEF CookieInv
  <2>3. NamesOf(ExtractWafCookies(<<>>)) = {}
    BY NoCookies, Extraction DEF Taken, NamesOf
  <2> QED BY <1>1, <1>2, <2>1, <2>2, <2>3, OweKeeps
<1>4. CASE Conclude(r, NoAnswer)
  <2>1. Forget(r) /\ \A q \in Requests : q # r => pc'[q] = pc[q]
    BY <1>4 DEF Conclude, Goto, RequestsAgree, Actors
  <2> QED BY <1>1, <1>2, <2>1, ForgetKeeps
<1> QED BY <1>3, <1>4 DEF TransportError

LEMMA WarmupKeepsCookies ==
  ASSUME CookieInv, RequestsAgree, NEW a \in Actors, NEW set \in SetCookies,
         WarmupAttempt(a, set)
  PROVE  CookieInv'
<1>1. /\ pc[a] = "warmup" /\ Take(set)
      /\ UNCHANGED <<attempt, header, rewarmed>>
      /\ \/ /\ tries[a] < 2 /\ tries' = [tries EXCEPT ![a] = @ + 1]
            /\ UNCHANGED pc
         \/ /\ tries' = [tries EXCEPT ![a] = 0]
            /\ pc' = [pc EXCEPT ![a] =
                        IF a = Scheduler THEN "ticker" ELSE "reread"]
  BY DEF WarmupAttempt, Goto
<1>2. /\ cookies' \in Lists /\ WellFormed(cookies')
      /\ NamesOf(cookies') =
           NamesOf(cookies) \cup NamesOf(ExtractWafCookies(set))
  BY <1>1, TakenCookies
<1>3. WellFormed(cookies)' /\ NamesOf(cookies) \subseteq NamesOf(cookies')
  BY <1>2 DEF WellFormed
<1>4. tries' \in [Actors -> 0..2]
  BY <1>1 DEF CookieInv
<1>5. \A q \in Requests : q # a => pc'[q] = pc[q]
  BY <1>1 DEF RequestsAgree, Actors
<1>6. CASE a \in Requests
  <2>1. Owe(a, set) /\ attempt[a] = 0
    BY <1>1, <1>6 DEF WarmupAttempt, CookieInv
  <2>2. /\ attempt' \in [Requests -> 0 .. MaxRetries + 1]
        /\ \A q \in Requests : /\ q # a => attempt'[q] = attempt[q]
                               /\ attempt'[q] >= attempt[q]
    BY <1>1, SharingAssumption DEF CookieInv
  <2> QED BY <1>1, <1>2, <1>3, <1>4, <1>5, <1>6, <2>1, <2>2, OweKeeps
<1>7. CASE a \notin Requests
  <2>1. UNCHANGED due
    BY <1>7 DEF WarmupAttempt
  <2>2. \A q \in Requests :
          pc'[q] \in {"warmup", "reread"} => attempt[q] = 0
    BY <1>5, <1>7 DEF CookieInv
  <2> QED BY <1>1, <1>2, <1>3, <1>4, <2>1, <2>2, OthersKeepCookies
<1> QED BY <1>6, <1>7

LEMMA ReadCookieKeepsCookies ==
  ASSUME CookieInv, RequestsAgree, NEW r \in Requests, ReadCookie(r)
  PROVE  CookieInv'
<1>1. /\ header' = [header EXCEPT ![r] = cookies]
      /\ due' = [due EXCEPT ![r] = NamesOf(cookies)]
      /\ pc' = [pc EXCEPT ![r] = "gate"]
      /\ UNCHANGED <<cookies, tries, attempt, rewarmed>>
  BY DEF ReadCookie, Goto
<1>2. NamesOf(cookies) \in SUBSET Names
  BY NamesOfLists DEF CookieInv
<1>3. ASSUME NEW q \in Requests
      PROVE  /\ WellFormed(header'[q])
             /\ due'[q] \subseteq NamesOf(cookies')
             /\ pc'[q] \in {"warmup", "reread"} => attempt'[q] = 0
             /\ rewarmed'[q] =>
                  attempt'[q] # 0 /\ due'[q] \subseteq NamesOf(header'[q])
  <2>1. CASE q = r
    BY <1>1, <2>1 DEF CookieInv, RequestsAgree, Actors
  <2>2. CASE q # r
    BY <1>1, <2>2 DEF CookieInv, RequestsAgree, Actors
  <2> QED BY <2>1, <2>2
<1>4. /\ header' \in [Requests -> Lists] /\ due' \in [Requests -> SUBSET Names]
  BY <1>1, <1>2 DEF CookieInv
<1>5. cookies' \in Lists /\ WellFormed(cookies)'
  BY <1>1, StoreKept
<1>6. /\ rewarmed' \in [Requests -> BOOLEAN]
      /\ attempt' \in [Requests -> 0 .. MaxRetries + 1]
      /\ tries' \in [Actors -> 0..2]
  BY <1>1 DEF CookieInv
<1> QED BY <1>3, <1>4, <1>5, <1>6 DEF CookieInv, WellFormed

LEMMA RereadKeepsCookies ==
  ASSUME CookieInv, RequestsAgree, NEW r \in Requests, Reread(r)
  PROVE  CookieInv'
<1>1. /\ pc[r] = "reread"
      /\ header' = [header EXCEPT ![r] =
                      IF cookies = <<>> THEN header[r] ELSE cookies]
      /\ rewarmed' = [rewarmed EXCEPT ![r] = TRUE]
      /\ attempt' = [attempt EXCEPT ![r] = attempt[r] + 1]
      /\ pc' = [pc EXCEPT ![r] = "headers"]
      /\ UNCHANGED <<cookies, tries, due>>
  BY DEF Reread, Goto
<1>2. attempt[r] = 0 /\ due[r] \subseteq NamesOf(cookies)
  BY <1>1 DEF CookieInv
<1>3. ASSUME NEW q \in Requests
      PROVE  /\ WellFormed(header'[q])
             /\ due'[q] \subseteq NamesOf(cookies')
             /\ pc'[q] \in {"warmup", "reread"} => attempt'[q] = 0
             /\ rewarmed'[q] =>
                  attempt'[q] # 0 /\ due'[q] \subseteq NamesOf(header'[q])
  <2>1. CASE q = r
    <3>1. /\ pc'[r] = "headers" /\ attempt'[r] = 1 /\ due'[r] = due[r]
          /\ header'[r] = IF cookies = <<>> THEN header[r] ELSE cookies
      BY <1>1, <1>2 DEF CookieInv, RequestsAgree, Actors
    <3>2. CASE cookies = <<>>
      BY <1>1, <1>2, <2>1, <3>1, <3>2, NoCookies DEF CookieInv
    <3>3. CASE cookies # <<>>
      BY <1>1, <1>2, <2>1, <3>1, <3>3 DEF CookieInv
    <3> QED BY <3>2, <3>3
  <2>2. CASE q # r
    BY <1>1, <2>2 DEF CookieInv, RequestsAgree, Actors
  <2> QED BY <2>1, <2>2
<1>4. /\ header' \in [Requests -> Lists]
      /\ rewarmed' \in [Requests -> BOOLEAN]
      /\ attempt' \in [Requests -> 0 .. MaxRetries + 1]
  BY <1>1, <1>2, SharingAssumption DEF CookieInv
<1>5. cookies' \in Lists /\ WellFormed(cookies)'
  BY <1>1, StoreKept
<1>6. due' \in [Requests -> SUBSET Names] /\ tries' \in [Actors -> 0..2]
  BY <1>1 DEF CookieInv
<1> QED BY <1>3, <1>4, <1>5, <1>6 DEF CookieInv, WellFormed

LEMMA CookieStep ==
  CookieInv /\ RequestsAgree /\ [StoresNext]_storesVars => CookieInv'
<1> SUFFICES ASSUME CookieInv, RequestsAgree, [StoresNext]_storesVars
             PROVE  CookieInv'
  OBVIOUS
<1>a. ASSUME UNCHANGED <<cookies, header, due, rewarmed, attempt, tries>>,
             \A q \in Requests :
               pc'[q] \in {"warmup", "reread"} => pc'[q] = pc[q]
      PROVE  CookieInv'
  <2>1. tries' \in [Actors -> 0..2]
    BY <1>a DEF CookieInv
  <2>2. \A q \in Requests :
          pc'[q] \in {"warmup", "reread"} => attempt[q] = 0
    BY <1>a DEF CookieInv
  <2> QED BY <1>a, <2>1, <2>2, StoreKept, OthersKeepCookies
<1>1. CASE TickerFires
  BY <1>1, <1>a, SharingAssumption
     DEF TickerFires, Goto, RequestsAgree, requestVars, Actors
<1>2. ASSUME NEW r \in Requests, Reject(r)
      PROVE  CookieInv'
  BY <1>2, <1>a DEF Reject, requestVars
<1>3. ASSUME NEW r \in Requests,
             \/ Start(r) \/ Result(r) \/ LogEntry(r)
             \/ Gate(r) /\ UNCHANGED <<attempt, header, due, rewarmed>>
      PROVE  CookieInv'
  <2>1. UNCHANGED <<cookies, header, due, rewarmed, attempt, tries>>
    BY <1>3 DEF Start, Result, LogEntry, Gate, requestVars
  <2>2. \E l \in {"cookie", "log", "gone", "done", "headers"} :
          pc' = [pc EXCEPT ![r] = l]
    BY <1>3 DEF Start, Result, LogEntry, Gate, Goto
  <2> QED BY <1>a, <2>1, <2>2 DEF RequestsAgree, Actors
<1>4. ASSUME NEW r \in Requests, Leave(r) \/ (Gate(r) /\ Forget(r))
      PROVE  CookieInv'
  <2>1. Forget(r) /\ UNCHANGED cookies
    BY <1>4 DEF Leave, Gate
  <2>2. \A q \in Requests : q # r => pc'[q] = pc[q]
    BY <1>4 DEF Leave, Gate, Goto, RequestsAgree, Actors
  <2>3. tries' \in [Actors -> 0..2]
    BY <1>4 DEF Leave, Gate, CookieInv
  <2> QED BY <2>1, <2>2, <2>3, StoreKept, ForgetKeeps
<1>5. ASSUME NEW r \in Requests, Gate(r)
      PROVE  CookieInv'
  <2>1. Forget(r) \/ UNCHANGED <<attempt, header, due, rewarmed>>
    BY <1>5 DEF Gate
  <2> QED BY <1>3, <1>4, <1>5, <2>1
<1>6. CASE UNCHANGED storesVars
  BY <1>6, <1>a DEF storesVars, requestVars
<1> QED
  BY <1>1, <1>2, <1>3, <1>4, <1>5, <1>6, WarmupKeepsCookies,
     ReceiveKeepsCookies, TransportErrorKeepsCookies, ReadCookieKeepsCookies,
     RereadKeepsCookies DEF StoresNext

LEMMA StoresAlways ==
  StoresSpec => [](TypeOK /\ CountInv /\ CookieInv)
<1>1. StoresInit => CountInv /\ CookieInv
  BY CountInit, CookieInit
<1>2. CountInv /\ CookieInv /\ [StoresNext]_storesVars
      => CountInv' /\ CookieInv'
  BY CountStep, CookieStep DEF CountInv
<1>3. StoresSpec => Spec
  <2>1. StoresInit => Init
    BY DEF StoresInit
  <2> QED BY <2>1, StepsOfTheLog, PTL DEF StoresSpec, Spec
<1> QED BY <1>1, <1>2, <1>3, TypeCorrect, PTL DEF StoresSpec

(* The cookies, in the store and in every header, are always of different  *)
(* names, all of them the WAF's and none of them empty, whatever answers   *)
(* and warm-ups bring, in whatever order (waf.go:45-105).                  *)
THEOREM StoresWellFormed == StoresSpec => []StoresTypeOK
<1>1. ASSUME CountInv
      PROVE  stats \in [Models -> [DOMAIN NoCounts -> Nat]]
  <2>1. \A s \in Counts : s \in [DOMAIN NoCounts -> Nat]
    BY DEF Counts, NoCounts
  <2> QED BY <1>1, <2>1 DEF CountInv
<1>2. TypeOK /\ CountInv /\ CookieInv => StoresTypeOK
  BY <1>1 DEF CountInv, RequestsAgree, CookieInv, StoresTypeOK
<1> QED BY <1>2, StoresAlways, PTL

(* The attempt after a WAF block carries every name that the request was   *)
(* admitted with, that came with the block and that its warm-up fetched,   *)
(* whatever the others do to the store meanwhile: a merge forgets no name  *)
(* (waf.go:76-111, 174).                                                   *)
THEOREM WarmupIsCarried == StoresSpec => []RetryCarriesTheWarmup
<1>1. CookieInv => RetryCarriesTheWarmup
  BY DEF CookieInv, RetryCarriesTheWarmup
<1> QED BY <1>1, StoresAlways, PTL
=============================================================================
