---------------------------- MODULE ServerProofs ----------------------------
(***************************************************************************)
(* Proofs about the process (module Server) and its check-in manager       *)
(* (module CheckIn), for any clock, any number of requests, runs and       *)
(* background goroutines.                                                  *)
(***************************************************************************)
EXTENDS Server, SequenceTheorems, FiniteSetTheorems, TLAPS

(* The multiples of a day do not count in a time of day.                   *)
LEMMA TimeOfDay ==
  ASSUME NEW d \in Nat \ {0}, NEW q \in Nat, NEW w \in 0 .. d - 1
  PROVE  (q * d + w) % d = w
BY SMTT(30)

(* nextWindowStart (manager.go:213-223) plans for the start of a window,   *)
(* strictly ahead of the clock.                                            *)
LEMMA NextWindowIsAhead ==
  ASSUME NEW now \in Nat
  PROVE  /\ NextWindowStart(now) \in Nat
         /\ NextWindowStart(now) > now
         /\ NextWindowStart(now) % Day = WindowStart
<1> DEFINE q == now \div Day
           today == q * Day + WindowStart
<1>1. Day \in Nat \ {0} /\ WindowStart \in 0 .. Day - 1
  BY ClockAssumption
<1>2. q \in Nat /\ q * Day <= now /\ now < q * Day + Day
  BY <1>1, SMTT(30)
<1>3. q * Day \in Nat /\ today \in Nat
  BY <1>1, <1>2, SMTT(30)
<1>4. today % Day = WindowStart
  BY <1>1, <1>2, TimeOfDay
<1>5. (today + Day) % Day = WindowStart
  <2> HIDE DEF q
  <2>0. q + 1 \in Nat
    BY <1>2
  <2>1. ((q + 1) * Day + WindowStart) % Day = WindowStart
    BY <1>1, <2>0, TimeOfDay
  <2>2. (q + 1) * Day + WindowStart = today + Day
    BY <1>1, <1>2, SMTT(30) DEF today
  <2> QED BY <2>1, <2>2
<1>6. NextWindowStart(now) = IF today > now THEN today ELSE today + Day
  BY DEF NextWindowStart
<1> HIDE DEF q, today
<1>7. today + Day > now
  <2>1. today + Day >= q * Day + Day
    BY <1>1, <1>2, <1>3, SMT DEF today
  <2> QED BY <2>1, <1>1, <1>2, <1>3, SMT
<1> QED BY <1>1, <1>3, <1>4, <1>5, <1>6, <1>7, SMT
-----------------------------------------------------------------------------
(* What the types rest on: Launch appends the run and points at it.        *)
LEMMA StartType ==
  ASSUME CheckInTypeOK, start
  PROVE  /\ running' \in BOOLEAN
         /\ runs' \in Seq({"executing", "finished"}) /\ Len(runs') <= MaxRuns
         /\ lastRun' = Len(runs')
<1>1. CASE running
  BY <1>1 DEF start, runVars, CheckInTypeOK
<1>2. CASE ~running
  <2>1. /\ runs \in Seq({"executing", "finished"})
        /\ Len(runs) < MaxRuns
        /\ running' = TRUE
        /\ runs' = Append(runs, "executing")
        /\ lastRun' = Len(runs')
    BY <1>2 DEF start, Launch, CheckInTypeOK
  <2>2. /\ runs' \in Seq({"executing", "finished"})
        /\ Len(runs') = Len(runs) + 1
    BY <2>1, AppendProperties
  <2>3. Len(runs) \in Nat /\ MaxRuns \in Nat
    BY <2>1, BoundsAssumption, LenProperties
  <2> QED BY <2>1, <2>2, <2>3
<1> QED BY <1>1, <1>2

LEMMA TypeInit == Init => ServerTypeOK
<1> SUFFICES ASSUME Init PROVE ServerTypeOK
  OBVIOUS
<1> USE DEF Init
<1>1. CheckInTypeOK
  <2>1. /\ runs = <<>> /\ runs \in Seq({"executing", "finished"})
        /\ fired = <<>> /\ fired \in Seq(Nat)
        /\ Len(runs) = 0 /\ lastRun = 0
    BY DEF CheckInInit
  <2>2. wall \in Nat /\ Len(runs) <= MaxRuns /\ setBacks \in 0 .. MaxSetBacks
    BY <2>1, ClockAssumption, BoundsAssumption DEF CheckInInit
  <2> QED BY <2>1, <2>2 DEF CheckInInit, CheckInTypeOK
<1>2. bg \in [Goroutines -> {"work", "select", "returned"}]
  OBVIOUS
<1>3. req \in [Requests -> {"idle", "open", "serving"}]
  OBVIOUS
<1> QED BY <1>1, <1>2, <1>3 DEF ServerTypeOK

(* Every step of the manager keeps its variables in their types.           *)
LEMMA CheckInType ==
  ASSUME CheckInTypeOK, CheckInNext
  PROVE  CheckInTypeOK'
<1> USE DEF CheckInTypeOK, clockVars, runVars, loopVars
<1>1. ASSUME NEW i \in DOMAIN runs, CommandEnds(i)
      PROVE  CheckInTypeOK'
  <2>1. /\ runs \in Seq({"executing", "finished"}) /\ i \in 1 .. Len(runs)
        /\ runs' = [runs EXCEPT ![i] = "finished"]
    BY <1>1 DEF CommandEnds
  <2>2. runs' \in Seq({"executing", "finished"}) /\ Len(runs') = Len(runs)
    BY <2>1, ExceptSeq
  <2> QED BY <1>1, <2>2 DEF CommandEnds
<1>2. CASE UpdateNextRun
  <2>1. nextRun' \in Nat /\ nextRun' % Day = WindowStart
    BY <1>2, NextWindowIsAhead DEF UpdateNextRun
  <2> QED BY <1>2, <2>1 DEF UpdateNextRun
<1>3. CASE NewTimer
  BY <1>3 DEF NewTimer
<1>4. CASE TimerFires
  <2>1. /\ running' \in BOOLEAN
        /\ runs' \in Seq({"executing", "finished"}) /\ Len(runs') <= MaxRuns
        /\ lastRun' = Len(runs')
    BY <1>4, StartType DEF TimerFires
  <2>2. fired' \in Seq(Nat)
    BY <1>4 DEF TimerFires
  <2> QED BY <1>4, <2>1, <2>2 DEF TimerFires
<1>5. CASE LoopReturns
  BY <1>5 DEF LoopReturns
<1>6. CASE Tick
  BY <1>6 DEF Tick
<1>7. CASE SetBack
  BY <1>7, BoundsAssumption DEF SetBack
<1> QED
  BY <1>1, <1>2, <1>3, <1>4, <1>5, <1>6, <1>7 DEF CheckInNext

LEMMA TypeStep == ServerTypeOK /\ [Next]_vars => ServerTypeOK'
<1> SUFFICES ASSUME ServerTypeOK, [Next]_vars PROVE ServerTypeOK'
  OBVIOUS
<1>0. CheckInTypeOK BY DEF ServerTypeOK
<1>a. UNCHANGED checkinVars => CheckInTypeOK'
  BY <1>0 DEF CheckInTypeOK, checkinVars, clockVars, runVars, loopVars
<1>1. CASE Main
  <2> USE DEF ServerTypeOK, MainAt
  <2>1. CASE Listen
    BY <1>a, <2>1 DEF Listen
  <2>2. CASE CancelSchedulers
    <3>1. CheckInTypeOK'
      BY <1>0, <2>2 DEF CancelSchedulers, CheckInTypeOK, clockVars, runVars,
                        loopVars
    <3> QED BY <2>2, <3>1 DEF CancelSchedulers
  <2>3. CASE StopListening
    BY <1>a, <2>3 DEF StopListening
  <2>4. CASE Drain
    BY <1>a, <2>4 DEF Drain, Drained
  <2>5. CASE WaitGroup
    BY <1>a, <2>5 DEF WaitGroup, ExitCode
  <2> QED BY <1>1, <2>1, <2>2, <2>3, <2>4, <2>5 DEF Main
<1>2. CASE Signal \/ ServeFails
  BY <1>a, <1>2 DEF ServerTypeOK, Signal, ServeFails, MainAt
<1>3. ASSUME NEW g \in Goroutines,
             WorkEnds(g) \/ TickerFires(g) \/ GoroutineReturns(g)
      PROVE  ServerTypeOK'
  BY <1>a, <1>3 DEF ServerTypeOK, WorkEnds, TickerFires, GoroutineReturns, BgAt
<1>4. ASSUME NEW r \in Requests,
             \/ Accept(r) \/ RequestBegins(r)
             \/ ConnectionCloses(r) \/ RequestEnds(r)
      PROVE  ServerTypeOK'
  BY <1>a, <1>4 DEF ServerTypeOK, Accept, RequestBegins, ConnectionCloses,
                    RequestEnds, Answered, Becomes
<1>5. ASSUME NEW r \in Requests, HandleCheckinRun(r)
      PROVE  ServerTypeOK'
  <2>1. /\ running' \in BOOLEAN
        /\ runs' \in Seq({"executing", "finished"}) /\ Len(runs') <= MaxRuns
        /\ lastRun' = Len(runs')
    BY <1>0, <1>5, StartType DEF HandleCheckinRun, RunNow
  <2>2. CheckInTypeOK'
    BY <1>0, <1>5, <2>1
       DEF HandleCheckinRun, RunNow, CheckInTypeOK, clockVars, loopVars
  <2> QED
    BY <1>5, <2>2 DEF HandleCheckinRun, Answered, Becomes, ServerTypeOK
<1>6. CASE CheckInNext /\ UNCHANGED serverVars
  BY <1>0, <1>6, CheckInType DEF ServerTypeOK, serverVars
<1>7. CASE UNCHANGED vars
  BY <1>a, <1>7 DEF ServerTypeOK, vars, serverVars
<1> QED
  BY <1>1, <1>2, <1>3, <1>4, <1>5, <1>6, <1>7 DEF Next, Connection

(* The manager and the server are well typed: what the scheduler plans for *)
(* is always the start of a window (manager.go:213).                       *)
THEOREM TypeCorrect == Spec => []ServerTypeOK
<1>1. Init => ServerTypeOK BY TypeInit
<1>2. ServerTypeOK /\ [Next]_vars => ServerTypeOK' BY TypeStep
<1> QED BY <1>1, <1>2, PTL DEF Spec

-----------------------------------------------------------------------------
(* start is the only step that starts a command, and the end of one is the *)
(* only step that clears the flag: each keeps the two together.            *)
LEMMA StartIsSingle ==
  ASSUME CheckInTypeOK, SingleFlight, start
  PROVE  SingleFlight'
<1>1. CASE running
  BY <1>1 DEF start, runVars, SingleFlight, Executing
<1>2. CASE ~running
  <2>1. /\ running' = TRUE
        /\ runs' = Append(runs, "executing")
        /\ lastRun' = Len(runs')
    BY <1>2 DEF start, Launch
  <2>2. \A i \in DOMAIN runs : runs[i] # "executing"
    BY <1>2 DEF SingleFlight, Executing
  <2>3. /\ Len(runs') = Len(runs) + 1
        /\ DOMAIN runs' = 1 .. Len(runs) + 1
        /\ \A i \in 1 .. Len(runs) : runs'[i] = runs[i]
        /\ runs'[Len(runs) + 1] = "executing"
    BY <2>1 DEF CheckInTypeOK
  <2>4. DOMAIN runs = 1 .. Len(runs) /\ Len(runs) \in Nat
    BY DEF CheckInTypeOK
  <2>5. Executing' = {Len(runs) + 1}
    BY <2>2, <2>3, <2>4 DEF Executing
  <2> QED BY <2>1, <2>3, <2>5 DEF SingleFlight
<1> QED BY <1>1, <1>2

LEMMA EndIsSingle ==
  ASSUME CheckInTypeOK, SingleFlight, NEW i \in DOMAIN runs, CommandEnds(i)
  PROVE  SingleFlight'
<1>1. runs' = [runs EXCEPT ![i] = "finished"] /\ running' = FALSE
  BY DEF CommandEnds
<1>2. Executing = {i}
  BY DEF SingleFlight, Executing, CommandEnds
<1>3. Executing' = {}
  BY <1>1, <1>2 DEF Executing, CheckInTypeOK
<1> QED BY <1>1, <1>3 DEF SingleFlight

LEMMA SingleStep == ServerTypeOK /\ SingleFlight /\ [Next]_vars => SingleFlight'
<1> SUFFICES ASSUME ServerTypeOK, SingleFlight, [Next]_vars
             PROVE  SingleFlight'
  OBVIOUS
<1>0. CheckInTypeOK BY DEF ServerTypeOK
<1>a. UNCHANGED runVars => SingleFlight'
  BY DEF SingleFlight, Executing, runVars
<1>1. ASSUME NEW i \in DOMAIN runs, CommandEnds(i)
      PROVE  SingleFlight'
  BY <1>0, <1>1, EndIsSingle
<1>2. CASE TimerFires
  BY <1>0, <1>2, StartIsSingle DEF TimerFires
<1>3. ASSUME NEW r \in Requests, HandleCheckinRun(r)
      PROVE  SingleFlight'
  BY <1>0, <1>3, StartIsSingle DEF HandleCheckinRun, RunNow
<1>4. CASE UpdateNextRun \/ NewTimer \/ LoopReturns \/ Tick \/ SetBack
  BY <1>a, <1>4 DEF UpdateNextRun, NewTimer, LoopReturns, Tick, SetBack
<1>5. CASE UNCHANGED checkinVars
  BY <1>a, <1>5 DEF checkinVars
<1>6. CASE CancelSchedulers
  BY <1>a, <1>6 DEF CancelSchedulers
<1>7. CASE UNCHANGED vars
  BY <1>5, <1>7 DEF vars
<1> QED
  BY <1>1, <1>2, <1>3, <1>4, <1>5, <1>6, <1>7
     DEF Next, Main, Listen, StopListening, Drain, WaitGroup, Signal,
         ServeFails, WorkEnds, TickerFires, GoroutineReturns, Connection,
         Accept, RequestBegins, ConnectionCloses, RequestEnds, CheckInNext,
         loopVars

(* At most one check-in command executes at a time, however the scheduler  *)
(* and the dashboard interleave, and the flag never outlives it.           *)
THEOREM OneRunAtATime == Spec => []SingleFlight
<1>1. Init => SingleFlight
  BY DEF Init, CheckInInit, SingleFlight, Executing
<1>2. ServerTypeOK /\ SingleFlight /\ [Next]_vars => SingleFlight'
  BY SingleStep
<1> QED BY <1>1, <1>2, TypeCorrect, PTL DEF Spec

-----------------------------------------------------------------------------
(* What Shutdown has established when main is behind each of its steps.  A *)
(* drained server has no connection left that could begin a request.       *)
Established ==
  /\ main \in {"close", "drain", "wait", "exit 0"} => signaled /\ canceled
  /\ main \in {"wait", "exit 0"} /\ drain = "drained"
       => \A r \in Requests : req[r] = "idle"
  /\ main = "exit 0" => /\ drain = "drained"
                        /\ \A g \in Goroutines : bg[g] = "returned"

LEMMA EstablishedStep ==
  ServerTypeOK /\ Established /\ [Next]_vars => Established'
<1> SUFFICES ASSUME ServerTypeOK, Established, [Next]_vars
             PROVE  Established'
  OBVIOUS
<1> USE DEF Established
<1>1. CASE UNCHANGED vars
  BY <1>1 DEF vars, checkinVars, serverVars
<1> SUFFICES ASSUME Next PROVE Established'
  BY <1>1
<1>0. main # "exit 0"
  BY DEF Next, exited
<1>2. CASE Main
  <2>1. CASE Listen
    BY <2>1 DEF Listen, MainAt
  <2>2. CASE CancelSchedulers
    BY <2>2 DEF CancelSchedulers, MainAt
  <2>3. CASE StopListening
    BY <2>3 DEF StopListening, MainAt, checkinVars
  <2>4. CASE Drain
    BY <2>4 DEF Drain, Drained, MainAt, checkinVars
  <2>5. CASE WaitGroup
    BY <2>5 DEF WaitGroup, MainAt, ExitCode, checkinVars
  <2> QED BY <1>2, <2>1, <2>2, <2>3, <2>4, <2>5 DEF Main
<1>3. CASE Signal \/ ServeFails
  BY <1>0, <1>3 DEF Signal, ServeFails, MainAt, checkinVars
<1>4. ASSUME NEW g \in Goroutines,
             WorkEnds(g) \/ TickerFires(g) \/ GoroutineReturns(g)
      PROVE  Established'
  BY <1>0, <1>4 DEF WorkEnds, TickerFires, GoroutineReturns, checkinVars
<1>5. ASSUME NEW r \in Requests, Connection(r)
      PROVE  Established'
  <2> USE DEF Connection, Accept, RequestBegins, ConnectionCloses,
              RequestEnds, HandleCheckinRun, Answered, Becomes
  <2>1. UNCHANGED <<main, signaled, drain, canceled>>
    BY <1>5 DEF RunNow, checkinVars
  <2>2. main = "wait" => req[r] # "idle"
    BY <1>5 DEF accepting
  <2> QED BY <1>0, <2>1, <2>2
<1>6. CASE CheckInNext /\ UNCHANGED serverVars
  BY <1>0, <1>6 DEF CheckInNext, CommandEnds, UpdateNextRun, NewTimer,
                    TimerFires, LoopReturns, Tick, SetBack, serverVars
<1> QED BY <1>2, <1>3, <1>4, <1>5, <1>6 DEF Next

(* Exit code 0 is only ever reported for a drained server whose schedulers *)
(* have returned (server.go:138-143, main.go:68-76).                       *)
THEOREM ExitCodeIsTrue == Spec => []CleanExitMeansDrained
<1>1. Init => Established
  BY DEF Init, Established
<1>2. ServerTypeOK /\ Established /\ [Next]_vars => Established'
  BY EstablishedStep
<1>3. Established => CleanExitMeansDrained
  BY DEF Established, CleanExitMeansDrained, InFlight
<1> QED BY <1>1, <1>2, <1>3, TypeCorrect, PTL DEF Spec
-----------------------------------------------------------------------------
(* How often a window may have been started.  A window that is planned, and*)
(* one that may be planned because the clock is before it, needs one more  *)
(* start; a planned one whose timer runs out before the clock gets there   *)
(* needs two, and takes a clock that was set back for it.                  *)
Times(w) == {i \in DOMAIN fired : fired[i] = w}

Pending(w) == loop \in {"arm", "wait"} /\ nextRun = w

Ahead(w) ==
  \/ ~Pending(w) /\ wall < w
  \/ Pending(w) /\ loop = "wait" /\ wall + timer < w

One(condition) == IF condition THEN 1 ELSE 0

Spent(w) == Cardinality(Times(w)) + One(Pending(w)) + One(Ahead(w))

WindowInv == \A w \in Nat : Spent(w) <= 1 + setBacks

LEMMA SetBacksCount == ServerTypeOK => setBacks \in Nat
<1>1. ServerTypeOK => setBacks \in 0 .. MaxSetBacks
  BY DEF ServerTypeOK, CheckInTypeOK
<1>2. MaxSetBacks \in Nat
  BY BoundsAssumption
<1> QED BY <1>1, <1>2

LEMMA TimesFinite ==
  ASSUME ServerTypeOK, NEW w
  PROVE  IsFiniteSet(Times(w)) /\ Cardinality(Times(w)) \in Nat
<1>1. fired \in Seq(Nat) /\ Len(fired) \in Nat /\ DOMAIN fired = 1 .. Len(fired)
  BY LenProperties DEF ServerTypeOK, CheckInTypeOK
<1>2. IsFiniteSet(1 .. Len(fired))
  BY <1>1, FS_Interval
<1> QED BY <1>1, <1>2, FS_Subset, FS_CardinalityType DEF Times

LEMMA TimesOfNext ==
  ASSUME ServerTypeOK, fired' = Append(fired, nextRun), NEW w
  PROVE  Cardinality(Times(w)') = Cardinality(Times(w)) + One(nextRun = w)
<1>1. fired \in Seq(Nat) /\ nextRun \in Nat
  BY DEF ServerTypeOK, CheckInTypeOK
<1>2. /\ Len(fired) \in Nat /\ Len(fired') = Len(fired) + 1
      /\ DOMAIN fired = 1 .. Len(fired) /\ DOMAIN fired' = 1 .. Len(fired) + 1
      /\ \A i \in 1 .. Len(fired) : fired'[i] = fired[i]
      /\ fired'[Len(fired) + 1] = nextRun
  BY <1>1, AppendProperties, LenProperties
<1>3. IsFiniteSet(Times(w)) /\ Cardinality(Times(w)) \in Nat
  BY TimesFinite
<1>6. Len(fired) + 1 \notin Times(w)
  BY <1>2 DEF Times
<1>4. CASE nextRun = w
  <2>1. Times(w)' = Times(w) \cup {Len(fired) + 1}
    BY <1>2, <1>4 DEF Times
  <2> QED BY <1>3, <1>6, <1>4, <2>1, FS_AddElement DEF One
<1>5. CASE nextRun # w
  <2>1. Times(w)' = Times(w)
    BY <1>2, <1>5 DEF Times
  <2> QED BY <1>3, <1>5, <2>1 DEF One
<1> QED BY <1>4, <1>5

LEMMA WindowStep == ServerTypeOK /\ WindowInv /\ [Next]_vars => WindowInv'
<1> SUFFICES ASSUME ServerTypeOK, WindowInv, [Next]_vars, NEW w \in Nat
             PROVE  Spent(w)' <= 1 + setBacks'
  BY DEF WindowInv
<1>0. /\ Cardinality(Times(w)) \in Nat
      /\ wall \in Nat /\ timer \in Nat /\ nextRun \in Nat /\ setBacks \in Nat
      /\ loop \in {"off", "plan", "arm", "wait"}
      /\ Spent(w) <= 1 + setBacks
  <2>1. Cardinality(Times(w)) \in Nat
    BY TimesFinite
  <2>2. setBacks \in Nat
    BY SetBacksCount
  <2> QED BY <2>1, <2>2 DEF ServerTypeOK, CheckInTypeOK, WindowInv
<1>s. ASSUME UNCHANGED <<clockVars, loopVars>>
      PROVE  Spent(w)' <= 1 + setBacks'
  BY <1>0, <1>s DEF clockVars, loopVars, Spent, Times, Pending, Ahead, One
<1> USE DEF Spent, Pending, Ahead, One
<1>1. CASE UpdateNextRun
  <2>1. nextRun' > wall /\ nextRun' \in Nat
    BY <1>0, <1>1, NextWindowIsAhead DEF UpdateNextRun
  <2>2. Times(w)' = Times(w)
    BY <1>1 DEF UpdateNextRun, Times
  <2> QED BY <1>0, <1>1, <2>1, <2>2 DEF UpdateNextRun, clockVars
<1>2. CASE NewTimer
  <2>1. Times(w)' = Times(w)
    BY <1>2 DEF NewTimer, Times
  <2> QED BY <1>0, <1>2, <2>1 DEF NewTimer, clockVars
<1>3. CASE TimerFires
  <2>1. Cardinality(Times(w)') = Cardinality(Times(w)) + One(nextRun = w)
    BY <1>3, TimesOfNext DEF TimerFires
  <2> QED BY <1>0, <1>3, <2>1 DEF TimerFires, clockVars
<1>4. CASE LoopReturns
  <2>1. Times(w)' = Times(w)
    BY <1>4 DEF LoopReturns, Times
  <2> QED BY <1>0, <1>4, <2>1 DEF LoopReturns, clockVars
<1>5. CASE Tick
  <2>1. Times(w)' = Times(w)
    BY <1>5 DEF Tick, Times
  <2> QED BY <1>0, <1>5, <2>1 DEF Tick
<1>6. CASE SetBack
  <2>1. Times(w)' = Times(w)
    BY <1>6 DEF SetBack, loopVars, Times
  <2>2. setBacks' = setBacks + 1 /\ Pending(w)' = Pending(w)
    BY <1>6 DEF SetBack, loopVars
  <2>3. /\ Spent(w) >= Cardinality(Times(w)) + One(Pending(w))
        /\ Spent(w)' <= Cardinality(Times(w)) + One(Pending(w)) + 1
    BY <1>0, <2>1, <2>2
  <2>4. Spent(w) \in Nat /\ Spent(w)' \in Nat
    BY <1>0, <2>1
  <2> HIDE DEF Spent
  <2> QED BY <1>0, <2>2, <2>3, <2>4
<1>7. CASE \E i \in DOMAIN runs : CommandEnds(i)
  BY <1>s, <1>7 DEF CommandEnds
<1>8. CASE UNCHANGED vars
  BY <1>s, <1>8 DEF vars, checkinVars
<1>9. CASE Next /\ ~CheckInNext
  <2>1. UNCHANGED <<clockVars, loopVars>>
    BY <1>9 DEF Next, Main, Listen, CancelSchedulers, StopListening, Drain,
                WaitGroup, Signal, ServeFails, WorkEnds, TickerFires,
                GoroutineReturns, Connection, Accept, RequestBegins,
                ConnectionCloses, RequestEnds, HandleCheckinRun, RunNow,
                checkinVars
  <2> QED BY <1>s, <2>1
<1> QED
  BY <1>1, <1>2, <1>3, <1>4, <1>5, <1>6, <1>7, <1>8, <1>9 DEF CheckInNext

(* However often the clock is set back, and whatever the timer makes of it,*)
(* no window starts the command more than once, and once for each time the *)
(* clock was set back (manager.go:185-209).                                *)
THEOREM WindowsStartOnce == Spec => []OncePerWindow
<1>1. Init => WindowInv
  <2> SUFFICES ASSUME Init, NEW w \in Nat PROVE Spent(w) <= 1 + setBacks
    BY DEF WindowInv
  <2>1. Times(w) = {} /\ ~Pending(w) /\ setBacks = 0
    BY DEF Init, CheckInInit, Times, Pending
  <2> QED BY <2>1, FS_EmptySet DEF Spent, One
<1>2. ServerTypeOK /\ WindowInv /\ [Next]_vars => WindowInv'
  BY WindowStep
<1>3. ServerTypeOK /\ WindowInv => OncePerWindow
  <2> SUFFICES ASSUME ServerTypeOK, WindowInv, NEW i \in DOMAIN fired
               PROVE  Cardinality(Times(fired[i])) <= 1 + setBacks
    BY DEF OncePerWindow, Times
  <2>0. fired \in Seq(Nat) /\ i \in 1 .. Len(fired)
    <3>1. fired \in Seq(Nat)
      BY DEF ServerTypeOK, CheckInTypeOK
    <3> QED BY <3>1, LenProperties
  <2>1. fired[i] \in Nat /\ setBacks \in Nat
    BY <2>0, SetBacksCount, ElementOfSeq
  <2>2. /\ Spent(fired[i]) <= 1 + setBacks
        /\ Cardinality(Times(fired[i])) \in Nat
    BY <2>1, TimesFinite DEF WindowInv
  <2> QED BY <2>1, <2>2 DEF Spent, One
<1> QED BY <1>1, <1>2, <1>3, TypeCorrect, PTL DEF Spec
=============================================================================
