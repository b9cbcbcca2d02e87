------------------------------ MODULE CheckIn -------------------------------
(***************************************************************************)
(* The check-in manager of src/internal/checkin/manager.go: a command that *)
(* is run once a day by a scheduler and at any time from the dashboard, but*)
(* never twice at a time.  The mutex makes each of its critical sections a *)
(* step; the command runs in between.  Module Server has the rest of the   *)
(* process: who calls RunNow, and what a shutdown does to it all.          *)
(*                                                                         *)
(* The scheduler plans by the wall clock and waits by a timer, which the   *)
(* wall clock does not move when it is set.                                *)
(***************************************************************************)
EXTENDS Integers, Sequences, FiniteSets

CONSTANTS
  Day,           \* ticks of the clock in a day
  WindowStart,   \* windowStart, as ticks since midnight
  MaxTime,       \* bound: how far the clock goes
  MaxRuns,       \* bound: runs of the command
  MaxSetBacks    \* bound: how often the clock is set back

ASSUME ClockAssumption == Day \in Nat \ {0} /\ WindowStart \in 0 .. Day - 1
ASSUME BoundsAssumption ==
  MaxTime \in Nat /\ MaxRuns \in Nat /\ MaxSetBacks \in Nat

VARIABLES
  wall,       \* the wall clock, in ticks since a midnight
  setBacks,   \* how often it has been set back
  canceled,   \* the server's context is canceled
  running,    \* Manager.running
  lastRun,    \* Manager.lastRun: a place in runs, 0 for none
  runs,       \* each RunResult, "executing" or "finished"
  nextRun,    \* Manager.nextRun
  loop,       \* where the scheduler is
  timer,      \* what is left of its timer
  fired       \* the windows it has called start for, in this order

clockVars == <<wall, setBacks>>
runVars == <<running, lastRun, runs>>
loopVars == <<nextRun, loop, timer, fired>>
checkinVars == <<clockVars, canceled, runVars, loopVars>>

(* The check-in is configured; it may be scheduled or only run by hand.    *)
CheckInInit ==
  /\ wall \in 0 .. Day - 1 /\ setBacks = 0
  /\ canceled = FALSE
  /\ running = FALSE /\ lastRun = 0 /\ runs = <<>>
  /\ nextRun = 0
  /\ loop \in {"plan", "off"}
  /\ timer = 0
  /\ fired = <<>>

(* Variants with a plausible bug, here and below: each breaks a property.  *)
TodayStillOrTomorrow(now) ==
  LET today == (now \div Day) * Day + WindowStart
  IN  IF today >= now THEN today ELSE today + Day

AfterADay(now) ==
  LET today == (now \div Day) * Day + WindowStart
  IN  IF today > now THEN today ELSE now + Day

(* Strictly in the future: today when still ahead, otherwise tomorrow.     *)
NextWindowStart(now) ==
  LET today == (now \div Day) * Day + WindowStart
  IN  IF today > now THEN today ELSE today + Day

-----------------------------------------------------------------------------
Launch ==
  /\ Len(runs) < MaxRuns
  /\ running' = TRUE
  /\ runs' = Append(runs, "executing")
  /\ lastRun' = Len(runs')

StartUnchecked == Launch

(* start: the check and the flag are one critical section.                 *)
start == IF running THEN UNCHANGED runVars ELSE Launch

(* RunNow, called for the dashboard.                                       *)
RunNow == start /\ UNCHANGED <<clockVars, canceled, loopVars>>

(* runCommand returns in the goroutine of run i.                           *)
CommandEnds(i) ==
  /\ runs[i] = "executing"
  /\ runs' = [runs EXCEPT ![i] = "finished"]
  /\ running' = FALSE
  /\ UNCHANGED <<clockVars, canceled, lastRun, loopVars>>

-----------------------------------------------------------------------------
(* loop.                                                                   *)
UpdateNextRun ==
  /\ loop = "plan"
  /\ nextRun' = NextWindowStart(wall)
  /\ loop' = "arm"
  /\ UNCHANGED <<clockVars, canceled, runVars, timer, fired>>

NewTimer ==
  /\ loop = "arm"
  /\ timer' = IF nextRun > wall THEN nextRun - wall ELSE 0
  /\ loop' = "wait"
  /\ UNCHANGED <<clockVars, canceled, runVars, nextRun, fired>>

(* The timer has run out, and the select takes it, canceled or not.        *)
TimerFires ==
  /\ loop = "wait" /\ timer = 0
  /\ start
  /\ fired' = Append(fired, nextRun)
  /\ loop' = "plan"
  /\ UNCHANGED <<clockVars, canceled, nextRun, timer>>

LoopReturns ==
  /\ loop = "wait" /\ canceled
  /\ loop' = "off"
  /\ UNCHANGED <<clockVars, canceled, runVars, nextRun, timer, fired>>

Tick ==
  /\ wall < MaxTime
  /\ wall' = wall + 1
  /\ timer' = IF timer > 0 THEN timer - 1 ELSE 0
  /\ UNCHANGED <<setBacks, canceled, runVars, nextRun, loop, fired>>

SetBack ==
  /\ setBacks < MaxSetBacks
  /\ setBacks' = setBacks + 1
  /\ wall' \in 0 .. wall - 1
  /\ UNCHANGED <<canceled, runVars, loopVars>>

CheckInNext ==
  \/ \E i \in DOMAIN runs : CommandEnds(i)
  \/ UpdateNextRun \/ NewTimer \/ TimerFires \/ LoopReturns
  \/ Tick \/ SetBack

-----------------------------------------------------------------------------
(* What is planned is always the start of a window.                        *)
CheckInTypeOK ==
  /\ wall \in Nat /\ setBacks \in 0..MaxSetBacks
  /\ canceled \in BOOLEAN /\ running \in BOOLEAN
  /\ runs \in Seq({"executing", "finished"}) /\ Len(runs) <= MaxRuns
  /\ lastRun = Len(runs)
  /\ nextRun \in Nat /\ (nextRun = 0 \/ nextRun % Day = WindowStart)
  /\ loop \in {"off", "plan", "arm", "wait"}
  /\ timer \in Nat
  /\ fired \in Seq(Nat)

Executing == {i \in DOMAIN runs : runs[i] = "executing"}

(* At most one command executes, whoever starts it, and the snapshot the   *)
(* dashboard gets is right about it: `running` and a last run without an   *)
(* end go together (manager.go:52), so that a run that has ended, however  *)
(* it ended, does not keep the next one out.                               *)
SingleFlight == Executing = IF running THEN {lastRun} ELSE {}

(* The command is scheduled once a day: no window starts it twice, except  *)
(* when the clock was set back behind it in between.                       *)
OncePerWindow ==
  \A w \in {fired[i] : i \in DOMAIN fired} :
    Cardinality({i \in DOMAIN fired : fired[i] = w}) <= 1 + setBacks
=============================================================================
