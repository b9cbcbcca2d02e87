------------------------------- MODULE Server -------------------------------
(***************************************************************************)
(* The life of the process: main (src/cmd/proxy/main.go), the server's     *)
(* background goroutines and Shutdown (src/internal/server/server.go), the *)
(* requests in flight, and the check-in manager (module CheckIn), whose    *)
(* scheduler and runs are nobody's to wait for.                            *)
(***************************************************************************)
EXTENDS CheckIn

CONSTANTS
  Requests,   \* connections, each with a request at a time
  Loops,      \* runWarmup, runDiscovery and ProbeLoop: work, wait, again
  Once        \* resolveDNS, and runDiscovery without a key: work once

ASSUME GoroutinesAssumption == Loops \cap Once = {}

Goroutines == Loops \cup Once   \* what New adds to the wait group

VARIABLES
  main,       \* where main is
  signaled,   \* SIGINT or SIGTERM has come
  drain,      \* HTTP.Shutdown's result: "none", "drained", "timeout"
  bg,         \* each background goroutine
  req         \* each connection: "idle" is none, "open" has no request

serverVars == <<main, signaled, drain, bg, req>>
vars == <<checkinVars, serverVars>>

exited == main \in {"exit 0", "exit 1"}
accepting == main \in {"serve", "close"}

(* New starts the schedulers before main listens.                          *)
Init ==
  /\ CheckInInit
  /\ main = "listen"
  /\ signaled = FALSE
  /\ drain = "none"
  /\ bg = [g \in Goroutines |-> "work"]
  /\ req = [r \in Requests |-> "idle"]

MainAt(from, to) == main = from /\ main' = to

-----------------------------------------------------------------------------
(* main.                                                                   *)
Listen ==
  /\ \/ MainAt("listen", "serve")
     \/ MainAt("listen", "exit 1")
  /\ UNCHANGED <<checkinVars, signaled, drain, bg, req>>

Signal ==
  /\ main # "listen" /\ ~signaled
  /\ signaled' = TRUE
  /\ UNCHANGED <<checkinVars, main, drain, bg, req>>

ServeFails ==
  /\ MainAt("serve", "exit 1")
  /\ UNCHANGED <<checkinVars, signaled, drain, bg, req>>

(* Shutdown cancels the schedulers' context, ...                           *)
CancelSchedulers ==
  /\ signaled
  /\ MainAt("serve", "close")
  /\ canceled' = TRUE
  /\ UNCHANGED <<clockVars, runVars, loopVars, signaled, drain, bg, req>>

(* ... then stops accepting, but leaves the connections it has, ...        *)
StopListening ==
  /\ MainAt("close", "drain")
  /\ UNCHANGED <<checkinVars, signaled, drain, bg, req>>

InFlight == {r \in Requests : req[r] = "serving"}

(* A connection may begin a request for as long as it is not closed, and it*)
(* is closed once none of them has one.                                    *)
Drained ==
  /\ InFlight = {}
  /\ drain' = "drained"
  /\ req' = [r \in Requests |-> "idle"]

DrainForAsLongAsItTakes ==
  /\ MainAt("drain", "wait")
  /\ Drained
  /\ UNCHANGED <<checkinVars, signaled, bg>>

(* ... drains for 15s at most, ...                                         *)
Drain ==
  /\ MainAt("drain", "wait")
  /\ \/ Drained
     \/ drain' = "timeout" /\ UNCHANGED req
  /\ UNCHANGED <<checkinVars, signaled, bg>>

ExitCodeOfWait == "exit 0"

ExitCode == IF drain = "drained" THEN "exit 0" ELSE "exit 1"

(* ... and waits for the goroutines of its wait group, unbounded.          *)
WaitGroup ==
  /\ \A g \in Goroutines : bg[g] = "returned"
  /\ MainAt("wait", ExitCode)
  /\ UNCHANGED <<checkinVars, signaled, drain, bg, req>>

Main == Listen \/ CancelSchedulers \/ StopListening \/ Drain \/ WaitGroup

-----------------------------------------------------------------------------
(* The background goroutines: a round of work ends by itself, or because   *)
(* the context is canceled; then a select waits for ticker and context.    *)
BgAt(g, from, to) == bg[g] = from /\ bg' = [bg EXCEPT ![g] = to]

WorkEnds(g) ==
  /\ BgAt(g, "work", IF g \in Once THEN "returned" ELSE "select")
  /\ UNCHANGED <<checkinVars, main, signaled, drain, req>>

TickerFires(g) ==
  /\ BgAt(g, "select", "work")
  /\ UNCHANGED <<checkinVars, main, signaled, drain, req>>

GoroutineReturns(g) ==
  /\ canceled
  /\ BgAt(g, "select", "returned")
  /\ UNCHANGED <<checkinVars, main, signaled, drain, req>>

-----------------------------------------------------------------------------
(* A request takes as long as its upstream and its client do, and leaves   *)
(* its connection open for the next or closes it; one of the dashboard's   *)
(* starts a check-in that is not tied to it.                               *)
Becomes(r, from, to) == req[r] = from /\ req' = [req EXCEPT ![r] = to]

Accept(r) ==
  /\ accepting
  /\ Becomes(r, "idle", "open")
  /\ UNCHANGED <<checkinVars, main, signaled, drain, bg>>

RequestBegins(r) ==
  /\ Becomes(r, "open", "serving")
  /\ UNCHANGED <<checkinVars, main, signaled, drain, bg>>

ConnectionCloses(r) ==
  /\ Becomes(r, "open", "idle")
  /\ UNCHANGED <<checkinVars, main, signaled, drain, bg>>

Answered(r) == Becomes(r, "serving", "open") \/ Becomes(r, "serving", "idle")

RequestEnds(r) ==
  /\ Answered(r)
  /\ UNCHANGED <<checkinVars, main, signaled, drain, bg>>

HandleCheckinRun(r) ==
  /\ Answered(r)
  /\ RunNow
  /\ UNCHANGED <<main, signaled, drain, bg>>

Connection(r) ==
  \/ Accept(r) \/ RequestBegins(r) \/ ConnectionCloses(r)
  \/ RequestEnds(r) \/ HandleCheckinRun(r)

Next ==
  /\ ~exited
  /\ \/ Main \/ Signal \/ ServeFails
     \/ \E g \in Goroutines : WorkEnds(g) \/ TickerFires(g)
                                \/ GoroutineReturns(g)
     \/ \E r \in Requests : Connection(r)
     \/ CheckInNext /\ UNCHANGED serverVars

(* main goes on; a canceled context ends a round of work; and a select that*)
(* finds the context canceled again and again takes that case at last,     *)
(* because it chooses among the ready cases at random.  Requests need not  *)
(* end, nor the check-in's command.                                        *)
Spec ==
  /\ Init /\ [][Next]_vars
  /\ WF_vars(Next /\ Main)
  /\ \A g \in Goroutines : /\ WF_vars(Next /\ canceled /\ WorkEnds(g))
                           /\ SF_vars(Next /\ GoroutineReturns(g))

-----------------------------------------------------------------------------
ServerTypeOK ==
  /\ CheckInTypeOK
  /\ main \in {"listen", "serve", "close", "drain", "wait", "exit 0",
               "exit 1"}
  /\ drain \in {"none", "drained", "timeout"} /\ signaled \in BOOLEAN
  /\ bg \in [Goroutines -> {"work", "select", "returned"}]
  /\ req \in [Requests -> {"idle", "open", "serving"}]

(* Exit code 0 tells the truth: no request was cut off and no background   *)
(* goroutine of the wait group was still at work; only a run of the        *)
(* check-in, or its scheduler, may be.                                     *)
CleanExitMeansDrained ==
  main = "exit 0" =>
    /\ signaled /\ canceled
    /\ InFlight = {}
    /\ \A g \in Goroutines : bg[g] = "returned"

(* A signal ends the process, whatever the requests in flight, the rounds  *)
(* of the schedulers and a run of the check-in are doing ("drains active   *)
(* streams and forces exit after 15s", main.go:59-60).                     *)
ShutdownCompletes == signaled ~> exited
=============================================================================
