------------------------------- MODULE Stores -------------------------------
(***************************************************************************)
(* The stores that concurrent requests share: the WAF cookies              *)
(* (src/internal/auth/waf.go), the statistics of a model                   *)
(* (src/internal/models/stats.go) and the log (module LogStore), as        *)
(* ServeProxy and doRequest (src/internal/proxy/handler.go) and the        *)
(* server's warm-up loop use them.  Each store has a mutex of its own, so  *)
(* each access is a step and nothing relates one to the next: what a       *)
(* request reads may be old when it acts on it, and it is counted, recorded*)
(* and logged at different times.  What it asks of the breaker and why an  *)
(* answer is retried is in module Handler.                                 *)
(***************************************************************************)
EXTENDS LogStore, FiniteSets, SequencesExt

CONSTANTS
  Requests,
  MaxRetries,    \* Cfg.MaxRetries
  WafNames,      \* wafCookieNames
  SetCookies,    \* lists of Set-Cookie headers of the upstream's answers
  Durations,     \* how long an answer takes
  slowResponseMs

Scheduler == "runWarmup"

ASSUME SharingAssumption ==
  /\ IsFiniteSet(Requests) /\ Scheduler \notin Requests
  /\ MaxRetries \in Nat /\ Durations \subseteq Nat /\ slowResponseMs \in Nat
  /\ \A set \in SetCookies : set \in Seq(ToSet(set))
  /\ Requests \subseteq Entries

Actors == Requests \cup {Scheduler}
Models == {"named", "unknown"}

VARIABLES
  cookies,    \* Store.cookies: a list of [name, value]
  stats,      \* Recorder.stats
  pc,         \* the next access of each actor
  model,      \* the model of a request's body; "unknown" if it names none
  attempt,    \* doRequest's attempt
  tries,      \* Warmup's attempt
  header,     \* the Cookie header of the request's attempts
  due,        \* cookie names the first attempt and the warm-up brought
  rewarmed,   \* the request has been through a warm-up
  outcome     \* what the request will record

logVars == <<entries, next, full>>
requestVars == <<attempt, header, due, rewarmed, outcome>>
storesVars == <<logVars, cookies, stats, pc, model, tries, requestVars>>

NoCounts ==
  [requests |-> 0, successes |-> 0, failures |-> 0, emptyOutputs |-> 0,
   rateLimits |-> 0, upstreamErrors |-> 0, slowResponses |-> 0,
   totalMs |-> 0, maxMs |-> 0]

(* What Result is told: the status, whether there is an error, whether the *)
(* stream was empty.  A status below 400 that is not 200 comes with an     *)
(* error ("http_204"); an upstream that breaks a stream is a 502, and one  *)
(* that does not answer at all is a 502 that is recorded as taking no time.*)
(* A log entry is known by its request.                                    *)
Outcome(status, error, empty, ms) ==
  [status |-> status, error |-> error, empty |-> empty, ms |-> ms]

NoAnswer == Outcome(502, TRUE, FALSE, 0)

Answers ==
  {NoAnswer} \cup
    {o \in [status : {200, 204, 429, 502}, error : BOOLEAN, empty : BOOLEAN,
           ms : Durations] :
      (o.error <=> o.status # 200) /\ (o.empty => o.status = 200)}

CircuitOpen == Outcome(503, TRUE, FALSE, 0)

StoresInit ==
  /\ Init
  /\ cookies = <<>>
  /\ stats = [m \in Models |-> NoCounts]
  /\ pc = [a \in Actors |-> IF a = Scheduler THEN "warmup" ELSE "start"]
  /\ model = [r \in Requests |-> "unknown"]
  /\ attempt = [r \in Requests |-> 0]
  /\ tries = [a \in Actors |-> 0]
  /\ header = [r \in Requests |-> <<>>]
  /\ due = [r \in Requests |-> {}]
  /\ rewarmed = [r \in Requests |-> FALSE]
  /\ outcome = [r \in Requests |-> NoAnswer]

Goto(a, label) == pc' = [pc EXCEPT ![a] = label]

(* What a request knew is of no more use.                                  *)
Forget(r) ==
  /\ attempt' = [attempt EXCEPT ![r] = 0]
  /\ header' = [header EXCEPT ![r] = <<>>]
  /\ due' = [due EXCEPT ![r] = {}]
  /\ rewarmed' = [rewarmed EXCEPT ![r] = FALSE]

-----------------------------------------------------------------------------
(* The cookies.                                                            *)

NamesOf(list) == {list[i].name : i \in DOMAIN list}

(* A cleared cookie and one of another name are not taken.                 *)
ExtractWafCookies(set) ==
  LET waf[n \in 0..Len(set)] ==
        IF n = 0 THEN <<>>
        ELSE IF set[n].name \in WafNames /\ set[n].value # ""
             THEN Append(waf[n - 1], set[n])
             ELSE waf[n - 1]
  IN  waf[Len(set)]

(* Variants with a plausible bug, here and below: each breaks a property.  *)
ReplaceCookies(current, fresh) == IF fresh = <<>> THEN current ELSE fresh

AppendCookies(current, fresh) == current \o fresh

(* A cookie takes the place of the one of its name, or the last place.     *)
Merged(list, c) ==
  IF c.name \in NamesOf(list)
  THEN [i \in DOMAIN list |-> IF list[i].name = c.name THEN c ELSE list[i]]
  ELSE Append(list, c)

MergeWafCookies(current, fresh) ==
  LET out[n \in 0..Len(fresh)] ==
        IF n = 0 THEN current ELSE Merged(out[n - 1], fresh[n])
  IN  out[Len(fresh)]

(* Store.Capture, and the last step of Store.Warmup.                       *)
Take(set) == cookies' = MergeWafCookies(cookies, ExtractWafCookies(set))

(* What the first attempt and its warm-up bring r.                         *)
Owe(r, set) ==
  due' = [due EXCEPT ![r] =
            @ \cup IF attempt[r] = 0 THEN NamesOf(ExtractWafCookies(set))
                                     ELSE {}]

-----------------------------------------------------------------------------
(* The statistics.                                                         *)

CountRequest(m) == stats' = [stats EXCEPT ![m].requests = @ + 1]

IsSuccess(o) == o.status \in 200..299 /\ ~o.error

FailureByStatus(o) == o.status >= 400

IsFailure(o) == o.error \/ o.status >= 400 \/ o.empty

If(condition, n) == IF condition THEN n + 1 ELSE n

CountResult(m, o) ==
  LET s == stats[m]
  IN  stats' = [stats EXCEPT ![m] =
        [s EXCEPT !.totalMs = @ + o.ms,
                  !.maxMs = IF o.ms > @ THEN o.ms ELSE @,
                  !.successes = If(IsSuccess(o), @),
                  !.failures = If(IsFailure(o), @),
                  !.emptyOutputs = If(o.empty, @),
                  !.rateLimits = If(o.status = 429, @),
                  !.upstreamErrors = If(o.status >= 500, @),
                  !.slowResponses = If(o.ms >= slowResponseMs, @)]]

(* Snapshot's mean, rounded half up; it divides by the requests begun.     *)
AvgMs(s) ==
  IF s.requests = 0 THEN 0
  ELSE (s.totalMs + s.requests \div 2) \div s.requests

-----------------------------------------------------------------------------
(* An upload that is rejected is logged and nothing else; the client may   *)
(* try again.                                                              *)
Reject(r) ==
  /\ pc[r] = "start"
  /\ Add(r)
  /\ UNCHANGED <<cookies, stats, pc, model, tries, requestVars>>

(* ServeProxy: the request is counted, then the cookie read, then the gate *)
(* passed or found shut.                                                   *)
Start(r) ==
  /\ pc[r] = "start"
  /\ \/ model' = [model EXCEPT ![r] = "named"] /\ CountRequest("named")
     \/ UNCHANGED <<model, stats>>
  /\ Goto(r, "cookie")
  /\ UNCHANGED <<logVars, cookies, tries, requestVars>>

ReadCookie(r) ==
  /\ pc[r] = "cookie"
  /\ header' = [header EXCEPT ![r] = cookies]
  /\ due' = [due EXCEPT ![r] = NamesOf(cookies)]
  /\ Goto(r, "gate")
  /\ UNCHANGED <<logVars, model, cookies, stats, tries, attempt, rewarmed,
                 outcome>>

Gate(r) ==
  /\ pc[r] = "gate"
  /\ \/ /\ Goto(r, "headers")
        /\ UNCHANGED <<attempt, header, due, rewarmed, outcome>>
     \/ /\ Goto(r, "log")
        /\ outcome' = [outcome EXCEPT ![r] = CircuitOpen]
        /\ Forget(r)
  /\ UNCHANGED <<logVars, model, cookies, stats, tries>>

(* doRequest goes on with what it got: it retries with the header it has,  *)
(* asks for a warm-up, on its first attempt only, or records the outcome.  *)
Retry(r, set) ==
  /\ attempt[r] < MaxRetries
  /\ attempt' = [attempt EXCEPT ![r] = @ + 1]
  /\ Owe(r, set)
  /\ UNCHANGED <<pc, header, rewarmed, outcome>>

WafBlock(r, set) ==
  /\ attempt[r] = 0
  /\ Goto(r, "warmup")
  /\ Owe(r, set)
  /\ UNCHANGED <<attempt, header, rewarmed, outcome>>

Conclude(r, o) ==
  /\ Goto(r, "result")
  /\ outcome' = [outcome EXCEPT ![r] = o]
  /\ Forget(r)

(* An answer: its cookies are taken whatever it is.                        *)
Receive(r, set) ==
  /\ pc[r] = "headers"
  /\ Take(set)
  /\ Retry(r, set) \/ WafBlock(r, set) \/ \E o \in Answers : Conclude(r, o)
  /\ UNCHANGED <<logVars, model, stats, tries>>

TransportError(r) ==
  /\ pc[r] = "headers"
  /\ Retry(r, <<>>) \/ Conclude(r, NoAnswer)
  /\ UNCHANGED <<logVars, model, cookies, stats, tries>>

(* The client disconnects: nothing is recorded, nothing logged.            *)
Leave(r) ==
  /\ pc[r] \in {"headers", "warmup", "reread"}
  /\ Goto(r, "gone")
  /\ tries' = [tries EXCEPT ![r] = 0]
  /\ Forget(r)
  /\ UNCHANGED <<logVars, model, cookies, stats, outcome>>

(* One of the three attempts of Warmup, a request's or the scheduler's.    *)
WarmupAttempt(a, set) ==
  /\ pc[a] = "warmup"
  /\ Take(set)
  /\ IF a \in Requests THEN Owe(a, set) ELSE UNCHANGED due
  /\ IF ExtractWafCookies(set) = <<>> /\ tries[a] < 2
     THEN tries' = [tries EXCEPT ![a] = @ + 1] /\ UNCHANGED pc
     ELSE /\ tries' = [tries EXCEPT ![a] = 0]
          /\ Goto(a, IF a = Scheduler THEN "ticker" ELSE "reread")
  /\ UNCHANGED <<logVars, model, stats, attempt, header, rewarmed, outcome>>

TickerFires ==
  /\ pc[Scheduler] = "ticker"
  /\ Goto(Scheduler, "warmup")
  /\ UNCHANGED <<logVars, model, cookies, stats, tries, requestVars>>

Reread(r) ==
  /\ pc[r] = "reread"
  /\ header' = [header EXCEPT ![r] = IF cookies = <<>> THEN @ ELSE cookies]
  /\ rewarmed' = [rewarmed EXCEPT ![r] = TRUE]
  /\ attempt' = [attempt EXCEPT ![r] = @ + 1]
  /\ Goto(r, "headers")
  /\ UNCHANGED <<logVars, model, cookies, stats, tries, due, outcome>>

Result(r) ==
  /\ pc[r] = "result"
  /\ CountResult(model[r], outcome[r])
  /\ Goto(r, "log")
  /\ UNCHANGED <<logVars, model, cookies, tries, requestVars>>

LogEntry(r) ==
  /\ pc[r] = "log"
  /\ Add(r)
  /\ Goto(r, IF outcome[r] = CircuitOpen THEN "gone" ELSE "done")
  /\ outcome' = [outcome EXCEPT ![r] = NoAnswer]
  /\ UNCHANGED <<cookies, stats, model, tries, attempt, header, due, rewarmed>>

StoresNext ==
  \/ TickerFires
  \/ \E a \in Actors, set \in SetCookies : WarmupAttempt(a, set)
  \/ \E r \in Requests :
       \/ Reject(r) \/ Start(r) \/ ReadCookie(r) \/ Gate(r)
       \/ \E set \in SetCookies : Receive(r, set)
       \/ TransportError(r) \/ Leave(r) \/ Reread(r) \/ Result(r) \/ LogEntry(r)

StoresSpec == StoresInit /\ [][StoresNext]_storesVars

-----------------------------------------------------------------------------
(* The log is a ring of entries; the cookies, in the store and in every    *)
(* header, are of different names, all of them allowed, none of them empty *)
(* ("worse than sending nothing", waf.go:51).                              *)
WellFormed(list) ==
  /\ \A i \in DOMAIN list : list[i].name \in WafNames /\ list[i].value # ""
  /\ Cardinality(NamesOf(list)) = Len(list)

StoresTypeOK ==
  /\ TypeOK
  /\ WellFormed(cookies)
  /\ \A r \in Requests : WellFormed(header[r])
  /\ stats \in [Models -> [DOMAIN NoCounts -> Nat]]
  /\ model \in [Requests -> Models]
  /\ attempt \in [Requests -> 0 .. MaxRetries + 1]
  /\ tries \in [Actors -> 0..2]

(* The requests whose result is in the statistics.                         *)
Recorded ==
  {r \in Requests :
     pc[r] = "done" \/ (pc[r] = "log" /\ outcome[r] # CircuitOpen)}

(* The dashboard's numbers add up, although a request is counted at three  *)
(* times by three calls: each recorded result is a success or a failure,   *)
(* an empty stream both; no failure has two reasons; a model has no more   *)
(* results than requests, and its mean does not exceed its maximum.  What  *)
(* a request without a model leaves is found under "unknown", where no     *)
(* request is counted.                                                     *)
CountersAgree ==
  \A m \in Models :
    LET s == stats[m]
        ofModel(R) == Cardinality({r \in R : model[r] = m})
    IN  /\ s.requests = IF m = "named" THEN ofModel(Requests) ELSE 0
        /\ s.successes + s.failures = ofModel(Recorded) + s.emptyOutputs
        /\ s.rateLimits + s.upstreamErrors + s.emptyOutputs <= s.failures
        /\ s.slowResponses <= ofModel(Recorded)
        /\ m = "named" => ofModel(Recorded) <= s.requests
        /\ AvgMs(s) <= s.maxMs

(* The attempt after a WAF block carries every cookie name that the request*)
(* was admitted with, that came with the block and that its warm-up        *)
(* fetched, whatever other requests and the scheduler did to the store     *)
(* meanwhile: "merged, never replaced, so traffic-only names survive"      *)
(* (waf.go:174).                                                           *)
RetryCarriesTheWarmup ==
  \A r \in Requests : rewarmed[r] => due[r] \subseteq NamesOf(header[r])
=============================================================================
