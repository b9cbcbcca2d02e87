------------------------------ MODULE Handler ------------------------------
(***************************************************************************)
(* The request path of src/internal/proxy/handler.go: ServeProxy and the   *)
(* retry loop doRequest, for concurrent requests that share the circuit    *)
(* breaker and the counter of active requests.                             *)
(*                                                                         *)
(* A step is what a goroutine does between two points where it waits for   *)
(* someone: the client's upload, the upstream's headers or body, a timer.  *)
(* The breaker appears as its two observable facts, the count and whether  *)
(* the circuit is open (module Breaker has its interleavings); a model     *)
(* lock as the marks a request has put on its model (module ModelHealth    *)
(* has what becomes of them).  The cookie a request carries, the statistics*)
(* and the log are in module Stores.                                       *)
(***************************************************************************)
EXTENDS Integers, FiniteSets

CONSTANTS
  Requests,     \* the requests being served at one time
  Named,        \* those whose body names a model
  MaxRetries,   \* Cfg.MaxRetries
  RetryOn5xx,   \* Cfg.RetryOn5xx
  Threshold     \* failThreshold of the breaker

ASSUME RequestsAssumption == IsFiniteSet(Requests) /\ Named \subseteq Requests
ASSUME RetryAssumption == MaxRetries \in Nat /\ RetryOn5xx \in BOOLEAN
ASSUME ThresholdAssumption == Threshold \in Nat \ {0}

VARIABLES
  pc,         \* the wait each request is in
  gone,       \* its client has disconnected: the context is canceled
  attempt,    \* doRequest's attempt
  answer,     \* the upstream's latest answer
  cause,      \* why the latest attempt failed without a whole answer
  tally,      \* how often it replied, recorded a result, told the breaker
  marks,      \* the locks it put on its model
  fails,      \* Breaker.consecutiveFails, up to Threshold
  open,       \* Breaker.IsOpen
  active      \* Handler.Active

vars == <<pc, gone, attempt, answer, cause, tally, marks, fails, open, active>>

(* The upstream's answers, by what the code tells apart: a 200 with a body,*)
(* a 200 with events, another status below 400, a 403/405 with and without *)
(* the WAF page, a 429, a 400/402, another 4xx, a 5xx, and a 5xx that is a *)
(* content-filter or account-side rejection.                               *)
Successes == {"ok", "sse", "moved"}
Suspects  == {"waf", "denied"}
Errors5xx == {"outage", "exempt"}
Answers   == Successes \cup Suspects \cup Errors5xx
               \cup {"limited", "refused", "client4xx"}

(* A body arrives whole, the upstream cuts it, or the client's leaving     *)
(* cancels the read.                                                       *)
Causes == {"none", "upstream", "client"}

BodyEnds(r) == {"none", "upstream"} \cup IF gone[r] THEN {"client"} ELSE {}

(* What is counted per request: replies written before the upstream was    *)
(* asked and after, Recorder.Result, Breaker.RecordFailure, RecordSuccess. *)
Counted == {"local", "reply", "result", "failure", "success"}

Waits == {"gate", "loop", "headers", "judge", "warmup", "buffer", "sleep",
          "forward", "copy", "stream"}
InFlight == Waits \ {"gate"}

Init ==
  /\ pc = [r \in Requests |-> "idle"]
  /\ gone = [r \in Requests |-> FALSE]
  /\ attempt = [r \in Requests |-> 0]
  /\ answer = [r \in Requests |-> "none"]
  /\ cause = [r \in Requests |-> "none"]
  /\ tally = [r \in Requests |-> [c \in Counted |-> 0]]
  /\ marks = [r \in Requests |-> {}]
  /\ fails = 0
  /\ open = FALSE
  /\ active = 0

-----------------------------------------------------------------------------
(* Helpers.                                                                *)

Goto(r, label) == pc' = [pc EXCEPT ![r] = label]

Tally(r, counted) ==
  tally' = [tally EXCEPT ![r] =
              [c \in Counted |-> IF c \in counted THEN tally[r][c] + 1
                                                  ELSE tally[r][c]]]

MarkModel(r, mark) ==
  marks' = [marks EXCEPT ![r] = IF r \in Named THEN @ \cup {mark} ELSE @]

(* Nothing asks by how much the count is past Threshold.                   *)
RecordFailure ==
  /\ fails' = IF fails < Threshold THEN fails + 1 ELSE Threshold
  /\ open' = (open \/ fails' = Threshold)

RecordSuccess == fails' = 0 /\ UNCHANGED open

(* Variants with a plausible bug, here and below: each breaks a property.  *)
ReturnsWithoutDecrement(r) == Goto(r, "done") /\ UNCHANGED active

(* The deferred decrement runs on every way out of doRequest.              *)
Return(r) ==
  /\ Goto(r, "done")
  /\ active' = active - 1

OneRetryMore(r) == attempt[r] <= MaxRetries

CanRetry(r) == attempt[r] < MaxRetries

breakerVars == <<fails, open>>

-----------------------------------------------------------------------------
(* ServeProxy up to the gate.                                              *)

Arrive(r) ==
  /\ pc[r] \in {"idle", "done"}
  /\ Goto(r, "upload")
  /\ gone' = [gone EXCEPT ![r] = FALSE]
  /\ attempt' = [attempt EXCEPT ![r] = 0]
  /\ answer' = [answer EXCEPT ![r] = "none"]
  /\ cause' = [cause EXCEPT ![r] = "none"]
  /\ tally' = [tally EXCEPT ![r] = [c \in Counted |-> 0]]
  /\ marks' = [marks EXCEPT ![r] = {}]
  /\ UNCHANGED <<breakerVars, active>>

(* 413 or 408; a client that left during the upload may get no answer.     *)
RejectUpload(r) ==
  /\ pc[r] = "upload"
  /\ Goto(r, "done")
  /\ \/ Tally(r, {"local"})
     \/ gone[r] /\ UNCHANGED tally
  /\ UNCHANGED <<gone, attempt, answer, cause, marks, breakerVars,
                 active>>

UploadEnds(r) ==
  /\ pc[r] = "upload"
  /\ Goto(r, IF gone[r] THEN "done" ELSE "gate")
  /\ UNCHANGED <<gone, attempt, answer, cause, tally, marks, breakerVars,
                 active>>

DefersBeforeTheGate(r) ==
  /\ pc[r] = "gate"
  /\ \/ open /\ Return(r) /\ Tally(r, {"local"})
     \/ ~open /\ Goto(r, "loop") /\ active' = active + 1 /\ UNCHANGED tally
  /\ UNCHANGED <<gone, attempt, answer, cause, marks, breakerVars>>

(* A request that finds the circuit open never counts as active.           *)
Gate(r) ==
  /\ pc[r] = "gate"
  /\ \/ open /\ Goto(r, "done") /\ Tally(r, {"local"}) /\ UNCHANGED active
     \/ ~open /\ Goto(r, "loop") /\ active' = active + 1 /\ UNCHANGED tally
  /\ UNCHANGED <<gone, attempt, answer, cause, marks, breakerVars>>

-----------------------------------------------------------------------------
(* doRequest.                                                              *)

LoopTop(r) ==
  /\ pc[r] = "loop"
  /\ cause' = [cause EXCEPT ![r] = "none"]
  /\ answer' = [answer EXCEPT ![r] = "none"]
  /\ \/ gone[r] /\ Return(r)
     \/ ~gone[r] /\ Goto(r, "headers") /\ UNCHANGED active
  /\ UNCHANGED <<gone, attempt, tally, marks, breakerVars>>

(* roundTrip fails, by the deadline, a reset, a refused connection or the  *)
(* client's leaving; handleTransportError follows at once.                 *)
TransportError(r, retryable) ==
  /\ pc[r] = "headers"
  /\ cause' = [cause EXCEPT ![r] = IF gone[r] THEN "client" ELSE "upstream"]
  /\ \/ /\ gone[r]
        /\ Return(r)
        /\ UNCHANGED <<tally, marks, breakerVars>>
     \/ /\ ~gone[r] /\ retryable /\ CanRetry(r)
        /\ Goto(r, "sleep")
        /\ UNCHANGED <<tally, marks, breakerVars, active>>
     \/ /\ ~gone[r] /\ ~(retryable /\ CanRetry(r))
        /\ RecordFailure
        /\ MarkModel(r, "failed")
        /\ Tally(r, {"reply", "result", "failure"})
        /\ Return(r)
  /\ UNCHANGED <<gone, attempt, answer>>

(* roundTrip returns an answer.  A body that decides the accounting is read*)
(* first, the other answers are accounted for by their status.             *)
ReadsBodyFirst(r, a) ==
  \/ a \in Suspects /\ attempt[r] = 0
  \/ a \in Errors5xx \cup {"refused"}

Receive(r, a) ==
  /\ pc[r] = "headers"
  /\ answer' = [answer EXCEPT ![r] = a]
  /\ \/ /\ ReadsBodyFirst(r, a)
        /\ Goto(r, IF a \in Suspects THEN "judge" ELSE "buffer")
        /\ UNCHANGED <<tally, marks, breakerVars>>
     \/ /\ ~ReadsBodyFirst(r, a) /\ a \in Successes
        /\ RecordSuccess
        /\ Goto(r, CASE a = "ok" -> "copy" [] a = "sse" -> "stream"
                     [] OTHER -> "forward")
        /\ Tally(r, IF a = "moved" THEN {"success"} ELSE {"success", "reply"})
        /\ UNCHANGED marks
     \/ /\ ~ReadsBodyFirst(r, a) /\ a \notin Successes
        /\ Goto(r, "forward")
        /\ IF a = "limited" THEN MarkModel(r, "exhausted") ELSE UNCHANGED marks
        /\ UNCHANGED <<tally, breakerVars>>
  /\ UNCHANGED <<gone, attempt, cause, active>>

JudgeWithoutResult(r, end) ==
  /\ pc[r] = "judge"
  /\ cause' = [cause EXCEPT ![r] = end]
  /\ \/ /\ end # "none"
        /\ RecordFailure
        /\ Tally(r, {"reply", "failure"})
        /\ Return(r)
     \/ /\ end = "none"
        /\ Tally(r, {"reply", "result"})
        /\ Return(r)
        /\ UNCHANGED breakerVars
  /\ UNCHANGED <<gone, attempt, answer, marks>>

(* handleWafResponse, once the body has ended.                             *)
Judge(r, end) ==
  /\ pc[r] = "judge"
  /\ cause' = [cause EXCEPT ![r] = end]
  /\ \/ /\ end # "none"
        /\ RecordFailure
        /\ Tally(r, {"reply", "result", "failure"})
        /\ Return(r)
     \/ /\ end = "none" /\ answer[r] = "denied"
        /\ Tally(r, {"reply", "result"})
        /\ Return(r)
        /\ UNCHANGED breakerVars
     \/ /\ end = "none" /\ answer[r] = "waf"
        /\ Goto(r, "warmup")
        /\ UNCHANGED <<tally, breakerVars, active>>
  /\ UNCHANGED <<gone, attempt, answer, marks>>

(* Three attempts of its own to fetch a cookie, however they end.          *)
Warmup(r) ==
  /\ pc[r] = "warmup"
  /\ Goto(r, "sleep")
  /\ UNCHANGED <<gone, attempt, answer, cause, tally, marks, breakerVars,
                 active>>

WakeWithoutCounting(r) ==
  /\ pc[r] = "sleep"
  /\ Goto(r, "loop")
  /\ UNCHANGED <<gone, attempt, answer, cause, tally, marks,
                 breakerVars, active>>

(* sleepCtx, then the next iteration.                                      *)
Wake(r) ==
  /\ pc[r] = "sleep"
  /\ \/ gone[r] /\ Return(r) /\ UNCHANGED attempt
     \/ /\ Goto(r, "loop")
        /\ attempt' = [attempt EXCEPT ![r] = @ + 1]
        /\ UNCHANGED active
  /\ UNCHANGED <<gone, answer, cause, tally, marks, breakerVars>>

AlwaysPenalty(r, end) == FALSE

MarksBeforeRetry(r, end) ==
  /\ pc[r] = "buffer"
  /\ cause' = [cause EXCEPT ![r] = end]
  /\ MarkModel(r, "failed")
  /\ IF RetryOn5xx /\ CanRetry(r)
     THEN Goto(r, "sleep") /\ UNCHANGED <<tally, breakerVars, active>>
     ELSE /\ RecordFailure
          /\ Tally(r, {"reply", "result", "failure"})
          /\ Return(r)
  /\ UNCHANGED <<gone, attempt, answer>>

(* A 5xx, 400 or 402 is buffered; a 5xx is exempt from penalty only when   *)
(* its body was read to the end and names a deterministic rejection.  A    *)
(* read error is dropped: what came is forwarded.                          *)
NoPenalty(r, end) == end = "none" /\ answer[r] = "exempt"

Buffer(r, end) ==
  /\ pc[r] = "buffer"
  /\ cause' = [cause EXCEPT ![r] = end]
  /\ LET penalty == answer[r] \in Errors5xx /\ ~NoPenalty(r, end)
     IN  \/ /\ penalty /\ RetryOn5xx /\ CanRetry(r)
            /\ Goto(r, "sleep")
            /\ UNCHANGED <<tally, marks, breakerVars, active>>
         \/ /\ penalty /\ ~(RetryOn5xx /\ CanRetry(r))
            /\ MarkModel(r, "failed")
            /\ RecordFailure
            /\ Tally(r, {"reply", "result", "failure"})
            /\ Return(r)
         \/ /\ ~penalty
            /\ Tally(r, {"reply", "result"})
            /\ Return(r)
            /\ UNCHANGED <<marks, breakerVars>>
  /\ UNCHANGED <<gone, attempt, answer>>

SilentWhenCut(r, end) ==
  /\ pc[r] = "forward"
  /\ cause' = [cause EXCEPT ![r] = end]
  /\ IF end = "none" THEN Tally(r, {"reply", "result"}) ELSE UNCHANGED tally
  /\ Return(r)
  /\ UNCHANGED <<gone, attempt, answer, marks, breakerVars>>

(* forwardNon200: a body that does not arrive whole becomes a 502.         *)
Forward(r, end) ==
  /\ pc[r] = "forward"
  /\ cause' = [cause EXCEPT ![r] = end]
  /\ Tally(r, {"reply", "result"})
  /\ Return(r)
  /\ UNCHANGED <<gone, attempt, answer, marks, breakerVars>>

BodyOutlivesContext(r) ==
  /\ pc[r] \in {"copy", "stream"}
  /\ ~gone[r]
  /\ Tally(r, {"result"})
  /\ Return(r)
  /\ UNCHANGED <<gone, attempt, answer, cause, marks, breakerVars>>

(* copyBody and streamSSE: a slow, and for a stream also an empty, idle or *)
(* cut, answer degrades the model.                                         *)
Deliver(r) ==
  /\ pc[r] \in {"copy", "stream"}
  /\ Tally(r, {"result"})
  /\ \/ MarkModel(r, "degraded")
     \/ UNCHANGED marks
  /\ Return(r)
  /\ UNCHANGED <<gone, attempt, answer, cause, breakerVars>>

-----------------------------------------------------------------------------
ClientLeaves(r) ==
  /\ pc[r] \notin {"idle", "done"}
  /\ ~gone[r]
  /\ gone' = [gone EXCEPT ![r] = TRUE]
  /\ UNCHANGED <<pc, attempt, answer, cause, tally, marks,
                 breakerVars, active>>

CooldownElapses ==
  /\ open
  /\ open' = FALSE
  /\ UNCHANGED <<pc, gone, attempt, answer, cause, tally, marks,
                 fails, active>>

(* The steps the code takes by itself or within a deadline of its own.     *)
Prompt(r) ==
  \/ Gate(r) \/ LoopTop(r) \/ Warmup(r) \/ Wake(r)
  \/ \E retryable \in BOOLEAN : TransportError(r, retryable)
  \/ \E a \in Answers : Receive(r, a)

(* The steps that wait for a peer to send or take bytes.                   *)
Waiting(r) ==
  \/ RejectUpload(r) \/ UploadEnds(r) \/ Deliver(r)
  \/ \E end \in BodyEnds(r) : Judge(r, end) \/ Buffer(r, end) \/ Forward(r, end)

Next ==
  \/ CooldownElapses
  \/ \E r \in Requests :
       Arrive(r) \/ ClientLeaves(r) \/ Prompt(r) \/ Waiting(r)

Spec == Init /\ [][Next]_vars

(* Prompt steps happen.  Waiting steps need not: no deadline covers a body *)
(* that stops arriving.  They do once the client has left, because its     *)
(* context cancels every read and write of the request.                    *)
FairSpec ==
  /\ Spec
  /\ \A r \in Requests : WF_vars(Prompt(r))
  /\ \A r \in Requests : WF_vars(gone[r] /\ Waiting(r))

-----------------------------------------------------------------------------
(* The types; no more requests leave the retry loop than have entered it.  *)
TypeOK ==
  /\ pc \in [Requests -> Waits \cup {"idle", "upload", "done"}]
  /\ gone \in [Requests -> BOOLEAN]
  /\ attempt \in [Requests -> Nat]
  /\ answer \in [Requests -> Answers \cup {"none"}]
  /\ cause \in [Requests -> Causes]
  /\ tally \in [Requests -> [Counted -> Nat]]
  /\ marks \in [Requests -> SUBSET {"failed", "exhausted", "degraded"}]
  /\ fails \in 0 .. Threshold
  /\ open \in BOOLEAN
  /\ active \in Nat

(* Handler.Active counts the requests past the gate, on every way out of   *)
(* the retry loop and for any number of them at once (handler.go:176).     *)
ActiveCountsInFlight ==
  active = Cardinality({r \in Requests : pc[r] \in InFlight})

(* A client that is still there gets exactly one reply, from whichever of  *)
(* the dozen returns the request leaves by; nobody gets two.               *)
AnsweredOnce ==
  \A r \in Requests :
    /\ tally[r]["local"] + tally[r]["reply"] <= 1
    /\ pc[r] = "done" /\ ~gone[r] => tally[r]["local"] + tally[r]["reply"] = 1

(* The statistics agree with the replies: an admitted request has one      *)
(* recorded result when it got one reply, and none when it got none.       *)
RecordedAsAnswered ==
  \A r \in Requests : pc[r] = "done" => tally[r]["result"] = tally[r]["reply"]

(* "Only final 5xx and transport failures count" (breaker.go:21): while a  *)
(* request may still be retried it has left no trace in the breaker, the   *)
(* statistics or the model locks.                                          *)
RetriesLeaveNoTrace ==
  \A r \in Requests :
    pc[r] \in Waits \ {"forward", "copy", "stream"} =>
      marks[r] = {} /\ \A c \in Counted : tally[r][c] = 0

(* One request moves the breaker at most once, and blames the upstream only*)
(* for a 5xx or for an answer that never came whole; a content-filter or   *)
(* account-side rejection that did (handler.go:357) blames nobody.         *)
BlameNeedsOutage ==
  \A r \in Requests :
    /\ tally[r]["failure"] + tally[r]["success"] <= 1
    /\ tally[r]["failure"] = 1 => cause[r] # "none" \/ answer[r] = "outage"
    /\ "failed" \in marks[r] => tally[r]["failure"] = 1

(* "MAX_RETRIES: retry count" (README.md:154); the WAF retry of the first  *)
(* attempt is granted on top when no retry is configured.                  *)
AttemptsBounded ==
  \A r \in Requests : attempt[r] <= IF MaxRetries > 0 THEN MaxRetries ELSE 1

(* A request whose client left ends, from any of its waits.                *)
GoneEnds == \A r \in Requests : gone[r] ~> pc[r] = "done" \/ ~gone[r]

(* An admitted request gets as far as an answer's body, or ends.           *)
HeadersOrEnd ==
  \A r \in Requests :
    pc[r] = "loop"
      ~> pc[r] \in {"judge", "buffer", "forward", "copy", "stream", "done"}

(* "Client disconnected while waiting for a response: abort silently, no   *)
(* breaker/health accounting" (handler.go:487).                            *)
DisconnectNotBlamed ==
  \A r \in Requests : cause[r] = "client" => tally[r]["failure"] = 0
=============================================================================
