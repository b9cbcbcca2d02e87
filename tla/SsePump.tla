------------------------------ MODULE SsePump ------------------------------
(***************************************************************************)
(* PumpSSE of src/internal/proxy/sse.go: the goroutines that carry one     *)
(* event stream from the upstream's body to the client.  The reader, the   *)
(* goroutine blocked in Read, OUTPUT (which alone writes to the client),   *)
(* keepalive and the watchdog run concurrently and meet in frameCh, the    *)
(* stream context, the body they all may close, and idleTriggered.         *)
(*                                                                         *)
(* A chunk is what one Read returns, and is known by its place in `sent`.  *)
(* Its kind says what the pump tells apart:                                *)
(*   event   a whole data event         head, tail  its two halves         *)
(*   stop    message_stop or [DONE]     ping        a comment or ping      *)
(* and, where the format is openai,                                        *)
(*   null    a bare `data: null`        think, unthink  the chunks that    *)
(*                                      open and close a <think> span      *)
(***************************************************************************)
EXTENDS Naturals, Sequences, SequencesExt, FiniteSets

CONSTANTS
  Formats,     \* values of Options.Format
  Kinds,       \* the kinds of chunks the upstream sends
  MaxChunks,   \* bound: chunks of a stream
  Cap          \* capacity of frameCh (8 in the code)

OpenAIKinds == {"null", "think", "unthink"}

ASSUME PumpAssumption ==
  /\ Formats \subseteq {"anthropic", "openai"}
  /\ Kinds \subseteq {"event", "head", "tail", "stop", "ping"} \cup OpenAIKinds
  /\ MaxChunks \in Nat /\ Cap \in Nat \ {0}

VARIABLES
  format,        \* Options.Format
  sent, upEnd,   \* the upstream: kinds of the chunks read, how the body ended
  gone,          \* the client has disconnected
  canceled,      \* streamCtx is done
  bodyClosed,    \* closeTracked.closed
  idleTriggered,
  read,          \* what Read has returned (readCh), or Reading
  rpc, hold,     \* the reader, and the frame it sends (else Keepalive)
  pending,       \* openaiPending
  spanOpen,      \* ThinkStripper withholds an open span
  carry, sawData, sawStop,   \* FrameClassifier
  frameCh,
  opc, oframe,   \* OUTPUT, and the frame it writes (else Keepalive)
  written,       \* the chunks the client has got
  announced,     \* it got the error frame and the abnormal finish
  result,        \* resultCh
  returned,      \* PumpSSE returned: stop is closed
  kpc, wpc       \* keepalive, watchdog

upVars == <<sent, upEnd>>
classVars == <<carry, sawData, sawStop>>
readerVars == <<rpc, hold, pending, spanOpen, classVars>>
outVars == <<opc, oframe, written, announced, result>>
flagVars == <<canceled, bodyClosed, idleTriggered>>
vars == <<format, upVars, gone, flagVars, read, readerVars, frameCh,
          outVars, returned, kpc, wpc>>

Reading  == [chunk |-> 0, err |-> "pending"]
NoResult == [error |-> "none", empty |-> FALSE]
Ok       == ""

DataFrame(chunks) == [kind |-> "data", chunks |-> chunks]
Keepalive == [kind |-> "keepalive", chunks |-> <<>>]

(* Result.StatusCode is 200 where the error is "", 504 on the idle timeout *)
(* and 502 otherwise.                                                      *)
DoneFrame(reason, stop, empty) ==
  [kind |-> "done", chunks |-> <<>>, stop |-> stop,
   result |-> [error |-> reason, empty |-> empty]]

Init ==
  /\ format \in Formats
  /\ sent = <<>> /\ upEnd = "none"
  /\ gone = FALSE
  /\ canceled = FALSE /\ bodyClosed = FALSE /\ idleTriggered = FALSE
  /\ read = Reading
  /\ rpc = "select" /\ hold = Keepalive
  /\ pending = <<>> /\ spanOpen = FALSE
  /\ carry = FALSE /\ sawData = FALSE /\ sawStop = FALSE
  /\ frameCh = <<>>
  /\ opc = "select" /\ oframe = Keepalive
  /\ written = <<>> /\ announced = FALSE /\ result = NoResult
  /\ returned = FALSE
  /\ kpc = "run" /\ wpc = "run"

-----------------------------------------------------------------------------
(* The environment and the goroutine in Read.                              *)

ClientLeaves ==
  /\ ~gone /\ ~returned
  /\ gone' = TRUE
  /\ UNCHANGED <<format, upVars, flagVars, read, readerVars, frameCh,
                 outVars, returned, kpc, wpc>>

(* The request's context ends streamCtx, and so does PumpSSE's return.     *)
CancelReaches ==
  /\ gone \/ returned
  /\ ~canceled
  /\ canceled' = TRUE
  /\ UNCHANGED <<format, upVars, gone, bodyClosed, idleTriggered, read,
                 readerVars, frameCh, outVars, returned, kpc, wpc>>

(* A tail follows its head, and a span is closed once it is open.          *)
MidEvent == sent # <<>> /\ Last(sent) = "head"
InSpan(n) ==
  \E i \in 1..n : sent[i] = "think" /\ \A j \in i..n : sent[j] # "unthink"
MidSpan == InSpan(Len(sent))

Fits(kind) ==
  /\ kind \in OpenAIKinds => format = "openai"
  /\ (kind = "tail") <=> MidEvent
  /\ kind = "unthink" => MidSpan
  /\ kind = "think" => ~MidSpan

(* io.Reader may return a last chunk together with the end of the body.    *)
UpstreamSends ==
  /\ read = Reading /\ upEnd = "none" /\ ~bodyClosed
  /\ Len(sent) < MaxChunks
  /\ \E kind \in {k \in Kinds : Fits(k)} : sent' = Append(sent, kind)
  /\ upEnd' \in {"none", "eof", "cut", "error"}
  /\ read' = [chunk |-> Len(sent'), err |-> upEnd']
  /\ UNCHANGED <<format, gone, flagVars, readerVars, frameCh, outVars,
                 returned, kpc, wpc>>

UpstreamEnds ==
  /\ read = Reading /\ ~bodyClosed
  /\ IF upEnd = "none" THEN upEnd' \in {"eof", "cut", "error"}
                       ELSE UNCHANGED upEnd
  /\ read' = [chunk |-> 0, err |-> upEnd']
  /\ UNCHANGED <<format, sent, gone, flagVars, readerVars, frameCh,
                 outVars, returned, kpc, wpc>>

(* Read fails once the body is closed, or the request's context is done: it*)
(* is the parent of streamCtx, and Read may see its end first.             *)
ReadFails ==
  /\ read = Reading
  /\ \/ bodyClosed /\ read' = [chunk |-> 0, err |-> "closed"]
     \/ (gone \/ returned) /\ read' = [chunk |-> 0, err |-> "canceled"]
  /\ UNCHANGED <<format, upVars, gone, flagVars, readerVars, frameCh,
                 outVars, returned, kpc, wpc>>

-----------------------------------------------------------------------------
(* What the reader makes of a chunk.                                       *)

OutDone    == opc = "exit"      \* outDone is closed
StreamDone == rpc = "exit"      \* streamDone is closed

(* Variants with a plausible bug, here and below: each breaks a property.  *)
WithholdsSpansOnly(i) == format = "openai" /\ (spanOpen \/ sent[i] = "think")

(* The stripper withholds a span, the OpenAI filter an event's first half. *)
Withheld(i) ==
  /\ format = "openai"
  /\ spanOpen \/ sent[i] \in {"think", "head"}

(* A `null` is cut down to a newline, which is still forwarded.            *)
Forwarded(i) ==
  IF Withheld(i) THEN <<>>
  ELSE pending \o (IF sent[i] = "null" THEN <<>> ELSE <<i>>)

Strip(i) ==
  spanOpen' = (/\ format = "openai"
               /\ sent[i] = "think" \/ (spanOpen /\ sent[i] # "unthink"))

HoldBack(i) ==
  pending' = IF ~Withheld(i) THEN <<>>
             ELSE IF sent[i] = "head" /\ ~spanOpen THEN <<i>> ELSE pending

(* Kinds that classifyBlock counts as data.                                *)
DataKinds == {"event", "tail", "stop"}

KindsOf(chunks) == {sent[chunks[j]] : j \in DOMAIN chunks}

CountsWholeChunks(chunks) ==
  /\ sawData' = (sawData \/ KindsOf(chunks) \cap {"event", "stop"} # {})
  /\ sawStop' = (sawStop \/ "stop" \in KindsOf(chunks))
  /\ carry' = FALSE

Analyze(chunks) ==
  /\ sawData' = (sawData \/ KindsOf(chunks) \cap DataKinds # {})
  /\ sawStop' = (sawStop \/ "stop" \in KindsOf(chunks))
  /\ carry' = IF chunks = <<>> THEN carry ELSE sent[Last(chunks)] = "head"

Goto(label) == rpc' = label

(* The Read had an error, or the next one is spawned.                      *)
Proceed ==
  IF read.err = "none" THEN Goto("select") /\ read' = Reading
                       ELSE Goto("eof?") /\ UNCHANGED read

(* A chunk from readCh goes through the pipeline.                          *)
TakeChunk ==
  /\ rpc = "select" /\ read.chunk # 0
  /\ Strip(read.chunk)
  /\ HoldBack(read.chunk)
  /\ Analyze(Forwarded(read.chunk))
  /\ IF Withheld(read.chunk)
       THEN Proceed /\ UNCHANGED hold
       ELSE /\ Goto("send")
            /\ hold' = DataFrame(Forwarded(read.chunk))
            /\ UNCHANGED read
  /\ UNCHANGED <<format, upVars, gone, flagVars, frameCh, outVars, returned,
                 kpc, wpc>>

(* Steps of the reader that leave everything but itself alone.             *)
OthersKeep == UNCHANGED <<format, upVars, gone, flagVars, read, outVars,
                          returned, kpc, wpc>>

SendsWithoutRoom == frameCh' = Append(frameCh, hold)

(* A send that waits until frameCh has room.                               *)
Enqueue ==
  /\ Len(frameCh) < Cap
  /\ frameCh' = Append(frameCh, hold)

SendChunk ==
  /\ rpc = "send"
  /\ Enqueue
  /\ Proceed
  /\ hold' = Keepalive
  /\ UNCHANGED <<format, upVars, gone, flagVars, pending, spanOpen,
                 classVars, outVars, returned, kpc, wpc>>

(* streamCtx.Done: while waiting for a Read, or for room in frameCh.       *)
SeeCancel ==
  /\ rpc \in {"select", "send"}
  /\ canceled
  /\ Goto("canceled")
  /\ hold' = Keepalive
  /\ UNCHANGED <<pending, spanOpen, classVars, frameCh>>
  /\ OthersKeep

-----------------------------------------------------------------------------
(* The end of the stream: the switch on the read's error looks at one flag *)
(* after the other, while their writers go on.                             *)

Finish(reason, empty) ==
  /\ Goto("finish")
  /\ hold' = DoneFrame(reason, sawStop', empty)

(* FrameClassifier.Flush counts a half event as data.                      *)
Flush ==
  /\ carry' = FALSE
  /\ sawData' = (sawData \/ carry)
  /\ UNCHANGED sawStop

Complete == Finish(Ok, ~sawData')

DropsTheTail == Flush /\ Complete /\ UNCHANGED pending

HandleCleanEnd ==
  /\ Flush
  /\ IF spanOpen THEN Finish("upstream_ended_mid_frame", FALSE)
     ELSE IF pending = <<>> THEN Complete
     ELSE Goto("pend") /\ hold' = DataFrame(pending)
  /\ pending' = IF spanOpen THEN pending ELSE <<>>

JudgeEof ==
  /\ \/ rpc = "eof?"
     \/ rpc = "select" /\ read # Reading /\ read.chunk = 0
  /\ IF read.err = "eof" /\ ~bodyClosed
       THEN HandleCleanEnd
       ELSE Goto("idle?") /\ UNCHANGED <<hold, pending, classVars>>
  /\ UNCHANGED <<spanOpen, frameCh>>
  /\ OthersKeep

JudgeIdle ==
  /\ rpc = "idle?"
  /\ Goto(IF idleTriggered THEN "canceled" ELSE "ctx?")
  /\ UNCHANGED <<hold, pending, spanOpen, classVars, frameCh>>
  /\ OthersKeep

JudgeContext ==
  /\ rpc = "ctx?"
  /\ Goto(IF canceled THEN "canceled" ELSE "closed?")
  /\ UNCHANGED <<hold, pending, spanOpen, classVars, frameCh>>
  /\ OthersKeep

(* handleUpstreamClosed or handleStreamError.                              *)
JudgeClosed ==
  /\ rpc = "closed?"
  /\ Flush
  /\ pending' = <<>>
  /\ Finish(IF bodyClosed \/ read.err = "cut" THEN "upstream_closed"
                                              ELSE "upstream_stream_error",
            FALSE)
  /\ UNCHANGED <<spanOpen, frameCh>>
  /\ OthersKeep

SendPending ==
  /\ rpc = "pend"
  /\ UNCHANGED <<pending, spanOpen, classVars>>
  /\ \/ Enqueue /\ Complete
     \/ OutDone /\ Goto("exit") /\ hold' = Keepalive /\ UNCHANGED frameCh
  /\ OthersKeep

(* handleCtxCancel closes the body, then asks whether the idle timeout did *)
(* it.                                                                     *)
CtxCancel ==
  /\ rpc = "canceled"
  /\ bodyClosed' = TRUE
  /\ Goto("reason")
  /\ UNCHANGED <<format, upVars, gone, canceled, idleTriggered, read,
                 hold, pending, spanOpen, classVars, frameCh, outVars,
                 returned, kpc, wpc>>

CtxReason ==
  /\ rpc = "reason"
  /\ UNCHANGED classVars
  /\ Finish(IF idleTriggered THEN "sse_idle_timeout"
                             ELSE "client_disconnected", FALSE)
  /\ UNCHANGED <<pending, spanOpen, frameCh>>
  /\ OthersKeep

DropsDoneWhenFull ==
  /\ rpc = "finish"
  /\ IF Len(frameCh) < Cap THEN Enqueue ELSE UNCHANGED frameCh
  /\ Goto("exit")
  /\ hold' = Keepalive
  /\ UNCHANGED <<pending, spanOpen, classVars>>
  /\ OthersKeep

WaitsForADeadOutput ==
  /\ rpc = "finish"
  /\ Enqueue
  /\ Goto("exit")
  /\ hold' = Keepalive
  /\ UNCHANGED <<pending, spanOpen, classVars>>
  /\ OthersKeep

SendDone ==
  /\ rpc = "finish"
  /\ \/ Enqueue
     \/ OutDone /\ UNCHANGED frameCh
  /\ Goto("exit")
  /\ hold' = Keepalive
  /\ UNCHANGED <<pending, spanOpen, classVars>>
  /\ OthersKeep

-----------------------------------------------------------------------------
(* OUTPUT.  Its case for stop is left out: only its own result lets PumpSSE*)
(* return and close stop.                                                  *)

OutputKeeps == UNCHANGED <<format, upVars, gone, idleTriggered, read,
                           readerVars, returned, kpc, wpc>>

TakeFrame ==
  /\ opc = "select" /\ frameCh # <<>>
  /\ opc' = "write"
  /\ oframe' = Head(frameCh)
  /\ frameCh' = Tail(frameCh)
  /\ UNCHANGED <<written, announced, result, canceled, bodyClosed>>
  /\ OutputKeeps

WriteFrame ==
  /\ opc = "write" /\ oframe.kind # "done"
  /\ written' = written \o oframe.chunks
  /\ opc' = "select"
  /\ oframe' = Keepalive
  /\ UNCHANGED <<announced, result, frameCh, canceled, bodyClosed>>
  /\ OutputKeeps

(* The client has left, or does not read before the write deadline.        *)
WriteFails ==
  /\ opc = "write" /\ oframe.kind # "done"
  /\ opc' = "close"
  /\ oframe' = Keepalive
  /\ UNCHANGED <<written, announced, result, frameCh, canceled,
                 bodyClosed>>
  /\ OutputKeeps

FailClosesBody ==
  /\ opc = "close"
  /\ bodyClosed' = TRUE
  /\ opc' = "cancel"
  /\ UNCHANGED <<oframe, written, announced, result, frameCh, canceled>>
  /\ OutputKeeps

FailCancels ==
  /\ opc = "cancel"
  /\ canceled' = TRUE
  /\ opc' = "report"
  /\ UNCHANGED <<oframe, written, announced, result, frameCh, bodyClosed>>
  /\ OutputKeeps

FailReports ==
  /\ opc = "report"
  /\ result' = [error |-> "client_write_failed", empty |-> FALSE]
  /\ opc' = "exit"
  /\ UNCHANGED <<oframe, written, announced, frameCh, canceled, bodyClosed>>
  /\ OutputKeeps

TailsEveryFailure(f) == f.result.error \notin {Ok, "client_disconnected"}

NeedsTail(f) == f.result.error \notin {Ok, "client_disconnected"} /\ ~f.stop

(* The error frame and the abnormal finish may fail to be written.         *)
WriteDone ==
  /\ opc = "write" /\ oframe.kind = "done"
  /\ announced' \in IF NeedsTail(oframe) THEN {TRUE, FALSE} ELSE {FALSE}
  /\ result' = oframe.result
  /\ opc' = "exit"
  /\ UNCHANGED <<oframe, written, frameCh, canceled, bodyClosed>>
  /\ OutputKeeps

PumpReturns ==
  /\ result # NoResult /\ ~returned
  /\ returned' = TRUE
  /\ UNCHANGED <<format, upVars, gone, flagVars, read, readerVars,
                 frameCh, outVars, kpc, wpc>>

-----------------------------------------------------------------------------
(* Keepalive and the watchdog.                                             *)

StreamOver == returned \/ StreamDone \/ canceled

(* A tick sends only if there is room and is skipped otherwise.            *)
KeepaliveTick ==
  /\ kpc = "run" /\ Len(frameCh) < Cap
  /\ frameCh' = Append(frameCh, Keepalive)
  /\ UNCHANGED <<format, upVars, gone, flagVars, read, readerVars,
                 outVars, returned, kpc, wpc>>

KeepaliveStops ==
  /\ kpc = "run" /\ StreamOver
  /\ kpc' = "exit"
  /\ UNCHANGED <<format, upVars, gone, flagVars, read, readerVars,
                 frameCh, outVars, returned, wpc>>

WatchdogKeeps == UNCHANGED <<format, upVars, gone, read, readerVars,
                             frameCh, outVars, returned, kpc>>

(* IdleTimeout has passed since lastChunkAt, as it may at any time.  The   *)
(* watchdog acts on that in steps of its own: a chunk may arrive between.  *)
WatchdogTick ==
  /\ wpc = "run"
  /\ wpc' = "trip"
  /\ UNCHANGED flagVars
  /\ WatchdogKeeps

WatchdogStops ==
  /\ wpc = "run" /\ StreamOver
  /\ wpc' = "exit"
  /\ UNCHANGED flagVars
  /\ WatchdogKeeps

ClosesBeforeTheFlag ==
  /\ \/ wpc = "trip" /\ wpc' = "flag"
        /\ bodyClosed' = TRUE /\ UNCHANGED idleTriggered
     \/ wpc = "flag" /\ wpc' = "close"
        /\ idleTriggered' = TRUE /\ UNCHANGED bodyClosed
  /\ UNCHANGED canceled
  /\ WatchdogKeeps

WatchdogTrips ==
  /\ wpc = "trip"
  /\ idleTriggered' = TRUE
  /\ wpc' = "close"
  /\ UNCHANGED <<canceled, bodyClosed>>
  /\ WatchdogKeeps

WatchdogCloses ==
  /\ wpc = "close"
  /\ bodyClosed' = TRUE
  /\ wpc' = "cancel"
  /\ UNCHANGED <<canceled, idleTriggered>>
  /\ WatchdogKeeps

WatchdogCancels ==
  /\ wpc = "cancel"
  /\ canceled' = TRUE
  /\ wpc' = "exit"
  /\ UNCHANGED <<bodyClosed, idleTriggered>>
  /\ WatchdogKeeps

-----------------------------------------------------------------------------
ReadReturns == UpstreamSends \/ UpstreamEnds \/ ReadFails

ReaderSends == SendChunk \/ SendPending \/ SendDone

Reader == \/ TakeChunk \/ SeeCancel \/ JudgeEof \/ JudgeIdle
          \/ JudgeContext \/ JudgeClosed \/ CtxCancel \/ CtxReason

Output == \/ TakeFrame \/ WriteFrame \/ WriteFails \/ FailClosesBody
          \/ FailCancels \/ FailReports \/ WriteDone

Watchdog == \/ WatchdogTick \/ WatchdogTrips \/ WatchdogCloses
            \/ WatchdogCancels \/ WatchdogStops

Next == \/ ClientLeaves \/ CancelReaches
        \/ ReadReturns \/ Reader \/ ReaderSends \/ Output \/ PumpReturns
        \/ KeepaliveTick \/ KeepaliveStops \/ Watchdog

Spec == Init /\ [][Next]_vars

(* Every goroutine is scheduled and the clock goes on, but the upstream    *)
(* need never send anything: only a failed Read must return.  A blocked    *)
(* sender is served before a later tick, so a send that is enabled over    *)
(* and over happens.                                                       *)
FairSpec ==
  /\ Spec
  /\ WF_vars(CancelReaches) /\ WF_vars(ReadFails)
  /\ WF_vars(Reader) /\ SF_vars(ReaderSends)
  /\ WF_vars(Output) /\ WF_vars(PumpReturns)
  /\ WF_vars(KeepaliveStops) /\ WF_vars(Watchdog)

-----------------------------------------------------------------------------
(* Properties.                                                             *)

(* Every value stays in its range; chunks and frames are what the pump can *)
(* make of the upstream's.                                                 *)
Frames ==
  [kind : {"data", "keepalive"}, chunks : Seq(1..Len(sent))]
    \cup [kind : {"done"}, chunks : {<<>>}, stop : BOOLEAN,
          result : [error : {Ok, "upstream_ended_mid_frame", "upstream_closed",
                             "upstream_stream_error", "sse_idle_timeout",
                             "client_disconnected"}, empty : BOOLEAN]]

TypeOK ==
  /\ format \in Formats
  /\ sent \in Seq(Kinds) /\ Len(sent) <= MaxChunks
  /\ upEnd \in {"none", "eof", "cut", "error"}
  /\ read \in [chunk : 0..Len(sent),
               err : {"pending", "none", "eof", "cut", "error", "closed",
                      "canceled"}]
  /\ read.chunk # 0 => read.chunk = Len(sent)
  /\ frameCh \in Seq(Frames) /\ Len(frameCh) <= Cap
  /\ hold \in Frames /\ oframe \in Frames
  /\ written \in Seq(1..Len(sent)) /\ pending \in Seq(1..Len(sent))
  /\ format = "anthropic" => pending = <<>> /\ ~spanOpen
  /\ {spanOpen, carry, sawData, sawStop} \subseteq BOOLEAN

(* What the client is to get: the chunks that the filter and the stripper  *)
(* leave, in the order of the stream.                                      *)
Forwardable ==
  {i \in 1..Len(sent) :
     format = "anthropic" \/ (sent[i] \notin OpenAIKinds /\ ~InSpan(i))}

Rank(i, S) == Cardinality({j \in S : j <= i})
Ranked(S)  == [k \in 1..Cardinality(S) |-> CHOOSE i \in S : Rank(i, S) = k]

(* The pump implements SseStream: of the chunks it is to forward the client*)
(* gets the first ones in order, and all of them if the result is a 200    *)
(* (the verbatim-streaming contract of sse.go:305-306).  A teardown may    *)
(* lose chunks, a 200 never.                                               *)
Stream == INSTANCE SseStream WITH
  Chunks    <- 1..MaxChunks,
  offered   <- Ranked(Forwardable),
  ended     <- CASE upEnd = "none" -> "no" [] upEnd = "eof" -> "eof"
                 [] OTHER -> "broken",
  delivered <- written,
  outcome   <- CASE result = NoResult -> "none"
                 [] result.error = Ok -> "complete" [] OTHER -> "failed"

ImplementsSseStream == Stream!Spec

(* The upstream is blamed, and the model with it, only if it did break the *)
(* stream: never for a body the proxy closed itself, on the idle timeout   *)
(* or after a failed write, whatever the order in which the reader sees    *)
(* the flags.  (A client that leaves may be seen by Read before streamCtx  *)
(* ends, and is then taken for a stream error.)                            *)
UpstreamBlamedOnlyIfBroken ==
  result.error \in {"upstream_closed", "upstream_stream_error"} =>
    upEnd \in {"cut", "error"} \/ gone

(* EmptyOutput, which degrades the model, says of a clean stream that no   *)
(* event reached the client; and a stream said not to be empty brought it  *)
(* at least a part of one (sse.go:82).                                     *)
EmptyOutputIsTrue ==
  result.error = Ok =>
    IF result.empty THEN KindsOf(written) \cap {"event", "tail", "stop"} = {}
                    ELSE KindsOf(written) \cap {"event", "head", "stop"} # {}

(* The client is in the middle of an event; OUTPUT writes a frame of its   *)
(* own, a keepalive or the error frame.                                    *)
Torn == written # <<>> /\ sent[Last(written)] = "head"

WritesOwnFrame ==
  \/ oframe = Keepalive /\ opc = "write" /\ opc' = "select"
  \/ announced' # announced

(* What the proxy itself writes never lands in the middle of an upstream's *)
(* event: openai, where a half event is held back until it is whole, or    *)
(* until the upstream has ended the stream in its middle.                  *)
OpenAIEventsStayWhole ==
  [][format = "openai" /\ WritesOwnFrame => ~Torn \/ upEnd = "eof"]_vars

(* The same of both formats (sseparse.go:14 and sse.go:306: the upstream's *)
(* bytes are streamed verbatim).                                           *)
EventsStayWhole == [][WritesOwnFrame => ~Torn \/ upEnd = "eof"]_vars

(* A stream the upstream broke gets its terminal sequence, unless the      *)
(* client has the upstream's own terminal marker already, and then it gets *)
(* no second one (sse.go:12-15).                                           *)
TerminatedOnce ==
  [][opc = "write" /\ opc' = "exit" =>
       /\ announced' => "stop" \notin KindsOf(written)
       /\ oframe.result.error \in {"upstream_closed", "upstream_stream_error",
                                   "upstream_ended_mid_frame"}
            => (oframe.stop => "stop" \in KindsOf(written))]_vars

(* Whatever the upstream and the client do, PumpSSE returns: a silent      *)
(* upstream meets the idle timeout, a stalled client the write deadline,   *)
(* and no send waits for an OUTPUT that is gone.                           *)
PumpReturnsAtLast == <>returned

(* Once it has returned nothing is left running, the Read included.        *)
NothingIsLeftRunning ==
  returned ~> /\ rpc = "exit" /\ opc = "exit"
              /\ kpc = "exit" /\ wpc = "exit"
              /\ read # Reading
=============================================================================
