--------------------------- MODULE SsePumpProofs ----------------------------
(***************************************************************************)
(* Proofs about the pump (module SsePump), for streams of any length and a *)
(* queue of any capacity.  Its types and whom it blames come first, then   *)
(* what the client gets: the pump implements SseStream, so a chunk is never*)
(* lost, repeated or overtaken, and a 200 has brought all of them; an empty*)
(* output is really empty; the terminal sequence is sent once; an openai   *)
(* event is never torn.                                                    *)
(***************************************************************************)
EXTENDS SsePump, SequenceTheorems, FiniteSetTheorems, TLAPS

-----------------------------------------------------------------------------
(* Frames.                                                                 *)

Reasons == {Ok, "upstream_ended_mid_frame", "upstream_closed",
            "upstream_stream_error", "sse_idle_timeout",
            "client_disconnected"}

LEMMA KeepaliveIsFrame == Keepalive \in Frames
<1>1. <<>> \in Seq(1..Len(sent))
  BY EmptySeq
<1> QED BY <1>1 DEF Keepalive, Frames

LEMMA DataIsFrame ==
  ASSUME NEW c \in Seq(1..Len(sent))
  PROVE  DataFrame(c) \in Frames
BY DEF DataFrame, Frames

LEMMA DoneIsFrame ==
  ASSUME NEW reason \in Reasons, NEW stop \in BOOLEAN, NEW empty \in BOOLEAN
  PROVE  DoneFrame(reason, stop, empty) \in Frames
BY DEF DoneFrame, Frames, Reasons

LEMMA FrameChunks ==
  ASSUME NEW f \in Frames
  PROVE  f.chunks \in Seq(1..Len(sent))
<1>1. <<>> \in Seq(1..Len(sent))
  BY EmptySeq
<1> QED BY <1>1 DEF Frames

(* A longer stream has all the frames of a shorter one.                    *)
LEMMA FramesGrow ==
  ASSUME Len(sent) \in Nat, Len(sent)' \in Nat, Len(sent) <= Len(sent)'
  PROVE  Frames \subseteq Frames'
<1>1. 1..Len(sent) \subseteq 1..Len(sent)'
  OBVIOUS
<1>2. \A c \in Seq(1..Len(sent)) : c \in Seq(1..Len(sent)')
  BY <1>1, SeqMonotonic
<1> QED BY <1>2 DEF Frames

LEMMA FramesKept == UNCHANGED sent => Frames' = Frames
BY DEF Frames

-----------------------------------------------------------------------------
(* Type correctness.                                                       *)

LEMMA TypeInit == Init => TypeOK
<1> SUFFICES ASSUME Init PROVE TypeOK
  OBVIOUS
<1>1. /\ sent \in Seq(Kinds) /\ Len(sent) = 0
      /\ frameCh \in Seq(Frames) /\ Len(frameCh) = 0
      /\ written \in Seq(1..Len(sent)) /\ pending \in Seq(1..Len(sent))
  BY EmptySeq DEF Init
<1>2. hold \in Frames /\ oframe \in Frames
  BY KeepaliveIsFrame DEF Init
<1>3. read \in [chunk : 0..Len(sent),
                err : {"pending", "none", "eof", "cut", "error", "closed",
                       "canceled"}]
  BY <1>1 DEF Init, Reading
<1>4. read.chunk = 0 /\ pending = <<>> /\ ~spanOpen
  BY DEF Init, Reading
<1>5. {spanOpen, carry, sawData, sawStop} \subseteq BOOLEAN
  BY DEF Init
<1>6. format \in Formats /\ upEnd \in {"none", "eof", "cut", "error"}
  BY DEF Init
<1>7. Len(sent) <= MaxChunks /\ Len(frameCh) <= Cap
  BY <1>1, PumpAssumption
<1> QED
  BY <1>1, <1>2, <1>3, <1>4, <1>5, <1>6, <1>7 DEF TypeOK

(* What the upstream adds to the stream leaves the rest well typed.        *)
LEMMA UpstreamSendsType == TypeOK /\ UpstreamSends => TypeOK'
<1> SUFFICES ASSUME TypeOK, UpstreamSends PROVE TypeOK'
  OBVIOUS
<1>1. PICK kind \in Kinds : sent' = Append(sent, kind)
  BY DEF UpstreamSends
<1>2. sent \in Seq(Kinds) /\ Len(sent) \in Nat /\ Len(sent) < MaxChunks
  BY LenProperties DEF TypeOK, UpstreamSends
<1>3. sent' \in Seq(Kinds) /\ Len(sent)' = Len(sent) + 1
  BY <1>1, <1>2, AppendProperties
<1>4. Len(sent)' <= MaxChunks
  BY <1>2, <1>3, PumpAssumption
<1>5. Frames \subseteq Frames'
  BY <1>2, <1>3, FramesGrow
<1>6. frameCh' \in Seq(Frames)' /\ Len(frameCh)' <= Cap
  <2>1. frameCh \in Seq(Frames')
    BY <1>5, SeqMonotonic DEF TypeOK
  <2> QED BY <2>1 DEF TypeOK, UpstreamSends
<1>7. hold' \in Frames' /\ oframe' \in Frames'
  BY <1>5 DEF TypeOK, UpstreamSends, readerVars, outVars
<1>8. written' \in Seq(1..Len(sent))' /\ pending' \in Seq(1..Len(sent))'
  <2>1. 1..Len(sent) \subseteq 1..Len(sent)'
    BY <1>2, <1>3
  <2>2. \A c \in Seq(1..Len(sent)) : c \in Seq(1..Len(sent)')
    BY <2>1, SeqMonotonic
  <2> QED BY <2>2 DEF TypeOK, UpstreamSends, readerVars, outVars
<1>9. /\ upEnd' \in {"none", "eof", "cut", "error"}
      /\ read' = [chunk |-> Len(sent)', err |-> upEnd']
      /\ UNCHANGED <<format, spanOpen, carry, sawData, sawStop, pending>>
  BY DEF UpstreamSends, readerVars, classVars
<1>10. /\ read' \in [chunk : 0..Len(sent)',
                     err : {"pending", "none", "eof", "cut", "error", "closed",
                            "canceled"}]
       /\ read'.chunk = Len(sent)'
  BY <1>2, <1>3, <1>9
<1> QED
  BY <1>3, <1>4, <1>6, <1>7, <1>8, <1>9, <1>10 DEF TypeOK

(* A step that touches nothing that is typed, but for what the reader holds*)
(* or OUTPUT writes.                                                       *)
LEMMA TypeKept ==
  ASSUME TypeOK, UNCHANGED <<format, upVars, read, pending, spanOpen, classVars,
                             frameCh, written>>,
         hold' \in Frames, oframe' \in Frames
  PROVE  TypeOK'
<1>1. Frames' = Frames
  BY FramesKept DEF upVars
<1> QED BY <1>1 DEF TypeOK, upVars, classVars

(* The same for a step that also makes something of the classifier's state.*)
LEMMA ReaderType ==
  ASSUME TypeOK, UNCHANGED <<format, upVars, read, frameCh, written, oframe>>,
         UNCHANGED spanOpen,
         hold' \in Frames, pending' \in {pending, <<>>},
         {carry', sawData', sawStop'} \subseteq BOOLEAN
  PROVE  TypeOK'
<1>1. Frames' = Frames
  BY FramesKept DEF upVars
<1>2. pending' \in Seq(1..Len(sent)) /\ (pending = <<>> => pending' = <<>>)
  BY EmptySeq DEF TypeOK
<1> QED BY <1>1, <1>2 DEF TypeOK, upVars

(* A frame is put into the queue.                                          *)
LEMMA EnqueueType ==
  ASSUME TypeOK, Enqueue
  PROVE  frameCh' \in Seq(Frames) /\ Len(frameCh') <= Cap
<1>1. frameCh \in Seq(Frames) /\ hold \in Frames /\ Len(frameCh) \in Nat
  BY LenProperties DEF TypeOK
<1>2. frameCh' \in Seq(Frames) /\ Len(frameCh') = Len(frameCh) + 1
  BY <1>1, AppendProperties DEF Enqueue
<1> QED BY <1>1, <1>2, PumpAssumption DEF Enqueue

(* The kinds of a chunk that goes through the pipeline.                    *)
LEMMA TakeChunkType == TypeOK /\ TakeChunk => TypeOK'
<1> SUFFICES ASSUME TypeOK, TakeChunk PROVE TypeOK'
  OBVIOUS
<1> DEFINE i == read.chunk
<1>1. /\ sent \in Seq(Kinds) /\ Len(sent) \in Nat /\ i \in 1..Len(sent)
      /\ read \in [chunk : 0..Len(sent),
                   err : {"pending", "none", "eof", "cut", "error", "closed",
                          "canceled"}]
  BY LenProperties DEF TypeOK, TakeChunk
<1>2. UNCHANGED <<format, upVars, frameCh, written, oframe>>
  BY DEF TakeChunk, outVars
<1>3. Frames' = Frames
  BY <1>2, FramesKept DEF upVars
<1>4. <<i>> \in Seq(1..Len(sent)) /\ <<>> \in Seq(1..Len(sent))
  BY <1>1, EmptySeq
<1>5. Forwarded(i) \in Seq(1..Len(sent))
  <2>1. \A c \in Seq(1..Len(sent)) : pending \o c \in Seq(1..Len(sent))
    BY ConcatProperties DEF TypeOK
  <2> QED BY <1>4, <2>1 DEF Forwarded
<1>6. hold' \in Frames
  BY <1>5, DataIsFrame DEF TakeChunk, TypeOK
<1>7. /\ pending' \in Seq(1..Len(sent))
      /\ format = "anthropic" => pending' = <<>>
  BY <1>4 DEF TakeChunk, HoldBack, Withheld, TypeOK
<1>8. spanOpen' \in BOOLEAN /\ (format = "anthropic" => ~spanOpen')
  BY DEF TakeChunk, Strip
<1>9. {carry', sawData', sawStop'} \subseteq BOOLEAN
  BY DEF TakeChunk, Analyze, TypeOK
<1>10. /\ read' \in [chunk : 0..Len(sent),
                     err : {"pending", "none", "eof", "cut", "error", "closed",
                            "canceled"}]
       /\ read'.chunk # 0 => read'.chunk = Len(sent)
  <2>1. CASE read' = read
    BY <1>1, <2>1 DEF TypeOK
  <2>2. CASE read' = Reading
    BY <1>1, <2>2 DEF Reading
  <2> QED BY <2>1, <2>2 DEF TakeChunk, Proceed
<1> QED
  BY <1>1, <1>2, <1>3, <1>6, <1>7, <1>8, <1>9, <1>10 DEF TypeOK, upVars

LEMMA ReaderStepType == TypeOK /\ (Reader \/ ReaderSends) => TypeOK'
<1> SUFFICES ASSUME TypeOK, Reader \/ ReaderSends PROVE TypeOK'
  OBVIOUS
<1> USE DEF OthersKeep
<1>a. hold \in Frames /\ oframe \in Frames /\ Keepalive \in Frames
  BY KeepaliveIsFrame DEF TypeOK
<1>b. {spanOpen, carry, sawData, sawStop} \subseteq BOOLEAN
  BY DEF TypeOK
<1>c. ASSUME NEW reason \in Reasons, NEW empty \in BOOLEAN,
             sawStop' \in BOOLEAN, Finish(reason, empty)
      PROVE  hold' \in Frames
  BY <1>c, DoneIsFrame DEF Finish
<1>d. Flush => {carry', sawData', sawStop'} \subseteq BOOLEAN
  BY <1>b DEF Flush
<1>e. ASSUME sawStop' \in BOOLEAN, Complete
      PROVE  hold' \in Frames
  BY <1>c, <1>e DEF Complete, Reasons
<1>f. ASSUME Enqueue, UNCHANGED <<format, upVars, pending, spanOpen, classVars,
                                  written, oframe>>,
             hold' \in Frames, read' \in {read, Reading}
      PROVE  TypeOK'
  <2>1. frameCh' \in Seq(Frames) /\ Len(frameCh') <= Cap
    BY <1>f, EnqueueType
  <2>2. Frames' = Frames
    BY <1>f, FramesKept DEF upVars
  <2>3. Len(sent) \in Nat
    BY LenProperties DEF TypeOK
  <2>4. /\ read' \in [chunk : 0..Len(sent),
                      err : {"pending", "none", "eof", "cut", "error", "closed",
                             "canceled"}]
        /\ read'.chunk # 0 => read'.chunk = Len(sent)
    BY <1>f, <2>3 DEF TypeOK, Reading
  <2> QED BY <1>a, <1>f, <2>1, <2>2, <2>4 DEF TypeOK, upVars, classVars
<1>1. CASE TakeChunk
  BY <1>1, TakeChunkType
<1>2. CASE SeeCancel \/ JudgeIdle \/ JudgeContext \/ CtxCancel
  BY <1>a, <1>2, TypeKept
     DEF SeeCancel, JudgeIdle, JudgeContext, CtxCancel, outVars, classVars
<1>3. CASE JudgeEof
  <2>1. {carry', sawData', sawStop'} \subseteq BOOLEAN
    BY <1>b, <1>d, <1>3 DEF JudgeEof, HandleCleanEnd, classVars
  <2>2. pending' \in {pending, <<>>}
    BY <1>3 DEF JudgeEof, HandleCleanEnd
  <2>3. hold' \in Frames
    <3>1. pending \in Seq(1..Len(sent)) /\ FALSE \in BOOLEAN
      BY DEF TypeOK
    <3>2. ASSUME Finish("upstream_ended_mid_frame", FALSE)
          PROVE  hold' \in Frames
      BY <1>c, <2>1, <3>2 DEF Reasons
    <3>3. DataFrame(pending) \in Frames
      BY <3>1, DataIsFrame
    <3> QED
      BY <1>a, <1>3, <1>e, <2>1, <3>2, <3>3 DEF JudgeEof, HandleCleanEnd
  <2> QED BY <1>3, <2>1, <2>2, <2>3, ReaderType DEF JudgeEof, outVars
<1>4. CASE JudgeClosed
  <2>1. {carry', sawData', sawStop'} \subseteq BOOLEAN
    BY <1>d, <1>4 DEF JudgeClosed
  <2>2. hold' \in Frames
    BY <1>c, <1>4, <2>1 DEF JudgeClosed, Reasons
  <2> QED BY <1>4, <2>1, <2>2, ReaderType DEF JudgeClosed, outVars
<1>5. CASE CtxReason
  <2>1. hold' \in Frames
    BY <1>b, <1>c, <1>5 DEF CtxReason, Reasons, classVars
  <2> QED BY <1>a, <1>5, <2>1, TypeKept DEF CtxReason, outVars
<1>6. CASE SendChunk
  BY <1>a, <1>6, <1>f DEF SendChunk, Proceed, outVars
<1>7. CASE SendPending
  <2>1. CASE Enqueue /\ Complete
    <3>1. hold' \in Frames
      BY <1>b, <1>e, <1>7, <2>1 DEF SendPending, classVars
    <3> QED BY <1>f, <1>7, <2>1, <3>1 DEF SendPending, outVars
  <2>2. CASE hold' = Keepalive /\ UNCHANGED frameCh
    BY <1>a, <1>7, <2>2, TypeKept DEF SendPending, outVars
  <2> QED BY <1>7, <2>1, <2>2 DEF SendPending
<1>8. CASE SendDone
  <2>1. CASE Enqueue
    BY <1>a, <1>f, <1>8, <2>1 DEF SendDone, outVars
  <2>2. CASE UNCHANGED frameCh
    BY <1>a, <1>8, <2>2, TypeKept DEF SendDone, outVars
  <2> QED BY <1>8, <2>1, <2>2 DEF SendDone
<1> QED
  BY <1>1, <1>2, <1>3, <1>4, <1>5, <1>6, <1>7, <1>8 DEF Reader, ReaderSends

LEMMA OutputType == TypeOK /\ Output => TypeOK'
<1> SUFFICES ASSUME TypeOK, Output PROVE TypeOK'
  OBVIOUS
<1> USE DEF OutputKeeps, readerVars
<1>a. hold \in Frames /\ oframe \in Frames /\ Keepalive \in Frames
  BY KeepaliveIsFrame DEF TypeOK
<1>1. CASE TakeFrame
  <2>1. frameCh \in Seq(Frames) /\ frameCh # <<>> /\ Len(frameCh) \in Nat
    BY <1>1, LenProperties DEF TypeOK, TakeFrame
  <2>2. /\ frameCh' \in Seq(Frames) /\ Len(frameCh') = Len(frameCh) - 1
        /\ oframe' \in Frames
    BY <1>1, <2>1, HeadTailProperties DEF TakeFrame
  <2>3. Frames' = Frames
    BY <1>1, FramesKept DEF TakeFrame, upVars
  <2>4. Len(frameCh') <= Cap
    BY <2>1, <2>2, PumpAssumption DEF TypeOK
  <2> QED
    BY <1>a, <1>1, <2>2, <2>3, <2>4 DEF TakeFrame, TypeOK, upVars, classVars
<1>2. CASE WriteFrame
  <2>1. written' \in Seq(1..Len(sent))
    <3>1. oframe.chunks \in Seq(1..Len(sent)) /\ written \in Seq(1..Len(sent))
      BY <1>a, FrameChunks DEF TypeOK
    <3> QED BY <1>2, <3>1, ConcatProperties DEF WriteFrame
  <2>2. Frames' = Frames
    BY <1>2, FramesKept DEF WriteFrame, upVars
  <2> QED
    BY <1>a, <1>2, <2>1, <2>2 DEF WriteFrame, TypeOK, upVars, classVars
<1>3. CASE \/ WriteFails \/ FailClosesBody \/ FailCancels \/ FailReports
           \/ WriteDone
  BY <1>a, <1>3, TypeKept
     DEF WriteFails, FailClosesBody, FailCancels, FailReports, WriteDone
<1> QED BY <1>1, <1>2, <1>3 DEF Output

LEMMA TypeStep == TypeOK /\ [Next]_vars => TypeOK'
<1> SUFFICES ASSUME TypeOK, [Next]_vars PROVE TypeOK'
  OBVIOUS
<1> USE DEF readerVars, outVars
<1>a. hold \in Frames /\ oframe \in Frames
  BY DEF TypeOK
<1>1. CASE UpstreamSends
  BY <1>1, UpstreamSendsType
<1>2. CASE UpstreamEnds \/ ReadFails
  <2>1. /\ upEnd' \in {"none", "eof", "cut", "error"}
        /\ read'.chunk = 0
        /\ read' \in [chunk : {0},
                      err : {"pending", "none", "eof", "cut", "error",
                             "closed", "canceled"}]
    BY <1>2 DEF UpstreamEnds, ReadFails, TypeOK, upVars
  <2>2. UNCHANGED <<format, sent, hold, oframe, pending, spanOpen, classVars,
                    frameCh, written>>
    BY <1>2 DEF UpstreamEnds, ReadFails, upVars
  <2>3. Frames' = Frames
    BY <2>2, FramesKept
  <2>4. 0 \in 0..Len(sent)
    BY LenProperties DEF TypeOK
  <2> QED BY <2>1, <2>2, <2>3, <2>4 DEF TypeOK, classVars
<1>3. CASE \/ ClientLeaves \/ CancelReaches \/ PumpReturns \/ KeepaliveStops
           \/ Watchdog
  BY <1>a, <1>3, TypeKept
     DEF ClientLeaves, CancelReaches, PumpReturns, KeepaliveStops, Watchdog,
         WatchdogTick, WatchdogTrips, WatchdogCloses, WatchdogCancels,
         WatchdogStops, WatchdogKeeps
<1>4. CASE KeepaliveTick
  <2>1. Frames' = Frames
    BY <1>4, FramesKept DEF KeepaliveTick, upVars
  <2>2. frameCh \in Seq(Frames) /\ Len(frameCh) \in Nat
    BY LenProperties DEF TypeOK
  <2>3. frameCh' \in Seq(Frames) /\ Len(frameCh') = Len(frameCh) + 1
    BY <1>4, <2>2, KeepaliveIsFrame, AppendProperties DEF KeepaliveTick
  <2>4. Len(frameCh') <= Cap
    BY <1>4, <2>2, <2>3, PumpAssumption DEF KeepaliveTick
  <2> QED
    BY <1>4, <2>1, <2>3, <2>4 DEF KeepaliveTick, TypeOK, upVars, classVars
<1>5. CASE Reader \/ ReaderSends
  BY <1>5, ReaderStepType
<1>6. CASE Output
  BY <1>6, OutputType
<1>7. CASE UNCHANGED vars
  BY <1>a, <1>7, TypeKept DEF vars
<1> QED
  BY <1>1, <1>2, <1>3, <1>4, <1>5, <1>6, <1>7 DEF Next, ReadReturns

(* Chunks, frames and the queue are what the pump can make of the stream;  *)
(* the queue never holds more than its capacity (sse.go:126-183).          *)
THEOREM TypeCorrect == Spec => []TypeOK
<1>1. Init => TypeOK BY TypeInit
<1>2. TypeOK /\ [Next]_vars => TypeOK' BY TypeStep
<1> QED BY <1>1, <1>2, PTL DEF Spec
-----------------------------------------------------------------------------
(* Blame.  A frame that blames the upstream may wait in the reader or in   *)
(* the queue although the upstream is innocent, but only when OUTPUT is    *)
(* past the point where it takes a further frame.                          *)
Broke == upEnd \in {"cut", "error"} \/ gone
Over == opc \in {"close", "cancel", "report", "exit"}
Blaming == {"upstream_closed", "upstream_stream_error"}
Blames(f) == f.kind = "done" /\ f.result.error \in Blaming

(* Why the reader's Read has failed, and who has closed the body.          *)
ReadIsExplained ==
  /\ read.err \in {"cut", "error"} => Broke
  /\ read.err = "closed" => bodyClosed
  /\ read.err = "canceled" => gone \/ Over
  /\ read.chunk = 0 => read.err # "none"
  /\ read.err = "pending" => read = Reading
  /\ rpc = "send" => read.err # "pending"
  /\ rpc \in {"eof?", "idle?"} => read.err \notin {"none", "pending"}
  /\ rpc = "idle?" => read.err # "eof" \/ bodyClosed

CloseIsExplained ==
  /\ bodyClosed =>
       idleTriggered \/ Over \/ rpc \in {"reason", "finish", "exit"}
  /\ wpc \in {"close", "cancel"} => idleTriggered

BlameIsExplained ==
  /\ result # NoResult => opc = "exit"
  /\ returned => result # NoResult
  /\ rpc \in {"ctx?", "closed?"} => Broke \/ Over
  /\ Blames(hold) => Broke \/ Over
  /\ \A i \in 1..Len(frameCh) : Blames(frameCh[i]) => Broke \/ Over
  /\ opc = "write" /\ Blames(oframe) => Broke
  /\ result.error \in Blaming => Broke

BlameInv == ReadIsExplained /\ CloseIsExplained /\ BlameIsExplained

LEMMA WhatBlames ==
  /\ ~Blames(Keepalive)
  /\ \A c : ~Blames(DataFrame(c))
  /\ \A reason, stop, empty :
       Blames(DoneFrame(reason, stop, empty)) <=> reason \in Blaming
BY DEF Blames, Keepalive, DataFrame, DoneFrame

(* A broken stream stays broken, and OUTPUT does not come back.            *)
LEMMA BrokeAndOverStay ==
  ASSUME [Next]_vars
  PROVE  (Broke => Broke') /\ (Over => Over')
<1> USE DEF Broke, Over, upVars, outVars
<1>1. CASE ReadReturns
  BY <1>1 DEF ReadReturns, UpstreamSends, UpstreamEnds, ReadFails
<1>2. CASE Reader
  <2>1. UNCHANGED <<upVars, gone, outVars>>
    BY <1>2 DEF Reader, TakeChunk, SeeCancel, JudgeEof, JudgeIdle,
                JudgeContext, JudgeClosed, CtxCancel, CtxReason, OthersKeep
  <2> QED BY <2>1
<1>3. CASE ReaderSends
  <2>1. UNCHANGED <<upVars, gone, outVars>>
    BY <1>3 DEF ReaderSends, SendChunk, SendPending, SendDone, OthersKeep
  <2> QED BY <2>1
<1>4. CASE Output
  <2>1. UNCHANGED <<upVars, gone>>
    BY <1>4 DEF Output, TakeFrame, WriteFrame, WriteFails, FailClosesBody,
                FailCancels, FailReports, WriteDone, OutputKeeps
  <2>2. opc = "select" \/ opc = "write" \/ opc' \in {"cancel", "report", "exit"}
    BY <1>4 DEF Output, TakeFrame, WriteFrame, WriteFails, FailClosesBody,
                FailCancels, FailReports, WriteDone
  <2> QED BY <2>1, <2>2
<1>5. CASE Watchdog
  BY <1>5 DEF Watchdog, WatchdogTick, WatchdogStops, WatchdogTrips,
              WatchdogCloses, WatchdogCancels, WatchdogKeeps
<1>6. CASE \/ ClientLeaves \/ CancelReaches \/ PumpReturns \/ KeepaliveTick
           \/ KeepaliveStops
  BY <1>6 DEF ClientLeaves, CancelReaches, PumpReturns, KeepaliveTick,
              KeepaliveStops
<1>7. CASE UNCHANGED vars
  BY <1>7 DEF vars
<1> QED BY <1>1, <1>2, <1>3, <1>4, <1>5, <1>6, <1>7 DEF Next

LEMMA BlameInit == Init => BlameInv
<1> SUFFICES ASSUME Init PROVE BlameInv
  OBVIOUS
<1>1. ReadIsExplained
  BY DEF Init, Reading, ReadIsExplained
<1>2. CloseIsExplained
  BY DEF Init, CloseIsExplained
<1>3. BlameIsExplained
  <2>1. ~Blames(hold) /\ ~Blames(oframe) /\ Len(frameCh) = 0
    BY WhatBlames, EmptySeq DEF Init
  <2>2. result = NoResult /\ NoResult.error \notin Blaming
    BY DEF Init, NoResult, Blaming
  <2> QED BY <2>1, <2>2 DEF Init, BlameIsExplained
<1> QED BY <1>1, <1>2, <1>3 DEF BlameInv

(* A step that leaves the read, the closed body and the reader's place be. *)
LEMMA ReadStep == TypeOK /\ BlameInv /\ [Next]_vars => ReadIsExplained'
<1> SUFFICES ASSUME TypeOK, BlameInv, [Next]_vars PROVE ReadIsExplained'
  OBVIOUS
<1> USE DEF BlameInv, ReadIsExplained
<1>a. (Broke => Broke') /\ (Over => Over')
  BY BrokeAndOverStay
<1>b. ASSUME UNCHANGED <<read, rpc>>, bodyClosed => bodyClosed',
             gone => gone'
      PROVE  ReadIsExplained'
  BY <1>a, <1>b DEF Reading
<1>1. CASE ReadReturns
  <2>1. UNCHANGED <<rpc, bodyClosed, gone, opc>>
    BY <1>1 DEF ReadReturns, UpstreamSends, UpstreamEnds, ReadFails, flagVars,
                readerVars, outVars
  <2>2. read = Reading /\ rpc \notin {"send", "eof?", "idle?"}
    BY <1>1 DEF ReadReturns, UpstreamSends, UpstreamEnds, ReadFails, Reading
  <2>3. CASE UpstreamSends
    <3>1. /\ read' = [chunk |-> Len(sent)', err |-> upEnd']
          /\ upEnd' \in {"none", "eof", "cut", "error"}
          /\ Len(sent)' # 0
      <4>1. PICK kind \in Kinds : sent' = Append(sent, kind)
        BY <2>3 DEF UpstreamSends
      <4>2. Len(sent)' = Len(sent) + 1 /\ Len(sent) \in Nat
        BY <4>1, AppendProperties, LenProperties DEF TypeOK
      <4> QED BY <2>3, <4>2 DEF UpstreamSends
    <3> QED BY <2>1, <2>2, <3>1 DEF Broke
  <2>4. CASE UpstreamEnds
    <3>1. /\ read' = [chunk |-> 0, err |-> upEnd']
          /\ upEnd' \in {"eof", "cut", "error"}
      BY <2>4 DEF UpstreamEnds, TypeOK
    <3> QED BY <2>1, <2>2, <3>1 DEF Broke
  <2>5. CASE ReadFails
    <3>1. returned => Over
      BY DEF BlameIsExplained, Over
    <3> QED BY <2>1, <2>2, <2>5, <3>1 DEF ReadFails, Over
  <2> QED BY <1>1, <2>3, <2>4, <2>5 DEF ReadReturns
<1>2. CASE TakeChunk \/ SendChunk
  <2>1. UNCHANGED <<bodyClosed, gone, opc, upEnd>>
    BY <1>2 DEF TakeChunk, SendChunk, flagVars, upVars, outVars
  <2>0. read.err # "pending"
    BY <1>2 DEF TakeChunk, SendChunk, Reading
  <2>2. CASE Proceed
    <3>1. CASE read.err = "none"
      <4>1. read' = Reading /\ rpc' = "select"
        BY <2>2, <3>1 DEF Proceed, Goto
      <4> QED BY <4>1 DEF Reading
    <3>2. CASE read.err # "none"
      <4>1. read' = read /\ rpc' = "eof?"
        BY <2>2, <3>2 DEF Proceed, Goto
      <4> QED BY <1>a, <2>0, <2>1, <3>2, <4>1 DEF Reading
    <3> QED BY <3>1, <3>2
  <2>3. CASE Goto("send") /\ UNCHANGED read
    BY <1>a, <2>0, <2>1, <2>3 DEF Goto, Reading
  <2> QED BY <1>2, <2>2, <2>3 DEF TakeChunk, SendChunk
<1>3. CASE JudgeEof
  <2>1. UNCHANGED <<read, bodyClosed, gone, opc, upEnd>>
    BY <1>3 DEF JudgeEof, OthersKeep, flagVars, upVars, outVars
  <2>2. read.err \notin {"none", "pending"}
    BY <1>3 DEF JudgeEof
  <2>3. rpc' \in {"finish", "pend", "idle?"}
    BY <1>3 DEF JudgeEof, HandleCleanEnd, Complete, Finish, Goto
  <2>4. rpc' = "idle?" => read.err # "eof" \/ bodyClosed
    BY <1>3 DEF JudgeEof, HandleCleanEnd, Complete, Finish, Goto
  <2> QED BY <1>a, <2>1, <2>2, <2>3, <2>4
<1>4. CASE \/ SeeCancel \/ JudgeIdle \/ JudgeContext \/ JudgeClosed
           \/ CtxCancel \/ CtxReason \/ SendPending \/ SendDone
  <2>1. UNCHANGED <<read, gone>>
    BY <1>4 DEF SeeCancel, JudgeIdle, JudgeContext, JudgeClosed, CtxCancel,
                CtxReason, SendPending, SendDone, OthersKeep
  <2>3. bodyClosed' = TRUE \/ UNCHANGED bodyClosed
    BY <1>4 DEF SeeCancel, JudgeIdle, JudgeContext, JudgeClosed, CtxCancel,
                CtxReason, SendPending, SendDone, OthersKeep, flagVars
  <2>2. rpc' \notin {"send", "eof?", "idle?"}
    BY <1>4 DEF SeeCancel, JudgeIdle, JudgeContext, JudgeClosed, CtxCancel,
                CtxReason, SendPending, SendDone, Complete, Finish, Goto
  <2> QED BY <1>a, <2>1, <2>2, <2>3 DEF Reading
<1>5. CASE Output
  <2>1. UNCHANGED <<read, rpc, gone>>
    BY <1>5 DEF Output, TakeFrame, WriteFrame, WriteFails, FailClosesBody,
                FailCancels, FailReports, WriteDone, OutputKeeps, readerVars
  <2>2. bodyClosed' = TRUE \/ UNCHANGED bodyClosed
    BY <1>5 DEF Output, TakeFrame, WriteFrame, WriteFails, FailClosesBody,
                FailCancels, FailReports, WriteDone
  <2> QED BY <1>b, <2>1, <2>2
<1>6. CASE Watchdog
  BY <1>6, <1>b DEF Watchdog, WatchdogTick, WatchdogStops, WatchdogTrips,
     WatchdogCloses, WatchdogCancels, WatchdogKeeps, readerVars, flagVars
<1>7. CASE \/ ClientLeaves \/ CancelReaches \/ PumpReturns \/ KeepaliveTick
           \/ KeepaliveStops
  BY <1>7, <1>b DEF ClientLeaves, CancelReaches, PumpReturns, KeepaliveTick,
     KeepaliveStops, readerVars, flagVars
<1>8. CASE UNCHANGED vars
  BY <1>8, <1>b DEF vars, readerVars, flagVars
<1> QED
  BY <1>1, <1>2, <1>3, <1>4, <1>5, <1>6, <1>7, <1>8
     DEF Next, Reader, ReaderSends

LEMMA CloseStep == BlameInv /\ [Next]_vars => CloseIsExplained'
<1> SUFFICES ASSUME BlameInv, [Next]_vars PROVE CloseIsExplained'
  OBVIOUS
<1> USE DEF BlameInv, CloseIsExplained
<1>a. Over => Over'
  BY BrokeAndOverStay
<1>b. ASSUME UNCHANGED <<bodyClosed, idleTriggered, rpc, wpc>>
      PROVE  CloseIsExplained'
  BY <1>a, <1>b
<1>1. CASE ReadReturns
  BY <1>1, <1>b DEF ReadReturns, UpstreamSends, UpstreamEnds, ReadFails,
     flagVars, readerVars
<1>2. CASE TakeChunk \/ SendChunk
  <2>1. UNCHANGED <<bodyClosed, idleTriggered, wpc>>
    BY <1>2 DEF TakeChunk, SendChunk, flagVars
  <2>2. rpc \notin {"reason", "finish", "exit"}
    BY <1>2 DEF TakeChunk, SendChunk
  <2> QED BY <1>a, <2>1, <2>2
<1>3. CASE SeeCancel \/ JudgeEof \/ JudgeIdle \/ JudgeContext \/ SendPending
  <2>1. UNCHANGED <<bodyClosed, idleTriggered, wpc>>
    BY <1>3 DEF SeeCancel, JudgeEof, JudgeIdle, JudgeContext, SendPending,
                OthersKeep, flagVars
  <2>2. rpc \notin {"reason", "finish", "exit"}
    BY <1>3 DEF SeeCancel, JudgeEof, JudgeIdle, JudgeContext, SendPending
  <2> QED BY <1>a, <2>1, <2>2
<1>4. CASE JudgeClosed \/ CtxReason \/ CtxCancel \/ SendDone
  <2>1. UNCHANGED <<idleTriggered, wpc>>
    BY <1>4 DEF JudgeClosed, CtxReason, CtxCancel, SendDone, OthersKeep,
                flagVars
  <2>2. rpc' \in {"reason", "finish", "exit"}
    BY <1>4 DEF JudgeClosed, CtxReason, CtxCancel, SendDone, Finish, Goto
  <2> QED BY <2>1, <2>2
<1>5. CASE Output
  <2>1. UNCHANGED <<idleTriggered, rpc, wpc>>
    BY <1>5 DEF Output, TakeFrame, WriteFrame, WriteFails, FailClosesBody,
                FailCancels, FailReports, WriteDone, OutputKeeps, readerVars
  <2>2. bodyClosed' = bodyClosed \/ Over'
    BY <1>5 DEF Output, TakeFrame, WriteFrame, WriteFails, FailClosesBody,
                FailCancels, FailReports, WriteDone, Over
  <2> QED BY <1>a, <2>1, <2>2
<1>6. CASE Watchdog
  <2>1. UNCHANGED rpc
    BY <1>6 DEF Watchdog, WatchdogTick, WatchdogStops, WatchdogTrips,
                WatchdogCloses, WatchdogCancels, WatchdogKeeps, readerVars
  <2>2. CASE WatchdogTick \/ WatchdogStops \/ WatchdogTrips
    BY <1>a, <2>1, <2>2 DEF WatchdogTick, WatchdogStops, WatchdogTrips,
                            flagVars
  <2>3. CASE WatchdogCloses \/ WatchdogCancels
    BY <1>a, <2>1, <2>3 DEF WatchdogCloses, WatchdogCancels
  <2> QED BY <1>6, <2>2, <2>3 DEF Watchdog
<1>7. CASE \/ ClientLeaves \/ CancelReaches \/ PumpReturns \/ KeepaliveTick
           \/ KeepaliveStops
  BY <1>7, <1>b DEF ClientLeaves, CancelReaches, PumpReturns, KeepaliveTick,
     KeepaliveStops, readerVars, flagVars
<1>8. CASE UNCHANGED vars
  BY <1>8, <1>b DEF vars, readerVars, flagVars
<1> QED
  BY <1>1, <1>2, <1>3, <1>4, <1>5, <1>6, <1>7, <1>8
     DEF Next, Reader, ReaderSends

LEMMA BlameStep == TypeOK /\ BlameInv /\ [Next]_vars => BlameIsExplained'
<1> SUFFICES ASSUME TypeOK, BlameInv, [Next]_vars PROVE BlameIsExplained'
  OBVIOUS
<1> USE DEF BlameInv, BlameIsExplained
<1>a. (Broke => Broke') /\ (Over => Over')
  BY BrokeAndOverStay
<1>b. frameCh \in Seq(Frames) /\ Len(frameCh) \in Nat
  BY LenProperties DEF TypeOK
<1>c. ASSUME UNCHANGED <<result, returned, opc, oframe, frameCh>>,
             rpc' \in {"ctx?", "closed?"} => Broke \/ Over,
             Blames(hold') => Broke \/ Over
      PROVE  BlameIsExplained'
  BY <1>a, <1>c
<1>d. ASSUME Enqueue, UNCHANGED <<result, returned, opc, oframe>>,
             rpc' \notin {"ctx?", "closed?"}, ~Blames(hold')
      PROVE  BlameIsExplained'
  <2>1. /\ Len(frameCh') = Len(frameCh) + 1
        /\ \A i \in 1..Len(frameCh) : frameCh'[i] = frameCh[i]
        /\ frameCh'[Len(frameCh) + 1] = hold
    BY <1>b, <1>d, AppendProperties DEF Enqueue, TypeOK
  <2>2. \A i \in 1..Len(frameCh') : Blames(frameCh'[i]) => Broke \/ Over
    BY <1>b, <2>1
  <2> QED BY <1>a, <1>d, <2>2
<1>1. CASE ReadReturns
  BY <1>1, <1>c DEF ReadReturns, UpstreamSends, UpstreamEnds, ReadFails,
     readerVars, outVars
<1>2. CASE TakeChunk
  <2>1. rpc' \in {"send", "select", "eof?"}
    BY <1>2 DEF TakeChunk, Proceed, Goto
  <2>2. Blames(hold') => Blames(hold)
    BY <1>2, WhatBlames DEF TakeChunk
  <2> QED BY <1>2, <1>c, <2>1, <2>2 DEF TakeChunk, outVars
<1>3. CASE SendChunk
  <2>1. rpc' \in {"select", "eof?"} /\ ~Blames(hold')
    BY <1>3, WhatBlames DEF SendChunk, Proceed, Goto
  <2> QED BY <1>3, <1>d, <2>1 DEF SendChunk, outVars
<1>4. CASE SeeCancel
  BY <1>4, <1>c, WhatBlames DEF SeeCancel, OthersKeep, Goto, outVars
<1>5. CASE JudgeEof
  <2>1. rpc' \in {"finish", "pend", "idle?"}
    BY <1>5 DEF JudgeEof, HandleCleanEnd, Complete, Finish, Goto
  <2>2. Blames(hold') => Blames(hold)
    BY <1>5, WhatBlames DEF JudgeEof, HandleCleanEnd, Complete, Finish, Ok,
                            Blaming
  <2>3. UNCHANGED <<result, returned, opc, oframe, frameCh>>
    BY <1>5 DEF JudgeEof, OthersKeep, outVars
  <2> QED BY <1>c, <2>1, <2>2, <2>3
<1>6. CASE JudgeIdle
  <2>1. ~idleTriggered => Broke \/ Over
    <3>1. read.err \in {"eof", "cut", "error", "closed", "canceled"}
      BY <1>6 DEF JudgeIdle, ReadIsExplained, TypeOK
    <3>2. bodyClosed /\ ~idleTriggered => Over
      BY <1>6 DEF JudgeIdle, CloseIsExplained
    <3>3. read.err \in {"eof", "closed"} => bodyClosed
      BY <1>6 DEF JudgeIdle, ReadIsExplained
    <3> QED BY <3>1, <3>2, <3>3 DEF ReadIsExplained, Broke
  <2>2. rpc' = "ctx?" => ~idleTriggered
    BY <1>6 DEF JudgeIdle, Goto
  <2>3. rpc' \in {"canceled", "ctx?"}
    BY <1>6 DEF JudgeIdle, Goto
  <2> QED BY <1>6, <1>c, <2>1, <2>2, <2>3 DEF JudgeIdle, OthersKeep, outVars
<1>7. CASE JudgeContext \/ JudgeClosed
  <2>1. Broke \/ Over
    BY <1>7 DEF JudgeContext, JudgeClosed
  <2> QED
    BY <1>7, <1>c, <2>1 DEF JudgeContext, JudgeClosed, OthersKeep, outVars
<1>8. CASE CtxCancel
  BY <1>8, <1>c DEF CtxCancel, Goto, outVars
<1>9. CASE CtxReason
  <2>1. PICK reason \in {"sse_idle_timeout", "client_disconnected"} :
          Finish(reason, FALSE)
    BY <1>9 DEF CtxReason
  <2>2. ~Blames(hold') /\ rpc' = "finish"
    BY <2>1, WhatBlames DEF Finish, Goto, Blaming
  <2> QED BY <1>9, <1>c, <2>2 DEF CtxReason, OthersKeep, outVars
<1>10. CASE SendPending
  <2>1. UNCHANGED <<result, returned, opc, oframe>>
    BY <1>10 DEF SendPending, OthersKeep, outVars
  <2>2. CASE Enqueue /\ Complete
    <3>1. Finish(Ok, ~sawData') /\ Ok \notin Blaming
      BY <2>2 DEF Complete, Ok, Blaming
    <3>2. ~Blames(hold') /\ rpc' = "finish"
      BY <3>1, WhatBlames DEF Finish, Goto
    <3> QED BY <1>d, <2>1, <2>2, <3>2
  <2>3. CASE Goto("exit") /\ hold' = Keepalive /\ UNCHANGED frameCh
    BY <1>c, <2>1, <2>3, WhatBlames DEF Goto
  <2> QED BY <1>10, <2>2, <2>3 DEF SendPending
<1>11. CASE SendDone
  <2>1. /\ UNCHANGED <<result, returned, opc, oframe>>
        /\ ~Blames(hold') /\ rpc' = "exit"
    BY <1>11, WhatBlames DEF SendDone, OthersKeep, Goto, outVars
  <2> QED BY <1>11, <1>c, <1>d, <2>1 DEF SendDone
<1>12. CASE Output
  <2>a. UNCHANGED <<rpc, hold, returned>>
    BY <1>12 DEF Output, TakeFrame, WriteFrame, WriteFails, FailClosesBody,
                 FailCancels, FailReports, WriteDone, OutputKeeps, readerVars
  <2>b. ~returned
    BY <1>12 DEF Output, TakeFrame, WriteFrame, WriteFails, FailClosesBody,
                 FailCancels, FailReports, WriteDone
  <2>1. CASE TakeFrame
    <3>1. frameCh # <<>> /\ opc = "select" /\ opc' = "write"
      BY <2>1 DEF TakeFrame
    <3>2. /\ Len(frameCh) >= 1
          /\ frameCh' = Tail(frameCh) /\ oframe' = frameCh[1]
      BY <1>b, <2>1, <3>1, EmptySeq DEF TakeFrame
    <3>3. /\ Len(frameCh') = Len(frameCh) - 1
          /\ \A i \in 1..Len(frameCh') : frameCh'[i] = frameCh[i + 1]
      BY <1>b, <3>1, <3>2, HeadTailProperties
    <3>4. \A i \in 1..Len(frameCh') : Blames(frameCh'[i]) => Broke \/ Over
      BY <1>b, <3>3
    <3>5. Blames(oframe') => Broke
      BY <1>b, <3>1, <3>2 DEF Over
    <3>6. UNCHANGED result
      BY <2>1 DEF TakeFrame
    <3> QED BY <1>a, <2>a, <2>b, <3>1, <3>4, <3>5, <3>6
  <2>2. CASE WriteFrame \/ WriteFails \/ FailClosesBody \/ FailCancels
    BY <1>a, <2>a, <2>b, <2>2 DEF WriteFrame, WriteFails, FailClosesBody,
                                  FailCancels
  <2>3. CASE FailReports
    <3>1. result'.error \notin Blaming /\ opc' = "exit" /\ UNCHANGED frameCh
      BY <2>3 DEF FailReports, Blaming
    <3> QED BY <1>a, <2>a, <2>b, <3>1
  <2>4. CASE WriteDone
    <3>1. /\ result' = oframe.result /\ opc' = "exit" /\ UNCHANGED frameCh
          /\ opc = "write" /\ oframe.kind = "done"
      BY <2>4 DEF WriteDone
    <3>2. result'.error \in Blaming => Broke
      BY <3>1 DEF Blames
    <3> QED BY <1>a, <2>a, <2>b, <3>1, <3>2
  <2> QED BY <1>12, <2>1, <2>2, <2>3, <2>4 DEF Output
<1>13. CASE KeepaliveTick
  <2>1. /\ Len(frameCh') = Len(frameCh) + 1
        /\ \A i \in 1..Len(frameCh) : frameCh'[i] = frameCh[i]
        /\ frameCh'[Len(frameCh) + 1] = Keepalive
    BY <1>13, <1>b, KeepaliveIsFrame, AppendProperties DEF KeepaliveTick
  <2>2. \A i \in 1..Len(frameCh') : Blames(frameCh'[i]) => Broke \/ Over
    BY <1>b, <2>1, WhatBlames
  <2> QED BY <1>13, <1>a, <2>2 DEF KeepaliveTick, readerVars, outVars
<1>14. CASE PumpReturns
  BY <1>14, <1>a DEF PumpReturns, readerVars, outVars
<1>15. CASE ClientLeaves \/ CancelReaches \/ KeepaliveStops
  BY <1>15, <1>c DEF ClientLeaves, CancelReaches, KeepaliveStops, readerVars,
                     outVars
<1>16. CASE Watchdog
  BY <1>16, <1>c DEF Watchdog, WatchdogTick, WatchdogStops, WatchdogTrips,
     WatchdogCloses, WatchdogCancels, WatchdogKeeps, readerVars, outVars
<1>17. CASE UNCHANGED vars
  BY <1>17, <1>c DEF vars, readerVars, outVars
<1> QED
  BY <1>1, <1>2, <1>3, <1>4, <1>5, <1>6, <1>7, <1>8, <1>9, <1>10, <1>11,
     <1>12, <1>13, <1>14, <1>15, <1>16, <1>17 DEF Next, Reader, ReaderSends

(* The upstream is blamed for a stream only if it did break it, or if the  *)
(* client had left: never for a body the proxy closed on the idle timeout  *)
(* or after a failed write, in whatever order the reader, the watchdog and *)
(* OUTPUT set and read their flags (sse.go:417-432, 469-501).              *)
THEOREM BlameIsJust == Spec => []UpstreamBlamedOnlyIfBroken
<1>1. Init => BlameInv
  BY BlameInit
<1>2. TypeOK /\ BlameInv /\ [Next]_vars => BlameInv'
  BY ReadStep, CloseStep, BlameStep DEF BlameInv
<1>3. BlameInv => UpstreamBlamedOnlyIfBroken
  BY DEF BlameInv, BlameIsExplained, UpstreamBlamedOnlyIfBroken, Blaming, Broke
<1> QED BY <1>1, <1>2, <1>3, TypeCorrect, PTL DEF Spec

-----------------------------------------------------------------------------
(* The places in a sequence of chunks.                                     *)
Places(c)    == {c[j] : j \in DOMAIN c}
Ascending(c) == \A i, j \in DOMAIN c : i < j => c[i] < c[j]
Before(c, d) == \A x \in Places(c), y \in Places(d) : x < y

-----------------------------------------------------------------------------
(* The stream.  A tail follows its head, a span is open when it is closed, *)
(* and what is said of a beginning of the stream stays true as it grows.   *)
StreamShape ==
  \A i \in 1..Len(sent) :
    /\ sent[i] \in OpenAIKinds => format = "openai"
    /\ sent[i] = "tail" <=> (i > 1 /\ sent[i - 1] = "head")
    /\ sent[i] = "unthink" => InSpan(i - 1)

LEMMA ForwardablePlaces ==
  /\ Forwardable \subseteq 1..Len(sent)
  /\ TypeOK => Len(sent) \in Nat /\ Forwardable \subseteq Nat
<1>1. Forwardable \subseteq 1..Len(sent)
  BY DEF Forwardable
<1>2. TypeOK => Len(sent) \in Nat
  BY LenProperties DEF TypeOK
<1> QED BY <1>1, <1>2

LEMMA StreamGrows ==
  ASSUME TypeOK, UpstreamSends
  PROVE  /\ Len(sent) \in Nat /\ Len(sent)' = Len(sent) + 1
         /\ sent'[Len(sent) + 1] \in Kinds
         /\ \A i \in 1..Len(sent) : sent'[i] = sent[i]
         /\ UNCHANGED format
         /\ \A n \in 0..Len(sent) : InSpan(n)' <=> InSpan(n)
         /\ \A i \in 1..Len(sent) : i \in Forwardable' <=> i \in Forwardable
         /\ Forwardable' \subseteq Forwardable \cup {Len(sent) + 1}
         /\ Forwardable \subseteq Forwardable'
<1>1. PICK kind \in Kinds : sent' = Append(sent, kind)
  BY DEF UpstreamSends
<1>2. sent \in Seq(Kinds) /\ Len(sent) \in Nat
  BY LenProperties DEF TypeOK
<1>3. /\ Len(sent)' = Len(sent) + 1 /\ sent'[Len(sent) + 1] \in Kinds
      /\ \A i \in 1..Len(sent) : sent'[i] = sent[i]
  BY <1>1, <1>2, AppendProperties
<1>4. UNCHANGED format
  BY DEF UpstreamSends
<1>5. ASSUME NEW n \in 0..Len(sent) PROVE InSpan(n)' <=> InSpan(n)
  <2>1. \A i \in 1..n : i \in 1..Len(sent) /\ i..n \subseteq 1..Len(sent)
    BY <1>2
  <2>2. \A i \in 1..n : /\ sent'[i] = sent[i]
                        /\ \A j \in i..n : sent'[j] = sent[j]
    BY <1>3, <2>1
  <2> QED BY <2>2 DEF InSpan
<1>6. ASSUME NEW i \in 1..Len(sent)
      PROVE  i \in Forwardable' <=> i \in Forwardable
  <2>1. i \in 0..Len(sent) /\ i \in 1..Len(sent)'
    BY <1>2, <1>3
  <2> QED BY <1>3, <1>4, <1>5, <2>1 DEF Forwardable
<1>7. 1..Len(sent)' = 1..Len(sent) \cup {Len(sent) + 1}
  BY <1>2, <1>3
<1>8. Forwardable' \subseteq 1..Len(sent)' /\ Forwardable \subseteq 1..Len(sent)
  BY DEF Forwardable
<1> QED BY <1>2, <1>3, <1>4, <1>5, <1>6, <1>7, <1>8

LEMMA StreamKept ==
  ASSUME UNCHANGED <<format, sent>>
  PROVE  /\ Forwardable' = Forwardable
         /\ \A n : InSpan(n)' <=> InSpan(n)
BY DEF Forwardable, InSpan

(* Only the upstream makes the stream grow.                                *)
LEMMA WhoSends ==
  ASSUME [Next]_vars, ~UpstreamSends
  PROVE  UNCHANGED <<format, sent>>
<1> USE DEF upVars
<1>1. CASE Output
  BY <1>1 DEF Output, TakeFrame, WriteFrame, WriteFails, FailClosesBody,
              FailCancels, FailReports, WriteDone, OutputKeeps
<1>2. CASE Watchdog
  BY <1>2 DEF Watchdog, WatchdogTick, WatchdogStops, WatchdogTrips,
              WatchdogCloses, WatchdogCancels, WatchdogKeeps
<1>3. CASE ReadReturns
  BY <1>3 DEF ReadReturns, UpstreamEnds, ReadFails
<1>4. CASE Reader
  BY <1>4 DEF Reader, TakeChunk, SeeCancel, JudgeEof, JudgeIdle,
              JudgeContext, JudgeClosed, CtxCancel, CtxReason, OthersKeep
<1>5. CASE ReaderSends
  BY <1>5 DEF ReaderSends, SendChunk, SendPending, SendDone, OthersKeep
<1>6. CASE \/ ClientLeaves \/ CancelReaches \/ PumpReturns \/ KeepaliveTick
           \/ KeepaliveStops
  BY <1>6 DEF ClientLeaves, CancelReaches, PumpReturns, KeepaliveTick,
              KeepaliveStops
<1>7. CASE UNCHANGED vars
  BY <1>7 DEF vars
<1> QED BY <1>1, <1>2, <1>3, <1>4, <1>5, <1>6, <1>7 DEF Next

LEMMA StreamShapeStep ==
  TypeOK /\ StreamShape /\ [Next]_vars => StreamShape'
<1> SUFFICES ASSUME TypeOK, StreamShape, [Next]_vars PROVE StreamShape'
  OBVIOUS
<1>1. CASE UpstreamSends
  <2>1. PICK kind \in Kinds : Fits(kind) /\ sent' = Append(sent, kind)
    BY <1>1 DEF UpstreamSends
  <2> DEFINE n == Len(sent)
  <2>2. /\ n \in Nat /\ Len(sent)' = n + 1
        /\ \A i \in 1..n : sent'[i] = sent[i]
        /\ UNCHANGED format
        /\ \A m \in 0..n : InSpan(m)' <=> InSpan(m)
    BY <1>1, StreamGrows
  <2>3. sent'[n + 1] = kind
    BY <2>1, AppendProperties DEF TypeOK
  <2>4. sent = <<>> <=> n = 0
    BY EmptySeq DEF TypeOK
  <2> HIDE DEF n
  <2>5. ASSUME NEW i \in 1..n + 1
        PROVE  /\ sent'[i] \in OpenAIKinds => format' = "openai"
               /\ sent'[i] = "tail" <=> (i > 1 /\ sent'[i - 1] = "head")
               /\ sent'[i] = "unthink" => InSpan(i - 1)'
    <3>1. CASE i \in 1..n
      <4>1. i - 1 \in 0..n /\ (i > 1 => i - 1 \in 1..n)
        BY <2>2, <3>1
      <4> QED BY <2>2, <3>1, <4>1 DEF StreamShape, n
    <3>2. CASE i = n + 1
      <4>1. kind = "tail" <=> (n # 0 /\ sent[n] = "head")
        BY <2>1, <2>4 DEF Fits, MidEvent, Last, n
      <4>2. /\ kind \in OpenAIKinds => format = "openai"
            /\ kind = "unthink" => InSpan(n)
        BY <2>1 DEF Fits, MidSpan, n
      <4>3. i - 1 = n /\ (i > 1 <=> n # 0) /\ (n # 0 => n \in 1..n)
        BY <2>2, <3>2
      <4> QED BY <2>2, <2>3, <3>2, <4>1, <4>2, <4>3
    <3> QED BY <2>2, <3>1, <3>2
  <2> QED BY <2>2, <2>5 DEF StreamShape
<1>2. CASE ~UpstreamSends
  <2>1. UNCHANGED <<format, sent>>
    BY <1>2, WhoSends
  <2> QED BY <2>1, StreamKept DEF StreamShape
<1> QED BY <1>1, <1>2

LEMMA SpanStep ==
  ASSUME NEW n \in Nat \ {0}
  PROVE  InSpan(n) <=> \/ sent[n] = "think"
                       \/ InSpan(n - 1) /\ sent[n] # "unthink"
<1>1. 1..n = 1..(n - 1) \cup {n} /\ n..n = {n}
  OBVIOUS
<1>2. \A i \in 1..(n - 1) : i..n = i..(n - 1) \cup {n}
  OBVIOUS
<1> QED BY <1>1, <1>2 DEF InSpan

-----------------------------------------------------------------------------
(* The reader.  Taken is how much of the stream it has looked at; it holds *)
(* nothing back but an event's first half, and that one came last.         *)
Taken == IF rpc = "select" /\ read.chunk # 0 THEN Len(sent) - 1
                                             ELSE Len(sent)
Settled == IF pending = <<>> THEN Taken ELSE Taken - 1

Finishing(errors) == rpc = "finish" /\ hold.result.error \in errors

(* The reader has lost nothing so far.                                     *)
Clean == rpc \in {"select", "send", "eof?", "pend"} \/ Finishing({Ok})

ReaderShape ==
  /\ rpc \in {"select", "send", "eof?", "pend", "idle?", "ctx?", "closed?",
              "canceled", "reason", "finish", "exit"}
  /\ rpc \in {"send", "pend"} => hold.kind = "data"
  /\ rpc = "finish" => hold.kind = "done"
  /\ rpc \notin {"send", "pend", "finish"} => hold = Keepalive
  /\ read.err = "eof" \/ rpc = "pend" \/ Finishing({Ok}) => upEnd = "eof"
  /\ rpc = "send" => read.chunk # 0
  /\ rpc \in {"send", "pend"} \/ Finishing({Ok}) => pending = <<>>
  /\ rpc \in {"select", "eof?"} /\ pending # <<>> =>
       pending = <<Taken>> /\ Taken > 0 /\ sent[Taken] = "head" /\ ~spanOpen
  /\ rpc \in {"select", "send", "eof?"} =>
       (spanOpen <=> format = "openai" /\ InSpan(Taken))

(* A chunk can only arrive while the reader waits for it, or later than it *)
(* cares.                                                                  *)
LEMMA SendsWhile ==
  ASSUME ReaderShape, BlameInv, UpstreamSends
  PROVE  /\ rpc \notin {"send", "eof?", "pend"} /\ ~Finishing({Ok})
         /\ rpc = "select" => Taken = Len(sent) /\ Taken' = Len(sent)' - 1
         /\ read'.chunk = Len(sent)' /\ read'.err = upEnd' /\ upEnd = "none"
         /\ read = Reading
BY DEF ReaderShape, BlameInv, ReadIsExplained, UpstreamSends, Reading, Taken,
       readerVars

LEMMA TakeChunkShape ==
  ASSUME TypeOK, StreamShape, ReaderShape, BlameInv, TakeChunk
  PROVE  /\ ReaderShape'
         /\ read.chunk = Len(sent) /\ Len(sent) \in Nat \ {0}
         /\ Taken = Len(sent) - 1 /\ Taken' = Len(sent)
         /\ spanOpen <=> format = "openai" /\ InSpan(Taken)
         /\ pending # <<>> => /\ pending = <<Taken>> /\ Taken > 0 /\ ~spanOpen
                              /\ sent[Taken] = "head"
                              /\ sent[Len(sent)] = "tail"
<1> DEFINE n == Len(sent)
<1>1. rpc = "select" /\ read.chunk = n /\ n \in Nat \ {0} /\ n \in 1..n
      /\ UNCHANGED <<format, sent, upEnd>>
  BY LenProperties DEF TypeOK, TakeChunk, upVars
<1>2. Taken = n - 1
  BY <1>1 DEF Taken
<1>3. Taken' = n
  BY <1>1 DEF Taken, TakeChunk, Proceed, Reading, Goto
<1>4. spanOpen <=> format = "openai" /\ InSpan(n - 1)
  BY <1>1, <1>2 DEF ReaderShape
<1>5. pending # <<>> => /\ pending = <<Taken>> /\ Taken > 0 /\ ~spanOpen
                        /\ sent[Taken] = "head" /\ sent[n] = "tail"
  BY <1>1, <1>2 DEF ReaderShape, StreamShape
<1>6. spanOpen' <=> format = "openai" /\ InSpan(n)
  BY <1>1, <1>4, SpanStep DEF TakeChunk, Strip
<1>7. InSpan(n)' <=> InSpan(n)
  BY <1>1, StreamKept
<1>8. pending' # <<>> => pending' = <<n>> /\ sent[n] = "head" /\ ~spanOpen'
  BY <1>1, <1>4, <1>5 DEF TakeChunk, HoldBack, Withheld, Strip
<1>9. CASE Withheld(n)
  <2>1. rpc' \in {"select", "eof?"} /\ read' \in {read, Reading}
        /\ UNCHANGED hold
    BY <1>1, <1>9 DEF TakeChunk, Proceed, Goto
  <2>2. read'.err = "eof" => upEnd = "eof"
    BY <2>1 DEF ReaderShape, Reading
  <2>3. hold = Keepalive
    BY <1>1 DEF ReaderShape
  <2> QED
    BY <1>1, <1>2, <1>3, <1>4, <1>5, <1>6, <1>7, <1>8, <2>1, <2>2, <2>3
       DEF ReaderShape, Finishing
<1>10. CASE ~Withheld(n)
  <2>1. rpc' = "send" /\ UNCHANGED read /\ hold'.kind = "data"
        /\ pending' = <<>>
    BY <1>1, <1>10 DEF TakeChunk, HoldBack, Goto, DataFrame
  <2> QED
    BY <1>1, <1>2, <1>3, <1>4, <1>5, <1>6, <1>7, <2>1
       DEF ReaderShape, Finishing
<1> QED BY <1>9, <1>10

LEMMA ReaderShapeStep ==
  ASSUME TypeOK, BlameInv, StreamShape, ReaderShape, [Next]_vars
  PROVE  ReaderShape'
<1>a. Len(sent) \in Nat
  BY LenProperties DEF TypeOK
<1>b. \A reason, stop, empty :
        /\ DoneFrame(reason, stop, empty).kind = "done"
        /\ DoneFrame(reason, stop, empty).result.error = reason
  BY DEF DoneFrame
<1>1. CASE UpstreamSends
  <2>1. /\ rpc \notin {"send", "eof?", "pend"} /\ ~Finishing({Ok})
        /\ rpc = "select" => Taken = Len(sent) /\ Taken' = Len(sent)' - 1
        /\ read'.chunk = Len(sent)' /\ read'.err = upEnd'
    BY <1>1, SendsWhile
  <2>2. UNCHANGED <<rpc, hold, pending, spanOpen, format>>
    BY <1>1 DEF UpstreamSends, readerVars
  <2>3. /\ Len(sent)' = Len(sent) + 1
        /\ \A i \in 1..Len(sent) : sent'[i] = sent[i]
        /\ \A n \in 0..Len(sent) : InSpan(n)' <=> InSpan(n)
    BY <1>1, StreamGrows
  <2>4. rpc = "select" => Taken' = Taken /\ Taken \in 0..Len(sent)
    BY <1>a, <2>1, <2>3
  <2> QED BY <2>1, <2>2, <2>3, <2>4 DEF ReaderShape, Finishing
<1>2. CASE UpstreamEnds \/ ReadFails
  <2>1. UNCHANGED <<rpc, hold, pending, spanOpen, format, sent>>
    BY <1>2 DEF UpstreamEnds, ReadFails, readerVars, upVars
  <2>2. read = Reading /\ read'.chunk = 0
    BY <1>2 DEF UpstreamEnds, ReadFails
  <2>3. /\ read'.err = "eof" => upEnd' = "eof"
        /\ upEnd = "eof" => upEnd' = "eof"
    BY <1>2 DEF UpstreamEnds, ReadFails, upVars
  <2>4. Taken' = Taken
    BY <2>1, <2>2 DEF Taken, Reading
  <2>5. rpc # "send"
    BY <2>2 DEF ReaderShape, Reading
  <2>6. \A n : InSpan(n)' <=> InSpan(n)
    BY <2>1, StreamKept
  <2> QED BY <2>1, <2>3, <2>4, <2>5, <2>6 DEF ReaderShape, Finishing
<1>3. CASE TakeChunk
  BY <1>3, TakeChunkShape
<1>4. ASSUME UNCHANGED <<format, sent, upEnd>>,
             rpc' \notin {"select", "send", "eof?", "pend", "finish"},
             rpc' \in {"idle?", "ctx?", "closed?", "canceled", "reason",
                       "exit"},
             hold' = Keepalive, UNCHANGED read
      PROVE  ReaderShape'
  BY <1>4 DEF ReaderShape, Finishing
<1>5. ASSUME UNCHANGED <<format, sent, upEnd, read>>,
             rpc' = "finish", NEW reason, NEW stop, NEW empty,
             hold' = DoneFrame(reason, stop, empty),
             reason = Ok => pending' = <<>> /\ upEnd = "eof"
      PROVE  ReaderShape'
  BY <1>5, <1>b DEF ReaderShape, Finishing
<1>6. CASE \/ SeeCancel \/ JudgeIdle \/ JudgeContext \/ CtxCancel \/ SendDone
  BY <1>4, <1>6
     DEF SeeCancel, JudgeIdle, JudgeContext, CtxCancel, SendDone, OthersKeep,
         upVars, Goto, ReaderShape
<1>7. CASE JudgeEof
  <2>1. UNCHANGED <<format, sent, upEnd, read, spanOpen>>
    BY <1>7 DEF JudgeEof, OthersKeep, upVars
  <2>2. hold = Keepalive
    BY <1>7 DEF JudgeEof, ReaderShape
  <2>3. CASE ~(read.err = "eof" /\ ~bodyClosed)
    BY <1>4, <1>7, <2>1, <2>2, <2>3 DEF JudgeEof, Goto
  <2>4. CASE read.err = "eof" /\ ~bodyClosed
    <3>1. HandleCleanEnd /\ upEnd = "eof"
      BY <1>7, <2>4 DEF JudgeEof, ReaderShape
    <3>2. CASE spanOpen
      BY <1>5, <2>1, <3>1, <3>2 DEF HandleCleanEnd, Finish, Goto, Ok
    <3>3. CASE ~spanOpen /\ pending = <<>>
      BY <1>5, <2>1, <3>1, <3>3 DEF HandleCleanEnd, Complete, Finish, Goto
    <3>4. CASE ~spanOpen /\ pending # <<>>
      <4>1. rpc' = "pend" /\ hold'.kind = "data" /\ pending' = <<>>
        BY <3>1, <3>4 DEF HandleCleanEnd, Goto, DataFrame
      <4> QED BY <2>1, <3>1, <4>1 DEF ReaderShape, Finishing
    <3> QED BY <3>2, <3>3, <3>4
  <2> QED BY <2>3, <2>4
<1>8. CASE JudgeClosed
  BY <1>5, <1>8 DEF JudgeClosed, Finish, Goto, OthersKeep, upVars, Ok
<1>9. CASE CtxReason
  <2>1. PICK reason \in {"sse_idle_timeout", "client_disconnected"} :
          Finish(reason, FALSE)
    BY <1>9 DEF CtxReason
  <2> QED BY <1>5, <1>9, <2>1 DEF CtxReason, Finish, Goto, OthersKeep,
                                  upVars, Ok
<1>10. CASE SendChunk
  <2>1. rpc = "send" /\ pending = <<>> /\ Taken = Len(sent)
    BY <1>10 DEF SendChunk, ReaderShape, Taken
  <2>2. /\ UNCHANGED <<format, sent, upEnd, pending, spanOpen>>
        /\ hold' = Keepalive
        /\ \/ rpc' = "select" /\ read' = Reading
           \/ rpc' = "eof?" /\ UNCHANGED read
    BY <1>10 DEF SendChunk, Proceed, Goto, upVars
  <2>3. Taken' = Taken /\ (read'.err = "eof" => read.err = "eof")
    BY <2>1, <2>2 DEF Taken, Reading
  <2>4. \A n : InSpan(n)' <=> InSpan(n)
    BY <2>2, StreamKept
  <2> QED BY <2>1, <2>2, <2>3, <2>4 DEF ReaderShape, Finishing
<1>11. CASE SendPending
  <2>1. UNCHANGED <<format, sent, upEnd, read, pending>> /\ pending = <<>>
        /\ upEnd = "eof"
    BY <1>11 DEF SendPending, OthersKeep, upVars, ReaderShape
  <2>2. CASE Enqueue /\ Complete
    BY <1>5, <2>1, <2>2 DEF Complete, Finish, Goto
  <2>3. CASE Goto("exit") /\ hold' = Keepalive
    BY <1>4, <2>1, <2>3 DEF Goto
  <2> QED BY <1>11, <2>2, <2>3 DEF SendPending
<1>12. ASSUME UNCHANGED <<format, upVars, read, readerVars>>
       PROVE  ReaderShape'
  <2>1. Taken' = Taken /\ \A n : InSpan(n)' <=> InSpan(n)
    BY <1>12, StreamKept DEF Taken, upVars, readerVars
  <2> QED BY <1>12, <2>1 DEF ReaderShape, Finishing, upVars, readerVars
<1>13. CASE Output
  BY <1>12, <1>13 DEF Output, TakeFrame, WriteFrame, WriteFails,
     FailClosesBody, FailCancels, FailReports, WriteDone, OutputKeeps
<1>14. CASE \/ ClientLeaves \/ CancelReaches \/ PumpReturns \/ KeepaliveTick
            \/ KeepaliveStops
  BY <1>12, <1>14 DEF ClientLeaves, CancelReaches, PumpReturns,
     KeepaliveTick, KeepaliveStops
<1>15. CASE Watchdog
  BY <1>12, <1>15 DEF Watchdog, WatchdogTick, WatchdogStops, WatchdogTrips,
     WatchdogCloses, WatchdogCancels, WatchdogKeeps
<1>16. CASE UNCHANGED vars
  BY <1>12, <1>16 DEF vars
<1> QED
  BY <1>1, <1>2, <1>3, <1>6, <1>7, <1>8, <1>9, <1>10, <1>11, <1>13, <1>14,
     <1>15, <1>16 DEF Next, ReadReturns, Reader, ReaderSends

(* How the reader judges the end of the body.                              *)
LEMMA JudgeEofCases ==
  ASSUME ReaderShape, JudgeEof
  PROVE  /\ UNCHANGED <<format, upVars, read, spanOpen, frameCh>>
         /\ UNCHANGED <<opc, oframe, written, announced, result>>
         /\ hold = Keepalive
         /\ rpc \in {"eof?", "select"} /\ (rpc = "select" => read.chunk = 0)
         /\ \/ /\ rpc' = "idle?"
               /\ UNCHANGED <<hold, pending, classVars>>
            \/ /\ rpc' = "pend" /\ read.err = "eof" /\ Flush
               /\ ~spanOpen /\ pending # <<>> /\ pending' = <<>>
               /\ hold' = DataFrame(pending)
            \/ /\ rpc' = "finish" /\ read.err = "eof" /\ Flush
               /\ hold' = DoneFrame("upstream_ended_mid_frame", sawStop', FALSE)
            \/ /\ rpc' = "finish" /\ read.err = "eof" /\ Flush
               /\ pending = <<>> /\ pending' = <<>>
               /\ hold' = DoneFrame(Ok, sawStop', ~sawData')
<1>1. /\ UNCHANGED <<format, upVars, read, spanOpen, frameCh>>
      /\ UNCHANGED <<opc, oframe, written, announced, result>>
  BY DEF JudgeEof, OthersKeep, outVars
<1>2. rpc \in {"eof?", "select"} /\ (rpc = "select" => read.chunk = 0)
  BY DEF JudgeEof
<1>3. hold = Keepalive
  BY <1>2 DEF ReaderShape
<1>4. CASE ~(read.err = "eof" /\ ~bodyClosed)
  BY <1>1, <1>2, <1>3, <1>4 DEF JudgeEof, Goto
<1>5. CASE read.err = "eof" /\ ~bodyClosed
  <2>1. HandleCleanEnd
    BY <1>5 DEF JudgeEof
  <2>2. CASE spanOpen
    BY <1>1, <1>2, <1>3, <1>5, <2>1, <2>2 DEF HandleCleanEnd, Finish, Goto
  <2>3. CASE ~spanOpen /\ pending = <<>>
    BY <1>1, <1>2, <1>3, <1>5, <2>1, <2>3
       DEF HandleCleanEnd, Complete, Finish, Goto
  <2>4. CASE ~spanOpen /\ pending # <<>>
    BY <1>1, <1>2, <1>3, <1>5, <2>1, <2>4 DEF HandleCleanEnd, Goto
  <2> QED BY <2>2, <2>3, <2>4
<1> QED BY <1>4, <1>5

-----------------------------------------------------------------------------
(* OUTPUT: it holds a frame while it writes one, and has a result when it  *)
(* is done.                                                                *)
Alive == opc \in {"select", "write"}

OutputShape ==
  /\ opc \in {"select", "write", "close", "cancel", "report", "exit"}
  /\ opc \notin {"write", "exit"} => oframe = Keepalive
  /\ result # NoResult <=> opc = "exit"

LEMMA OutputShapeStep ==
  ASSUME TypeOK, OutputShape, [Next]_vars
  PROVE  OutputShape'
<1>1. ASSUME UNCHANGED <<opc, oframe, result>>
      PROVE  OutputShape'
  BY <1>1 DEF OutputShape
<1>2. CASE Output
  <2>1. CASE TakeFrame \/ WriteFrame \/ WriteFails \/ FailClosesBody
              \/ FailCancels
    BY <2>1 DEF TakeFrame, WriteFrame, WriteFails, FailClosesBody,
                FailCancels, OutputShape
  <2>2. CASE FailReports
    BY <2>2 DEF FailReports, OutputShape, NoResult
  <2>3. CASE WriteDone
    <3>1. oframe.result # NoResult
      <4>1. oframe \in Frames /\ oframe.kind = "done"
        BY <2>3 DEF WriteDone, TypeOK
      <4>2. oframe.result.error # "none"
        BY <4>1 DEF Frames, Ok
      <4> QED BY <4>2 DEF NoResult
    <3> QED BY <2>3, <3>1 DEF WriteDone, OutputShape
  <2> QED BY <1>2, <2>1, <2>2, <2>3 DEF Output
<1>3. CASE Reader
  BY <1>1, <1>3 DEF Reader, TakeChunk, SeeCancel, JudgeEof, JudgeIdle,
     JudgeContext, JudgeClosed, CtxCancel, CtxReason, OthersKeep, outVars
<1>4. CASE ReaderSends
  BY <1>1, <1>4 DEF ReaderSends, SendChunk, SendPending, SendDone, OthersKeep,
                    outVars
<1>5. CASE Watchdog \/ ReadReturns
  BY <1>1, <1>5 DEF Watchdog, WatchdogTick, WatchdogStops, WatchdogTrips,
     WatchdogCloses, WatchdogCancels, WatchdogKeeps, ReadReturns,
     UpstreamSends, UpstreamEnds, ReadFails, outVars
<1>6. CASE \/ ClientLeaves \/ CancelReaches \/ PumpReturns \/ KeepaliveTick
           \/ KeepaliveStops
  BY <1>1, <1>6 DEF ClientLeaves, CancelReaches, PumpReturns, KeepaliveTick,
                    KeepaliveStops, outVars
<1>7. CASE UNCHANGED vars
  BY <1>1, <1>7 DEF vars, outVars
<1> QED BY <1>2, <1>3, <1>4, <1>5, <1>6, <1>7 DEF Next

-----------------------------------------------------------------------------
(* The pipe: what the client has got, the frame OUTPUT writes, the queue,  *)
(* and the frame the reader sends.                                         *)
Queued(x) == \E k \in 1..Len(frameCh) : x \in Places(frameCh[k].chunks)

InPipe(x) == \/ x \in Places(written) \/ x \in Places(oframe.chunks)
             \/ Queued(x) \/ x \in Places(hold.chunks)

Ordered ==
  /\ Ascending(written) /\ Ascending(oframe.chunks) /\ Ascending(hold.chunks)
  /\ Before(written, oframe.chunks)
  /\ Before(written, hold.chunks)
  /\ Before(oframe.chunks, hold.chunks)
  /\ \A k \in 1..Len(frameCh) :
       /\ Ascending(frameCh[k].chunks)
       /\ Before(written, frameCh[k].chunks)
       /\ Before(oframe.chunks, frameCh[k].chunks)
       /\ Before(frameCh[k].chunks, hold.chunks)
       /\ \A l \in 1..Len(frameCh) :
            k < l => Before(frameCh[k].chunks, frameCh[l].chunks)

(* What is in the pipe is a beginning of what is to be forwarded; while    *)
(* the reader has lost nothing it is all of it that is settled.            *)
NoGap ==
  \A x \in 1..Len(sent) :
    InPipe(x) => /\ x \in Forwardable
                 /\ \A y \in Forwardable : y <= x => InPipe(y)

HasAllUpTo(n) ==
  \A x \in 1..Len(sent) : InPipe(x) <=> x \in Forwardable /\ x <= n

WrittenInOrder ==
  /\ Ascending(written)
  /\ \A x \in Places(written) :
       /\ x \in Forwardable
       /\ \A y \in Forwardable : y <= x => y \in Places(written)

Flow ==
  /\ WrittenInOrder
  /\ Alive => Ordered /\ NoGap /\ (Clean => HasAllUpTo(Settled))

LEMMA PlacesOfNone ==
  /\ Places(<<>>) = {} /\ Ascending(<<>>)
  /\ Keepalive.chunks = <<>>
  /\ \A c : DataFrame(c).chunks = c
  /\ \A reason, stop, empty : DoneFrame(reason, stop, empty).chunks = <<>>
BY DEF Places, Ascending, Keepalive, DataFrame, DoneFrame

LEMMA PlacesOfConcat ==
  ASSUME NEW S, NEW c \in Seq(S), NEW d \in Seq(S)
  PROVE  /\ Places(c) \subseteq S
         /\ Places(c \o d) = Places(c) \cup Places(d)
<1>1. /\ DOMAIN c = 1..Len(c) /\ Len(c) \in Nat /\ c \in [1..Len(c) -> S]
      /\ DOMAIN d = 1..Len(d) /\ Len(d) \in Nat /\ d \in [1..Len(d) -> S]
  BY LenProperties
<1>2. /\ c \o d \in Seq(S)
      /\ Len(c \o d) = Len(c) + Len(d)
      /\ \A i \in 1..Len(c) + Len(d) :
           (c \o d)[i] = IF i <= Len(c) THEN c[i] ELSE d[i - Len(c)]
  BY ConcatProperties
<1>3. DOMAIN (c \o d) = 1..(Len(c) + Len(d))
  BY <1>2, LenProperties
<1>4. ASSUME NEW x \in Places(c \o d) PROVE x \in Places(c) \cup Places(d)
  <2>1. PICK i \in 1..(Len(c) + Len(d)) : x = (c \o d)[i]
    BY <1>3, <1>4 DEF Places
  <2>2. CASE i <= Len(c)
    BY <1>1, <1>2, <2>1, <2>2 DEF Places
  <2>3. CASE ~(i <= Len(c))
    <3>1. i - Len(c) \in 1..Len(d)
      BY <1>1, <2>1, <2>3
    <3> QED BY <1>1, <1>2, <2>1, <2>3, <3>1 DEF Places
  <2> QED BY <2>2, <2>3
<1>5. ASSUME NEW x \in Places(c) PROVE x \in Places(c \o d)
  <2>1. PICK i \in 1..Len(c) : x = c[i]
    BY <1>1, <1>5 DEF Places
  <2>2. i \in 1..(Len(c) + Len(d)) /\ (c \o d)[i] = x
    BY <1>1, <1>2, <2>1
  <2> QED BY <1>3, <2>2 DEF Places
<1>6. ASSUME NEW x \in Places(d) PROVE x \in Places(c \o d)
  <2>1. PICK i \in 1..Len(d) : x = d[i]
    BY <1>1, <1>6 DEF Places
  <2>2. /\ Len(c) + i \in 1..(Len(c) + Len(d))
        /\ ~(Len(c) + i <= Len(c)) /\ Len(c) + i - Len(c) = i
    BY <1>1, <2>1
  <2>3. (c \o d)[Len(c) + i] = x
    BY <1>2, <2>1, <2>2
  <2> QED BY <1>3, <2>2, <2>3 DEF Places
<1>7. Places(c) \subseteq S
  BY <1>1 DEF Places
<1> QED BY <1>4, <1>5, <1>6, <1>7

LEMMA AscendingConcat ==
  ASSUME NEW n \in Nat, NEW c \in Seq(1..n), NEW d \in Seq(1..n),
         Ascending(c), Ascending(d), Before(c, d)
  PROVE  Ascending(c \o d)
<1>1. /\ DOMAIN c = 1..Len(c) /\ Len(c) \in Nat
      /\ DOMAIN d = 1..Len(d) /\ Len(d) \in Nat
  BY LenProperties
<1>2. /\ c \o d \in Seq(1..n)
      /\ Len(c \o d) = Len(c) + Len(d)
      /\ \A i \in 1..Len(c) + Len(d) :
           (c \o d)[i] = IF i <= Len(c) THEN c[i] ELSE d[i - Len(c)]
  BY ConcatProperties
<1>3. DOMAIN (c \o d) = 1..(Len(c) + Len(d))
  BY <1>2, LenProperties
<1>4. ASSUME NEW i \in 1..(Len(c) + Len(d)), NEW j \in 1..(Len(c) + Len(d)),
             i < j
      PROVE  (c \o d)[i] < (c \o d)[j]
  <2>1. CASE j <= Len(c)
    <3>1. i \in 1..Len(c) /\ j \in 1..Len(c) /\ i <= Len(c)
      BY <1>1, <1>4, <2>1
    <3>2. c[i] < c[j]
      BY <1>1, <1>4, <3>1 DEF Ascending
    <3>3. (c \o d)[i] = c[i] /\ (c \o d)[j] = c[j]
      BY <1>2, <2>1, <3>1
    <3> QED BY <3>2, <3>3
  <2>2. CASE i <= Len(c) /\ ~(j <= Len(c))
    <3>1. i \in 1..Len(c) /\ j - Len(c) \in 1..Len(d)
      BY <1>1, <1>4, <2>2
    <3>2. c[i] < d[j - Len(c)]
      BY <1>1, <3>1 DEF Before, Places
    <3> QED BY <1>2, <2>2, <3>2
  <2>3. CASE ~(i <= Len(c)) /\ ~(j <= Len(c))
    <3>1. /\ i - Len(c) \in 1..Len(d) /\ j - Len(c) \in 1..Len(d)
          /\ i - Len(c) < j - Len(c)
      BY <1>1, <1>4, <2>3
    <3> QED BY <1>1, <1>2, <2>3, <3>1 DEF Ascending
  <2> QED BY <1>1, <1>4, <2>1, <2>2, <2>3
<1> QED BY <1>3, <1>4 DEF Ascending

LEMMA PipeType ==
  ASSUME TypeOK
  PROVE  /\ Len(sent) \in Nat /\ Len(frameCh) \in Nat
         /\ written \in Seq(1..Len(sent)) /\ oframe.chunks \in Seq(1..Len(sent))
         /\ hold.chunks \in Seq(1..Len(sent))
         /\ \A k \in 1..Len(frameCh) :
              /\ frameCh[k] \in Frames
              /\ frameCh[k].chunks \in Seq(1..Len(sent))
         /\ \A x : InPipe(x) => x \in 1..Len(sent)
<1>1. /\ Len(sent) \in Nat /\ Len(frameCh) \in Nat
      /\ \A k \in 1..Len(frameCh) : frameCh[k] \in Frames
  BY LenProperties, ElementOfSeq DEF TypeOK
<1>2. /\ written \in Seq(1..Len(sent)) /\ oframe.chunks \in Seq(1..Len(sent))
      /\ hold.chunks \in Seq(1..Len(sent))
      /\ \A k \in 1..Len(frameCh) : frameCh[k].chunks \in Seq(1..Len(sent))
  BY <1>1, FrameChunks DEF TypeOK
<1>3. \A c \in Seq(1..Len(sent)) : Places(c) \subseteq 1..Len(sent)
  BY PlacesOfConcat
<1> QED BY <1>1, <1>2, <1>3 DEF InPipe, Queued

LEMMA WrittenComesFirst ==
  TypeOK /\ Ordered /\ NoGap => WrittenInOrder
<1> SUFFICES ASSUME TypeOK, Ordered, NoGap PROVE WrittenInOrder
  OBVIOUS
<1>1. /\ Ascending(written)
      /\ \A x : InPipe(x) => x \in 1..Len(sent)
      /\ Len(sent) \in Nat
  BY PipeType DEF Ordered
<1>2. ASSUME NEW x \in Places(written)
      PROVE  /\ x \in Forwardable
             /\ \A y \in Forwardable : y <= x => y \in Places(written)
  <2>1. InPipe(x) /\ x \in 1..Len(sent)
    BY <1>1, <1>2 DEF InPipe
  <2>2. x \in Forwardable /\ \A y \in Forwardable : y <= x => InPipe(y)
    BY <2>1 DEF NoGap
  <2>3. ASSUME NEW y \in Forwardable, y <= x PROVE y \in Places(written)
    <3>1. InPipe(y) /\ y \in 1..Len(sent) /\ ~(x < y)
      BY <1>1, <2>1, <2>2, <2>3
    <3>2. y \notin Places(oframe.chunks) /\ y \notin Places(hold.chunks)
      BY <1>2, <3>1 DEF Ordered, Before
    <3>3. ~Queued(y)
      BY <1>2, <3>1 DEF Ordered, Before, Queued
    <3> QED BY <3>1, <3>2, <3>3 DEF InPipe
  <2> QED BY <2>2, <2>3
<1> QED BY <1>1, <1>2 DEF WrittenInOrder

(* A step that moves nothing, or after which OUTPUT writes no more.        *)
LEMMA FlowKept ==
  ASSUME Flow, UNCHANGED <<format, sent, written>>,
         Alive' => /\ Alive /\ UNCHANGED frameCh
                   /\ oframe'.chunks = oframe.chunks
                   /\ hold'.chunks = hold.chunks
                   /\ Clean' => Clean /\ Settled' = Settled
  PROVE  Flow'
<1>1. Forwardable' = Forwardable
  BY StreamKept
<1>2. WrittenInOrder'
  BY <1>1 DEF Flow, WrittenInOrder
<1>3. CASE Alive'
  <2>1. \A x : InPipe(x)' <=> InPipe(x)
    BY <1>3 DEF InPipe, Queued
  <2>2. Ordered'
    BY <1>3 DEF Flow, Ordered
  <2>3. NoGap' /\ (Clean' => HasAllUpTo(Settled)')
    BY <1>1, <1>3, <2>1 DEF Flow, NoGap, HasAllUpTo
  <2> QED BY <1>2, <2>2, <2>3 DEF Flow
<1> QED BY <1>2, <1>3 DEF Flow

(* A step that moves chunks from one part of the pipe to the next.         *)
LEMMA FlowMoves ==
  ASSUME Flow, Alive, TypeOK', UNCHANGED <<format, sent>>,
         Ordered', \A x : InPipe(x)' <=> InPipe(x),
         Clean' => Clean /\ Settled' = Settled
  PROVE  Flow'
<1>1. Forwardable' = Forwardable
  BY StreamKept
<1>2. NoGap' /\ (Clean' => HasAllUpTo(Settled)')
  BY <1>1 DEF Flow, NoGap, HasAllUpTo
<1>3. WrittenInOrder'
  BY <1>2, WrittenComesFirst, PTL
<1> QED BY <1>2, <1>3 DEF Flow

LEMMA UpstreamSendsFlow ==
  ASSUME TypeOK, BlameInv, ReaderShape, Flow, UpstreamSends
  PROVE  Flow'
<1> DEFINE n == Len(sent)
<1>1. /\ n \in Nat /\ Len(sent)' = n + 1
      /\ \A i \in 1..n : i \in Forwardable' <=> i \in Forwardable
      /\ Forwardable' \subseteq Forwardable \cup {n + 1}
      /\ Forwardable \subseteq 1..n
  BY StreamGrows, ForwardablePlaces
<1>2. UNCHANGED <<written, oframe, frameCh, hold, opc, rpc, pending>>
  BY DEF UpstreamSends, outVars, readerVars
<1>3. \A x : InPipe(x)' <=> InPipe(x)
  BY <1>2 DEF InPipe, Queued
<1>4. \A x : InPipe(x) => x \in 1..n
  BY PipeType
<1>5. \A x \in Places(written) : x \in 1..n
  BY <1>4 DEF InPipe
<1>6. WrittenInOrder'
  BY <1>1, <1>2, <1>5 DEF Flow, WrittenInOrder
<1>7. CASE Alive
  <2>1. Ordered'
    BY <1>2, <1>7 DEF Flow, Ordered
  <2>2. NoGap'
    <3>1. ASSUME NEW x \in 1..n, InPipe(x)
          PROVE  /\ x \in Forwardable'
                 /\ \A y \in Forwardable' : y <= x => InPipe(y)
      BY <1>1, <1>7, <3>1 DEF Flow, NoGap
    <3> QED BY <1>3, <1>4, <3>1 DEF NoGap
  <2>3. ASSUME Clean' PROVE HasAllUpTo(Settled)'
    <3>1. /\ rpc \notin {"send", "eof?", "pend"} /\ ~Finishing({Ok})
          /\ rpc = "select" => Taken = n /\ Taken' = Len(sent)' - 1
      BY SendsWhile
    <3>2. rpc = "select" /\ Taken' = Taken /\ Taken = n
      BY <1>1, <1>2, <2>3, <3>1 DEF Clean, Finishing
    <3>3. Clean /\ Settled' = Settled /\ Settled \in Int /\ Settled <= n
      BY <1>1, <1>2, <3>2 DEF Clean, Settled
    <3>4. HasAllUpTo(Settled)
      BY <1>7, <3>3 DEF Flow
    <3> QED BY <1>1, <1>3, <1>4, <3>3, <3>4 DEF HasAllUpTo
  <2> QED BY <1>6, <2>1, <2>2, <2>3 DEF Flow
<1> QED BY <1>2, <1>6, <1>7 DEF Flow, Alive

(* What the reader forwards of a chunk is what is settled by it.           *)
LEMMA TakeChunkPlaces ==
  ASSUME TypeOK, StreamShape, ReaderShape, BlameInv, TakeChunk
  PROVE  /\ Settled \in Nat /\ Settled' \in Nat /\ Settled <= Settled'
         /\ UNCHANGED <<format, sent, written, oframe, frameCh, opc>>
         /\ hold.chunks = <<>> /\ Clean
         /\ Ascending(hold'.chunks)
         /\ \A x : x \in Places(hold'.chunks) <=>
                     x \in Forwardable /\ Settled < x /\ x <= Settled'
<1> DEFINE n == Len(sent)
<1>1. /\ n \in Nat \ {0} /\ read.chunk = n
      /\ Taken = n - 1 /\ Taken' = n
      /\ spanOpen <=> format = "openai" /\ InSpan(n - 1)
      /\ pending # <<>> => /\ pending = <<n - 1>> /\ n - 1 > 0 /\ ~spanOpen
                           /\ sent[n - 1] = "head" /\ sent[n] = "tail"
  BY TakeChunkShape
<1>2. /\ UNCHANGED <<format, sent, written, oframe, frameCh, opc>>
      /\ rpc = "select"
  BY DEF TakeChunk, upVars, outVars
<1>3. hold = Keepalive /\ hold.chunks = <<>>
  BY <1>2, PlacesOfNone DEF ReaderShape
<1>4. Settled \in Nat
      /\ Settled = (IF pending = <<>> THEN n - 1 ELSE n - 2)
      /\ Settled' = (IF pending' = <<>> THEN n ELSE n - 1)
  BY <1>1 DEF Settled
<1>5. /\ format \in {"anthropic", "openai"}
      /\ pending # <<>> => format = "openai"
  BY PumpAssumption DEF TypeOK
<1>7. InSpan(n) <=> sent[n] = "think" \/ (InSpan(n - 1) /\ sent[n] # "unthink")
  BY <1>1, SpanStep
<1>8. /\ sent[n] \in OpenAIKinds => format = "openai"
      /\ sent[n] = "unthink" => InSpan(n - 1)
  BY <1>1 DEF StreamShape
<1>a. Forwardable \subseteq Nat
  BY ForwardablePlaces
<1>10. CASE Withheld(n)
  <2>1. format = "openai" /\ (spanOpen \/ sent[n] \in {"think", "head"})
        /\ pending = <<>>
    BY <1>1, <1>10 DEF Withheld
  <2>2. UNCHANGED hold
    BY <1>1, <1>10 DEF TakeChunk
  <2>3. CASE sent[n] = "head" /\ ~spanOpen
    <3>1. pending' = <<n>>
      BY <1>1, <1>10, <2>3 DEF TakeChunk, HoldBack
    <3>2. Settled = n - 1 /\ Settled' = n - 1
      BY <1>4, <2>1, <3>1
    <3>3. /\ Places(hold'.chunks) = {} /\ Ascending(hold'.chunks)
          /\ \A x \in Nat : ~(n - 1 < x /\ x <= n - 1)
      BY <1>1, <1>3, <2>2, PlacesOfNone
    <3>q. \A x : x \in Places(hold'.chunks) <=>
                  x \in Forwardable /\ Settled < x /\ x <= Settled'
      BY <1>1, <1>a, <3>2, <3>3
    <3> QED BY <1>1, <1>2, <1>3, <3>2, <3>3, <3>q DEF Clean
  <2>4. CASE ~(sent[n] = "head" /\ ~spanOpen)
    <3>1. pending' = <<>>
      BY <1>1, <1>10, <2>1, <2>4 DEF TakeChunk, HoldBack
    <3>2. Settled = n - 1 /\ Settled' = n
      BY <1>4, <2>1, <3>1
    <3>3. n \notin Forwardable
      BY <1>1, <1>7, <2>1, <2>4 DEF Forwardable, OpenAIKinds
    <3>4. \A x \in Nat : n - 1 < x /\ x <= n => x = n
      BY <1>1
    <3>5. Places(hold'.chunks) = {} /\ Ascending(hold'.chunks)
      BY <1>3, <2>2, PlacesOfNone
    <3>q. \A x : x \in Places(hold'.chunks) <=>
                  x \in Forwardable /\ Settled < x /\ x <= Settled'
      BY <1>a, <3>2, <3>3, <3>4, <3>5
    <3> QED BY <1>1, <1>2, <1>3, <3>2, <3>5, <3>q DEF Clean
  <2> QED BY <2>3, <2>4
<1>11. CASE ~Withheld(n)
  <2>1. /\ pending' = <<>> /\ Settled' = n
        /\ hold'.chunks = pending \o (IF sent[n] = "null" THEN <<>> ELSE <<n>>)
    BY <1>1, <1>4, <1>11 DEF TakeChunk, HoldBack, Forwarded, DataFrame
  <2>2. format = "openai" => ~spanOpen /\ sent[n] \notin {"think", "head"}
    BY <1>11 DEF Withheld
  <2>3. n \in Forwardable <=> sent[n] # "null"
    BY <1>1, <1>5, <1>7, <1>8, <2>2 DEF Forwardable, OpenAIKinds
  <2>4. CASE pending = <<>>
    <3>1. hold'.chunks = IF sent[n] = "null" THEN <<>> ELSE <<n>>
      BY <1>1, <2>1, <2>4
    <3>2. Settled = n - 1 /\ \A x \in Nat : (n - 1 < x /\ x <= n) <=> x = n
      BY <1>1, <1>4, <2>4
    <3>3. Places(<<n>>) = {n} /\ Ascending(<<n>>)
      BY DEF Places, Ascending
    <3>4. Clean /\ Settled \in Nat /\ Settled <= Settled'
      BY <1>1, <1>2, <2>1, <3>2 DEF Clean
    <3>5. CASE sent[n] = "null"
      <4>1. hold'.chunks = <<>> /\ n \notin Forwardable
        BY <2>3, <3>1, <3>5
      <4> QED BY <1>1, <1>2, <1>3, <1>a, <2>1, <3>2, <3>4, <4>1, PlacesOfNone
    <3>6. CASE sent[n] # "null"
      <4>1. hold'.chunks = <<n>> /\ n \in Forwardable
        BY <2>3, <3>1, <3>6
      <4> QED BY <1>1, <1>2, <1>3, <1>a, <2>1, <3>2, <3>3, <3>4, <4>1
    <3> QED BY <3>5, <3>6
  <2>5. CASE pending # <<>>
    <3>1. hold'.chunks = <<n - 1>> \o <<n>>
      BY <1>1, <2>1, <2>5
    <3>a. /\ <<n - 1>> \in Seq(1..n) /\ <<n>> \in Seq(1..n) /\ n \in Nat
          /\ Places(<<n - 1>>) = {n - 1} /\ Places(<<n>>) = {n}
          /\ Ascending(<<n - 1>>) /\ Ascending(<<n>>)
          /\ Before(<<n - 1>>, <<n>>)
      BY <1>1, <2>5 DEF Places, Ascending, Before
    <3>b. Clean /\ Settled \in Nat
      BY <1>1, <1>2, <1>4 DEF Clean
    <3>2. Settled = n - 2 /\ \A x \in Nat :
                               (n - 2 < x /\ x <= n) <=> x \in {n - 1, n}
      BY <1>1, <1>4, <2>5
    <3>3. /\ Places(hold'.chunks) = {n - 1, n}
          /\ Ascending(hold'.chunks)
      <4>1. PICK c \in Seq(1..n), d \in Seq(1..n) : c = <<n - 1>> /\ d = <<n>>
        BY <3>a
      <4>2. Places(c \o d) = Places(c) \cup Places(d)
        BY PlacesOfConcat
      <4>3. Ascending(c \o d)
        BY <3>a, <4>1, AscendingConcat
      <4> QED BY <3>1, <3>a, <4>1, <4>2, <4>3
    <3>4. n - 1 \in Forwardable /\ n \in Forwardable
      BY <1>1, <1>5, <2>3, <2>5 DEF Forwardable, OpenAIKinds
    <3>c. Settled <= Settled'
      BY <1>1, <2>1, <3>2
    <3> QED BY <1>1, <1>2, <1>3, <1>a, <2>1, <3>b, <3>c, <3>2, <3>3, <3>4
  <2> QED BY <2>4, <2>5
<1> QED BY <1>10, <1>11

(* A step by which the reader makes a frame of what is settled by it.      *)
LEMMA FlowSettles ==
  ASSUME TypeOK, Flow,
         Settled \in Nat, Settled' \in Nat, Settled <= Settled',
         UNCHANGED <<format, sent, written, oframe, frameCh, opc>>,
         hold.chunks = <<>>, Clean,
         Ascending(hold'.chunks),
         \A x : x \in Places(hold'.chunks) <=>
                x \in Forwardable /\ Settled < x /\ x <= Settled'
  PROVE  Flow'
<1>1. /\ Settled \in Nat /\ Settled' \in Nat /\ Settled <= Settled'
      /\ UNCHANGED <<format, sent, written, oframe, frameCh, opc>>
      /\ hold.chunks = <<>> /\ Clean
      /\ Ascending(hold'.chunks)
      /\ \A x : x \in Places(hold'.chunks) <=>
                  x \in Forwardable /\ Settled < x /\ x <= Settled'
  OBVIOUS
<1>2. Forwardable' = Forwardable /\ Len(sent) \in Nat
  BY <1>1, StreamKept, PipeType
<1>3. WrittenInOrder'
  BY <1>1, <1>2 DEF Flow, WrittenInOrder
<1>4. CASE Alive
  <2>1. Ordered /\ HasAllUpTo(Settled)
    BY <1>1, <1>4 DEF Flow
  <2>2. \A x : InPipe(x) => x \in 1..Len(sent)
    BY PipeType
  <2>3. \A x : InPipe(x) => x <= Settled
    BY <2>1, <2>2 DEF HasAllUpTo
  <2>5. Places(hold.chunks) = {}
    BY <1>1, PlacesOfNone
  <2>6. \A x : InPipe(x)' <=> InPipe(x) \/ x \in Places(hold'.chunks)
    BY <1>1, <2>5 DEF InPipe, Queued
  <2>7. \A x : x \in Places(hold'.chunks) => x \in Nat
    BY <1>1, ForwardablePlaces
  <2>8. ASSUME NEW c, \A x \in Places(c) : InPipe(x)
        PROVE  Before(c, hold'.chunks)
    BY <1>1, <2>2, <2>3, <2>7, <2>8 DEF Before
  <2>9. Ordered'
    <3>1. /\ Before(written, hold'.chunks)
          /\ Before(oframe.chunks, hold'.chunks)
          /\ \A k \in 1..Len(frameCh) : Before(frameCh[k].chunks, hold'.chunks)
      BY <2>8 DEF InPipe, Queued
    <3> QED BY <1>1, <2>1, <3>1 DEF Ordered
  <2>10. HasAllUpTo(Settled)'
    <3>1. ASSUME NEW x \in 1..Len(sent)
          PROVE  InPipe(x)' <=> x \in Forwardable /\ x <= Settled'
      BY <1>1, <1>2, <2>1, <2>6, <3>1 DEF HasAllUpTo
    <3> QED BY <1>1, <1>2, <3>1 DEF HasAllUpTo
  <2>11. NoGap'
    <3>1. Forwardable \subseteq 1..Len(sent)
      BY ForwardablePlaces
    <3>2. ASSUME NEW x \in 1..Len(sent), InPipe(x)', NEW y \in Forwardable,
                 y <= x
          PROVE  InPipe(y)'
      BY <1>1, <1>2, <2>10, <3>1, <3>2 DEF HasAllUpTo
    <3> QED BY <1>1, <1>2, <2>10, <3>2 DEF NoGap, HasAllUpTo
  <2> QED BY <1>3, <2>9, <2>10, <2>11 DEF Flow
<1> QED BY <1>1, <1>3, <1>4 DEF Flow, Alive

LEMMA TakeChunkFlow ==
  ASSUME TypeOK, StreamShape, ReaderShape, BlameInv, Flow, TakeChunk
  PROVE  Flow'
BY TakeChunkPlaces, FlowSettles

(* The first half of an event that the stream ended with is sent after all.*)
LEMMA PendFlow ==
  ASSUME TypeOK, ReaderShape, Flow, JudgeEof, rpc' = "pend"
  PROVE  Flow'
<1> DEFINE n == Len(sent)
<1>1. /\ UNCHANGED <<format, sent, read, written, oframe, frameCh, opc>>
      /\ hold' = DataFrame(pending) /\ pending' = <<>>
      /\ pending # <<>> /\ ~spanOpen
      /\ rpc \in {"select", "eof?"} /\ (rpc = "select" => read.chunk = 0)
  BY DEF JudgeEof, HandleCleanEnd, Complete, Finish, Goto, OthersKeep, upVars,
         outVars
<1>2. Taken = n /\ Taken' = n /\ n \in Nat
  BY <1>1, PipeType DEF Taken
<1>3. /\ pending = <<n>> /\ n > 0 /\ sent[n] = "head"
      /\ ~(format = "openai" /\ InSpan(n))
      /\ hold = Keepalive
  BY <1>1, <1>2 DEF ReaderShape
<1>4. Settled = n - 1 /\ Settled' = n
  BY <1>1, <1>2 DEF Settled
<1>5. format \in {"anthropic", "openai"}
  BY PumpAssumption DEF TypeOK
<1>6. n \in Forwardable /\ Forwardable \subseteq Nat
  BY <1>2, <1>3, <1>5, ForwardablePlaces DEF Forwardable, OpenAIKinds
<1>7. Places(hold'.chunks) = {n} /\ Ascending(hold'.chunks)
  BY <1>1, <1>3, PlacesOfNone DEF Places, Ascending
<1>8. \A x \in Nat : n - 1 < x /\ x <= n <=> x = n
  BY <1>2
<1>9. \A x : x \in Places(hold'.chunks) <=>
             x \in Forwardable /\ Settled < x /\ x <= Settled'
  BY <1>4, <1>6, <1>7, <1>8
<1>10. Settled \in Nat /\ Settled' \in Nat /\ Settled <= Settled'
  BY <1>2, <1>3, <1>4
<1>11. hold.chunks = <<>> /\ Clean
  BY <1>1, <1>3, PlacesOfNone DEF Clean
<1> QED BY <1>1, <1>7, <1>9, <1>10, <1>11, FlowSettles

(* The reader gives up, and drops the frame that it has not sent.          *)
LEMMA DropFlow ==
  ASSUME TypeOK, TypeOK', Flow, UNCHANGED <<format, sent>>,
         UNCHANGED <<written, oframe, frameCh, opc>>,
         hold' = Keepalive, ~Clean'
  PROVE  Flow'
<1>1. Forwardable' = Forwardable
  BY StreamKept
<1>2. WrittenInOrder'
  BY <1>1 DEF Flow, WrittenInOrder
<1>3. CASE Alive
  <2>1. Places(hold'.chunks) = {} /\ Ascending(hold'.chunks)
    BY PlacesOfNone
  <2>2. Ordered'
    BY <1>3, <2>1 DEF Flow, Ordered, Before
  <2>3. \A x : InPipe(x)' <=> \/ x \in Places(written)
                              \/ x \in Places(oframe.chunks) \/ Queued(x)
    BY <2>1 DEF InPipe, Queued
  <2>4. Forwardable \subseteq Nat /\ Len(sent) \in Nat
    BY ForwardablePlaces, PipeType
  <2>5. ASSUME NEW x \in 1..Len(sent), InPipe(x)'
        PROVE  /\ x \in Forwardable
               /\ \A y \in Forwardable : y <= x => InPipe(y)'
    <3>1. InPipe(x)
      BY <2>3, <2>5 DEF InPipe
    <3>2. x \in Forwardable /\ \A y \in Forwardable : y <= x => InPipe(y)
      BY <1>3, <2>5, <3>1 DEF Flow, NoGap
    <3>3. ASSUME NEW y \in Forwardable, y <= x
          PROVE  y \notin Places(hold.chunks)
      <4>1. ~(x < y)
        BY <2>4, <3>3
      <4>2. x \in Places(written) => y \notin Places(hold.chunks)
        BY <1>3, <4>1 DEF Flow, Ordered, Before
      <4>3. x \in Places(oframe.chunks) => y \notin Places(hold.chunks)
        BY <1>3, <4>1 DEF Flow, Ordered, Before
      <4>4. Queued(x) => y \notin Places(hold.chunks)
        BY <1>3, <4>1 DEF Flow, Ordered, Before, Queued
      <4> QED BY <2>3, <2>5, <4>2, <4>3, <4>4
    <3> QED BY <2>3, <3>2, <3>3 DEF InPipe
  <2> QED BY <1>1, <1>2, <2>2, <2>5 DEF Flow, NoGap
<1> QED BY <1>2, <1>3 DEF Flow, Alive

(* Where the chunks are as a frame goes through the pipe.                  *)
LEMMA EnqueuePipe ==
  ASSUME TypeOK, Enqueue
  PROVE  /\ Len(frameCh) \in Nat /\ Len(frameCh') = Len(frameCh) + 1
         /\ 1..(Len(frameCh) + 1) = 1..Len(frameCh) \cup {Len(frameCh) + 1}
         /\ \A k \in 1..Len(frameCh) : frameCh'[k] = frameCh[k]
         /\ frameCh'[Len(frameCh) + 1] = hold
         /\ \A x : Queued(x)' <=> Queued(x) \/ x \in Places(hold.chunks)
<1>1. /\ Len(frameCh) \in Nat /\ Len(frameCh') = Len(frameCh) + 1
      /\ \A k \in 1..Len(frameCh) : frameCh'[k] = frameCh[k]
      /\ frameCh'[Len(frameCh) + 1] = hold
  BY PipeType, AppendProperties DEF Enqueue, TypeOK
<1>2. 1..(Len(frameCh) + 1) = 1..Len(frameCh) \cup {Len(frameCh) + 1}
  BY <1>1
<1> QED BY <1>1, <1>2 DEF Queued

LEMMA TickPipe ==
  ASSUME TypeOK, KeepaliveTick
  PROVE  /\ Len(frameCh) \in Nat /\ Len(frameCh') = Len(frameCh) + 1
         /\ 1..(Len(frameCh) + 1) = 1..Len(frameCh) \cup {Len(frameCh) + 1}
         /\ \A k \in 1..Len(frameCh) : frameCh'[k] = frameCh[k]
         /\ frameCh'[Len(frameCh) + 1] = Keepalive
         /\ \A x : InPipe(x)' <=> InPipe(x)
<1>1. /\ Len(frameCh) \in Nat /\ Len(frameCh') = Len(frameCh) + 1
      /\ \A k \in 1..Len(frameCh) : frameCh'[k] = frameCh[k]
      /\ frameCh'[Len(frameCh) + 1] = Keepalive
  BY PipeType, AppendProperties, KeepaliveIsFrame DEF KeepaliveTick, TypeOK
<1>2. 1..(Len(frameCh) + 1) = 1..Len(frameCh) \cup {Len(frameCh) + 1}
  BY <1>1
<1>3. frameCh'[Len(frameCh) + 1].chunks = <<>> /\ Places(<<>>) = {}
  BY <1>1, PlacesOfNone
<1>4. \A x : Queued(x)' <=> Queued(x)
  BY <1>1, <1>2, <1>3 DEF Queued
<1>5. UNCHANGED <<written, oframe, hold>>
  BY DEF KeepaliveTick, outVars, readerVars
<1> QED BY <1>1, <1>2, <1>4, <1>5 DEF InPipe

LEMMA TakeFramePipe ==
  ASSUME TypeOK, OutputShape, TakeFrame
  PROVE  /\ Len(frameCh) \in Nat \ {0} /\ Len(frameCh') = Len(frameCh) - 1
         /\ \A k \in 1..(Len(frameCh) - 1) : frameCh'[k] = frameCh[k + 1]
         /\ oframe' = frameCh[1]
         /\ \A x : InPipe(x)' <=> InPipe(x)
<1> DEFINE m == Len(frameCh)
<1>1. /\ UNCHANGED <<written, hold>>
      /\ frameCh # <<>> /\ oframe' = Head(frameCh) /\ frameCh' = Tail(frameCh)
      /\ opc = "select"
  BY DEF TakeFrame, OutputKeeps, readerVars
<1>3. oframe = Keepalive /\ oframe.chunks = <<>>
  BY <1>1, PlacesOfNone DEF OutputShape
<1>4. /\ m \in Nat \ {0} /\ Len(frameCh') = m - 1
      /\ \A k \in 1..(m - 1) : frameCh'[k] = frameCh[k + 1]
      /\ oframe' = frameCh[1]
  BY <1>1, PipeType, HeadTailProperties, EmptySeq DEF TypeOK
<1>5. /\ 1 \in 1..m
      /\ \A k \in 1..(m - 1) : k + 1 \in 1..m /\ 1 < k + 1
      /\ \A k \in 1..m : k = 1 \/ (k - 1 \in 1..(m - 1) /\ (k - 1) + 1 = k)
  BY <1>4
<1>6. \A x : Queued(x) <=> x \in Places(oframe'.chunks) \/ Queued(x)'
  <2>1. ASSUME NEW x, Queued(x)
        PROVE  x \in Places(oframe'.chunks) \/ Queued(x)'
    <3>1. PICK k \in 1..m : x \in Places(frameCh[k].chunks)
      BY <2>1 DEF Queued
    <3>2. CASE k = 1
      BY <1>4, <3>1, <3>2
    <3>3. CASE k # 1
      <4>1. k - 1 \in 1..(m - 1) /\ frameCh'[k - 1] = frameCh[k]
        BY <1>4, <1>5, <3>3
      <4> QED BY <1>4, <3>1, <4>1 DEF Queued
    <3> QED BY <3>2, <3>3
  <2>2. ASSUME NEW x, x \in Places(oframe'.chunks) \/ Queued(x)'
        PROVE  Queued(x)
    BY <1>4, <1>5, <2>2 DEF Queued
  <2> QED BY <2>1, <2>2
<1>7. \A x : InPipe(x)' <=> InPipe(x)
  BY <1>1, <1>3, <1>6, PlacesOfNone DEF InPipe
<1> QED BY <1>4, <1>7

LEMMA WriteFramePipe ==
  ASSUME TypeOK, WriteFrame
  PROVE  /\ Places(written') = Places(written) \cup Places(oframe.chunks)
         /\ Places(oframe'.chunks) = {}
         /\ \A x : InPipe(x)' <=> InPipe(x)
<1>1. /\ UNCHANGED <<frameCh, hold>>
      /\ written' = written \o oframe.chunks /\ oframe' = Keepalive
  BY DEF WriteFrame, OutputKeeps, readerVars
<1>2. /\ written \in Seq(1..Len(sent)) /\ oframe.chunks \in Seq(1..Len(sent))
  BY PipeType
<1>3. Places(written') = Places(written) \cup Places(oframe.chunks)
  BY <1>1, <1>2, PlacesOfConcat
<1>4. Places(oframe'.chunks) = {}
  BY <1>1, PlacesOfNone
<1> QED BY <1>1, <1>3, <1>4 DEF InPipe, Queued

(* The reader's frame goes to the end of the queue.                        *)
LEMMA EnqueueFlow ==
  ASSUME TypeOK, TypeOK', Flow, Enqueue, hold'.chunks = <<>>,
         UNCHANGED <<format, sent>>, UNCHANGED <<written, oframe, opc>>,
         Clean' => Clean /\ Settled' = Settled
  PROVE  Flow'
<1>1. CASE ~Alive
  BY <1>1, FlowKept DEF Alive
<1>2. CASE Alive
  <2> DEFINE m == Len(frameCh)
  <2>1. /\ m \in Nat /\ Len(frameCh') = m + 1
        /\ \A k \in 1..m : frameCh'[k] = frameCh[k]
        /\ frameCh'[m + 1] = hold
        /\ \A x : Queued(x)' <=> Queued(x) \/ x \in Places(hold.chunks)
    BY EnqueuePipe
  <2>2. 1..(m + 1) = 1..m \cup {m + 1}
    BY <2>1
  <2>3. Places(hold'.chunks) = {} /\ Ascending(hold'.chunks)
    BY PlacesOfNone
  <2>5. \A x : InPipe(x)' <=> InPipe(x)
    BY <2>1, <2>3 DEF InPipe
  <2>6. Ordered
    BY <1>2 DEF Flow
  <2>7. ASSUME NEW k \in 1..(m + 1)
        PROVE  /\ Ascending(frameCh'[k].chunks)
               /\ Before(written, frameCh'[k].chunks)
               /\ Before(oframe.chunks, frameCh'[k].chunks)
               /\ \A l \in 1..(m + 1) :
                    k < l => Before(frameCh'[k].chunks, frameCh'[l].chunks)
    <3>1. CASE k \in 1..m
      <4>1. \A l \in 1..m :
               k < l => Before(frameCh'[k].chunks, frameCh'[l].chunks)
        BY <2>1, <2>6, <3>1 DEF Ordered
      <4>2. Before(frameCh'[k].chunks, frameCh'[m + 1].chunks)
        BY <2>1, <2>6, <3>1 DEF Ordered
      <4> QED BY <2>1, <2>2, <2>6, <3>1, <4>1, <4>2 DEF Ordered
    <3>2. CASE k = m + 1
      <4>1. \A l \in 1..(m + 1) : ~(k < l)
        BY <2>1, <3>2
      <4> QED BY <2>1, <2>6, <3>2, <4>1 DEF Ordered
    <3> QED BY <2>2, <3>1, <3>2
  <2>8. \A c : Before(c, hold'.chunks)
    BY <2>3 DEF Before
  <2>9. Ordered'
    BY <2>1, <2>3, <2>6, <2>7, <2>8 DEF Ordered
  <2> QED BY <1>2, <2>5, <2>9, FlowMoves
<1> QED BY <1>1, <1>2

LEMMA ReaderKept ==
  ASSUME UNCHANGED <<sent, read, readerVars>>
  PROVE  (Clean' <=> Clean) /\ Settled' = Settled /\ Taken' = Taken
BY DEF Clean, Finishing, Settled, Taken, readerVars

(* A keepalive joins the queue.                                            *)
LEMMA TickFlow ==
  ASSUME TypeOK, TypeOK', Flow, KeepaliveTick
  PROVE  Flow'
<1> DEFINE m == Len(frameCh)
<1>a. /\ UNCHANGED <<format, sent, read, readerVars>>
      /\ UNCHANGED <<opc, oframe, written, hold>>
  BY DEF KeepaliveTick, upVars, readerVars, outVars
<1>b. (Clean' <=> Clean) /\ Settled' = Settled
  BY <1>a, ReaderKept
<1>1. CASE ~Alive
  BY <1>a, <1>1, FlowKept DEF Alive
<1>2. CASE Alive
  <2>1. /\ m \in Nat /\ Len(frameCh') = m + 1
        /\ \A k \in 1..m : frameCh'[k] = frameCh[k]
        /\ frameCh'[m + 1] = Keepalive
        /\ \A x : InPipe(x)' <=> InPipe(x)
    BY TickPipe
  <2>2. 1..(m + 1) = 1..m \cup {m + 1}
    BY <2>1
  <2>3. /\ frameCh'[m + 1].chunks = <<>>
        /\ Places(<<>>) = {} /\ Ascending(<<>>)
    BY <2>1, PlacesOfNone
  <2>5. Ordered
    BY <1>2 DEF Flow
  <2>6. \A c : /\ Before(c, frameCh'[m + 1].chunks)
               /\ Before(frameCh'[m + 1].chunks, c)
    BY <2>3 DEF Before
  <2>7. \A k \in 1..m : \A l \in 1..m :
          k < l => Before(frameCh'[k].chunks, frameCh'[l].chunks)
    BY <2>1, <2>5 DEF Ordered
  <2>8. Ordered'
    BY <1>a, <2>1, <2>2, <2>3, <2>5, <2>6, <2>7 DEF Ordered
  <2> QED BY <1>2, <1>a, <1>b, <2>1, <2>8, FlowMoves
<1> QED BY <1>1, <1>2

(* OUTPUT takes the first frame of the queue.                              *)
LEMMA TakeFrameFlow ==
  ASSUME TypeOK, TypeOK', OutputShape, Flow, TakeFrame
  PROVE  Flow'
<1> DEFINE m == Len(frameCh)
<1>1. /\ UNCHANGED <<format, sent, read, readerVars>>
      /\ UNCHANGED <<written, hold>>
      /\ opc = "select"
  BY DEF TakeFrame, OutputKeeps, upVars, readerVars
<1>2. (Clean' <=> Clean) /\ Settled' = Settled /\ Alive
  BY <1>1, ReaderKept DEF Alive
<1>4. /\ m \in Nat \ {0} /\ Len(frameCh') = m - 1
      /\ \A k \in 1..(m - 1) : frameCh'[k] = frameCh[k + 1]
      /\ oframe' = frameCh[1]
      /\ \A x : InPipe(x)' <=> InPipe(x)
  BY TakeFramePipe
<1>5. /\ 1 \in 1..m
      /\ \A k \in 1..(m - 1) : k + 1 \in 1..m /\ 1 < k + 1
      /\ \A k \in 1..m : k = 1 \/ (k - 1 \in 1..(m - 1) /\ (k - 1) + 1 = k)
  BY <1>4
<1>8. Ordered
  BY <1>2 DEF Flow
<1>9. Ordered'
  <2>1. /\ Ascending(oframe'.chunks) /\ Before(written, oframe'.chunks)
        /\ Before(oframe'.chunks, hold.chunks)
    BY <1>4, <1>5, <1>8 DEF Ordered
  <2>2. ASSUME NEW k \in 1..(m - 1)
        PROVE  /\ Ascending(frameCh'[k].chunks)
               /\ Before(written, frameCh'[k].chunks)
               /\ Before(oframe'.chunks, frameCh'[k].chunks)
               /\ Before(frameCh'[k].chunks, hold.chunks)
    BY <1>4, <1>5, <1>8, <2>2 DEF Ordered
  <2>3. ASSUME NEW k \in 1..(m - 1), NEW l \in 1..(m - 1), k < l
        PROVE  Before(frameCh'[k].chunks, frameCh'[l].chunks)
    <3>1. k + 1 < l + 1 /\ k + 1 \in 1..m /\ l + 1 \in 1..m
      BY <1>4, <2>3
    <3> QED BY <1>4, <1>8, <3>1 DEF Ordered
  <2>4. /\ Ascending(written) /\ Ascending(hold.chunks)
        /\ Before(written, hold.chunks)
    BY <1>8 DEF Ordered
  <2> QED BY <1>1, <1>4, <2>1, <2>2, <2>3, <2>4 DEF Ordered
<1> QED BY <1>1, <1>2, <1>4, <1>9, FlowMoves

(* The client gets a frame.                                                *)
LEMMA WriteFrameFlow ==
  ASSUME TypeOK, TypeOK', Flow, WriteFrame
  PROVE  Flow'
<1>1. /\ UNCHANGED <<format, sent, read, readerVars>>
      /\ UNCHANGED <<frameCh, hold>>
      /\ written' = written \o oframe.chunks /\ oframe' = Keepalive
      /\ opc = "write"
  BY DEF WriteFrame, OutputKeeps, upVars, readerVars
<1>2. (Clean' <=> Clean) /\ Settled' = Settled /\ Alive
  BY <1>1, ReaderKept DEF Alive
<1>3. /\ Len(sent) \in Nat
      /\ written \in Seq(1..Len(sent)) /\ oframe.chunks \in Seq(1..Len(sent))
  BY PipeType
<1>4. Ordered
  BY <1>2 DEF Flow
<1>5. /\ Places(written') = Places(written) \cup Places(oframe.chunks)
      /\ \A x : InPipe(x)' <=> InPipe(x)
  BY WriteFramePipe
<1>6. Ascending(written')
  BY <1>1, <1>3, <1>4, AscendingConcat DEF Ordered
<1>7. Places(oframe'.chunks) = {} /\ Ascending(oframe'.chunks)
  BY <1>1, PlacesOfNone
<1>9. \A c : Before(written, c) /\ Before(oframe.chunks, c)
             => Before(written', c)
  BY <1>5 DEF Before
<1>10. \A c : Before(c, oframe'.chunks) /\ Before(oframe'.chunks, c)
  BY <1>7 DEF Before
<1>11. Ordered'
  BY <1>1, <1>4, <1>6, <1>7, <1>9, <1>10 DEF Ordered
<1> QED BY <1>1, <1>2, <1>5, <1>11, FlowMoves

LEMMA FlowStep ==
  ASSUME TypeOK, BlameInv, StreamShape, ReaderShape, OutputShape, Flow,
         [Next]_vars
  PROVE  Flow'
<1>a. TypeOK'
  BY TypeStep
<1>1. CASE UpstreamSends
  BY <1>1, UpstreamSendsFlow
<1>2. CASE TakeChunk
  BY <1>2, TakeChunkFlow
<1>3. CASE JudgeEof
  <2>1. /\ UNCHANGED <<format, sent, read, written, oframe, frameCh, opc>>
        /\ hold = Keepalive /\ rpc \in {"eof?", "select"}
        /\ rpc = "select" => read.chunk = 0
    BY <1>3, JudgeEofCases DEF upVars
  <2>2. CASE rpc' = "pend"
    BY <1>3, <2>2, PendFlow
  <2>3. CASE rpc' = "idle?"
    <3>1. ~Clean' /\ hold' = Keepalive
      BY <1>3, <2>1, <2>3, JudgeEofCases DEF Clean, Finishing
    <3> QED BY <1>a, <2>1, <3>1, DropFlow
  <2>4. CASE rpc' = "finish"
    <3>0. PICK reason, empty :
            /\ hold' = DoneFrame(reason, sawStop', empty)
            /\ reason = Ok => pending = <<>> /\ pending' = <<>>
      <4>1. "upstream_ended_mid_frame" # Ok
        BY DEF Ok
      <4> QED BY <1>3, <2>4, <4>1, JudgeEofCases
    <3>1. hold'.chunks = hold.chunks
      BY <2>1, <3>0, PlacesOfNone
    <3>2. Clean' => pending = <<>> /\ pending' = <<>>
      BY <2>4, <3>0 DEF Clean, Finishing, DoneFrame
    <3>3. Clean' => Clean /\ Settled' = Settled
      BY <2>1, <2>4, <3>2 DEF Clean, Settled, Taken
    <3> QED BY <2>1, <3>1, <3>3, FlowKept DEF Alive
  <2> QED BY <1>3, <2>2, <2>3, <2>4, JudgeEofCases
<1>4. CASE \/ SeeCancel \/ JudgeIdle \/ JudgeContext \/ CtxCancel
  <2>1. /\ UNCHANGED <<format, sent, written, oframe, frameCh, opc>>
        /\ hold' = Keepalive
        /\ rpc' \in {"canceled", "ctx?", "closed?", "reason"}
    BY <1>4 DEF SeeCancel, JudgeIdle, JudgeContext, CtxCancel, Goto,
                OthersKeep, upVars, outVars, ReaderShape
  <2> QED BY <1>a, <2>1, DropFlow DEF Clean, Finishing
<1>5. CASE JudgeClosed \/ CtxReason
  <2>1. /\ UNCHANGED <<format, sent, written, oframe, frameCh, opc>>
        /\ hold.chunks = <<>> /\ rpc' = "finish"
    BY <1>5, PlacesOfNone DEF JudgeClosed, CtxReason, Finish, Goto,
       OthersKeep, upVars, outVars, ReaderShape
  <2>2. PICK reason \in Reasons \ {Ok} :
          hold' = DoneFrame(reason, sawStop', FALSE)
    BY <1>5 DEF JudgeClosed, CtxReason, Finish, Reasons, Ok
  <2>3. hold'.chunks = <<>> /\ ~Clean'
    BY <2>1, <2>2, PlacesOfNone DEF Clean, Finishing, DoneFrame
  <2> QED BY <2>1, <2>3, FlowKept DEF Alive
<1>6. CASE SendChunk
  <2>1. /\ UNCHANGED <<format, sent, written, oframe, opc, pending>>
        /\ rpc = "send" /\ Enqueue /\ hold' = Keepalive
        /\ \/ rpc' = "select" /\ read' = Reading
           \/ rpc' = "eof?"
    BY <1>6 DEF SendChunk, Proceed, Goto, upVars, outVars
  <2>2. Clean /\ Settled' = Settled
    BY <2>1 DEF Clean, Settled, Taken, Reading
  <2> QED BY <1>a, <2>1, <2>2, PlacesOfNone, EnqueueFlow
<1>7. CASE SendPending
  <2>1. /\ UNCHANGED <<format, sent, written, oframe, opc, pending>>
        /\ rpc = "pend"
    BY <1>7 DEF SendPending, OthersKeep, upVars, outVars
  <2>2. CASE Enqueue /\ Complete
    <3>1. hold'.chunks = <<>> /\ rpc' = "finish"
      BY <2>2, PlacesOfNone DEF Complete, Finish, Goto
    <3>2. Clean /\ Settled' = Settled
      BY <2>1, <3>1 DEF Clean, Settled, Taken
    <3> QED BY <1>a, <2>1, <2>2, <3>1, <3>2, EnqueueFlow
  <2>3. CASE Goto("exit") /\ hold' = Keepalive /\ UNCHANGED frameCh
    <3>1. ~Clean'
      BY <2>3 DEF Goto, Clean, Finishing
    <3> QED BY <1>a, <2>1, <2>3, <3>1, DropFlow
  <2> QED BY <1>7, <2>2, <2>3 DEF SendPending
<1>8. CASE SendDone
  <2>1. /\ UNCHANGED <<format, sent, written, oframe, opc>>
        /\ hold' = Keepalive /\ rpc' = "exit"
    BY <1>8 DEF SendDone, Goto, OthersKeep, upVars, outVars
  <2>2. ~Clean'
    BY <2>1 DEF Clean, Finishing
  <2> QED BY <1>8, <1>a, <2>1, <2>2, PlacesOfNone, EnqueueFlow, DropFlow
          DEF SendDone
<1>9. CASE TakeFrame
  BY <1>9, <1>a, TakeFrameFlow
<1>10. CASE WriteFrame
  BY <1>10, <1>a, WriteFrameFlow
<1>11. CASE \/ WriteFails \/ FailClosesBody \/ FailCancels \/ FailReports
            \/ WriteDone
  <2>1. UNCHANGED <<format, sent, written>> /\ opc' \notin {"select", "write"}
    BY <1>11 DEF WriteFails, FailClosesBody, FailCancels, FailReports,
       WriteDone, OutputKeeps, upVars
  <2> QED BY <2>1, FlowKept DEF Alive
<1>12. CASE KeepaliveTick
  BY <1>12, <1>a, TickFlow
<1>13. ASSUME UNCHANGED <<format, sent, written, oframe, frameCh, hold, opc>>,
              Clean' => Clean /\ Settled' = Settled
       PROVE  Flow'
  BY <1>13, FlowKept DEF Alive
<1>14. CASE UpstreamEnds \/ ReadFails
  <2>1. /\ UNCHANGED <<format, sent, written, oframe, frameCh, hold, opc>>
        /\ UNCHANGED <<rpc, pending>>
        /\ read.chunk = 0 /\ read'.chunk = 0
    BY <1>14 DEF UpstreamEnds, ReadFails, outVars, readerVars, upVars, Reading
  <2>2. (Clean' => Clean) /\ Settled' = Settled
    BY <2>1 DEF Clean, Finishing, Settled, Taken
  <2> QED BY <1>13, <2>1, <2>2
<1>15. ASSUME UNCHANGED <<format, upVars, read, readerVars, outVars, frameCh>>
       PROVE  Flow'
  BY <1>13, <1>15, ReaderKept DEF upVars, readerVars, outVars
<1>16. CASE ClientLeaves \/ CancelReaches \/ PumpReturns \/ KeepaliveStops
  BY <1>15, <1>16 DEF ClientLeaves, CancelReaches, PumpReturns, KeepaliveStops,
                      outVars
<1>17. CASE Watchdog
  BY <1>15, <1>17 DEF Watchdog, WatchdogTick, WatchdogStops, WatchdogTrips,
     WatchdogCloses, WatchdogCancels, WatchdogKeeps
<1>18. CASE UNCHANGED vars
  BY <1>15, <1>18 DEF vars
<1> QED
  BY <1>1, <1>2, <1>3, <1>4, <1>5, <1>6, <1>7, <1>8, <1>9, <1>10, <1>11,
     <1>12, <1>14, <1>16, <1>17, <1>18
     DEF Next, ReadReturns, Reader, ReaderSends, Output

-----------------------------------------------------------------------------
(* The four parts together are inductive.                                  *)
PipeInv == StreamShape /\ ReaderShape /\ OutputShape /\ Flow

LEMMA PipeInit == Init => PipeInv
<1> SUFFICES ASSUME Init PROVE PipeInv
  OBVIOUS
<1>1. /\ Len(sent) = 0 /\ Len(frameCh) = 0 /\ 1..0 = {}
      /\ hold = Keepalive /\ oframe = Keepalive /\ written = <<>>
      /\ pending = <<>> /\ read = Reading /\ rpc = "select" /\ opc = "select"
      /\ result = NoResult /\ ~spanOpen
  BY EmptySeq DEF Init
<1>2. StreamShape /\ \A i : ~(i \in Forwardable)
  BY <1>1 DEF StreamShape, Forwardable
<1>3. ~InSpan(0) /\ Taken = 0 /\ Settled = 0
  BY <1>1 DEF InSpan, Taken, Settled, Reading
<1>4. ReaderShape
  BY <1>1, <1>3 DEF ReaderShape, Finishing, Reading
<1>5. OutputShape
  BY <1>1 DEF OutputShape
<1>6. /\ Places(written) = {} /\ Places(hold.chunks) = {}
      /\ Places(oframe.chunks) = {}
      /\ Ascending(written) /\ Ascending(hold.chunks)
      /\ Ascending(oframe.chunks)
  BY <1>1, PlacesOfNone
<1>7. Flow
  BY <1>1, <1>6 DEF Flow, WrittenInOrder, Ordered, Before, NoGap, HasAllUpTo
<1> QED BY <1>2, <1>4, <1>5, <1>7 DEF PipeInv

LEMMA PipeStep == TypeOK /\ BlameInv /\ PipeInv /\ [Next]_vars => PipeInv'
BY StreamShapeStep, ReaderShapeStep, OutputShapeStep, FlowStep DEF PipeInv

LEMMA PipeAlways == Spec => [](TypeOK /\ BlameInv /\ PipeInv)
<1>1. Init => BlameInv
  BY BlameInit
<1>2. TypeOK /\ BlameInv /\ [Next]_vars => BlameInv'
  BY ReadStep, CloseStep, BlameStep DEF BlameInv
<1>3. Init => PipeInv
  BY PipeInit
<1>4. TypeOK /\ BlameInv /\ PipeInv /\ [Next]_vars => PipeInv'
  BY PipeStep
<1> QED BY <1>1, <1>2, <1>3, <1>4, TypeCorrect, PTL DEF Spec

(* What the client has got is at all times a beginning of what it is to    *)
(* get, in the order of the stream: whatever is queued, dropped by a       *)
(* teardown or withheld, no chunk is repeated, overtaken or left out       *)
(* between two others (sse.go:207-237, 253-320, 396-414).                  *)
THEOREM NothingIsSkipped == Spec => []WrittenInOrder
BY PipeAlways, PTL DEF PipeInv, Flow

-----------------------------------------------------------------------------
(* What a step does to the pipe.                                           *)
InFlight(f) == f = oframe \/ \E k \in 1..Len(frameCh) : f = frameCh[k]

LEMMA PipeCases ==
  ASSUME [Next]_vars
  PROVE  \/ TakeFrame \/ WriteFrame \/ WriteFails \/ KeepaliveTick
         \/ ReaderSends /\ Enqueue /\ UNCHANGED <<written, oframe, opc>>
         \/ UNCHANGED <<written, oframe, frameCh>>
<1> USE DEF outVars
<1>1. CASE Output
  BY <1>1 DEF Output, FailClosesBody, FailCancels, FailReports, WriteDone
<1>2. CASE Watchdog
  BY <1>2 DEF Watchdog, WatchdogTick, WatchdogStops, WatchdogTrips,
              WatchdogCloses, WatchdogCancels, WatchdogKeeps
<1>3. CASE ReadReturns
  BY <1>3 DEF ReadReturns, UpstreamSends, UpstreamEnds, ReadFails
<1>4. CASE Reader
  BY <1>4 DEF Reader, TakeChunk, SeeCancel, JudgeEof, JudgeIdle,
              JudgeContext, JudgeClosed, CtxCancel, CtxReason, OthersKeep
<1>5. CASE ReaderSends
  <2>1. UNCHANGED <<written, oframe, opc>> /\ (Enqueue \/ UNCHANGED frameCh)
    BY <1>5 DEF ReaderSends, SendChunk, SendPending, SendDone, OthersKeep
  <2> QED BY <1>5, <2>1
<1>6. CASE ClientLeaves \/ CancelReaches \/ PumpReturns \/ KeepaliveStops
  BY <1>6 DEF ClientLeaves, CancelReaches, PumpReturns, KeepaliveStops
<1>7. CASE UNCHANGED vars
  BY <1>7 DEF vars
<1> QED BY <1>1, <1>2, <1>3, <1>4, <1>5, <1>6, <1>7 DEF Next

(* Each goroutine keeps its own state.                                     *)
LEMMA WhoMoves ==
  ASSUME [Next]_vars
  PROVE  /\ Reader \/ ReaderSends \/ UNCHANGED readerVars
         /\ Output \/ UNCHANGED outVars
         /\ UpstreamSends \/ upEnd' = upEnd \/ upEnd = "none"
<1>1. CASE Output
  BY <1>1 DEF Output, TakeFrame, WriteFrame, WriteFails, FailClosesBody,
              FailCancels, FailReports, WriteDone, OutputKeeps, upVars
<1>2. CASE Watchdog
  BY <1>2 DEF Watchdog, WatchdogTick, WatchdogStops, WatchdogTrips,
              WatchdogCloses, WatchdogCancels, WatchdogKeeps, upVars
<1>3. CASE ReadReturns
  BY <1>3 DEF ReadReturns, UpstreamSends, UpstreamEnds, ReadFails, upVars
<1>4. CASE Reader
  BY <1>4 DEF Reader, TakeChunk, SeeCancel, JudgeEof, JudgeIdle,
              JudgeContext, JudgeClosed, CtxCancel, CtxReason, OthersKeep,
              upVars
<1>5. CASE ReaderSends
  BY <1>5 DEF ReaderSends, SendChunk, SendPending, SendDone, OthersKeep, upVars
<1>6. CASE \/ ClientLeaves \/ CancelReaches \/ PumpReturns \/ KeepaliveTick
           \/ KeepaliveStops
  BY <1>6 DEF ClientLeaves, CancelReaches, PumpReturns, KeepaliveTick,
              KeepaliveStops, upVars
<1>7. CASE UNCHANGED vars
  BY <1>7 DEF vars, upVars
<1> QED BY <1>1, <1>2, <1>3, <1>4, <1>5, <1>6, <1>7 DEF Next

(* The reader and OUTPUT do not come back once they are done.              *)
LEMMA DoneStays ==
  ASSUME [Next]_vars
  PROVE  /\ rpc = "exit" => UNCHANGED readerVars /\ ~ReaderSends /\ ~Reader
         /\ opc = "exit" => UNCHANGED outVars /\ ~Output
         /\ OutputShape /\ Alive' => Alive
<1>1. rpc = "exit" => ~ReaderSends /\ ~Reader
  BY DEF Reader, ReaderSends, TakeChunk, SeeCancel, JudgeEof, JudgeIdle,
         JudgeContext, JudgeClosed, CtxCancel, CtxReason, SendChunk,
         SendPending, SendDone
<1>2. opc = "exit" => ~Output
  BY DEF Output, TakeFrame, WriteFrame, WriteFails, FailClosesBody,
         FailCancels, FailReports, WriteDone
<1>3. CASE Output
  BY <1>1, <1>2, <1>3, WhoMoves DEF Output, TakeFrame, WriteFrame, WriteFails,
     FailClosesBody, FailCancels, FailReports, WriteDone, Alive, OutputShape
<1>4. CASE ~Output
  BY <1>1, <1>2, <1>4, WhoMoves DEF outVars, Alive
<1> QED BY <1>3, <1>4

(* A frame in flight was there before, or is a keepalive, or the reader has*)
(* just sent it.                                                           *)
LEMMA FlightStep ==
  ASSUME TypeOK, [Next]_vars, NEW f, InFlight(f)'
  PROVE  InFlight(f) \/ f = Keepalive \/ (ReaderSends /\ Enqueue /\ f = hold)
<1>1. CASE TakeFrame
  <2> DEFINE m == Len(frameCh)
  <2>1. m \in Nat \ {0} /\ oframe' = frameCh[1] /\ Len(frameCh') = m - 1
        /\ \A k \in 1..(m - 1) : frameCh'[k] = frameCh[k + 1]
    <3>1. /\ frameCh # <<>> /\ oframe' = Head(frameCh)
          /\ frameCh' = Tail(frameCh)
      BY <1>1 DEF TakeFrame
    <3> QED BY <3>1, PipeType, HeadTailProperties, EmptySeq DEF TypeOK
  <2>2. 1 \in 1..m /\ \A k \in 1..(m - 1) : k + 1 \in 1..m
    BY <2>1
  <2> QED BY <2>1, <2>2 DEF InFlight
<1>2. CASE WriteFrame \/ WriteFails
  BY <1>2 DEF WriteFrame, WriteFails, InFlight
<1>3. CASE KeepaliveTick
  BY <1>3, TickPipe DEF KeepaliveTick, outVars, InFlight
<1>4. CASE ReaderSends /\ Enqueue /\ UNCHANGED <<written, oframe, opc>>
  BY <1>4, EnqueuePipe DEF InFlight
<1>5. CASE UNCHANGED <<written, oframe, frameCh>>
  BY <1>5 DEF InFlight
<1> QED BY <1>1, <1>2, <1>3, <1>4, <1>5, PipeCases

(* The reader alone puts chunks into the pipe.                             *)
SendsTheRest == JudgeEof /\ rpc' = "pend"

LEMMA WhatTheReaderHolds ==
  ASSUME ReaderShape, [Next]_vars
  PROVE  \/ hold' = hold
         \/ hold'.chunks = <<>>
         \/ TakeChunk \/ SendsTheRest
<1> USE DEF readerVars
<1>1. CASE Output
  BY <1>1 DEF Output, TakeFrame, WriteFrame, WriteFails, FailClosesBody,
              FailCancels, FailReports, WriteDone, OutputKeeps
<1>2. CASE Watchdog
  BY <1>2 DEF Watchdog, WatchdogTick, WatchdogStops, WatchdogTrips,
              WatchdogCloses, WatchdogCancels, WatchdogKeeps
<1>3. CASE ReadReturns
  BY <1>3 DEF ReadReturns, UpstreamSends, UpstreamEnds, ReadFails
<1>4. CASE Reader
  <2>1. CASE JudgeEof
    <3>1. CASE rpc' = "idle?"
      BY <2>1, <3>1, JudgeEofCases
    <3>2. CASE rpc' = "pend"
      BY <2>1, <3>2 DEF SendsTheRest
    <3>3. CASE rpc' = "finish"
      <4>1. PICK reason, empty : hold' = DoneFrame(reason, sawStop', empty)
        BY <2>1, <3>3, JudgeEofCases
      <4> QED BY <4>1, PlacesOfNone
    <3> QED BY <2>1, <3>1, <3>2, <3>3, JudgeEofCases
  <2>2. CASE JudgeClosed \/ CtxReason
    <3>1. PICK reason, empty : hold' = DoneFrame(reason, sawStop', empty)
      BY <2>2 DEF JudgeClosed, CtxReason, Finish
    <3> QED BY <3>1, PlacesOfNone
  <2>3. CASE SeeCancel \/ JudgeIdle \/ JudgeContext \/ CtxCancel
    BY <2>3, PlacesOfNone DEF SeeCancel, JudgeIdle, JudgeContext, CtxCancel
  <2> QED BY <1>4, <2>1, <2>2, <2>3 DEF Reader
<1>5. CASE ReaderSends
  BY <1>5, PlacesOfNone DEF ReaderSends, SendChunk, SendPending, SendDone,
     Complete, Finish
<1>6. CASE \/ ClientLeaves \/ CancelReaches \/ PumpReturns \/ KeepaliveTick
           \/ KeepaliveStops
  BY <1>6 DEF ClientLeaves, CancelReaches, PumpReturns, KeepaliveTick,
              KeepaliveStops
<1>7. CASE UNCHANGED vars
  BY <1>7 DEF vars
<1> QED BY <1>1, <1>2, <1>3, <1>4, <1>5, <1>6, <1>7 DEF Next

LEMMA WhatEnters ==
  ASSUME TypeOK, ReaderShape, OutputShape, [Next]_vars, NEW x, InPipe(x)'
  PROVE  \/ InPipe(x)
         \/ x \in Places(hold'.chunks) /\ (TakeChunk \/ SendsTheRest)
<1>a. x \in Places(hold'.chunks) =>
        x \in Places(hold.chunks) \/ TakeChunk \/ SendsTheRest
  BY WhatTheReaderHolds, PlacesOfNone
<1>1. CASE TakeFrame
  BY <1>1, TakeFramePipe
<1>2. CASE WriteFrame
  BY <1>2, WriteFramePipe
<1>3. CASE WriteFails
  <2>1. UNCHANGED <<written, frameCh, hold>> /\ oframe' = Keepalive
    BY <1>3 DEF WriteFails, OutputKeeps, readerVars
  <2> QED BY <2>1, PlacesOfNone DEF InPipe, Queued
<1>4. CASE KeepaliveTick
  BY <1>4, TickPipe
<1>5. CASE ReaderSends /\ Enqueue /\ UNCHANGED <<written, oframe, opc>>
  BY <1>5, <1>a, EnqueuePipe DEF InPipe
<1>6. CASE UNCHANGED <<written, oframe, frameCh>>
  BY <1>6, <1>a DEF InPipe, Queued
<1> QED BY <1>1, <1>2, <1>3, <1>4, <1>5, <1>6, PipeCases

(* Nothing leaves the pipe while the reader and OUTPUT go on.              *)
LEMMA WhatStays ==
  ASSUME TypeOK, ReaderShape, OutputShape, [Next]_vars,
         Alive', rpc' # "canceled", NEW x, InPipe(x)
  PROVE  InPipe(x)'
<1>a. \/ hold' = hold \/ hold.chunks = <<>>
      \/ ReaderSends /\ Enqueue
  <2>1. CASE Reader
    <3>1. rpc \notin {"send", "pend"}
      BY <2>1 DEF Reader, TakeChunk, SeeCancel, JudgeEof, JudgeIdle,
         JudgeContext, JudgeClosed, CtxCancel, CtxReason, Goto
    <3>2. CASE rpc = "finish"
      BY <2>1, <3>2 DEF Reader, TakeChunk, SeeCancel, JudgeEof, JudgeIdle,
         JudgeContext, JudgeClosed, CtxCancel, CtxReason
    <3>3. CASE rpc # "finish"
      BY <3>1, <3>3, PlacesOfNone DEF ReaderShape
    <3> QED BY <3>2, <3>3
  <2>2. CASE ReaderSends
    <3>1. CASE SendDone
      <4>1. hold \in Frames /\ hold.kind = "done"
        BY <3>1 DEF SendDone, ReaderShape, TypeOK
      <4> QED BY <4>1 DEF Frames
    <3>2. CASE SendChunk
      BY <2>2, <3>2 DEF SendChunk
    <3>3. CASE SendPending
      <4>1. ~OutDone
        BY <3>3 DEF SendPending, OthersKeep, outVars, Alive, OutDone
      <4> QED BY <2>2, <3>3, <4>1 DEF SendPending
    <3> QED BY <2>2, <3>1, <3>2, <3>3 DEF ReaderSends
  <2>3. CASE ~Reader /\ ~ReaderSends
    BY <2>3, WhoMoves DEF readerVars
  <2> QED BY <2>1, <2>2, <2>3
<1>1. CASE TakeFrame
  BY <1>1, TakeFramePipe
<1>2. CASE WriteFrame
  BY <1>2, WriteFramePipe
<1>3. CASE WriteFails
  BY <1>3 DEF WriteFails, Alive
<1>4. CASE KeepaliveTick
  BY <1>4, TickPipe
<1>5. CASE ReaderSends /\ Enqueue /\ UNCHANGED <<written, oframe, opc>>
  BY <1>5, EnqueuePipe DEF InPipe
<1>6. CASE UNCHANGED <<written, oframe, frameCh>>
  <2>1. ~(ReaderSends /\ Enqueue)
    <3>1. ASSUME Enqueue PROVE FALSE
      BY <1>6, <3>1, EnqueuePipe
    <3> QED BY <3>1
  <2>2. Places(hold.chunks) \subseteq Places(hold'.chunks)
    BY <1>a, <2>1, PlacesOfNone
  <2> QED BY <1>6, <2>2 DEF InPipe, Queued
<1> QED BY <1>1, <1>2, <1>3, <1>4, <1>5, <1>6, PipeCases

-----------------------------------------------------------------------------
(* The done frame is the last: behind it there are only keepalives.        *)
DoneIsLast ==
  /\ \A f : InFlight(f) /\ f.kind = "done" => rpc = "exit"
  /\ oframe.kind = "done" =>
       \A k \in 1..Len(frameCh) : frameCh[k].chunks = <<>>
  /\ \A k, l \in 1..Len(frameCh) :
       k < l /\ frameCh[k].kind = "done" => frameCh[l].chunks = <<>>

LEMMA WhatIsSent ==
  ASSUME TypeOK, ReaderShape, ReaderSends
  PROVE  /\ rpc \in {"send", "pend", "finish"}
         /\ hold.kind = "done" => rpc = "finish" /\ rpc' = "exit"
         /\ hold.kind = "done" => hold.chunks = <<>>
<1>1. hold \in Frames
  BY DEF TypeOK
<1>2. hold.kind = "done" => hold.chunks = <<>>
  BY <1>1 DEF Frames
<1> QED BY <1>2 DEF ReaderShape, ReaderSends, SendChunk, SendPending, SendDone,
                    Goto

LEMMA DoneIsLastStep ==
  ASSUME TypeOK, ReaderShape, OutputShape, DoneIsLast, [Next]_vars
  PROVE  DoneIsLast'
<1> DEFINE m == Len(frameCh)
<1>a. Keepalive.kind = "keepalive" /\ Keepalive.chunks = <<>>
  BY DEF Keepalive
<1>1. ASSUME NEW f, InFlight(f)', f.kind = "done"
      PROVE  rpc' = "exit"
  <2>1. CASE InFlight(f)
    BY <1>1, <2>1, DoneStays DEF DoneIsLast, readerVars
  <2>2. CASE ReaderSends /\ f = hold
    BY <1>1, <2>2, WhatIsSent
  <2> QED BY <1>1, <1>a, <2>1, <2>2, FlightStep
<1>2. CASE TakeFrame
  <2>1. /\ m \in Nat \ {0} /\ Len(frameCh') = m - 1 /\ oframe' = frameCh[1]
        /\ \A k \in 1..(m - 1) : frameCh'[k] = frameCh[k + 1]
    BY <1>2, TakeFramePipe
  <2>2. /\ 1 \in 1..m /\ \A k \in 1..(m - 1) : k + 1 \in 1..m /\ 1 < k + 1
        /\ \A k, l \in 1..(m - 1) : k < l => k + 1 < l + 1
    BY <2>1
  <2>3. oframe'.kind = "done" =>
          \A k \in 1..(m - 1) : frameCh'[k].chunks = <<>>
    BY <2>1, <2>2 DEF DoneIsLast
  <2>4. ASSUME NEW k \in 1..(m - 1), NEW l \in 1..(m - 1), k < l,
               frameCh'[k].kind = "done"
        PROVE  frameCh'[l].chunks = <<>>
    <3>1. k + 1 < l + 1 /\ frameCh[k + 1].kind = "done"
      BY <2>1, <2>2, <2>4
    <3> QED BY <2>1, <2>2, <3>1 DEF DoneIsLast
  <2> QED BY <1>1, <2>1, <2>3, <2>4 DEF DoneIsLast
<1>3. CASE WriteFrame \/ WriteFails
  <2>1. oframe' = Keepalive /\ UNCHANGED frameCh
    BY <1>3 DEF WriteFrame, WriteFails
  <2> QED BY <1>1, <1>a, <2>1 DEF DoneIsLast
<1>4. CASE KeepaliveTick
  <2>1. /\ m \in Nat /\ Len(frameCh') = m + 1
        /\ 1..(m + 1) = 1..m \cup {m + 1}
        /\ \A k \in 1..m : frameCh'[k] = frameCh[k]
        /\ frameCh'[m + 1] = Keepalive
    BY <1>4, TickPipe
  <2>2. UNCHANGED oframe
    BY <1>4 DEF KeepaliveTick, outVars
  <2> QED BY <1>1, <1>a, <2>1, <2>2 DEF DoneIsLast
<1>5. CASE ReaderSends /\ Enqueue /\ UNCHANGED <<written, oframe, opc>>
  <2>1. /\ m \in Nat /\ Len(frameCh') = m + 1
        /\ 1..(m + 1) = 1..m \cup {m + 1}
        /\ \A k \in 1..m : frameCh'[k] = frameCh[k]
    BY <1>5, EnqueuePipe
  <2>2. rpc # "exit"
    BY <1>5, WhatIsSent
  <2>3. /\ oframe.kind # "done"
        /\ \A k \in 1..m : frameCh[k].kind # "done"
    BY <2>2 DEF DoneIsLast, InFlight
  <2>4. \A k, l \in 1..(m + 1) : k < l => k \in 1..m
    BY <2>1
  <2> QED BY <1>1, <1>5, <2>1, <2>3, <2>4 DEF DoneIsLast
<1>6. CASE UNCHANGED <<written, oframe, frameCh>>
  BY <1>1, <1>6 DEF DoneIsLast
<1> QED BY <1>2, <1>3, <1>4, <1>5, <1>6, PipeCases

-----------------------------------------------------------------------------
(* The classifier.  It has seen what is settled.                           *)
Classifying == rpc \in {"select", "send", "eof?"}

DataSeen ==
  Classifying =>
    /\ sawData <=> \E x \in Forwardable : x <= Settled /\ sent[x] \in DataKinds
    /\ carry => \E x \in Forwardable : x <= Settled /\ sent[x] = "head"

LEMMA KindsOfPlaces ==
  ASSUME NEW S, NEW c \in Seq(S)
  PROVE  /\ KindsOf(c) = {sent[x] : x \in Places(c)}
         /\ c # <<>> => Last(c) \in Places(c)
<1>1. c # <<>> => Len(c) \in 1..Len(c)
  BY EmptySeq, LenProperties
<1>2. DOMAIN c = 1..Len(c)
  BY LenProperties
<1> QED BY <1>1, <1>2 DEF KindsOf, Places, Last

(* What the classifier is given is what the reader puts into the pipe.     *)
LEMMA Classified ==
  ASSUME TypeOK, TypeOK', StreamShape, ReaderShape, BlameInv, TakeChunk
  PROVE  LET c == Forwarded(read.chunk)
         IN  /\ c \in Seq(1..Len(sent))
             /\ \A x : x \in Places(c) <=>
                         x \in Forwardable /\ Settled < x /\ x <= Settled'
             /\ Withheld(read.chunk) => c = <<>>
             /\ ~Withheld(read.chunk) => c = hold'.chunks
             /\ UNCHANGED <<format, sent>>
             /\ Settled \in Nat /\ Settled' \in Nat /\ Settled <= Settled'
             /\ rpc = "select" /\ Classifying'
<1> DEFINE c == Forwarded(read.chunk)
<1>1. /\ UNCHANGED <<format, sent>> /\ hold.chunks = <<>>
      /\ Settled \in Nat /\ Settled' \in Nat /\ Settled <= Settled'
      /\ \A x : x \in Places(hold'.chunks) <=>
                  x \in Forwardable /\ Settled < x /\ x <= Settled'
  BY TakeChunkPlaces
<1>2. hold'.chunks \in Seq(1..Len(sent))
  <2>1. hold' \in Frames
    BY <1>1, FramesKept DEF TypeOK
  <2> QED BY <2>1, FrameChunks
<1>3. rpc = "select" /\ Classifying'
  BY DEF TakeChunk, Proceed, Goto, Classifying
<1>4. CASE Withheld(read.chunk)
  <2>1. c = <<>> /\ hold'.chunks = <<>>
    BY <1>1, <1>4 DEF Forwarded, TakeChunk
  <2> QED BY <1>1, <1>2, <1>3, <1>4, <2>1
<1>5. CASE ~Withheld(read.chunk)
  <2>1. c = hold'.chunks
    BY <1>5, PlacesOfNone DEF TakeChunk
  <2> QED BY <1>1, <1>2, <1>3, <1>5, <2>1
<1> QED BY <1>4, <1>5

LEMMA DataSeenStep ==
  ASSUME TypeOK, TypeOK', BlameInv, StreamShape, ReaderShape, DataSeen,
         [Next]_vars
  PROVE  DataSeen'
<1>1. CASE UpstreamSends
  <2>1. UNCHANGED <<rpc, pending, classVars>>
    BY <1>1 DEF UpstreamSends, readerVars
  <2>2. CASE Classifying
    <3>1. rpc = "select" /\ Taken = Len(sent) /\ Taken' = Len(sent)' - 1
      BY <1>1, <2>2, SendsWhile DEF Classifying
    <3>2. /\ Len(sent) \in Nat /\ Len(sent)' = Len(sent) + 1
          /\ \A i \in 1..Len(sent) : sent'[i] = sent[i]
          /\ \A i \in 1..Len(sent) : i \in Forwardable' <=> i \in Forwardable
          /\ Forwardable' \subseteq Forwardable \cup {Len(sent) + 1}
      BY <1>1, StreamGrows
    <3>3. Settled' = Settled /\ Settled <= Len(sent) /\ Settled \in Int
      BY <2>1, <3>1, <3>2 DEF Settled
    <3>4. Forwardable \subseteq 1..Len(sent)
      BY ForwardablePlaces
    <3>5. ASSUME NEW x
          PROVE  (x \in Forwardable' /\ x <= Settled) <=>
                   (x \in Forwardable /\ x <= Settled)
      <4>1. x = Len(sent) + 1 => ~(x <= Settled)
        BY <3>2, <3>3
      <4> QED BY <3>2, <3>4, <4>1
    <3>6. UNCHANGED <<carry, sawData>>
      BY <2>1 DEF classVars
    <3> QED BY <2>2, <3>2, <3>3, <3>4, <3>5, <3>6 DEF DataSeen
  <2> QED BY <2>1, <2>2 DEF DataSeen, Classifying
<1>2. CASE TakeChunk
  <2> DEFINE c == Forwarded(read.chunk)
  <2>1. /\ c \in Seq(1..Len(sent))
        /\ \A x : x \in Places(c) <=>
                    x \in Forwardable /\ Settled < x /\ x <= Settled'
        /\ UNCHANGED <<format, sent>> /\ Classifying
        /\ Settled \in Nat /\ Settled' \in Nat /\ Settled <= Settled'
    BY <1>2, Classified DEF Classifying
  <2>2. /\ sawData' <=> (sawData \/ KindsOf(c) \cap DataKinds # {})
        /\ carry' = (IF c = <<>> THEN carry ELSE sent[Last(c)] = "head")
    BY <1>2 DEF TakeChunk, Analyze
  <2> HIDE DEF c
  <2>3. /\ KindsOf(c) = {sent[x] : x \in Places(c)}
        /\ c # <<>> => Last(c) \in Places(c)
    BY <2>1, KindsOfPlaces
  <2>4. Forwardable' = Forwardable /\ Forwardable \subseteq Nat
    BY <2>1, StreamKept, ForwardablePlaces
  <2>5. \A x \in Forwardable :
          x <= Settled' <=> x <= Settled \/ x \in Places(c)
    BY <2>1, <2>4
  <2>6. KindsOf(c) \cap DataKinds # {} <=>
          \E x \in Places(c) : sent[x] \in DataKinds
    BY <2>3
  <2>7. sawData' <=>
          \E x \in Forwardable : x <= Settled' /\ sent[x] \in DataKinds
    BY <2>1, <2>2, <2>5, <2>6 DEF DataSeen
  <2>8. carry' => \E x \in Forwardable : x <= Settled' /\ sent[x] = "head"
    BY <2>1, <2>2, <2>3, <2>5 DEF DataSeen
  <2> QED BY <2>1, <2>4, <2>7, <2>8 DEF DataSeen
<1>3. ASSUME UNCHANGED <<format, sent, carry, sawData>>,
             Classifying' => Classifying /\ Settled' = Settled
      PROVE  DataSeen'
  <2>1. Forwardable' = Forwardable
    BY <1>3, StreamKept
  <2> QED BY <1>3, <2>1 DEF DataSeen
<1>4. CASE SendChunk
  <2>1. /\ UNCHANGED <<format, sent, carry, sawData, pending>>
        /\ rpc = "send"
        /\ (rpc' = "select" /\ read' = Reading) \/ rpc' = "eof?"
    BY <1>4 DEF SendChunk, Proceed, Goto, upVars, classVars
  <2>2. Settled' = Settled
    BY <2>1 DEF Settled, Taken, Reading
  <2> QED BY <1>3, <2>1, <2>2 DEF Classifying
<1>5. CASE JudgeEof
  BY <1>5, JudgeEofCases DEF DataSeen, Classifying
<1>6. CASE \/ SeeCancel \/ JudgeIdle \/ JudgeContext \/ JudgeClosed
           \/ CtxCancel \/ CtxReason \/ SendPending \/ SendDone
  BY <1>6 DEF SeeCancel, JudgeIdle, JudgeContext, JudgeClosed, CtxCancel,
     CtxReason, SendPending, SendDone, Finish, Complete, Goto, DataSeen,
     Classifying
<1>7. CASE ~Reader /\ ~ReaderSends /\ ~UpstreamSends
  <2>1. UNCHANGED <<format, sent>> /\ UNCHANGED readerVars
    BY <1>7, WhoSends, WhoMoves
  <2>2. UNCHANGED read \/ UpstreamEnds \/ ReadFails
    BY <1>7 DEF Next, vars, Output, TakeFrame, WriteFrame, WriteFails,
         FailClosesBody, FailCancels, FailReports, WriteDone, OutputKeeps,
         Watchdog, WatchdogTick, WatchdogStops, WatchdogTrips,
         WatchdogCloses, WatchdogCancels, WatchdogKeeps,
         ReadReturns, ClientLeaves, CancelReaches, PumpReturns, KeepaliveTick,
         KeepaliveStops
  <2>3. UNCHANGED read \/ (read.chunk = 0 /\ read'.chunk = 0)
    BY <2>2 DEF UpstreamEnds, ReadFails, Reading
  <2>4. Settled' = Settled
    BY <2>1, <2>3 DEF Settled, Taken, readerVars
  <2> QED BY <1>3, <2>1, <2>4 DEF Classifying, readerVars, classVars
<1> QED BY <1>1, <1>2, <1>4, <1>5, <1>6, <1>7 DEF Reader, ReaderSends

-----------------------------------------------------------------------------
(* The verdict on a clean stream, from the classifier to the result.       *)
EmptyTrue(empty) ==
  IF empty THEN \A x \in Forwardable : sent[x] \notin DataKinds
           ELSE \E x \in Forwardable : sent[x] \in {"event", "head", "stop"}

AllPiped == \A x \in Forwardable : InPipe(x)

VerdictInv ==
  /\ rpc = "pend" => EmptyTrue(~sawData)
  /\ Finishing({Ok}) => EmptyTrue(hold.result.empty)
  /\ Alive => \A f : InFlight(f) /\ f.kind = "done" /\ f.result.error = Ok
                => upEnd = "eof" /\ AllPiped /\ EmptyTrue(f.result.empty)
  /\ result.error = Ok => /\ upEnd = "eof" /\ EmptyTrue(result.empty)
                          /\ Forwardable \subseteq Places(written)

(* A tail is forwarded only together with its head.                        *)
LEMMA HeadOfTail ==
  ASSUME TypeOK, StreamShape,
         NEW x \in Forwardable, sent[x] \in DataKinds \cup {"head"}
  PROVE  EmptyTrue(FALSE)
<1>1. x \in Nat \ {0} /\ x \in 1..Len(sent) /\ Len(sent) \in Nat
  BY ForwardablePlaces
<1>2. CASE sent[x] # "tail"
  BY <1>2 DEF EmptyTrue, DataKinds
<1>3. CASE sent[x] = "tail"
  <2>1. x > 1 /\ sent[x - 1] = "head"
    BY <1>1, <1>3 DEF StreamShape
  <2>2. x - 1 \in 1..Len(sent)
    BY <1>1, <2>1
  <2>3. InSpan(x - 1) => InSpan(x)
    BY <1>1, <1>3, SpanStep
  <2>4. x - 1 \in Forwardable
    BY <2>1, <2>2, <2>3 DEF Forwardable, OpenAIKinds
  <2> QED BY <2>1, <2>4 DEF EmptyTrue
<1> QED BY <1>2, <1>3

(* What the classifier says at the end of the body is so.                  *)
LEMMA VerdictOfTheReader ==
  ASSUME TypeOK, StreamShape, ReaderShape, DataSeen, JudgeEof, Flush
  PROVE  EmptyTrue(~sawData')
<1>1. rpc \in {"eof?", "select"} /\ (rpc = "select" => read.chunk = 0)
  BY JudgeEofCases
<1>2. Classifying /\ Taken = Len(sent) /\ Len(sent) \in Nat
  BY <1>1, PipeType DEF Classifying, Taken
<1>3. /\ sawData <=>
           \E x \in Forwardable : x <= Settled /\ sent[x] \in DataKinds
      /\ carry => \E x \in Forwardable : x <= Settled /\ sent[x] = "head"
  BY <1>2 DEF DataSeen
<1>4. sawData' = (sawData \/ carry)
  BY DEF Flush
<1>5. CASE sawData \/ carry
  <2>1. PICK x \in Forwardable : sent[x] \in DataKinds \cup {"head"}
    BY <1>3, <1>5
  <2>2. EmptyTrue(FALSE) /\ sawData'
    BY <1>4, <1>5, <2>1, HeadOfTail
  <2> QED BY <2>2 DEF EmptyTrue
<1>6. CASE ~(sawData \/ carry)
  <2>1. ASSUME NEW x \in Forwardable PROVE sent[x] \notin DataKinds
    <3>1. x \in 1..Len(sent)
      BY ForwardablePlaces
    <3>2. CASE x <= Settled
      BY <1>3, <1>6, <3>2
    <3>3. CASE ~(x <= Settled)
      <4>1. pending # <<>>
        BY <1>2, <3>1, <3>3 DEF Settled
      <4>2. sent[Taken] = "head" /\ Settled = Taken - 1
        BY <1>1, <4>1 DEF ReaderShape, Settled
      <4>3. x = Taken
        BY <1>2, <3>1, <3>3, <4>2
      <4> QED BY <4>2, <4>3 DEF DataKinds
    <3> QED BY <3>2, <3>3
  <2> QED BY <1>4, <1>6, <2>1 DEF EmptyTrue
<1> QED BY <1>5, <1>6

(* Once the stream is over what is said of it stands.                      *)
LEMMA VerdictOfAnEndedStream ==
  ASSUME TypeOK, BlameInv, ReaderShape, VerdictInv, UpstreamSends
  PROVE  VerdictInv'
<1>1. rpc # "pend" /\ ~Finishing({Ok}) /\ upEnd = "none"
  BY SendsWhile
<1>2. UNCHANGED readerVars /\ UNCHANGED outVars /\ UNCHANGED frameCh
  BY DEF UpstreamSends
<1>3. /\ rpc' # "pend" /\ ~Finishing({Ok})' /\ (Alive' => Alive)
      /\ \A f : InFlight(f)' => InFlight(f)
      /\ result' = result
  BY <1>1, <1>2 DEF readerVars, outVars, Finishing, Alive, InFlight
<1>4. result.error # Ok
  BY <1>1 DEF VerdictInv
<1> QED BY <1>1, <1>3, <1>4 DEF VerdictInv

LEMMA VerdictOfTheReaderStep ==
  ASSUME TypeOK, StreamShape, ReaderShape, DataSeen, VerdictInv, [Next]_vars,
         ~UpstreamSends
  PROVE  /\ rpc' = "pend" => EmptyTrue(~sawData)'
         /\ Finishing({Ok})' => EmptyTrue(hold.result.empty)'
<1>1. \A e : EmptyTrue(e)' <=> EmptyTrue(e)
  BY WhoSends, StreamKept DEF EmptyTrue
<1>c. Forwardable' = Forwardable /\ UNCHANGED sent
  BY WhoSends, StreamKept
<1>b. \A reason, stop, empty :
        /\ DoneFrame(reason, stop, empty).result.error = reason
        /\ DoneFrame(reason, stop, empty).result.empty = empty
  BY DEF DoneFrame
<1>2. CASE UNCHANGED readerVars
  <2>1. UNCHANGED <<rpc, hold, sawData>>
    BY <1>2 DEF readerVars, classVars
  <2>2. EmptyTrue(~sawData)' <=> EmptyTrue(~sawData)
    BY <1>1, <2>1 DEF EmptyTrue
  <2>3. EmptyTrue(hold.result.empty)' <=> EmptyTrue(hold.result.empty)
    BY <1>1, <2>1 DEF EmptyTrue
  <2> QED BY <2>1, <2>2, <2>3 DEF VerdictInv, Finishing
<1>3. CASE JudgeEof
  <2>1. CASE rpc' = "idle?"
    BY <2>1 DEF Finishing
  <2>2. ASSUME Flush PROVE EmptyTrue(~sawData)'
    <3>1. EmptyTrue(~sawData')
      BY <1>3, <2>2, VerdictOfTheReader
    <3> QED BY <1>c, <3>1 DEF EmptyTrue
  <2>3. CASE rpc' = "pend"
    <3>1. Flush
      BY <1>3, <2>3, JudgeEofCases
    <3> QED BY <2>2, <2>3, <3>1 DEF Finishing
  <2>4. CASE rpc' = "finish"
    <3>1. Flush
      BY <1>3, <2>4, JudgeEofCases
    <3>2. \/ hold' = DoneFrame("upstream_ended_mid_frame", sawStop', FALSE)
          \/ hold' = DoneFrame(Ok, sawStop', ~sawData')
      BY <1>3, <2>4, JudgeEofCases
    <3>3. CASE hold' = DoneFrame("upstream_ended_mid_frame", sawStop', FALSE)
      BY <1>b, <2>4, <3>3 DEF Finishing, Ok
    <3>4. CASE hold' = DoneFrame(Ok, sawStop', ~sawData')
      <4>1. hold'.result.empty = ~sawData'
        BY <1>b, <3>4
      <4> QED BY <2>2, <2>4, <3>1, <4>1 DEF EmptyTrue
    <3> QED BY <3>2, <3>3, <3>4
  <2> QED BY <1>3, <2>1, <2>3, <2>4, JudgeEofCases
<1>4. CASE JudgeClosed \/ CtxReason
  <2>1. PICK reason \in Reasons \ {Ok} :
          hold' = DoneFrame(reason, sawStop', FALSE)
    BY <1>4 DEF JudgeClosed, CtxReason, Finish, Reasons, Ok
  <2>2. rpc' = "finish"
    BY <1>4 DEF JudgeClosed, CtxReason, Finish, Goto
  <2> QED BY <1>b, <2>1, <2>2 DEF Finishing
<1>5. CASE SendPending
  <2>1. CASE Complete
    <3>1. rpc = "pend" /\ UNCHANGED classVars
      BY <1>5 DEF SendPending
    <3>2. EmptyTrue(~sawData) /\ sawData' = sawData
      BY <3>1 DEF VerdictInv, classVars
    <3>3. hold' = DoneFrame(Ok, sawStop', ~sawData') /\ rpc' = "finish"
      BY <2>1 DEF Complete, Finish, Goto
    <3>4. hold'.result.empty = ~sawData
      BY <1>b, <3>2, <3>3
    <3>5. EmptyTrue(hold.result.empty)'
      BY <1>1, <3>2, <3>4 DEF EmptyTrue
    <3> QED BY <3>3, <3>5
  <2>2. CASE ~Complete
    BY <1>5, <2>2 DEF SendPending, Goto, Finishing
  <2> QED BY <2>1, <2>2
<1>6. CASE \/ TakeChunk \/ SeeCancel \/ JudgeIdle \/ JudgeContext
           \/ CtxCancel \/ SendChunk \/ SendDone
  <2>1. rpc' \notin {"pend", "finish"}
    BY <1>6 DEF TakeChunk, SeeCancel, JudgeIdle, JudgeContext, CtxCancel,
                SendChunk, SendDone, Proceed, Goto
  <2> QED BY <2>1 DEF Finishing
<1> QED BY <1>2, <1>3, <1>4, <1>5, <1>6, WhoMoves DEF Reader, ReaderSends

LEMMA VerdictInFlight ==
  ASSUME TypeOK, ReaderShape, OutputShape, Flow, DoneIsLast, VerdictInv,
         [Next]_vars, ~UpstreamSends, Alive',
         NEW f, InFlight(f)', f.kind = "done", f.result.error = Ok
  PROVE  upEnd' = "eof" /\ AllPiped' /\ EmptyTrue(f.result.empty)'
<1>a. /\ Forwardable' = Forwardable /\ UNCHANGED sent
      /\ Forwardable \subseteq 1..Len(sent)
      /\ \A e : EmptyTrue(e) => EmptyTrue(e)'
  BY WhoSends, StreamKept, ForwardablePlaces DEF EmptyTrue
<1>b. Alive /\ (upEnd = "eof" => upEnd' = "eof")
  BY DoneStays, WhoMoves
<1>1. CASE InFlight(f)
  <2>1. upEnd = "eof" /\ AllPiped /\ EmptyTrue(f.result.empty)
    BY <1>1, <1>b DEF VerdictInv
  <2>2. rpc = "exit" /\ rpc' = "exit"
    BY <1>1, DoneStays DEF DoneIsLast, readerVars
  <2>3. AllPiped'
    BY <1>a, <2>1, <2>2, WhatStays DEF AllPiped
  <2> QED BY <1>a, <1>b, <2>1, <2>3
<1>2. CASE ReaderSends /\ f = hold
  <2>1. rpc = "finish" /\ rpc' = "exit" /\ Finishing({Ok})
    BY <1>2, WhatIsSent DEF Finishing
  <2>2. upEnd = "eof" /\ pending = <<>> /\ EmptyTrue(f.result.empty)
    BY <1>2, <2>1 DEF ReaderShape, VerdictInv
  <2>3. Clean /\ Settled = Len(sent) /\ Len(sent) \in Nat
    BY <2>1, <2>2, PipeType DEF Clean, Settled, Taken
  <2>4. AllPiped
    BY <1>a, <1>b, <2>3 DEF Flow, HasAllUpTo, AllPiped
  <2>5. AllPiped'
    BY <1>a, <2>1, <2>4, WhatStays DEF AllPiped
  <2> QED BY <1>a, <1>b, <2>2, <2>5
<1>3. f # Keepalive
  BY DEF Keepalive
<1> QED BY <1>1, <1>2, <1>3, FlightStep

(* When OUTPUT writes the done frame the rest of the pipe is empty.        *)
LEMMA AllIsWritten ==
  ASSUME TypeOK, ReaderShape, OutputShape, DoneIsLast, WriteDone
  PROVE  /\ UNCHANGED written /\ Alive /\ InFlight(oframe)
         /\ result' = oframe.result
         /\ \A x : InPipe(x) => x \in Places(written)
<1>1. /\ oframe.kind = "done" /\ UNCHANGED written /\ Alive
      /\ result' = oframe.result
  BY DEF WriteDone, Alive
<1>2. InFlight(oframe) /\ rpc = "exit"
  BY <1>1 DEF InFlight, DoneIsLast
<1>3. hold = Keepalive
  BY <1>2 DEF ReaderShape
<1>4. oframe.chunks = <<>>
  BY <1>1 DEF TypeOK, Frames
<1>5. \A k \in 1..Len(frameCh) : frameCh[k].chunks = <<>>
  BY <1>1 DEF DoneIsLast
<1>6. \A x : ~Queued(x)
  BY <1>5, PlacesOfNone DEF Queued
<1> QED BY <1>1, <1>2, <1>3, <1>4, <1>6, PlacesOfNone DEF InPipe

LEMMA VerdictStep ==
  ASSUME TypeOK, BlameInv, PipeInv, DoneIsLast, DataSeen, VerdictInv,
         [Next]_vars
  PROVE  VerdictInv'
<1> USE DEF PipeInv
<1>1. CASE UpstreamSends
  BY <1>1, VerdictOfAnEndedStream
<1>2. CASE ~UpstreamSends
  <2>1. /\ rpc' = "pend" => EmptyTrue(~sawData)'
        /\ Finishing({Ok})' => EmptyTrue(hold.result.empty)'
    BY <1>2, VerdictOfTheReaderStep
  <2>2. ASSUME Alive', NEW f, InFlight(f)', f.kind = "done",
               f.result.error = Ok
        PROVE  upEnd' = "eof" /\ AllPiped' /\ EmptyTrue(f.result.empty)'
    BY <1>2, <2>2, VerdictInFlight
  <2>a. /\ Forwardable' = Forwardable
        /\ \A e : EmptyTrue(e) => EmptyTrue(e)'
        /\ upEnd = "eof" => upEnd' = "eof"
    BY <1>2, WhoSends, StreamKept, WhoMoves DEF EmptyTrue
  <2>3. ASSUME result'.error = Ok
        PROVE  /\ upEnd' = "eof" /\ EmptyTrue(result.empty)'
               /\ Forwardable' \subseteq Places(written')
    <3>1. CASE WriteDone
      <4>1. /\ UNCHANGED written /\ Alive /\ InFlight(oframe)
            /\ result' = oframe.result /\ oframe.kind = "done"
            /\ \A x : InPipe(x) => x \in Places(written)
        BY <3>1, AllIsWritten DEF WriteDone
      <4>2. upEnd = "eof" /\ AllPiped /\ EmptyTrue(oframe.result.empty)
        BY <2>3, <4>1 DEF VerdictInv
      <4>3. EmptyTrue(oframe.result.empty)'
        BY <2>a, <4>2, <3>1 DEF EmptyTrue, WriteDone
      <4>4. UNCHANGED oframe
        BY <3>1 DEF WriteDone
      <4>5. EmptyTrue(result.empty)'
        BY <4>1, <4>3, <4>4 DEF EmptyTrue
      <4> QED BY <2>a, <4>1, <4>2, <4>5 DEF AllPiped
    <3>2. CASE ~WriteDone
      <4>1. result' = result \/ FailReports
        BY <3>2, WhoMoves DEF Output, outVars, TakeFrame, WriteFrame,
           WriteFails, FailClosesBody, FailCancels
      <4>a. /\ "none" # Ok /\ "client_write_failed" # Ok
            /\ NoResult.error = "none"
        BY DEF NoResult, Ok
      <4>2. ASSUME FailReports PROVE FALSE
        <5>1. result'.error = "client_write_failed"
          BY <4>2 DEF FailReports
        <5> QED BY <2>3, <4>a, <5>1
      <4>3. result' = result /\ result # NoResult
        BY <2>3, <4>a, <4>1, <4>2
      <4>4. UNCHANGED written
        BY <4>3, DoneStays DEF OutputShape, outVars
      <4>5. EmptyTrue(result.empty)'
        BY <2>3, <2>a, <4>3 DEF VerdictInv, EmptyTrue
      <4> QED BY <2>3, <2>a, <4>3, <4>4, <4>5 DEF VerdictInv
    <3> QED BY <3>1, <3>2
  <2> QED BY <2>1, <2>2, <2>3 DEF VerdictInv
<1> QED BY <1>1, <1>2

LEMMA VerdictInit == Init => DoneIsLast /\ DataSeen /\ VerdictInv
<1> SUFFICES ASSUME Init PROVE DoneIsLast /\ DataSeen /\ VerdictInv
  OBVIOUS
<1>1. /\ Len(sent) = 0 /\ Len(frameCh) = 0 /\ 1..0 = {}
      /\ oframe.kind = "keepalive" /\ hold = Keepalive
      /\ rpc = "select" /\ result.error = "none"
      /\ ~sawData /\ ~carry
  BY EmptySeq DEF Init, Keepalive, NoResult
<1>2. \A f : InFlight(f) => f = oframe
  BY <1>1 DEF InFlight
<1>3. DoneIsLast
  BY <1>1, <1>2 DEF DoneIsLast
<1>4. DataSeen
  BY <1>1 DEF DataSeen, Forwardable
<1>5. VerdictInv
  BY <1>1, <1>2 DEF VerdictInv, Finishing, Ok
<1> QED BY <1>3, <1>4, <1>5

LEMMA VerdictAlways ==
  Spec => [](DoneIsLast /\ DataSeen /\ VerdictInv)
<1>1. Init => DoneIsLast /\ DataSeen /\ VerdictInv
  BY VerdictInit
<1>2. TypeOK /\ TypeOK' /\ BlameInv /\ PipeInv
        /\ (DoneIsLast /\ DataSeen /\ VerdictInv) /\ [Next]_vars
        => (DoneIsLast /\ DataSeen /\ VerdictInv)'
  BY DoneIsLastStep, DataSeenStep, VerdictStep DEF PipeInv
<1> QED BY <1>1, <1>2, PipeAlways, PTL DEF Spec

(* The result's EmptyOutput, which counts against the model's health, says *)
(* of a clean stream that no event of it reached the client; and a stream  *)
(* said not to be empty brought at least a part of one (sse.go:34-37, 82;  *)
(* handler.go:680-682).                                                    *)
THEOREM EmptyIsTrue == Spec => []EmptyOutputIsTrue
<1>1. ASSUME TypeOK, PipeInv, VerdictInv PROVE EmptyOutputIsTrue
  <2>1. SUFFICES ASSUME result.error = Ok
                 PROVE  IF result.empty
                          THEN KindsOf(written) \cap DataKinds = {}
                          ELSE KindsOf(written) \cap
                                 {"event", "head", "stop"} # {}
    BY DEF EmptyOutputIsTrue, DataKinds
  <2>2. EmptyTrue(result.empty) /\ Forwardable \subseteq Places(written)
    BY <1>1, <2>1 DEF VerdictInv
  <2>3. Places(written) \subseteq Forwardable
    BY <1>1 DEF PipeInv, Flow, WrittenInOrder
  <2>4. KindsOf(written) = {sent[x] : x \in Places(written)}
    BY <1>1, PipeType, KindsOfPlaces
  <2> QED BY <2>2, <2>3, <2>4 DEF EmptyTrue
<1> QED BY <1>1, PipeAlways, VerdictAlways, PTL

-----------------------------------------------------------------------------
(* The upstream's terminal marker.  The classifier has seen it if it is in *)
(* the pipe; and if it has, the marker is in the pipe as long as the       *)
(* upstream is told of the end, that is, unless the reader has been        *)
(* cancelled and may have dropped it.                                      *)
Stopped == \E x \in 1..Len(sent) : InPipe(x) /\ sent[x] = "stop"

Told == {Ok, "upstream_closed", "upstream_stream_error",
         "upstream_ended_mid_frame"}

Telling == \/ rpc \in {"select", "send", "eof?", "pend", "idle?", "ctx?",
                       "closed?"}
           \/ Finishing(Told)

StopSeen ==
  /\ Stopped => sawStop
  /\ rpc = "finish" => hold.stop = sawStop
  /\ Alive /\ Telling /\ sawStop => Stopped
  /\ Alive => \A f : InFlight(f) /\ f.kind = "done" =>
                /\ f.stop = sawStop
                /\ f.stop /\ f.result.error \in Told => Stopped

LEMMA StoppedStays ==
  ASSUME TypeOK, ReaderShape, OutputShape, [Next]_vars,
         Alive', rpc' # "canceled", Stopped
  PROVE  Stopped'
<1>1. PICK x \in 1..Len(sent) : InPipe(x) /\ sent[x] = "stop"
  BY DEF Stopped
<1>2. InPipe(x)'
  BY <1>1, WhatStays
<1>3. x \in 1..Len(sent)' /\ sent'[x] = "stop"
  <2>1. CASE UpstreamSends
    BY <1>1, <2>1, StreamGrows
  <2>2. CASE ~UpstreamSends
    BY <1>1, <2>2, WhoSends
  <2> QED BY <2>1, <2>2
<1> QED BY <1>2, <1>3 DEF Stopped

LEMMA SawStopStep ==
  ASSUME TypeOK, [Next]_vars
  PROVE  /\ TakeChunk \/ sawStop' = sawStop
         /\ sawStop => sawStop'
         /\ sawStop \in BOOLEAN
<1>1. TakeChunk \/ sawStop' = sawStop
  <2>1. CASE Reader
    <3>1. CASE JudgeEof
      BY <3>1 DEF JudgeEof, HandleCleanEnd, Flush, classVars
    <3>2. CASE ~JudgeEof
      BY <2>1, <3>2 DEF Reader, SeeCancel, JudgeIdle, JudgeContext,
         JudgeClosed, Flush, CtxCancel, CtxReason, classVars
    <3> QED BY <3>1, <3>2
  <2>2. CASE ReaderSends
    BY <2>2 DEF ReaderSends, SendChunk, SendPending, SendDone, classVars
  <2> QED BY <2>1, <2>2, WhoMoves DEF readerVars, classVars
<1>2. TakeChunk =>
        sawStop' = (sawStop \/ "stop" \in KindsOf(Forwarded(read.chunk)))
  BY DEF TakeChunk, Analyze
<1>3. sawStop \in BOOLEAN
  BY DEF TypeOK
<1> QED BY <1>1, <1>2, <1>3

LEMMA StopIsSeen ==
  ASSUME TypeOK, TypeOK', BlameInv, PipeInv, StopSeen, [Next]_vars, Stopped'
  PROVE  sawStop'
<1> USE DEF PipeInv
<1>1. PICK x \in 1..Len(sent)' : InPipe(x)' /\ sent'[x] = "stop"
  BY DEF Stopped
<1>2. CASE InPipe(x)
  <2>1. x \in 1..Len(sent)
    BY <1>2, PipeType
  <2>2. sent[x] = "stop"
    BY <1>1, <2>1, StreamGrows, WhoSends
  <2>3. sawStop
    BY <1>2, <2>1, <2>2 DEF StopSeen, Stopped
  <2> QED BY <2>3, SawStopStep
<1>3. CASE x \in Places(hold'.chunks) /\ TakeChunk
  <2> DEFINE c == Forwarded(read.chunk)
  <2>1. /\ c \in Seq(1..Len(sent))
        /\ \A y : y \in Places(c) <=>
                    y \in Forwardable /\ Settled < y /\ y <= Settled'
        /\ UNCHANGED sent
    BY <1>3, Classified
  <2>2. \A y : y \in Places(hold'.chunks) <=>
                 y \in Forwardable /\ Settled < y /\ y <= Settled'
    BY <1>3, TakeChunkPlaces
  <2>3. x \in Places(c)
    BY <1>3, <2>1, <2>2
  <2>4. sawStop' = (sawStop \/ "stop" \in KindsOf(c))
    BY <1>3 DEF TakeChunk, Analyze
  <2> HIDE DEF c
  <2>5. "stop" \in KindsOf(c)
    BY <1>1, <2>1, <2>3, KindsOfPlaces
  <2> QED BY <2>4, <2>5
<1>4. CASE x \in Places(hold'.chunks) /\ SendsTheRest
  <2>1. /\ hold' = DataFrame(pending) /\ pending # <<>>
        /\ rpc \in {"select", "eof?"} /\ UNCHANGED sent
    BY <1>4, JudgeEofCases DEF SendsTheRest, upVars
  <2>2. pending = <<Taken>> /\ sent[Taken] = "head"
    BY <2>1 DEF ReaderShape
  <2>3. Places(hold'.chunks) = {Taken}
    BY <2>1, <2>2, PlacesOfNone DEF Places
  <2> QED BY <1>1, <1>4, <2>1, <2>2, <2>3
<1> QED BY <1>1, <1>2, <1>3, <1>4, WhatEnters

LEMMA TellingStep ==
  ASSUME ReaderShape, [Next]_vars
  PROVE  /\ Telling' => Telling /\ rpc' # "canceled"
         /\ rpc' = "finish" => hold'.stop = sawStop' \/ UNCHANGED readerVars
<1>b. \A reason, stop, empty :
        /\ DoneFrame(reason, stop, empty).result.error = reason
        /\ DoneFrame(reason, stop, empty).stop = stop
  BY DEF DoneFrame
<1>1. Telling' => rpc' # "canceled"
  BY DEF Telling, Finishing
<1>2. CASE UNCHANGED readerVars
  BY <1>1, <1>2 DEF readerVars, Telling, Finishing
<1>3. CASE JudgeEof
  <2>1. Telling
    BY <1>3, JudgeEofCases DEF Telling
  <2>2. rpc' = "finish" => \E reason, empty :
          hold' = DoneFrame(reason, sawStop', empty)
    BY <1>3, JudgeEofCases
  <2> QED BY <1>1, <1>b, <2>1, <2>2
<1>4. CASE JudgeClosed
  <2>1. PICK reason : hold' = DoneFrame(reason, sawStop', FALSE)
    BY <1>4 DEF JudgeClosed, Finish
  <2>2. Telling
    BY <1>4 DEF JudgeClosed, Telling
  <2>3. DoneFrame(reason, sawStop', FALSE).stop = sawStop'
    BY <1>b
  <2> QED BY <1>1, <2>1, <2>2, <2>3
<1>5. CASE CtxReason
  <2>1. PICK reason \in {"sse_idle_timeout", "client_disconnected"} :
          hold' = DoneFrame(reason, sawStop', FALSE)
    BY <1>5 DEF CtxReason, Finish
  <2>a. /\ DoneFrame(reason, sawStop', FALSE).result.error = reason
        /\ DoneFrame(reason, sawStop', FALSE).stop = sawStop'
    BY <1>b
  <2>2. /\ rpc' = "finish" /\ hold'.result.error = reason
        /\ hold'.stop = sawStop'
    BY <1>5, <2>1, <2>a DEF CtxReason, Finish, Goto
  <2>3. ~Telling'
    BY <2>2 DEF Telling, Finishing, Told, Ok
  <2> QED BY <2>2, <2>3
<1>6. CASE SendPending
  <2>1. Telling
    BY <1>6 DEF SendPending, Telling
  <2>2. rpc' = "finish" => hold' = DoneFrame(Ok, sawStop', ~sawData')
    BY <1>6 DEF SendPending, Complete, Finish, Goto
  <2> QED BY <1>1, <1>b, <2>1, <2>2
<1>7. CASE \/ TakeChunk \/ SeeCancel \/ JudgeIdle \/ JudgeContext
           \/ CtxCancel \/ SendChunk \/ SendDone
  <2>1. rpc' # "finish"
    BY <1>7 DEF TakeChunk, SeeCancel, JudgeIdle, JudgeContext, CtxCancel,
                SendChunk, SendDone, Proceed, Goto
  <2>2. Telling' => Telling
    BY <1>7, <2>1 DEF TakeChunk, SeeCancel, JudgeIdle, JudgeContext, CtxCancel,
       SendChunk, SendDone, Goto, Telling, Finishing
  <2> QED BY <1>1, <2>1, <2>2
<1> QED BY <1>2, <1>3, <1>4, <1>5, <1>6, <1>7, WhoMoves DEF Reader, ReaderSends

LEMMA StopSeenStep ==
  ASSUME TypeOK, TypeOK', BlameInv, PipeInv, DoneIsLast, StopSeen, [Next]_vars
  PROVE  StopSeen'
<1> USE DEF PipeInv
<1>1. Stopped' => sawStop'
  BY StopIsSeen
<1>2. ASSUME rpc' = "finish" PROVE hold'.stop = sawStop'
  BY <1>2, TellingStep DEF StopSeen, readerVars, classVars
<1>3. ASSUME Alive', Telling', sawStop' PROVE Stopped'
  <2>1. Alive /\ Telling /\ rpc' # "canceled"
    BY <1>3, DoneStays, TellingStep
  <2>2. CASE sawStop
    BY <1>3, <2>1, <2>2, StoppedStays DEF StopSeen
  <2>3. CASE ~sawStop
    <3> DEFINE c == Forwarded(read.chunk)
    <3>1. TakeChunk
      BY <1>3, <2>3, SawStopStep
    <3>2. sawStop' = (sawStop \/ "stop" \in KindsOf(c))
      BY <3>1 DEF TakeChunk, Analyze
    <3>3. /\ c \in Seq(1..Len(sent))
          /\ \A y : y \in Places(c) <=>
                      y \in Forwardable /\ Settled < y /\ y <= Settled'
          /\ UNCHANGED sent
      BY <3>1, Classified
    <3>4. \A y : y \in Places(hold'.chunks) <=>
                   y \in Forwardable /\ Settled < y /\ y <= Settled'
      BY <3>1, TakeChunkPlaces
    <3> HIDE DEF c
    <3>a. "stop" \in KindsOf(c)
      BY <1>3, <2>3, <3>2
    <3>b. KindsOf(c) = {sent[y] : y \in Places(c)}
      BY <3>3, KindsOfPlaces
    <3>5. PICK x \in Places(c) : sent[x] = "stop"
      BY <3>a, <3>b
    <3>6. x \in Places(hold'.chunks) /\ x \in 1..Len(sent)
      BY <3>3, <3>4, <3>5, ForwardablePlaces
    <3>7. InPipe(x)'
      BY <3>6 DEF InPipe
    <3> QED BY <3>3, <3>5, <3>6, <3>7 DEF Stopped
  <2> QED BY <2>2, <2>3
<1>4. ASSUME Alive', NEW f, InFlight(f)', f.kind = "done"
      PROVE  /\ f.stop = sawStop'
             /\ f.stop /\ f.result.error \in Told => Stopped'
  <2>1. CASE InFlight(f)
    <3>1. Alive /\ rpc = "exit" /\ UNCHANGED readerVars
      BY <1>4, <2>1, DoneStays DEF DoneIsLast
    <3>2. rpc' # "canceled" /\ UNCHANGED sawStop
      BY <3>1 DEF readerVars, classVars
    <3> QED BY <1>4, <2>1, <3>1, <3>2, StoppedStays DEF StopSeen
  <2>2. CASE ReaderSends /\ f = hold
    <3>1. rpc = "finish" /\ rpc' = "exit" /\ Alive
      BY <1>4, <2>2, WhatIsSent, DoneStays
    <3>2. ~TakeChunk
      BY <3>1 DEF TakeChunk
    <3>3. f.stop = sawStop /\ sawStop' = sawStop
      BY <2>2, <3>1, <3>2, SawStopStep DEF StopSeen
    <3>4. f.result.error \in Told => Telling
      BY <2>2, <3>1 DEF Telling, Finishing
    <3>5. f.stop /\ f.result.error \in Told => Stopped
      BY <3>1, <3>3, <3>4 DEF StopSeen
    <3> QED BY <1>4, <3>1, <3>3, <3>5, StoppedStays
  <2>3. f # Keepalive
    BY <1>4 DEF Keepalive
  <2> QED BY <1>4, <2>1, <2>2, <2>3, FlightStep
<1> QED BY <1>1, <1>2, <1>3, <1>4 DEF StopSeen

(* A stream the upstream broke gets the proxy's terminal sequence unless   *)
(* the client has the upstream's own terminal marker already, and a client *)
(* that has it gets no second one: whatever is still queued when the       *)
(* stream breaks, and in whatever order the reader and OUTPUT go on        *)
(* (sse.go:12-15, 210-217).                                                *)
THEOREM TerminatesOnce == Spec => TerminatedOnce
<1> DEFINE P == opc = "write" /\ opc' = "exit" =>
       /\ announced' => "stop" \notin KindsOf(written)
       /\ oframe.result.error \in {"upstream_closed", "upstream_stream_error",
                                   "upstream_ended_mid_frame"}
            => (oframe.stop => "stop" \in KindsOf(written))
<1>1. Init => StopSeen
  <2> SUFFICES ASSUME Init PROVE StopSeen
    OBVIOUS
  <2>1. /\ Len(sent) = 0 /\ Len(frameCh) = 0 /\ 1..0 = {}
        /\ oframe.kind = "keepalive" /\ rpc = "select" /\ ~sawStop
    BY EmptySeq DEF Init, Keepalive
  <2>2. \A f : InFlight(f) => f = oframe
    BY <2>1 DEF InFlight
  <2> QED BY <2>1, <2>2 DEF StopSeen, Stopped
<1>2. TypeOK /\ TypeOK' /\ BlameInv /\ PipeInv /\ DoneIsLast /\ StopSeen
        /\ [Next]_vars => StopSeen'
  BY StopSeenStep
<1>3. ASSUME TypeOK, PipeInv, DoneIsLast, StopSeen, [Next]_vars,
             opc = "write", opc' = "exit"
      PROVE  /\ announced' => "stop" \notin KindsOf(written)
             /\ oframe.result.error \in {"upstream_closed",
                                         "upstream_stream_error",
                                         "upstream_ended_mid_frame"}
                  => (oframe.stop => "stop" \in KindsOf(written))
  <2>1. WriteDone
    BY <1>3, WhoMoves DEF Output, TakeFrame, WriteFrame, WriteFails,
       FailClosesBody, FailCancels, FailReports, outVars
  <2>2. /\ Alive /\ InFlight(oframe) /\ oframe.kind = "done"
        /\ \A x : InPipe(x) => x \in Places(written)
    BY <1>3, <2>1, AllIsWritten DEF PipeInv, WriteDone
  <2>3. /\ written \in Seq(1..Len(sent))
        /\ KindsOf(written) = {sent[x] : x \in Places(written)}
        /\ \A x : InPipe(x) => x \in 1..Len(sent)
    BY <1>3, PipeType, KindsOfPlaces
  <2>4. "stop" \in KindsOf(written) <=> Stopped
    BY <2>2, <2>3 DEF Stopped, InPipe
  <2>5. /\ oframe.stop = sawStop
        /\ oframe.stop /\ oframe.result.error \in Told => Stopped
        /\ Stopped => sawStop
    BY <1>3, <2>2 DEF StopSeen
  <2>6. announced' => ~oframe.stop
    BY <2>1 DEF WriteDone, NeedsTail
  <2> QED BY <2>4, <2>5, <2>6 DEF Told
<1>4. TypeOK /\ PipeInv /\ DoneIsLast /\ StopSeen /\ [Next]_vars => [P]_vars
  BY <1>3
<1>5. Spec => [][P]_vars
  BY <1>1, <1>2, <1>4, PipeAlways, VerdictAlways, PTL DEF Spec
<1> QED BY <1>5 DEF TerminatedOnce

-----------------------------------------------------------------------------
(* Openai events.  No frame ends with an event's first half, unless the    *)
(* upstream has ended its stream there.                                    *)
Whole(c) == c = <<>> \/ sent[Last(c)] # "head"

WholeInv ==
  format = "openai" /\ upEnd # "eof" =>
    /\ Whole(written) /\ Whole(hold.chunks)
    /\ \A f : InFlight(f) => Whole(f.chunks)

LEMMA LastOfConcat ==
  ASSUME NEW S, NEW c \in Seq(S), NEW d \in Seq(S)
  PROVE  /\ d = <<>> => c \o d = c
         /\ d # <<>> => c \o d # <<>> /\ Last(c \o d) = Last(d)
<1>1. d = <<>> => c \o d = c
  BY ConcatEmptySeq
<1>2. ASSUME d # <<>> PROVE c \o d # <<>> /\ Last(c \o d) = Last(d)
  <2>1. Len(c) \in Nat /\ Len(d) \in Nat \ {0}
    BY <1>2, LenProperties, EmptySeq
  <2>2. /\ c \o d \in Seq(S)
        /\ Len(c \o d) = Len(c) + Len(d)
        /\ \A i \in 1..Len(c) + Len(d) :
             (c \o d)[i] = IF i <= Len(c) THEN c[i] ELSE d[i - Len(c)]
    BY ConcatProperties
  <2>3. /\ Len(c) + Len(d) \in 1..Len(c) + Len(d)
        /\ ~(Len(c) + Len(d) <= Len(c))
        /\ Len(c) + Len(d) - Len(c) = Len(d)
    BY <2>1
  <2>4. Last(c \o d) = d[Len(d)]
    BY <2>2, <2>3 DEF Last
  <2>5. c \o d # <<>>
    BY <2>1, <2>2, EmptySeq
  <2> QED BY <2>4, <2>5 DEF Last
<1> QED BY <1>1, <1>2

(* What the reader makes of a chunk is whole.                              *)
LEMMA TakenIsWhole ==
  ASSUME TypeOK, StreamShape, ReaderShape, BlameInv, TakeChunk,
         format = "openai"
  PROVE  Whole(hold'.chunks)
<1> DEFINE n == Len(sent)
<1>1. /\ n \in Nat \ {0} /\ read.chunk = n
      /\ pending # <<>> => sent[n] = "tail"
  BY TakeChunkShape
<1>2. CASE Withheld(n)
  <2>1. hold' = Keepalive
    BY <1>1, <1>2 DEF TakeChunk, ReaderShape
  <2> QED BY <2>1, PlacesOfNone DEF Whole
<1>3. CASE ~Withheld(n)
  <2>1. /\ sent[n] # "head"
        /\ hold'.chunks = pending \o (IF sent[n] = "null" THEN <<>> ELSE <<n>>)
    BY <1>1, <1>3 DEF TakeChunk, Withheld, Forwarded, DataFrame
  <2>2. CASE sent[n] = "null"
    <3>1. pending = <<>>
      BY <1>1, <2>2
    <3>2. hold'.chunks = <<>> \o <<>>
      BY <2>1, <2>2, <3>1
    <3> QED BY <3>2 DEF Whole
  <2>3. CASE sent[n] # "null"
    <3>a. <<n>> \in Seq(1..n)
      BY <1>1
    <3>1. PICK d \in Seq(1..n) : d = <<n>>
      BY <3>a
    <3>2. pending \in Seq(1..n) /\ d # <<>> /\ hold'.chunks = pending \o d
      BY <2>1, <2>3, <3>1 DEF TypeOK
    <3>3. Last(hold'.chunks) = Last(d)
      BY <3>2, LastOfConcat
    <3>4. Last(d) = n
      BY <3>1 DEF Last
    <3> QED BY <2>1, <3>3, <3>4 DEF Whole
  <2> QED BY <2>2, <2>3
<1> QED BY <1>2, <1>3

LEMMA WholeStep ==
  ASSUME TypeOK, TypeOK', BlameInv, PipeInv, PipeInv', WholeInv, [Next]_vars
  PROVE  WholeInv'
<1> SUFFICES ASSUME format' = "openai", upEnd' # "eof"
             PROVE  /\ Whole(written)' /\ Whole(hold.chunks)'
                    /\ \A f : InFlight(f)' => Whole(f.chunks)'
  BY DEF WholeInv
<1>1. format = "openai" /\ upEnd # "eof"
  <2>1. CASE UpstreamSends
    BY <2>1 DEF UpstreamSends
  <2>2. CASE ~UpstreamSends
    BY <2>2, WhoSends, WhoMoves
  <2> QED BY <2>1, <2>2
<1>2. /\ Whole(written) /\ Whole(hold.chunks)
      /\ \A f : InFlight(f) => Whole(f.chunks)
  BY <1>1 DEF WholeInv
<1>3. ASSUME NEW c \in Seq(1..Len(sent)), Whole(c) PROVE Whole(c)'
  <2>1. CASE c = <<>>
    BY <2>1 DEF Whole
  <2>2. CASE c # <<>>
    <3>1. Last(c) \in 1..Len(sent)
      BY <2>2, KindsOfPlaces, PlacesOfConcat
    <3>2. sent'[Last(c)] = sent[Last(c)]
      BY <3>1, StreamGrows, WhoSends
    <3> QED BY <1>3, <3>2 DEF Whole
  <2> QED BY <2>1, <2>2
<1>4. Whole(hold.chunks)'
  <2>1. CASE hold' = hold
    <3>1. PICK c \in Seq(1..Len(sent)) : c = hold.chunks
      BY PipeType
    <3>2. Whole(c)'
      BY <1>2, <1>3, <3>1
    <3> QED BY <2>1, <3>1, <3>2 DEF Whole
  <2>2. CASE hold'.chunks = <<>>
    BY <2>2 DEF Whole
  <2>3. CASE TakeChunk
    <3>1. Whole(hold'.chunks) /\ UNCHANGED sent
      BY <1>1, <2>3, TakenIsWhole, TakeChunkPlaces DEF PipeInv
    <3> QED BY <3>1 DEF Whole
  <2>4. ~SendsTheRest
    BY DEF SendsTheRest, PipeInv, ReaderShape
  <2> QED BY <2>1, <2>2, <2>3, <2>4, WhatTheReaderHolds DEF PipeInv
<1>5. Whole(written)'
  <2>1. CASE WriteFrame
    <3>1. /\ written \in Seq(1..Len(sent))
          /\ oframe.chunks \in Seq(1..Len(sent))
          /\ written' = written \o oframe.chunks /\ UNCHANGED sent
      BY <2>1, PipeType DEF WriteFrame, OutputKeeps, upVars
    <3>2. Whole(oframe.chunks)
      BY <1>2 DEF InFlight
    <3>a. /\ oframe.chunks = <<>> => written' = written
          /\ oframe.chunks # <<>> => /\ written' # <<>>
                                     /\ Last(written') = Last(oframe.chunks)
      BY <3>1, LastOfConcat
    <3>3. Whole(written')
      BY <1>2, <3>2, <3>a DEF Whole
    <3> QED BY <3>1, <3>3 DEF Whole
  <2>2. CASE UNCHANGED written
    <3>1. written \in Seq(1..Len(sent))
      BY PipeType
    <3> QED BY <1>2, <1>3, <2>2, <3>1 DEF Whole
  <2>3. WriteFrame \/ UNCHANGED written
    BY WhoMoves DEF Output, TakeFrame, WriteFails, FailClosesBody,
       FailCancels, FailReports, WriteDone, outVars
  <2> QED BY <2>1, <2>2, <2>3
<1>6. ASSUME NEW f, InFlight(f)' PROVE Whole(f.chunks)'
  <2>1. CASE InFlight(f)
    <3>1. f.chunks \in Seq(1..Len(sent))
      BY <2>1, PipeType DEF InFlight
    <3> QED BY <1>2, <1>3, <2>1, <3>1
  <2>2. CASE f = Keepalive
    BY <2>2, PlacesOfNone DEF Whole
  <2>3. CASE f = hold
    <3>1. hold.chunks \in Seq(1..Len(sent))
      BY PipeType
    <3> QED BY <1>2, <1>3, <2>3, <3>1
  <2> QED BY <1>6, <2>1, <2>2, <2>3, FlightStep
<1> QED BY <1>4, <1>5, <1>6

(* Nothing the proxy writes of its own - a keepalive, the error frame and  *)
(* the abnormal finish - lands in the middle of an event of an openai      *)
(* stream, unless the upstream ended its stream there: the filter holds a  *)
(* half event back (sse.go:253-290).                                       *)
THEOREM EventsOfOpenAIStayWhole == Spec => OpenAIEventsStayWhole
<1> DEFINE P == format = "openai" /\ WritesOwnFrame => ~Torn \/ upEnd = "eof"
<1>1. Init => WholeInv
  <2> SUFFICES ASSUME Init PROVE WholeInv
    OBVIOUS
  <2>1. /\ Len(frameCh) = 0 /\ 1..0 = {} /\ written = <<>>
        /\ hold.chunks = <<>> /\ oframe.chunks = <<>>
    BY EmptySeq DEF Init, Keepalive
  <2>2. \A f : InFlight(f) => f = oframe
    BY <2>1 DEF InFlight
  <2> QED BY <2>1, <2>2 DEF WholeInv, Whole
<1>2. TypeOK /\ TypeOK' /\ BlameInv /\ PipeInv /\ PipeInv' /\ WholeInv
        /\ [Next]_vars => WholeInv'
  BY WholeStep
<1>3. WholeInv => [P]_vars
  BY DEF WholeInv, Whole, Torn
<1>4. Spec => [][P]_vars
  BY <1>1, <1>2, <1>3, PipeAlways, PTL DEF Spec
<1> QED BY <1>4 DEF OpenAIEventsStayWhole

-----------------------------------------------------------------------------
(* Ascending lists.  The k-th of a list's places has rank k among them, so *)
(* the list is found back from the set.                                    *)
LEMMA ListBijection ==
  ASSUME NEW n \in Nat, NEW c \in Seq(1..n), Ascending(c), NEW k \in 0..Len(c)
  PROVE  LET B == {c[i] : i \in 1..k}
         IN  IsFiniteSet(B) /\ Cardinality(B) = k
<1> DEFINE B == {c[i] : i \in 1..k}
           f == [i \in 1..k |-> c[i]]
<1>1. /\ DOMAIN c = 1..Len(c) /\ Len(c) \in Nat
      /\ 1..k \subseteq 1..Len(c) /\ k \in Nat
      /\ \A i \in 1..Len(c) : c[i] \in Nat
  BY LenProperties, ElementOfSeq
<1>2. ASSUME NEW i \in 1..k, NEW j \in 1..k, c[i] = c[j] PROVE i = j
  <2>1. /\ i < j => c[i] < c[j]
        /\ j < i => c[j] < c[i]
    BY <1>1 DEF Ascending
  <2>2. ~(c[i] < c[j]) /\ ~(c[j] < c[i])
    BY <1>1, <1>2
  <2> QED BY <1>1, <2>1, <2>2
<1>3. f \in Bijection(1..k, B)
  BY <1>2 DEF Bijection, Injection, Surjection, IsInjective
<1>4. ExistsBijection(1..k, B)
  BY <1>3 DEF ExistsBijection
<1>5. IsFiniteSet(1..k) /\ Cardinality(1..k) = k
  BY <1>1, FS_Interval
<1> QED BY <1>4, <1>5, FS_Bijection

LEMMA RankOfListed ==
  ASSUME NEW n \in Nat, NEW c \in Seq(1..n), Ascending(c), NEW k \in 1..Len(c)
  PROVE  Rank(c[k], Places(c)) = k
<1>1. /\ DOMAIN c = 1..Len(c) /\ Len(c) \in Nat
      /\ \A i \in 1..Len(c) : c[i] \in Nat
  BY LenProperties, ElementOfSeq
<1>2. ASSUME NEW i \in 1..Len(c) PROVE c[i] <= c[k] <=> i \in 1..k
  <2>1. /\ i < k => c[i] < c[k]
        /\ k < i => c[k] < c[i]
    BY <1>1 DEF Ascending
  <2> QED BY <1>1, <2>1
<1>3. {j \in Places(c) : j <= c[k]} = {c[i] : i \in 1..k}
  <2>1. 1..k \subseteq 1..Len(c)
    BY <1>1
  <2> QED BY <1>1, <1>2, <2>1 DEF Places
<1>4. k \in 0..Len(c)
  BY <1>1
<1>5. Cardinality({c[i] : i \in 1..k}) = k
  BY <1>4, ListBijection
<1>6. Rank(c[k], Places(c)) = Cardinality({j \in Places(c) : j <= c[k]})
  BY DEF Rank
<1> QED BY <1>3, <1>5, <1>6

LEMMA RankedListing ==
  ASSUME NEW n \in Nat, NEW c \in Seq(1..n), Ascending(c)
  PROVE  Ranked(Places(c)) = c
<1>1. /\ DOMAIN c = 1..Len(c) /\ Len(c) \in Nat
      /\ c = [k \in 1..Len(c) |-> c[k]]
  BY LenProperties
<1>2. Places(c) = {c[i] : i \in 1..Len(c)} /\ Len(c) \in 0..Len(c)
  BY <1>1 DEF Places
<1>3. Cardinality(Places(c)) = Len(c)
  BY <1>2, ListBijection
<1>4. ASSUME NEW k \in 1..Len(c)
      PROVE  (CHOOSE i \in Places(c) : Rank(i, Places(c)) = k) = c[k]
  <2>1. c[k] \in Places(c) /\ Rank(c[k], Places(c)) = k
    BY <1>2, RankOfListed
  <2>2. ASSUME NEW i \in Places(c), Rank(i, Places(c)) = k PROVE i = c[k]
    <3>1. PICK j \in 1..Len(c) : i = c[j]
      BY <1>2
    <3> QED BY <2>2, <3>1, RankOfListed
  <2> QED BY <2>1, <2>2
<1> QED BY <1>1, <1>3, <1>4 DEF Ranked

(* A list of a beginning is a beginning of the list.                       *)
LEMMA BeginningOfListing ==
  ASSUME NEW n \in Nat, NEW c \in Seq(1..n), NEW t \in Seq(1..n),
         Ascending(c), Ascending(t), Places(c) \subseteq Places(t),
         \A x \in Places(c) : \A y \in Places(t) : y <= x => y \in Places(c)
  PROVE  /\ Len(c) <= Len(t)
         /\ \A k \in 1..Len(c) : c[k] = t[k]
         /\ Places(t) \subseteq Places(c) => c = t
<1>1. /\ DOMAIN c = 1..Len(c) /\ Len(c) \in Nat
      /\ DOMAIN t = 1..Len(t) /\ Len(t) \in Nat
      /\ c = [k \in 1..Len(c) |-> c[k]] /\ t = [k \in 1..Len(t) |-> t[k]]
  BY LenProperties
<1>2. ASSUME NEW k \in 1..Len(c) PROVE k \in 1..Len(t) /\ c[k] = t[k]
  <2>1. c[k] \in Places(c)
    BY <1>1 DEF Places
  <2>2. {j \in Places(t) : j <= c[k]} = {j \in Places(c) : j <= c[k]}
    BY <2>1
  <2>3. Rank(c[k], Places(t)) = k
    BY <2>2, RankOfListed DEF Rank
  <2>4. PICK j \in 1..Len(t) : c[k] = t[j]
    BY <1>1, <2>1 DEF Places
  <2>5. Rank(t[j], Places(t)) = j
    BY RankOfListed
  <2> QED BY <2>3, <2>4, <2>5
<1>3. Len(c) <= Len(t)
  <2>1. CASE Len(c) = 0
    BY <1>1, <2>1
  <2>2. CASE Len(c) # 0
    <3>1. Len(c) \in 1..Len(c)
      BY <1>1, <2>2
    <3>2. Len(c) \in 1..Len(t)
      BY <1>2, <3>1
    <3> QED BY <1>1, <3>2
  <2> QED BY <2>1, <2>2
<1>4. ASSUME Places(t) \subseteq Places(c) PROVE c = t
  <2>1. Places(c) = Places(t)
    BY <1>4
  <2> QED BY <2>1, RankedListing
<1> QED BY <1>2, <1>3, <1>4

-----------------------------------------------------------------------------
(* The pump implements SseStream.  What is to be forwarded can be listed,  *)
(* and grows at its end.                                                   *)
IsListing(t) ==
  t \in Seq(1..Len(sent)) /\ Ascending(t) /\ Places(t) = Forwardable

Listed == \E t : IsListing(t)

LEMMA ListingGrows ==
  ASSUME TypeOK, UpstreamSends, NEW t, IsListing(t)
  PROVE  /\ Len(sent)' \in 1..MaxChunks
         /\ \E u : IsListing(u)' /\ (u = t \/ u = Append(t, Len(sent)'))
<1> DEFINE n == Len(sent)
<1>1. /\ n \in Nat /\ Len(sent)' = n + 1
      /\ \A i \in 1..n : i \in Forwardable' <=> i \in Forwardable
      /\ Forwardable' \subseteq Forwardable \cup {n + 1}
      /\ Forwardable \subseteq Forwardable' /\ Forwardable \subseteq 1..n
  BY StreamGrows, ForwardablePlaces
<1>2. n + 1 \in 1..MaxChunks
  BY <1>1, PumpAssumption DEF UpstreamSends
<1>3. t \in Seq(1..(n + 1)) /\ Ascending(t) /\ Places(t) = Forwardable
  <2>1. 1..n \subseteq 1..(n + 1)
    BY <1>1
  <2> QED BY <2>1, SeqMonotonic DEF IsListing
<1>4. CASE n + 1 \notin Forwardable'
  <2>1. Forwardable' = Forwardable
    BY <1>1, <1>4
  <2>2. IsListing(t)'
    BY <1>1, <1>3, <2>1 DEF IsListing
  <2> QED BY <1>1, <1>2, <2>2
<1>5. CASE n + 1 \in Forwardable'
  <2>1. Forwardable' = Forwardable \cup {n + 1}
    BY <1>1, <1>5
  <2>a. <<n + 1>> \in Seq(1..(n + 1))
    BY <1>1
  <2>2. PICK d \in Seq(1..(n + 1)) : d = <<n + 1>>
    BY <2>a
  <2>3. Places(d) = {n + 1} /\ Ascending(d)
    BY <2>2 DEF Places, Ascending
  <2>4. Before(t, d)
    <3>1. ASSUME NEW x \in Places(t) PROVE x < n + 1
      <4>1. x \in 1..n
        BY <1>1, <1>3, <3>1
      <4> QED BY <1>1, <4>1
    <3> QED BY <2>3, <3>1 DEF Before
  <2>5. Append(t, n + 1) = t \o d
    BY <1>1, <1>3, <2>2, AppendIsConcat
  <2>6. Append(t, n + 1) \in Seq(1..(n + 1))
    BY <1>1, <1>3, AppendProperties
  <2>7. n + 1 \in Nat
    BY <1>1
  <2>8. Ascending(t \o d) /\ Places(t \o d) = Places(t) \cup Places(d)
    BY <1>3, <2>3, <2>4, <2>7, AscendingConcat, PlacesOfConcat
  <2>9. PICK u : u = Append(t, n + 1)
    OBVIOUS
  <2>10. IsListing(u)'
    BY <1>1, <1>3, <2>1, <2>3, <2>5, <2>6, <2>8, <2>9 DEF IsListing
  <2> QED BY <1>1, <1>2, <2>9, <2>10
<1> QED BY <1>4, <1>5

LEMMA ListedStep ==
  ASSUME TypeOK, Listed, [Next]_vars
  PROVE  Listed'
<1>1. PICK t : IsListing(t)
  BY DEF Listed
<1>2. CASE UpstreamSends
  BY <1>1, <1>2, ListingGrows DEF Listed
<1>3. CASE ~UpstreamSends
  <2>1. IsListing(t)'
    BY <1>1, <1>3, WhoSends, StreamKept DEF IsListing
  <2> QED BY <2>1 DEF Listed
<1> QED BY <1>2, <1>3

LEMMA OfferedIsListed ==
  ASSUME TypeOK, NEW t, IsListing(t)
  PROVE  Ranked(Forwardable) = t
BY ForwardablePlaces, RankedListing DEF IsListing

(* What the client has got is a beginning of it.                           *)
Begins(t) ==
  /\ Len(written) <= Len(t) /\ Len(written) \in Nat /\ Len(t) \in Nat
  /\ written \in Seq(1..Len(sent)) /\ t \in Seq(1..Len(sent))
  /\ \A k \in 1..Len(written) : written[k] = t[k]
  /\ Forwardable \subseteq Places(written) => written = t

WrittenBegin == \A t : IsListing(t) => Begins(t)

LEMMA WrittenBegins == TypeOK /\ WrittenInOrder => WrittenBegin
<1> SUFFICES ASSUME TypeOK, WrittenInOrder, NEW t, IsListing(t)
             PROVE  Begins(t)
  BY DEF WrittenBegin
<1>1. /\ Len(sent) \in Nat /\ written \in Seq(1..Len(sent))
      /\ t \in Seq(1..Len(sent)) /\ Ascending(t) /\ Places(t) = Forwardable
  BY PipeType DEF IsListing
<1>2. /\ Ascending(written) /\ Places(written) \subseteq Places(t)
      /\ \A x \in Places(written) :
           \A y \in Places(t) : y <= x => y \in Places(written)
  BY <1>1 DEF WrittenInOrder
<1> QED BY <1>1, <1>2, BeginningOfListing, LenProperties DEF Begins

LEMMA PrefixAsSubSeq ==
  ASSUME NEW S, NEW c \in Seq(S), NEW t \in Seq(S), Len(c) <= Len(t),
         \A k \in 1..Len(c) : c[k] = t[k]
  PROVE  SubSeq(t, 1, Len(c)) = c
<1>1. Len(c) \in Nat /\ Len(t) \in Nat /\ 1..Len(c) \subseteq 1..Len(t)
  BY LenProperties
<1>2. \A k \in 1..Len(c) : t[k] \in S
  BY <1>1, ElementOfSeq
<1>3. /\ SubSeq(t, 1, Len(c)) \in Seq(S)
      /\ Len(SubSeq(t, 1, Len(c))) = Len(c)
      /\ \A k \in 1..Len(c) : SubSeq(t, 1, Len(c))[k] = t[k]
  <2>1. /\ SubSeq(t, 1, Len(c)) \in Seq(S)
        /\ Len(SubSeq(t, 1, Len(c))) =
             IF 1 <= Len(c) THEN Len(c) - 1 + 1 ELSE 0
        /\ \A k \in 1..(Len(c) - 1 + 1) : SubSeq(t, 1, Len(c))[k] = t[1 + k - 1]
    BY <1>1, <1>2, SubSeqProperties
  <2> QED BY <1>1, <2>1
<1> QED BY <1>3, SeqEqual

LEMMA Delivers ==
  ASSUME TypeOK, TypeOK', PipeInv, PipeInv', Listed, WriteFrame
  PROVE  \/ UNCHANGED written
         \/ \E n \in 1..Len(Ranked(Forwardable)) :
              /\ IsPrefix(written, SubSeq(Ranked(Forwardable), 1, n))
              /\ written' = SubSeq(Ranked(Forwardable), 1, n)
<1>1. PICK t : IsListing(t)
  BY DEF Listed
<1>2. UNCHANGED <<format, sent>>
  BY DEF WriteFrame, OutputKeeps, upVars
<1>3. Ranked(Forwardable) = t
  BY <1>1, OfferedIsListed
<1>4. IsListing(t)'
  BY <1>1, <1>2, StreamKept DEF IsListing
<1>5. /\ Len(written') <= Len(t) /\ written' \in Seq(1..Len(sent))
      /\ Len(written') \in Nat /\ t \in Seq(1..Len(sent))
      /\ \A k \in 1..Len(written') : written'[k] = t[k]
  <2>1. WrittenInOrder'
    BY DEF PipeInv, Flow
  <2>2. WrittenBegin'
    BY <2>1, WrittenBegins, PTL
  <2>3. Begins(t)'
    BY <1>4, <2>2 DEF WrittenBegin
  <2> QED BY <1>2, <2>3 DEF Begins
<1>6. written' = SubSeq(t, 1, Len(written'))
  BY <1>5, PrefixAsSubSeq
<1>7. /\ written \in Seq(1..Len(sent)) /\ oframe.chunks \in Seq(1..Len(sent))
      /\ written' = written \o oframe.chunks
  BY PipeType DEF WriteFrame
<1>8. IsPrefix(written, written')
  <2>1. /\ Len(written) <= Len(written')
        /\ \A k \in 1..Len(written) : written[k] = written'[k]
    BY <1>7, ConcatProperties, LenProperties
  <2>2. SubSeq(written', 1, Len(written)) = written
    BY <1>5, <1>7, <2>1, PrefixAsSubSeq
  <2>3. SubSeq(written, 1, Len(written)) = written
    BY <1>7, PrefixAsSubSeq, LenProperties
  <2> QED BY <2>1, <2>2, <2>3 DEF IsPrefix
<1>9. CASE Len(written') = 0
  <2>1. written' = <<>> /\ Len(written) = 0
    BY <1>5, <1>7, <1>8, <1>9, EmptySeq, LenProperties DEF IsPrefix
  <2> QED BY <1>7, <2>1, EmptySeq
<1>10. CASE Len(written') # 0
  <2>1. Len(written') \in 1..Len(t)
    BY <1>5, <1>10, LenProperties
  <2> QED BY <1>3, <1>6, <1>8, <2>1
<1> QED BY <1>9, <1>10

LEMMA NoResultIsNotOk == NoResult.error # Ok
BY DEF NoResult, Ok

LEMMA RefinesInit == Init => Stream!Init
<1> SUFFICES ASSUME Init PROVE Stream!Init
  OBVIOUS
<1>1. /\ Len(sent) = 0 /\ 1..0 = {} /\ upEnd = "none" /\ written = <<>>
      /\ result = NoResult
  BY EmptySeq DEF Init
<1>2. Forwardable = {}
  BY <1>1 DEF Forwardable
<1>3. <<>> \in Seq(1..0) /\ 0 \in Nat
  BY EmptySeq
<1>4. PICK t \in Seq(1..0) : t = <<>>
  BY <1>3
<1>5. Places(t) = {} /\ Ascending(t)
  BY <1>4, PlacesOfNone
<1>6. Ranked({}) = <<>>
  BY <1>3, <1>4, <1>5, RankedListing
<1> QED BY <1>1, <1>2, <1>6, NoResultIsNotOk DEF Stream!Init

(* A step that neither the stream nor the client sees.                     *)
LEMMA RefinesStutter ==
  ASSUME UNCHANGED <<format, sent, upEnd, written, result>>
  PROVE  UNCHANGED Stream!vars
BY StreamKept DEF Stream!vars

LEMMA RefinesStep ==
  ASSUME TypeOK, TypeOK', BlameInv, PipeInv, PipeInv', DoneIsLast, VerdictInv,
         VerdictInv', Listed, Listed', [Next]_vars
  PROVE  [Stream!Next]_(Stream!vars)
<1> USE DEF PipeInv
<1>1. CASE UpstreamSends
  <2>1. PICK t : IsListing(t)
    BY DEF Listed
  <2>2. PICK u : IsListing(u)' /\ (u = t \/ u = Append(t, Len(sent)'))
    BY <1>1, <2>1, ListingGrows
  <2>3. Len(sent)' \in 1..MaxChunks
    BY <1>1, <2>1, ListingGrows
  <2>4. Ranked(Forwardable) = t
    BY <2>1, OfferedIsListed
  <2>5. Ranked(Forwardable') = u
    <3>1. Len(sent)' \in Nat
      BY <2>3
    <3>2. u \in Seq(1..Len(sent)') /\ Ascending(u) /\ Places(u) = Forwardable'
      BY <2>2 DEF IsListing
    <3> QED BY <3>1, <3>2, RankedListing
  <2>6. \/ \E c \in 1..MaxChunks :
             Ranked(Forwardable') = Append(Ranked(Forwardable), c)
        \/ Ranked(Forwardable') = Ranked(Forwardable)
    BY <2>2, <2>3, <2>4, <2>5
  <2>7. /\ UNCHANGED <<written, result>> /\ upEnd = "none"
        /\ upEnd' \in {"none", "eof", "cut", "error"}
    BY <1>1 DEF UpstreamSends, outVars
  <2>8. Stream!Offer
    BY <2>6, <2>7 DEF Stream!Offer
  <2> QED BY <2>8 DEF Stream!Next
<1>2. CASE UpstreamEnds
  <2>1. UNCHANGED <<format, sent, written, result>>
    BY <1>2 DEF UpstreamEnds, outVars
  <2>2. CASE upEnd = "none"
    <3>1. upEnd' \in {"eof", "cut", "error"} /\ Forwardable' = Forwardable
      BY <1>2, <2>1, <2>2, StreamKept DEF UpstreamEnds
    <3>2. Stream!Offer
      BY <2>1, <2>2, <3>1 DEF Stream!Offer
    <3> QED BY <3>2 DEF Stream!Next
  <2>3. CASE upEnd # "none"
    BY <1>2, <2>1, <2>3, RefinesStutter DEF UpstreamEnds
  <2> QED BY <2>2, <2>3
<1>3. CASE WriteFrame
  <2>1. /\ UNCHANGED <<format, sent, upEnd, result>> /\ opc = "write"
    BY <1>3 DEF WriteFrame, OutputKeeps, upVars
  <2>2. result = NoResult /\ Forwardable' = Forwardable
    BY <2>1, StreamKept DEF OutputShape
  <2>3. CASE UNCHANGED written
    BY <2>1, <2>3, RefinesStutter
  <2>4. CASE \E n \in 1..Len(Ranked(Forwardable)) :
               /\ IsPrefix(written, SubSeq(Ranked(Forwardable), 1, n))
               /\ written' = SubSeq(Ranked(Forwardable), 1, n)
    <3>1. Stream!Deliver
      BY <2>1, <2>2, <2>4, NoResultIsNotOk
         DEF Stream!Deliver, Stream!IsPrefix, IsPrefix
    <3> QED BY <3>1 DEF Stream!Next
  <2> QED BY <1>3, <2>3, <2>4, Delivers
<1>4. CASE WriteDone
  <2>1. /\ UNCHANGED <<format, sent, upEnd, written>> /\ opc = "write"
        /\ result' = oframe.result /\ opc' = "exit"
    BY <1>4 DEF WriteDone, OutputKeeps, upVars
  <2>2. result = NoResult /\ result' # NoResult /\ Forwardable' = Forwardable
    BY <2>1, StreamKept DEF OutputShape
  <2>3. CASE result'.error = Ok
    <3>1. upEnd = "eof" /\ Forwardable \subseteq Places(written)
      BY <2>1, <2>2, <2>3 DEF VerdictInv
    <3>2. PICK t : IsListing(t)
      BY DEF Listed
    <3>3. WrittenInOrder
      BY DEF Flow
    <3>4. Ranked(Forwardable) = t /\ written = t
      BY <3>1, <3>2, <3>3, OfferedIsListed, WrittenBegins
         DEF Begins, WrittenBegin
    <3>5. Stream!Complete
      BY <2>1, <2>2, <2>3, <3>1, <3>4, NoResultIsNotOk DEF Stream!Complete
    <3> QED BY <3>5 DEF Stream!Next
  <2>4. CASE result'.error # Ok
    <3>1. Stream!Fail
      BY <2>1, <2>2, <2>4, NoResultIsNotOk DEF Stream!Fail
    <3> QED BY <3>1 DEF Stream!Next
  <2> QED BY <2>3, <2>4
<1>5. CASE FailReports
  <2>1. /\ UNCHANGED <<format, sent, upEnd, written>> /\ opc = "report"
        /\ result' = [error |-> "client_write_failed", empty |-> FALSE]
    BY <1>5 DEF FailReports, OutputKeeps, upVars
  <2>2. result = NoResult /\ Forwardable' = Forwardable
    BY <2>1, StreamKept DEF OutputShape
  <2>3. result' # NoResult /\ result'.error # Ok
    <3>1. result'.error = "client_write_failed"
      BY <2>1
    <3>2. "client_write_failed" # Ok /\ NoResult.error = "none"
      BY DEF Ok, NoResult
    <3> QED BY <3>1, <3>2
  <2>4. Stream!Fail
    BY <2>1, <2>2, <2>3, NoResultIsNotOk DEF Stream!Fail
  <2> QED BY <2>4 DEF Stream!Next
<1>6. CASE ~UpstreamSends /\ ~UpstreamEnds /\ ~WriteFrame /\ ~WriteDone
             /\ ~FailReports
  <2>1. UNCHANGED <<format, sent>>
    BY <1>6, WhoSends
  <2>2. UNCHANGED <<written, result>>
    BY <1>6, WhoMoves DEF Output, TakeFrame, WriteFails, FailClosesBody,
       FailCancels, outVars
  <2>3. UNCHANGED upEnd
    <3>1. CASE ReadReturns
      BY <1>6, <3>1 DEF ReadReturns, ReadFails, upVars
    <3>2. CASE Output
      BY <3>2 DEF Output, TakeFrame, WriteFrame, WriteFails, FailClosesBody,
         FailCancels, FailReports, WriteDone, OutputKeeps, upVars
    <3>3. CASE Watchdog
      BY <3>3 DEF Watchdog, WatchdogTick, WatchdogStops, WatchdogTrips,
         WatchdogCloses, WatchdogCancels, WatchdogKeeps, upVars
    <3>4. CASE Reader
      BY <3>4 DEF Reader, TakeChunk, SeeCancel, JudgeEof, JudgeIdle,
         JudgeContext, JudgeClosed, CtxCancel, CtxReason, OthersKeep, upVars
    <3>5. CASE ReaderSends
      BY <3>5 DEF ReaderSends, SendChunk, SendPending, SendDone, OthersKeep,
         upVars
    <3>6. CASE \/ ClientLeaves \/ CancelReaches \/ PumpReturns
               \/ KeepaliveTick \/ KeepaliveStops
      BY <3>6 DEF ClientLeaves, CancelReaches, PumpReturns, KeepaliveTick,
         KeepaliveStops, upVars
    <3>7. CASE UNCHANGED vars
      BY <3>7 DEF vars, upVars
    <3> QED BY <3>1, <3>2, <3>3, <3>4, <3>5, <3>6, <3>7 DEF Next
  <2> QED BY <2>1, <2>2, <2>3, RefinesStutter
<1> QED BY <1>1, <1>2, <1>3, <1>4, <1>5, <1>6

(* The pump keeps the promise of module SseStream: the client gets the     *)
(* chunks it is to get in the order of the stream and without a gap,       *)
(* nothing after the outcome, and a result of 200 means that the upstream  *)
(* ended the stream and that every chunk has been delivered - with any     *)
(* capacity of the queue, for any stream, and whatever the client, the     *)
(* watchdog and the teardown do in between (sse.go:305-306).               *)
THEOREM PumpImplementsStream == Spec => ImplementsSseStream
<1>1. Init => Listed
  <2> SUFFICES ASSUME Init PROVE Listed
    OBVIOUS
  <2>1. Len(sent) = 0 /\ 1..0 = {} /\ <<>> \in Seq(1..0)
    BY EmptySeq DEF Init
  <2>2. Forwardable = {}
    BY <2>1 DEF Forwardable
  <2>3. IsListing(<<>>)
    BY <2>1, <2>2, PlacesOfNone DEF IsListing
  <2> QED BY <2>3 DEF Listed
<1>2. TypeOK /\ Listed /\ [Next]_vars => Listed'
  BY ListedStep
<1>3. Spec => []Listed
  BY <1>1, <1>2, TypeCorrect, PTL DEF Spec
<1>4. TypeOK /\ TypeOK' /\ BlameInv /\ PipeInv /\ PipeInv' /\ DoneIsLast
        /\ VerdictInv /\ VerdictInv' /\ Listed /\ Listed' /\ [Next]_vars
        => [Stream!Next]_(Stream!vars)
  BY RefinesStep
<1>5. Spec => Stream!Init /\ [][Stream!Next]_(Stream!vars)
  BY <1>3, <1>4, RefinesInit, PipeAlways, VerdictAlways, PTL DEF Spec
<1> QED BY <1>5 DEF ImplementsSseStream, Stream!Spec

=============================================================================
