--------------------------- MODULE HandlerProofs ---------------------------
(***************************************************************************)
(* Theorems about the request path, for any number of concurrent requests, *)
(* any retry configuration and any threshold of the breaker.               *)
(***************************************************************************)
EXTENDS Handler, FiniteSetTheorems, TLAPS

(* Handler.Active.  Three kinds of step: into the retry loop, out of it,   *)
(* and any other, which leaves the set of requests in it as it is.         *)
Inside == {r \in Requests : pc[r] \in InFlight}

LEMMA InsideFinite == IsFiniteSet(Inside)
BY RequestsAssumption, FS_Subset DEF Inside

LEMMA Leaves ==
  ASSUME TypeOK, ActiveCountsInFlight, NEW r \in Requests,
         pc[r] \in InFlight, Return(r)
  PROVE  ActiveCountsInFlight'
<1>1. Inside' = Inside \ {r} /\ r \in Inside
  BY DEF Inside, Return, Goto, InFlight, Waits, TypeOK
<1>2. Cardinality(Inside') = Cardinality(Inside) - 1
  BY <1>1, InsideFinite, FS_RemoveElement
<1> QED
  BY <1>2 DEF ActiveCountsInFlight, Inside, Return

LEMMA Enters ==
  ASSUME TypeOK, ActiveCountsInFlight, NEW r \in Requests,
         pc[r] \notin InFlight, Goto(r, "loop"), active' = active + 1
  PROVE  ActiveCountsInFlight'
<1>1. Inside' = Inside \cup {r} /\ r \notin Inside
  BY DEF Inside, Goto, InFlight, Waits, TypeOK
<1>2. Cardinality(Inside') = Cardinality(Inside) + 1
  BY <1>1, InsideFinite, FS_AddElement
<1> QED
  BY <1>2 DEF ActiveCountsInFlight, Inside

LEMMA Stays ==
  ASSUME TypeOK, ActiveCountsInFlight, NEW r \in Requests, NEW label,
         pc[r] \in InFlight <=> label \in InFlight,
         Goto(r, label), UNCHANGED active
  PROVE  ActiveCountsInFlight'
<1>1. Inside' = Inside
  BY DEF Inside, Goto, TypeOK
<1> QED
  BY <1>1 DEF ActiveCountsInFlight, Inside

LEMMA ActiveInit == Init => ActiveCountsInFlight
<1> SUFFICES ASSUME Init PROVE ActiveCountsInFlight
  OBVIOUS
<1>1. Inside = {}
  BY DEF Init, Inside, InFlight, Waits
<1> QED
  BY <1>1, FS_EmptySet DEF Init, ActiveCountsInFlight, Inside

LEMMA ActiveNext ==
  TypeOK /\ ActiveCountsInFlight /\ [Next]_vars => ActiveCountsInFlight'
<1> SUFFICES ASSUME TypeOK, ActiveCountsInFlight, [Next]_vars
             PROVE  ActiveCountsInFlight'
  OBVIOUS
<1> USE DEF InFlight, Waits
<1>1. ASSUME NEW r \in Requests, Arrive(r)
     PROVE  ActiveCountsInFlight'
  BY <1>1, Stays DEF Arrive
<1>2. ASSUME NEW r \in Requests, RejectUpload(r)
     PROVE  ActiveCountsInFlight'
  BY <1>2, Stays DEF RejectUpload
<1>3. ASSUME NEW r \in Requests, UploadEnds(r)
     PROVE  ActiveCountsInFlight'
  BY <1>3, Stays DEF UploadEnds
<1>4. ASSUME NEW r \in Requests, Gate(r)
     PROVE  ActiveCountsInFlight'
  BY <1>4, Stays, Enters DEF Gate
<1>5. ASSUME NEW r \in Requests, LoopTop(r)
     PROVE  ActiveCountsInFlight'
  BY <1>5, Stays, Leaves DEF LoopTop
<1>6. ASSUME NEW r \in Requests,
           NEW retryable \in BOOLEAN, TransportError(r, retryable)
     PROVE  ActiveCountsInFlight'
  BY <1>6, Stays, Leaves DEF TransportError
<1>7. ASSUME NEW r \in Requests,
           NEW a \in Answers, Receive(r, a)
     PROVE  ActiveCountsInFlight'
  BY <1>7, Stays DEF Receive
<1>8. ASSUME NEW r \in Requests,
           NEW end \in BodyEnds(r), Judge(r, end)
     PROVE  ActiveCountsInFlight'
  BY <1>8, Stays, Leaves DEF Judge
<1>9. ASSUME NEW r \in Requests, Warmup(r)
     PROVE  ActiveCountsInFlight'
  BY <1>9, Stays DEF Warmup
<1>10. ASSUME NEW r \in Requests, Wake(r)
     PROVE  ActiveCountsInFlight'
  BY <1>10, Stays, Leaves DEF Wake
<1>11. ASSUME NEW r \in Requests,
           NEW end \in BodyEnds(r), Buffer(r, end)
     PROVE  ActiveCountsInFlight'
  BY <1>11, Stays, Leaves DEF Buffer
<1>12. ASSUME NEW r \in Requests,
           NEW end \in BodyEnds(r), Forward(r, end)
     PROVE  ActiveCountsInFlight'
  BY <1>12, Leaves DEF Forward
<1>13. ASSUME NEW r \in Requests, Deliver(r)
     PROVE  ActiveCountsInFlight'
  BY <1>13, Leaves DEF Deliver
<1>14. CASE UNCHANGED <<pc, active>>
  BY <1>14 DEF ActiveCountsInFlight
<1> QED
  BY <1>1, <1>2, <1>3, <1>4, <1>5, <1>6, <1>7, <1>8, <1>9, <1>10,
     <1>11, <1>12, <1>13, <1>14
  DEF Next, Prompt, Waiting, ClientLeaves, CooldownElapses, vars

-----------------------------------------------------------------------------
(* The types; that the counter stays a natural number takes its meaning.   *)
LEMMA TypeInit == Init => TypeOK
<1> SUFFICES ASSUME Init PROVE TypeOK
  OBVIOUS
<1>1. 0 \in 0 .. Threshold
  BY ThresholdAssumption
<1>2. tally \in [Requests -> [Counted -> Nat]]
  BY DEF Init
<1>3. /\ pc \in [Requests -> Waits \cup {"idle", "upload", "done"}]
      /\ gone \in [Requests -> BOOLEAN]
      /\ attempt \in [Requests -> Nat]
  BY DEF Init
<1>4. /\ answer \in [Requests -> Answers \cup {"none"}]
      /\ cause \in [Requests -> Causes]
      /\ marks \in [Requests -> SUBSET {"failed", "exhausted", "degraded"}]
  BY DEF Init, Causes
<1>5. open \in BOOLEAN
  BY Zenon DEF Init
<1>6. fails \in 0 .. Threshold /\ active \in Nat
  BY <1>1 DEF Init
<1> QED
  BY <1>2, <1>3, <1>4, <1>5, <1>6 DEF TypeOK

LEMMA TypeNext ==
  TypeOK /\ ActiveCountsInFlight /\ [Next]_vars => TypeOK'
<1> SUFFICES ASSUME TypeOK, ActiveCountsInFlight, [Next]_vars PROVE TypeOK'
  OBVIOUS
<1>a. active' \in Nat
  <2>1. active' = Cardinality(Inside')
    BY ActiveNext DEF ActiveCountsInFlight, Inside
  <2>2. IsFiniteSet(Inside')
    BY RequestsAssumption, FS_Subset DEF Inside
  <2> QED
    BY <2>1, <2>2, FS_CardinalityType
<1> USE <1>a
<1> USE ThresholdAssumption, RetryAssumption
    DEF TypeOK, Waits, Causes, Return, breakerVars
<1>t. ASSUME NEW r \in Requests, NEW counted, Tally(r, counted)
      PROVE  tally' \in [Requests -> [Counted -> Nat]]
  BY <1>t DEF Tally
<1>m. ASSUME NEW r \in Requests,
             NEW mark \in {"failed", "exhausted", "degraded"},
             MarkModel(r, mark)
      PROVE  marks' \in [Requests -> SUBSET {"failed", "exhausted", "degraded"}]
  BY <1>m DEF MarkModel
<1>b. ASSUME RecordFailure \/ RecordSuccess
      PROVE  fails' \in 0 .. Threshold /\ open' \in BOOLEAN
  <2>1. fails' \in 0 .. Threshold
    BY <1>b DEF RecordFailure, RecordSuccess
  <2>2. open' \in BOOLEAN
    BY <1>b, Zenon DEF RecordFailure, RecordSuccess
  <2> QED
    BY <2>1, <2>2
<1>e. ASSUME NEW r \in Requests, NEW end \in BodyEnds(r)
      PROVE  end \in Causes
  BY <1>e DEF BodyEnds
<1>p. ASSUME NEW r \in Requests,
             NEW label \in Waits \cup {"idle", "upload", "done"},
             Goto(r, label)
      PROVE  pc' \in [Requests -> Waits \cup {"idle", "upload", "done"}]
  BY <1>p DEF Goto
<1>1. CASE CooldownElapses
  BY <1>1 DEF CooldownElapses
<1>2. ASSUME NEW r \in Requests, Arrive(r) PROVE TypeOK'
  BY <1>2, <1>p DEF Arrive, Counted
<1>3. ASSUME NEW r \in Requests, ClientLeaves(r) PROVE TypeOK'
  BY <1>3 DEF ClientLeaves
<1>4. ASSUME NEW r \in Requests, RejectUpload(r) PROVE TypeOK'
  BY <1>4, <1>p, <1>t DEF RejectUpload
<1>5. ASSUME NEW r \in Requests, UploadEnds(r) PROVE TypeOK'
  BY <1>5, <1>p DEF UploadEnds
<1>6. ASSUME NEW r \in Requests, Gate(r) PROVE TypeOK'
  BY <1>6, <1>p, <1>t DEF Gate
<1>7. ASSUME NEW r \in Requests, LoopTop(r) PROVE TypeOK'
  BY <1>7, <1>p DEF LoopTop
<1>8. ASSUME NEW r \in Requests, NEW retryable \in BOOLEAN,
             TransportError(r, retryable)
      PROVE  TypeOK'
  BY <1>8, <1>p, <1>t, <1>m, <1>b DEF TransportError
<1>9. ASSUME NEW r \in Requests, NEW a \in Answers, Receive(r, a) PROVE TypeOK'
  BY <1>9, <1>p, <1>t, <1>m, <1>b DEF Receive
<1>10. ASSUME NEW r \in Requests, NEW end \in BodyEnds(r), Judge(r, end)
       PROVE  TypeOK'
  BY <1>10, <1>p, <1>t, <1>b, <1>e DEF Judge
<1>11. ASSUME NEW r \in Requests, Warmup(r) PROVE TypeOK'
  BY <1>11, <1>p DEF Warmup
<1>12. ASSUME NEW r \in Requests, Wake(r) PROVE TypeOK'
  BY <1>12, <1>p DEF Wake
<1>13. ASSUME NEW r \in Requests, NEW end \in BodyEnds(r), Buffer(r, end)
       PROVE  TypeOK'
  BY <1>13, <1>p, <1>t, <1>m, <1>b, <1>e DEF Buffer
<1>14. ASSUME NEW r \in Requests, NEW end \in BodyEnds(r), Forward(r, end)
       PROVE  TypeOK'
  BY <1>14, <1>p, <1>t, <1>e DEF Forward
<1>15. ASSUME NEW r \in Requests, Deliver(r) PROVE TypeOK'
  BY <1>15, <1>p, <1>t, <1>m DEF Deliver
<1>16. CASE UNCHANGED vars
  BY <1>16 DEF vars
<1> QED
  BY <1>1, <1>2, <1>3, <1>4, <1>5, <1>6, <1>7, <1>8, <1>9, <1>10, <1>11,
     <1>12, <1>13, <1>14, <1>15, <1>16 DEF Next, Prompt, Waiting

LEMMA TypeAndActive == Spec => [](TypeOK /\ ActiveCountsInFlight)
BY TypeInit, ActiveInit, TypeNext, ActiveNext, PTL DEF Spec

(* The request path keeps its types, and the counter of active requests    *)
(* never falls below 0 (handler.go:176).                                   *)
THEOREM TypeCorrect == Spec => []TypeOK
BY TypeAndActive, PTL

(* Handler.Active is the number of requests in the retry loop, and is 0    *)
(* again when the last of them has left (handler.go:176-177).              *)
THEOREM ActiveIsAccurate == Spec => []ActiveCountsInFlight
BY TypeAndActive, PTL

-----------------------------------------------------------------------------
(* What a request has counted at each stage of its life.  This is the      *)
(* inductive form of the four properties about replies, results and blame. *)
Untouched(r) == marks[r] = {} /\ \A c \in Counted : tally[r][c] = 0

Counts(r, reply, result) ==
  /\ tally[r]["local"] = 0
  /\ tally[r]["reply"] = reply
  /\ tally[r]["result"] = result

Answered(r) ==
  /\ tally[r]["local"] + tally[r]["reply"] <= 1
  /\ ~gone[r] => tally[r]["local"] + tally[r]["reply"] = 1
  /\ tally[r]["result"] = tally[r]["reply"]

Blamed(r) ==
  /\ tally[r]["failure"] + tally[r]["success"] <= 1
  /\ tally[r]["failure"] = 1 => cause[r] # "none" \/ answer[r] = "outage"
  /\ "failed" \in marks[r] => tally[r]["failure"] = 1

Stage(r) ==
  /\ pc[r] \in {"idle", "upload", "gate", "loop", "headers", "judge",
                "warmup", "buffer", "sleep"} => Untouched(r)
  /\ pc[r] = "forward" =>
       Counts(r, 0, 0) /\ Blamed(r) /\ tally[r]["failure"] = 0
  /\ pc[r] \in {"copy", "stream"} =>
       Counts(r, 1, 0) /\ Blamed(r) /\ tally[r]["failure"] = 0
  /\ pc[r] = "done" => Answered(r) /\ Blamed(r)

StageInv == \A r \in Requests : Stage(r)

(* A request's stage depends on nothing but its own part of the state.     *)
Unmoved(r) ==
  UNCHANGED <<pc[r], gone[r], answer[r], cause[r], tally[r], marks[r]>>

LEMMA StageFrame ==
  ASSUME StageInv, NEW r \in Requests, Stage(r)',
         \A o \in Requests \ {r} : Unmoved(o)
  PROVE  StageInv'
<1> SUFFICES ASSUME NEW o \in Requests, o # r PROVE Stage(o)'
  BY DEF StageInv
<1>1. Unmoved(o) /\ Stage(o)
  BY DEF StageInv
<1> QED
  BY <1>1 DEF Unmoved, Stage, Untouched, Counts, Answered, Blamed

LEMMA TallyOf ==
  ASSUME TypeOK, NEW r \in Requests, NEW counted, Tally(r, counted)
  PROVE  /\ \A c \in Counted :
              tally'[r][c] = IF c \in counted THEN tally[r][c] + 1
                                              ELSE tally[r][c]
         /\ \A o \in Requests \ {r} : tally'[o] = tally[o]
BY DEF Tally, TypeOK

LEMMA MarksOf ==
  ASSUME TypeOK, NEW r \in Requests, NEW mark, MarkModel(r, mark)
  PROVE  /\ marks'[r] \subseteq marks[r] \cup {mark}
         /\ \A o \in Requests \ {r} : marks'[o] = marks[o]
BY DEF MarkModel, TypeOK

(* The three ways a request goes on while it has counted nothing.          *)
LEMMA Continues ==
  ASSUME NEW r \in Requests, Untouched(r),
         UNCHANGED <<tally[r], marks[r]>>,
         \/ pc'[r] \in {"loop", "headers", "judge", "warmup", "buffer", "sleep"}
         \/ pc'[r] = "done" /\ gone'[r]
  PROVE  Stage(r)'
BY DEF Stage, Untouched, Answered, Blamed, Counted

LEMMA Ends ==
  ASSUME TypeOK, NEW r \in Requests, Untouched(r),
         Tally(r, {"reply", "result"}), marks' = marks, pc'[r] = "done"
  PROVE  Stage(r)'
BY TallyOf DEF Stage, Untouched, Answered, Blamed, Counted

LEMMA Blames ==
  ASSUME TypeOK, NEW r \in Requests, Untouched(r),
         Tally(r, {"reply", "result", "failure"}), pc'[r] = "done",
         cause'[r] # "none" \/ answer'[r] = "outage"
  PROVE  Stage(r)'
BY TallyOf DEF Stage, Untouched, Answered, Blamed, Counted

LEMMA StageNext == TypeOK /\ StageInv /\ [Next]_vars => StageInv'
<1> SUFFICES ASSUME TypeOK, StageInv, [Next]_vars PROVE StageInv'
  OBVIOUS
<1> USE DEF Goto, Return, breakerVars
<1>s. \A r \in Requests : Stage(r)
  BY DEF StageInv
<1>t. \A r \in Requests : \A c \in Counted : tally[r][c] \in Nat
  BY DEF TypeOK
<1>1. ASSUME NEW r \in Requests, Arrive(r)
      PROVE  StageInv'
  <2>1. Stage(r)'
    BY <1>1, <1>s, <1>t, TallyOf, MarksOf
    DEF Arrive, Stage, Untouched, Counts, Answered, Blamed, Counted, TypeOK
  <2>2. \A o \in Requests \ {r} : Unmoved(o)
    BY <1>1, TallyOf, MarksOf DEF Arrive, Unmoved, TypeOK
  <2> QED
    BY <2>1, <2>2, StageFrame
<1>2. ASSUME NEW r \in Requests, ClientLeaves(r)
      PROVE  StageInv'
  <2>1. Stage(r)'
    BY <1>2, <1>s, <1>t, TallyOf, MarksOf
    DEF ClientLeaves, Stage, Untouched, Counts, Answered, Blamed, Counted,
        TypeOK
  <2>2. \A o \in Requests \ {r} : Unmoved(o)
    BY <1>2, TallyOf, MarksOf DEF ClientLeaves, Unmoved, TypeOK
  <2> QED
    BY <2>1, <2>2, StageFrame
<1>3. ASSUME NEW r \in Requests, RejectUpload(r)
      PROVE  StageInv'
  <2>0. Untouched(r) /\ pc'[r] = "done" /\ marks' = marks /\ gone' = gone
    BY <1>3, <1>s DEF RejectUpload, Stage, TypeOK
  <2>1. Stage(r)'
    <3>1. CASE Tally(r, {"local"})
      BY <2>0, <3>1, TallyOf
      DEF Stage, Untouched, Answered, Blamed, Counted
    <3>2. CASE gone[r] /\ UNCHANGED tally
      BY <2>0, <3>2, Continues
    <3> QED
      BY <1>3, <3>1, <3>2 DEF RejectUpload
  <2>2. \A o \in Requests \ {r} : Unmoved(o)
    BY <1>3, TallyOf, MarksOf DEF RejectUpload, Unmoved, TypeOK
  <2> QED
    BY <2>1, <2>2, StageFrame
<1>4. ASSUME NEW r \in Requests, UploadEnds(r)
      PROVE  StageInv'
  <2>1. Stage(r)'
    BY <1>4, <1>s, <1>t, TallyOf, MarksOf
    DEF UploadEnds, Stage, Untouched, Counts, Answered, Blamed, Counted, TypeOK
  <2>2. \A o \in Requests \ {r} : Unmoved(o)
    BY <1>4, TallyOf, MarksOf DEF UploadEnds, Unmoved, TypeOK
  <2> QED
    BY <2>1, <2>2, StageFrame
<1>5. ASSUME NEW r \in Requests, Gate(r)
      PROVE  StageInv'
  <2>0. Untouched(r)
    BY <1>5, <1>s DEF Gate, Stage
  <2>1. Stage(r)'
    <3>1. CASE open
      BY <1>5, <2>0, <3>1, TallyOf
      DEF Gate, Stage, Untouched, Answered, Blamed, Counted, TypeOK
    <3>2. CASE ~open
      BY <1>5, <2>0, <3>2, Continues DEF Gate, TypeOK
    <3> QED
      BY <3>1, <3>2
  <2>2. \A o \in Requests \ {r} : Unmoved(o)
    BY <1>5, TallyOf, MarksOf DEF Gate, Unmoved, TypeOK
  <2> QED
    BY <2>1, <2>2, StageFrame
<1>6. ASSUME NEW r \in Requests, LoopTop(r)
      PROVE  StageInv'
  <2>1. Stage(r)'
    BY <1>6, <1>s, <1>t, TallyOf, MarksOf
    DEF LoopTop, Stage, Untouched, Counts, Answered, Blamed, Counted, TypeOK
  <2>2. \A o \in Requests \ {r} : Unmoved(o)
    BY <1>6, TallyOf, MarksOf DEF LoopTop, Unmoved, TypeOK
  <2> QED
    BY <2>1, <2>2, StageFrame
<1>7. ASSUME NEW r \in Requests,
             NEW retryable \in BOOLEAN, TransportError(r, retryable)
      PROVE  StageInv'
  <2>0. Untouched(r)
    BY <1>7, <1>s DEF TransportError, Stage
  <2>1. Stage(r)'
    <3>1. CASE gone[r]
      BY <1>7, <2>0, <3>1, Continues DEF TransportError, TypeOK
    <3>2. CASE ~gone[r] /\ retryable /\ CanRetry(r)
      BY <1>7, <2>0, <3>2, Continues DEF TransportError, TypeOK
    <3>3. CASE ~gone[r] /\ ~(retryable /\ CanRetry(r))
      <4>1. cause'[r] = "upstream" /\ pc'[r] = "done"
        BY <1>7, <3>3 DEF TransportError, TypeOK
      <4>2. Tally(r, {"reply", "result", "failure"})
        BY <1>7, <3>3 DEF TransportError
      <4> QED
        BY <2>0, <4>1, <4>2, Blames
    <3> QED
      BY <3>1, <3>2, <3>3
  <2>2. \A o \in Requests \ {r} : Unmoved(o)
    BY <1>7, TallyOf, MarksOf DEF TransportError, Unmoved, TypeOK
  <2> QED
    BY <2>1, <2>2, StageFrame
<1>8. ASSUME NEW r \in Requests,
             NEW a \in Answers, Receive(r, a)
      PROVE  StageInv'
  <2>0. Untouched(r)
    BY <1>8, <1>s DEF Receive, Stage
  <2>1. Stage(r)'
    <3>1. CASE ReadsBodyFirst(r, a)
      BY <1>8, <2>0, <3>1, Continues DEF Receive, TypeOK
    <3>2. CASE ~ReadsBodyFirst(r, a) /\ a \in Successes
      <4>1. pc'[r] = (CASE a = "ok" -> "copy" [] a = "sse" -> "stream"
                        [] OTHER -> "forward")
        BY <1>8, <3>2 DEF Receive, TypeOK
      <4>2. Tally(r, IF a = "moved" THEN {"success"}
                                    ELSE {"success", "reply"})
        BY <1>8, <3>2 DEF Receive
      <4>3. CASE a = "moved"
        <5>1. Tally(r, {"success"}) /\ pc'[r] = "forward" /\ marks' = marks
          BY <1>8, <3>2, <4>1, <4>2, <4>3 DEF Receive
        <5> QED
          BY <2>0, <5>1, TallyOf
          DEF Stage, Untouched, Counts, Blamed, Counted
      <4>4. CASE a # "moved"
        <5>1. /\ Tally(r, {"success", "reply"})
              /\ pc'[r] \in {"copy", "stream"}
              /\ marks' = marks
          BY <1>8, <3>2, <4>1, <4>2, <4>4 DEF Receive, Successes
        <5> QED
          BY <2>0, <5>1, TallyOf
          DEF Stage, Untouched, Counts, Blamed, Counted
      <4> QED
        BY <4>3, <4>4
    <3>3. CASE ~ReadsBodyFirst(r, a) /\ a \notin Successes
      <4>1. pc'[r] = "forward" /\ tally' = tally
        BY <1>8, <3>3 DEF Receive, TypeOK
      <4>2. "failed" \notin marks'[r]
        BY <1>8, <2>0, <3>3, MarksOf DEF Receive, Untouched
      <4> QED
        BY <2>0, <4>1, <4>2 DEF Stage, Untouched, Counts, Blamed, Counted
    <3> QED
      BY <3>1, <3>2, <3>3
  <2>2. \A o \in Requests \ {r} : Unmoved(o)
    BY <1>8, TallyOf, MarksOf DEF Receive, Unmoved, TypeOK
  <2> QED
    BY <2>1, <2>2, StageFrame
<1>9. ASSUME NEW r \in Requests,
             NEW end \in BodyEnds(r), Judge(r, end)
      PROVE  StageInv'
  <2>0. Untouched(r)
    BY <1>9, <1>s DEF Judge, Stage
  <2>1. Stage(r)'
    <3>1. CASE end # "none"
      <4>1. cause'[r] # "none" /\ pc'[r] = "done"
        BY <1>9, <3>1 DEF Judge, TypeOK
      <4>2. Tally(r, {"reply", "result", "failure"})
        BY <1>9, <3>1 DEF Judge
      <4> QED
        BY <2>0, <4>1, <4>2, Blames
    <3>2. CASE end = "none" /\ answer[r] = "denied"
      BY <1>9, <2>0, <3>2, Ends DEF Judge, TypeOK
    <3>3. CASE end = "none" /\ answer[r] = "waf"
      BY <1>9, <2>0, <3>3, Continues DEF Judge, TypeOK
    <3> QED
      BY <1>9, <3>1, <3>2, <3>3 DEF Judge
  <2>2. \A o \in Requests \ {r} : Unmoved(o)
    BY <1>9, TallyOf, MarksOf DEF Judge, Unmoved, TypeOK
  <2> QED
    BY <2>1, <2>2, StageFrame
<1>10. ASSUME NEW r \in Requests, Warmup(r)
      PROVE  StageInv'
  <2>1. Stage(r)'
    BY <1>10, <1>s, <1>t, TallyOf, MarksOf
    DEF Warmup, Stage, Untouched, Counts, Answered, Blamed, Counted, TypeOK
  <2>2. \A o \in Requests \ {r} : Unmoved(o)
    BY <1>10, TallyOf, MarksOf DEF Warmup, Unmoved, TypeOK
  <2> QED
    BY <2>1, <2>2, StageFrame
<1>11. ASSUME NEW r \in Requests, Wake(r)
      PROVE  StageInv'
  <2>1. Stage(r)'
    BY <1>11, <1>s, <1>t, TallyOf, MarksOf
    DEF Wake, Stage, Untouched, Counts, Answered, Blamed, Counted, TypeOK
  <2>2. \A o \in Requests \ {r} : Unmoved(o)
    BY <1>11, TallyOf, MarksOf DEF Wake, Unmoved, TypeOK
  <2> QED
    BY <2>1, <2>2, StageFrame
<1>12. ASSUME NEW r \in Requests,
             NEW end \in BodyEnds(r), Buffer(r, end)
      PROVE  StageInv'
  <2>0. Untouched(r)
    BY <1>12, <1>s DEF Buffer, Stage
  <2> DEFINE penalty == answer[r] \in Errors5xx /\ ~NoPenalty(r, end)
  <2>1. Stage(r)'
    <3>1. CASE penalty /\ RetryOn5xx /\ CanRetry(r)
      BY <1>12, <2>0, <3>1, Continues DEF Buffer, TypeOK
    <3>2. CASE penalty /\ ~(RetryOn5xx /\ CanRetry(r))
      <4>1. pc'[r] = "done" /\ cause'[r] = end /\ answer'[r] = answer[r]
        BY <1>12, <3>2 DEF Buffer, TypeOK
      <4>2. end # "none" \/ answer[r] = "outage"
        BY <3>2 DEF NoPenalty, Errors5xx
      <4>3. Tally(r, {"reply", "result", "failure"})
        BY <1>12, <3>2 DEF Buffer
      <4> QED
        BY <2>0, <4>1, <4>2, <4>3, Blames
    <3>3. CASE ~penalty
      <4>1. /\ Tally(r, {"reply", "result"})
            /\ marks' = marks
            /\ pc'[r] = "done"
        BY <1>12, <3>3 DEF Buffer, TypeOK
      <4> QED
        BY <2>0, <4>1, Ends
    <3> QED
      BY <3>1, <3>2, <3>3
  <2>2. \A o \in Requests \ {r} : Unmoved(o)
    BY <1>12, TallyOf, MarksOf DEF Buffer, Unmoved, TypeOK
  <2> QED
    BY <2>1, <2>2, StageFrame
<1>13. ASSUME NEW r \in Requests,
             NEW end \in BodyEnds(r), Forward(r, end)
      PROVE  StageInv'
  <2>1. Stage(r)'
    BY <1>13, <1>s, <1>t, TallyOf, MarksOf
    DEF Forward, Stage, Untouched, Counts, Answered, Blamed, Counted, TypeOK
  <2>2. \A o \in Requests \ {r} : Unmoved(o)
    BY <1>13, TallyOf, MarksOf DEF Forward, Unmoved, TypeOK
  <2> QED
    BY <2>1, <2>2, StageFrame
<1>14. ASSUME NEW r \in Requests, Deliver(r)
      PROVE  StageInv'
  <2>1. Stage(r)'
    BY <1>14, <1>s, <1>t, TallyOf, MarksOf
    DEF Deliver, Stage, Untouched, Counts, Answered, Blamed, Counted, TypeOK
  <2>2. \A o \in Requests \ {r} : Unmoved(o)
    BY <1>14, TallyOf, MarksOf DEF Deliver, Unmoved, TypeOK
  <2> QED
    BY <2>1, <2>2, StageFrame
<1>15. CASE UNCHANGED <<pc, gone, answer, cause, tally, marks>>
  BY <1>15 DEF StageInv, Stage, Untouched, Counts, Answered, Blamed
<1> QED
  BY <1>1, <1>2, <1>3, <1>4, <1>5, <1>6, <1>7, <1>8, <1>9, <1>10,
     <1>11, <1>12, <1>13, <1>14, <1>15
  DEF Next, Prompt, Waiting, CooldownElapses, vars

LEMMA StageInit == Init => StageInv
BY DEF Init, StageInv, Stage, Untouched

LEMMA StageInvariant == Spec => []StageInv
BY StageInit, StageNext, TypeCorrect, PTL DEF Spec

(* A connected client gets exactly one reply.                              *)
THEOREM OneReply == Spec => []AnsweredOnce
<1>1. TypeOK /\ StageInv => AnsweredOnce
  <2> SUFFICES ASSUME TypeOK, StageInv, NEW r \in Requests
               PROVE  /\ tally[r]["local"] + tally[r]["reply"] <= 1
                      /\ pc[r] = "done" /\ ~gone[r]
                           => tally[r]["local"] + tally[r]["reply"] = 1
    BY DEF AnsweredOnce
  <2> QED
    BY DEF TypeOK, StageInv, Stage, Untouched, Counts, Answered, Counted, Waits
<1> QED
  BY <1>1, StageInvariant, TypeCorrect, PTL

(* The statistics count a result for each reply of an admitted request.    *)
THEOREM OneResult == Spec => []RecordedAsAnswered
<1>1. StageInv => RecordedAsAnswered
  BY DEF StageInv, Stage, Answered, RecordedAsAnswered
<1> QED
  BY <1>1, StageInvariant, PTL

(* An attempt that is retried leaves no trace (breaker.go:21).             *)
THEOREM NoTraceBeforeFinal == Spec => []RetriesLeaveNoTrace
<1>1. StageInv => RetriesLeaveNoTrace
  BY DEF StageInv, Stage, Untouched, RetriesLeaveNoTrace, Waits
<1> QED
  BY <1>1, StageInvariant, PTL

(* The breaker and the model locks blame the upstream at most once per     *)
(* request, and only for a 5xx or an answer that never came whole.         *)
THEOREM BlameIsJustified == Spec => []BlameNeedsOutage
<1>1. TypeOK /\ StageInv => BlameNeedsOutage
  <2> SUFFICES ASSUME TypeOK, StageInv, NEW r \in Requests PROVE Blamed(r)
    BY DEF BlameNeedsOutage, Blamed
  <2> QED
    BY DEF TypeOK, StageInv, Stage, Untouched, Blamed, Counted, Waits
<1> QED
  BY <1>1, StageInvariant, TypeCorrect, PTL

-----------------------------------------------------------------------------
(* The number of attempts.  The WAF retry is only granted to attempt 0, so *)
(* it adds an attempt only where no other retry is configured.             *)
Most == IF MaxRetries > 0 THEN MaxRetries ELSE 1

AttemptInv ==
  \A r \in Requests :
    /\ attempt[r] <= Most
    /\ pc[r] \in {"judge", "warmup"} => attempt[r] = 0
    /\ pc[r] = "sleep" => attempt[r] < Most

(* However transport errors, 5xx and WAF blocks alternate, a request makes *)
(* at most MaxRetries + 1 attempts, or 2 (handler.go:328).                 *)
THEOREM RetriesBounded == Spec => []AttemptsBounded
<1>0. Most \in Nat \ {0} /\ MaxRetries <= Most
  BY RetryAssumption DEF Most
<1>1. Init => AttemptInv
  BY <1>0 DEF Init, AttemptInv
<1>2. TypeOK /\ AttemptInv /\ [Next]_vars => AttemptInv'
  <2> SUFFICES ASSUME TypeOK, AttemptInv, [Next]_vars PROVE AttemptInv'
    OBVIOUS
  <2> USE <1>0, RetryAssumption DEF AttemptInv, Goto, Return
  <2>1. ASSUME NEW r \in Requests, Arrive(r)
       PROVE  AttemptInv'
    BY <2>1 DEF Arrive, TypeOK
  <2>2. ASSUME NEW r \in Requests, RejectUpload(r)
       PROVE  AttemptInv'
    BY <2>2 DEF RejectUpload, TypeOK
  <2>3. ASSUME NEW r \in Requests, UploadEnds(r)
       PROVE  AttemptInv'
    BY <2>3 DEF UploadEnds, TypeOK
  <2>4. ASSUME NEW r \in Requests, Gate(r)
       PROVE  AttemptInv'
    BY <2>4 DEF Gate, TypeOK
  <2>5. ASSUME NEW r \in Requests, LoopTop(r)
       PROVE  AttemptInv'
    BY <2>5 DEF LoopTop, TypeOK
  <2>6. ASSUME NEW r \in Requests,
             NEW retryable \in BOOLEAN, TransportError(r, retryable)
       PROVE  AttemptInv'
    BY <2>6 DEF TransportError, TypeOK, CanRetry
  <2>7. ASSUME NEW r \in Requests,
             NEW a \in Answers, Receive(r, a)
       PROVE  AttemptInv'
    BY <2>7 DEF Receive, TypeOK, ReadsBodyFirst, Suspects, Errors5xx
  <2>8. ASSUME NEW r \in Requests,
             NEW end \in BodyEnds(r), Judge(r, end)
       PROVE  AttemptInv'
    BY <2>8 DEF Judge, TypeOK
  <2>9. ASSUME NEW r \in Requests, Warmup(r)
       PROVE  AttemptInv'
    BY <2>9 DEF Warmup, TypeOK
  <2>10. ASSUME NEW r \in Requests, Wake(r)
       PROVE  AttemptInv'
    BY <2>10 DEF Wake, TypeOK
  <2>11. ASSUME NEW r \in Requests,
             NEW end \in BodyEnds(r), Buffer(r, end)
       PROVE  AttemptInv'
    BY <2>11 DEF Buffer, TypeOK, CanRetry
  <2>12. ASSUME NEW r \in Requests,
             NEW end \in BodyEnds(r), Forward(r, end)
       PROVE  AttemptInv'
    BY <2>12 DEF Forward, TypeOK
  <2>13. ASSUME NEW r \in Requests, Deliver(r)
       PROVE  AttemptInv'
    BY <2>13 DEF Deliver, TypeOK
  <2>14. CASE UNCHANGED <<pc, attempt>>
    BY <2>14
  <2> QED
    BY <2>1, <2>2, <2>3, <2>4, <2>5, <2>6, <2>7, <2>8, <2>9, <2>10,
       <2>11, <2>12, <2>13, <2>14
    DEF Next, Prompt, Waiting, ClientLeaves, CooldownElapses, vars
<1>3. AttemptInv => AttemptsBounded
  BY DEF AttemptInv, AttemptsBounded, Most
<1> QED
  BY <1>1, <1>2, <1>3, TypeCorrect, PTL DEF Spec
=============================================================================
