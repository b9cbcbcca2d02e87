# A verification project for agentrouter-spoof-proxy

This directory holds TLA+ models of the proxy in `src/`, the TLC
configurations that check them and TLAPS proofs of the most important results.
The program is a reverse proxy in Go: it takes LLM requests in Anthropic or
OpenAI format, sends them upstream with other headers, gets past the upstream's
web application firewall (WAF), retries, and streams the answers back. It has
no database and nothing survives a restart, so there is no crash recovery here:
the hard part is concurrency inside one process, and peers that go silent,
break off or leave.

Line numbers below are those of the files under `src/internal/`.

## 1. Inventory

| Component | Code | State | Operations | What makes it correct |
|---|---|---|---|---|
| Circuit breaker | `resilience/breaker.go` | two atomics: consecutive failures, open until | `RecordFailure`, `RecordSuccess`, `IsOpen` | opens only on consecutive failures, for the documented time, and closes again |
| Model health | `models/health.go` | two maps under a mutex: lock expiry and failure count per model | `MarkFailed`, `MarkExhausted`, `MarkDegraded`; `ProbeLoop` clears or extends | maps agree, the ladder starts over, an expired lock is probed |
| Request handler | `proxy/handler.go`, `retry.go`, `body.go` | per request: attempt, headers, deadlines; shared: count of active requests | `ServeProxy`, `doRequest` and its helpers | one reply, one result, a bounded number of attempts, penalties only for outages |
| SSE pump | `proxy/sse.go`, `eom.go` | per stream: frame queue, reader's buffers, flags, four goroutines | `PumpSSE` | order, no loss in a good stream, a true result, no goroutine left |
| Think stripper | `proxy/thinkstrip.go` | open span, its bytes, a held-back tag prefix | `Process`, `Flush` | chunk boundaries make no difference |
| Frame classifier | `proxy/sseparse.go` | carry, saw data, saw terminal marker, tokens | `Analyze`, `Flush` | chunk boundaries make no difference |
| Log ring | `logstore/logstore.go` | ring of entries under a mutex | `Add`, `List` | the newest entries, in order |
| WAF cookie store | `auth/waf.go` | cookie list under a RW mutex | `Capture`, `Warmup`, `Get` | merged by name, nothing lost, never an empty cookie |
| Check-in manager | `checkin/manager.go` | running flag, last run, next run | `RunNow`, scheduler, `Status` | one run at a time, one scheduled run a day |
| Server | `server/server.go`, `cmd/proxy/main.go` | context, wait group, exposure mode | `New`, `Shutdown`, schedulers | a signal ends the process, and its exit code is true |
| Discovery | `models/discovery.go` | model list | `Fetch`, `Models` | a failed fetch falls back to the static list, a 200 without a list keeps the current one |
| Statistics | `models/stats.go` | counters per model | `Start`, `Result`, snapshots | the sums agree at any time |
| Dashboard, configuration, spoof profiles, headers, token counting | several | none, or read once | | |

How they interact. `ServeProxy` runs once per request, in a goroutine of its
own. It reads the WAF store, asks the breaker, and hands over to `doRequest`,
which calls the upstream and tells the breaker (success, failure or neither),
the health map, the statistics and the log ring what came of it. A streamed
answer is carried by `PumpSSE`, whose goroutines share one stream and report
one result to the handler. Independently of requests the server runs the
warm-up, discovery, probe and check-in schedulers; probes read the cookie of
the WAF store and write the health map.

What is hard, and where:

* several requests change the breaker without a lock (`breaker.go:47-53`);
* probe rounds act on an old snapshot of the locks (`health.go:138-163`);
* a request has a dozen ways to end, and most of them must update the reply,
  the statistics, the breaker, the locks and the active count together
  (`handler.go:328-433`, `479-638`);
* a client may leave at any of the waits of a request;
* the pump's goroutines tear a stream down from four sides at once, over a
  bounded queue (`sse.go:185-501`);
* cookies, statistics and log are shared, each under a mutex of its own, so what
  a request reads is old when it uses it (`waf.go:159-206`, `stats.go:60-120`);
* a shutdown meets requests, rounds of work and a check-in in any state
  (`server.go:138-143`), and the check-in is started from two sides;
* bytes arrive in chunks cut anywhere (`thinkstrip.go`, `sseparse.go`,
  `sse.go:253-290`).

`hazards` in `PROJECT.json` lists each of these at its line, with the
properties that watch it.

## 2. Modules

| Module | Models | Note |
|---|---|---|
| `Breaker` | the breaker and the gate in front of it | `RecordFailure` in three steps |
| `BreakerProofs` | | theorems |
| `ModelHealth`, `MCModelHealth` | locks and the probe loop | the MC module gives the ladder |
| `ModelHealthProofs` | | theorems |
| `Handler` | `ServeProxy`, `doRequest` and what they call, for concurrent requests | composes the breaker at the level a request sees |
| `HandlerProofs` | | theorems |
| `SseStream` | the promise of one stream, abstract | |
| `SsePump` | `PumpSSE` and its goroutines | implements `SseStream` |
| `SsePumpProofs` | | theorems |
| `ThinkStrip`, `MCThinkStrip` | the stripper, byte by byte | the MC module gives tags and streams |
| `Pipeline`, `MCPipeline` | stripper, filter and classifier as the reader composes them | extends `ThinkStrip`; the MC module adds lines and line ends |
| `PipelineProofs` | | theorems, those of the stripper included |
| `BoundedLog` | the promise of the log, abstract | |
| `LogStore` | the ring | implements `BoundedLog` |
| `Stores`, `MCStores` | WAF cookies, statistics and log under concurrent requests and the warm-up loop | extends `LogStore`; the MC module gives the cookies |
| `StoresProofs` | | theorems, those of the ring included |
| `CheckIn` | the check-in manager, its clock and its timer | |
| `Server` | `main`, the background goroutines, `Shutdown`, the dashboard's check-in | extends `CheckIn` |
| `ServerProofs` | | theorems |
| `Recursion` | | lemmas about recursive functions over 0..n, for the proofs |

Correspondence with the code, module by module (`map` in `PROJECT.json` has
every definition):

**Breaker.** `consecutiveFails` and `openUntilMs` are the fields of the struct;
`pc`, `fails` and `expiry` are the locals of a goroutine inside
`RecordFailure`: `FailureAdd`, `FailureClock` and `FailureStore` are its three
accesses to shared memory and the clock. Expiries are kept relative to the
clock (`openFor`), and `Tick` ages them, so time needs no bound. `Unbounded` is
the base shifted in an integer without end, and `Shifted` what the width leaves
of it. `recent` is history only.

**ModelHealth.** The maps are functions with a value for "no entry". Each mark
is one action because it holds the mutex throughout; a probe round is
`StartRound` (the snapshot), then for each model `SendProbe` and, any time
later, `ProbeAnswered` or `ProbeFailed`. Between them live traffic marks what it
likes. When the context is canceled the loop does not leave its round: an answer
that has come still clears the lock, and for the rest of the snapshot requests
fail before they are sent (`ProbeRefused`), which extends their locks. Failure
counts stop at the end of the ladder, where they change nothing.

**Handler.** A request is in one of its waits (`pc`): upload, gate, upstream
headers, one of the bodies that are read whole, warm-up, back-off sleep, the
body that is delivered. An action is everything the code does from one wait to
the next. The upstream's answers are the ten classes the code tells apart
(`Answers`). `tally` counts calls: replies before and after the gate,
`Recorder.Result`, `RecordFailure`, `RecordSuccess`. `cause` says how the last
body or round trip went wrong. The breaker is its count and an open flag that
elapses at any time; its count stops at the threshold, because nothing here asks
by how much it is past it, and module `Breaker` has the count that goes on and
what is inside. `active` is `Handler.Active`, which counts with the gate
(`handler.go:176-177`); `/health` and the dashboard show another counter, which
nobody writes (`server.go:68`). Cookies, statistics
and log as data are in `Stores`.

**SsePump.** A chunk is what one `Read` returned and is known by its place in
`sent`; its kind is what the filter, the stripper and the classifier can tell
apart. `rpc`, `opc`, `kpc`, `wpc` are the program counters of the reader,
OUTPUT, keepalive and the watchdog; the reader's switch on the read's error
(`sse.go:418-429`) looks at one flag per step. A span is opened and closed by
chunks of its own here; what happens inside a chunk is `ThinkStrip`'s subject.
`Forwardable` is the set of the chunks that are to be
forwarded and `Ranked` lists it in the order of the stream: that list is what
`SseStream` calls offered.
OUTPUT's `case <-stop` is left out: `stop` is closed only after OUTPUT has
reported. Write failures may happen at any write, because a client may leave or
stall at any time.

**ThinkStrip.** Buffers are sequences of places in the stream, so that a byte
forwarded twice differs from two equal bytes. `Round` is a round of the loop of
`Process` and `Scan` the loop, run as many times as there are bytes: once it is at
the end, further rounds change nothing. `hold` is the beginning of a tag at the end
of a chunk, `Retained` what an open span leaves in `thinkBuf`.

**Pipeline.** A byte is a byte of a tag, a line end, or the text of a line that
the code knows (`data: null`, `data: [DONE]`, `event: ping`, a comment mark):
the code does nothing with those but compare whole lines, so they are not cut
inside. `Ready`, `Rest` and `Clean` are `filterOpenAI`; `Normalized` and
`Blocks` are `Analyze` (`Blocks` is its loop, a block per round; `Only` is what the
loops that leave bytes out have in common); `IsData` and `IsStop` are `classifyBlock`. `Stripped`
is `Process`, or the identity when stripping is off. `delivered` is what has
been queued for OUTPUT, as places in the stream. `SsePump` has the goroutines
around this, for whole chunks; the queue between them is a Go channel and
preserves order, which `ImplementsSseStream` checks there.

**LogStore.** `Add` and `List` hold the mutex, so `Add` is one step and `List`
an operator.

**Stores.** Each access to a store is one action, because each store has a
mutex of its own and nothing holds two. `pc` is the next access of an actor; an
actor is a request or `runWarmup`. `Start`, `ReadCookie` and `Gate` are the
accesses of `ServeProxy` in their order; `Receive` is the `Capture` of an answer
and what `doRequest` does next; `WarmupAttempt` and `Reread` are the WAF path of
`handleWafResponse`; `Result` and `LogEntry` end a request. An answer is what
`Recorder.Result` is told of it. `due` and `rewarmed` are history: the cookie
names that the retried attempt has to carry. `ExtractWafCookies` and `MergeWafCookies` are the loops of `waf.go:51-103`: one
recursive function each, whose value at n is the list after n rounds. Why an
answer is retried, and when, is `Handler`'s subject; here it may be at any time that the bounds allow.

**CheckIn.** `start` is the critical section of `Manager.start`, for both of
its callers; a run is "executing" until `CommandEnds`, which is the critical
section of its goroutine. `loop` is the program counter of `Manager.loop`: plan
(`updateNextRun`), arm (the timer, from the wall clock as it is then), wait.
`wall` is the wall clock; `timer` is monotonic and goes on when `SetBack` moves
the wall clock. `fired` is history.

**Server.** `main` is where `main` and the `Shutdown` it calls are. `bg` has the
goroutines of the wait group: `Loops` work and wait in turn, `Once` work once
(`resolveDNS`; `runDiscovery` without a key). A round of work ends at any time or
never, unless the context is canceled. `req` has the connections: none, open
without a request, or with one. Requests take as long as they like. `Shutdown` is
three steps and a wait: `CancelSchedulers`, `StopListening` (until then
connections are still accepted), `Drain`. A connection that was accepted may
begin a request as long as it is open, in the drain too, and in `wait` if the drain
ended by its deadline; `Drained` closes the connections when none of them has a
request, and that `net/http` takes this decision in one step is assumed.
The process that has exited takes no step (`~exited`).

Definitions named as variants with a plausible bug are not part of any
specification. They are there to show that each property can fail: with the
variant in place of the original, TLC finds the property violated.

## 3. Runs

| Run | Bounds | What it shows |
|---|---|---|
| `breaker` | 3 requests, threshold 2, cooldowns 1..3 ticks, 5 failures | opening, duration, closing under every interleaving |
| `breaker_overflow` | 1 request, width 4 | violation: the shift overflows |
| `health` | 2 models, ladder of 3 steps | maps, probes, ladder, no lingering lock |
| `handler` | 2 requests, 1 retry, threshold 2 | seven invariants of the request path, and that a request ends |
| `handler_disconnect` | as `handler` | violation: disconnects are blamed on the upstream |
| `pump` | 2 chunks, queue of 1, both formats | refinement of `SseStream`, blame, empty output, whole events, one terminal sequence |
| `pump_live` | 1 chunk, queue of 1, openai | the pump returns and nothing stays behind |
| `pump_tear` | 2 chunks, anthropic | violation: events are torn |
| `pipeline` | up to 4 pieces or 4 lines, every chunking, all three modes | no byte lost, stripping exact, order kept, verdicts those of the whole text |
| `thinkstrip_spans` | up to 5 pieces | violation: two spans |
| `stores` | 2 requests, 1 retry, 3 lists of cookies, ring of 2 | cookies, counters, and the log as a refinement of `BoundedLog` |
| `server` | 1 request, one goroutine of each kind, days of 3 ticks, 4 ticks, 2 runs, one set-back | single flight, one run a window, true exit code, shutdown ends |

The larger ones take one to three minutes with two workers: `stores` has 0.8
million states, `pump` 2.5 million, `server`, `pipeline` and `handler` 100 to
230 thousand.

Why these bounds are enough to meet the interesting cases:

* Breaker. Three requests are one more than the race of a failure with a
  failure needs, so that a success can come in between; with threshold 2 and
  counts up to 5 the cooldown passes through its first value, a doubled one and
  the cap. The width is chosen so that `breaker` does not overflow and
  `breaker_overflow` does. The real numbers (threshold 5, base 60000, 64 bits)
  overflow at the 53rd failure in a row; the proof has no bounds.
* Health. Two models suffice for the snapshot to hold one model while the other
  is being probed. The ladder has as many steps as it takes to climb, reach the
  end and stay there.
* Handler. The requests interact through the breaker and the active count only.
  One has a named model and one has not. One retry makes "may still retry" and
  "may not" both reachable; the proofs cover every number.
* Pump. Two chunks make a whole event in halves, a span opened and closed, or an
  event and the marker. A queue of one is full as soon as one frame waits, which
  is when sends block and keepalive skips; a larger queue is full later.
  `pump` leaves out the kind `event`, which does what `stop` does but for the
  marker; `pump_live` has it.
* ThinkStrip. The tags are cut to 3 and 4 bytes, so tag prefixes of one and two
  bytes are held back. Five pieces make two whole spans with text in between.
* Pipeline. Four pieces make a span with text before, in or behind it, or with
  the beginning of a second tag. Four lines and line ends make a keepalive
  between blank lines, a marker behind a ping, a CR LF that is cut in every
  place, and an event that lacks its blank line. No known line is used twice:
  the filter and the classifier treat lines alike wherever they stand.
* Stores. Two requests and the warm-up loop are three writers of the cookies.
  The lists of cookies are an empty one, one with a cleared cookie, a foreign one
  and one that is kept, and one that brings a second name and the first anew. One retry separates the stale
  header of a retry from the fresh one of a warm-up. Requests are symmetric. A
  ring of two wraps, because a request's rejected uploads are logged as often as
  its client likes. All results take as long as a slow one or no time at all.
* Server. Two runs make a race for the flag, and the next one after it. Four
  ticks of days of three hold two windows; one set-back of any length puts the clock behind a window that has fired. One goroutine of
  each kind is enough because they share nothing but the context; one request
  both keeps the drain waiting and starts check-ins.

`CHECK_DEADLOCK FALSE` is set for the pump, the stripper and the pipeline because
a stream ends, and for the server because the process exits. The other systems
run for ever and are checked for deadlock.

## 4. Fairness

* `Breaker`: only that time passes. Nothing is assumed of the requests.
* `ModelHealth`: the ticker fires, the loop takes its ticks and sends its
  probes, and a probe ends (8 s deadline of `probeModel`). Marks need not happen.
* `Handler`: steps the code takes by itself or within a deadline of its own
  happen (`Prompt`: the gate, the round trip with its adaptive timeout, the
  sleeps, the warm-up with its 10 s per attempt). Waits for a peer's bytes need
  not end (no deadline covers the body of an answer), except after the client
  has left, because its context cancels reads and writes. Nothing is assumed of
  the client.
* `SsePump`: goroutines that can run do, the watchdog's clock goes on, a write
  ends within its deadline, and a read of a closed body fails. The upstream need
  never send anything. The reader's sends need strong fairness: a keepalive tick
  may take the free slot again and again, but a sender blocked on a Go channel is
  queued and gets the slot before a tick that comes later.
* `Server`: `main` goes on. A round of work ends once the context is canceled,
  because every request it makes and every sleep carries the context. The
  `select` of a background goroutine needs strong fairness: with the ticker and
  the context both ready Go chooses at random, so the context is chosen at last.
  Nothing is assumed of requests, of the check-in's command or of the clock:
  that `ShutdownCompletes` holds without them is what it says. The deadline of
  the drain is the second disjunct of `Drain`.
* `Stores`, `Pipeline`, `ThinkStrip` and `LogStore` have no liveness: what makes
  them go on is in `Handler` and `SsePump`.

## 5. What is proved

Every theorem holds for all values of the constants under the named
assumptions of the component's module (finite sets of requests and models,
positive threshold, natural cooldowns, and so on). The tags of the stripper may be
any two for which `TagsAssumption` and `OneLineAssumption` hold: neither begins
with the other, the first byte of a tag (`<`) is nowhere else in them, and the open
tag has no line end. `<think>` and `</think>` are such tags.

* `BreakerProofs`. `TypeInv` adds to `TypeOK` that a request about to open the
  circuit holds a count of at least the threshold; without it the exponent of
  the cooldown could be negative and the type of the expiry would not be
  inductive. `CountCovered` is inductive as it stands: an added failure both
  raises the count and lengthens the run, a success shortens both. From it
  follows `OnlyConsecutiveFailuresOpen`. `CooldownOfEachCount` has no hypothesis
  on the count, which nothing in the code bounds (`MaxFails` is any natural
  number): at any time `DocumentedCooldown`
  holds or a request has a count whose shift does not fit the integer
  (`InWidth`), and for each request that has one it says what comes of it: the
  first such count gets a negative cooldown (`FirstOverflow`), so that the circuit
  is not opened, and one that shifts all bits out gets 0 (`AllShiftedOut`). The
  run `breaker_overflow` shows the former. `PowerAssumption` states what 2^n is
  for the exponents up to the bound, because the provers know nothing of powers;
  TLC evaluates it.
* `ModelHealthProofs`. `ListedInv`: types, a counted model is listed, models in
  the snapshot or being probed are listed, and the probed model has left the
  snapshot. The last part keeps a clear from taking the entry of a model that is
  still to be probed. `MapsAgree`, `NoResurrection` and `FreshStart` follow.
* `HandlerProofs`. `ActiveIsAccurate` is about a cardinality that each step
  changes by at most one. `TypeCorrect` says that the counter never falls below
  zero, which is not inductive by itself, so the two are proved together
  (`TypeAndActive`). `StageInv` says for each wait of a request what
  it has counted so far and, at the end, how reply, result, breaker and marks
  relate; `OneReply`, `OneResult`, `NoTraceBeforeFinal` and `BlameIsJustified`
  are its consequences. `RetriesBounded` rests on `AttemptInv`, which ties the
  WAF retry to attempt 0.
* `SsePumpProofs`. `TypeCorrect`, for streams of any length. `BlameIsJust` rests
  on `BlameInv`: a failed read is explained by what the upstream, the client or
  the proxy did (`ReadIsExplained`); a body that the proxy closed is explained by
  the idle flag, which the watchdog sets first, by an OUTPUT that is past its
  last frame, or by a reader that has decided already (`CloseIsExplained`); and
  what follows from both for every place where a frame that blames the upstream
  can wait (`BlameIsExplained`). Such a frame may exist for an innocent upstream;
  the point is that OUTPUT, which alone makes the result, no longer takes one.

  What is delivered rests on `PipeInv`, for streams and queues of any length. A
  chunk on its way is in the pipe: written, in OUTPUT's frame, in the queue, or in
  the frame the reader sends. `StreamShape` is the shape of the stream,
  `ReaderShape` says how much of it the reader has looked at and that it holds
  back at most an event's first half, `OutputShape` what OUTPUT's state means.
  `Flow` joins them: what is written is in order and skips nothing; while OUTPUT
  lives, the pipe as a whole is in order and a beginning of what is to be
  forwarded; and while the reader has lost nothing (`Clean`), it is all that is
  settled. `Flow` alone is not inductive, because whether a chunk is to be
  forwarded depends on the span and the event it is in. `NothingIsSkipped`
  follows at once; `EmptyIsTrue` adds `DataSeen` and `VerdictInv` (the classifier's
  flag is right about what is in the pipe, and what a clean result says of it);
  `TerminatesOnce` adds `DoneIsLast` (behind the done frame come keepalives only)
  and `StopSeen` (the marker the classifier saw is in the pipe, unless the reader
  was canceled); `EventsOfOpenAIStayWhole` adds `WholeInv` (no frame ends within an
  event). `PumpImplementsStream` is the refinement: what `SseStream` calls offered
  is the list of the forwardable chunks in order, which exists and grows at its
  end only (`ListingGrows`), and what is written is a beginning of it.
* `PipelineProofs`, for streams, tags and chunks of any length. `StripInv` says
  where each byte that has arrived is: the withheld ones are the end of the stream
  so far (`Withheld`), what comes before them has been forwarded or lies in a span
  (`Dealt`), and `thinkBuf` begins with the open tag of a span that is
  still open. From it follow `StripperTypeCorrect` and `TextIsNeverLost`. The
  argument is about `Scan`: a scan of a buffer depends on the bytes from its place
  on only, and a buffer cut at a place the scan gets to gives what its halves give.
  `OneSpanIsLeftOut` takes more: with one span the scan of the whole stream is
  known in closed form (`TheSpan`, `Around`), and `ExactInv` says for each of the
  three ways in which the stripper can stand to that span (not past its open tag,
  inside, behind it) what has been forwarded, exactly. `NothingIsLost` and
  `OneSpanIsExact` are carried over to the pipeline (`PipelineLosesNothing`,
  `PipelineStripsExactly`): a step of the reader is a step of the stripper or,
  when stripping is off, takes the bytes as they are (`PassInv`).
  `DeliversInOrder` is about the filter, which works on lines and on events, and
  not on bytes: a line depends on the text between two line ends only (`LineIs`,
  `LineLocal`), so what the filter keeps of two texts in a row is what it keeps of
  each if the first ends with a line end (`CleanConcat`). A text is cut in one way
  only into a part that ends with a blank line and a part that has none
  (`ReadySplit`, `EndOnce`). `FilterInv` says that the client has the first part of the
  stripper's output, without the keepalives, and the filter the second;
  `OrderInv` adds that the stripper's few withheld bytes begin a tag, have
  therefore no line end in them and finish no event (`NoBlankBegun`), and
  what was sent when a stream has ended. `PipelineTypeCorrect` takes one fact more,
  that the classifier's loop is over only when no blank line is left (`CarryIs`).
  `VerdictsAreOfTheWhole` compares the classifier's loop, chunk by chunk, with one
  over the whole text. A text is its first block, a blank line and a rest
  (`IsCut`, `FirstCut`), and by induction on its length what x leaves
  unfinished, followed by y, is read as x followed by y is (`CarryGoesOn`). That
  would be all if each chunk could be normalised by itself. It can, except where
  the cut takes a CR LF apart (`NormalizedConcat`): the classifier then reads one
  line end more than the text has, behind a line end (`NormalizedJoin`). Such a
  line end may end a block early, which keeps the block's lines, and so neither
  hides data or the end nor makes up an end; only a ping that is parted from its
  data no longer covers it (`LineEndFiner`). `ReadInv` therefore does not say that
  the classifier has read the normalised text, which is not inductive, but a text
  that `Tells` of it: whatever is to come, it is as fine, and it is the same while
  no CR has come. A missing blank line at the end of the stream changes nothing
  (`VerdictsEnd`).
* `StoresProofs`. `Implements`: the ring implements the bounded log, for every
  capacity; the argument is arithmetic modulo the capacity (the slot of the
  i-th newest entry after an `Add` is that of the (i-1)-th before).
  `SharedLogImplements`: every step of the shared system is a
  step of the log or leaves it alone, so the refinement carries over to any
  number of requests. `StatisticsAgree`: `CountInv` has, for each model, the sums
  with `totalMs <= results * maxMs` in place of the mean, which is not inductive;
  the mean is at most the maximum because it divides by the requests begun, of
  which there are at least as many as results. Under "unknown", where no request
  is counted, the mean is 0. `StoresWellFormed` and `WarmupIsCarried` hold for
  headers of any length: `Extraction` and `Merging` say what the two loops of
  `waf.go` return (only WAF cookies that are not empty; the names of both lists,
  each once), by an induction over their rounds. `CookieInv` adds to the types
  that what is owed to a request is in the store, because a merge never drops a
  name, and that the header of a re-warmed attempt has all of it, which is only
  true because such a request is past attempt 0 and is owed nothing more.
* `ServerProofs`. `TypeCorrect` contains that what is planned is always the start
  of a window, which takes the arithmetic of `NextWindowStart`. `OneRunAtATime`:
  `SingleFlight` is inductive given the types. `ExitCodeIsTrue`: `Established`
  says what each step of the shutdown has established for the next; that no
  request is in flight after the drain is not inductive, that no connection is left
  to begin one is.
  `WindowsStartOnce` rests on `WindowInv`, which counts for each window the starts
  it has had and those it may still get: one if it is planned, one more if it is
  ahead of the clock and not planned, or planned with a timer that runs out
  before the clock gets there. Only a clock that is set back adds to them.

Induction over data. The provers cannot instantiate the library's induction
theorems, which take an operator as a parameter. `Recursion` states induction
over a set of numbers instead (from the well-foundedness of `<`, which the
library proves) and from it that a recursive function over 0..n exists and has
the value each round gives it (`LoopDefined`). That is enough for loops over
lists whose rounds are numbered.

Only model-checked: all liveness (`CircuitCloses`, `ExpiredIsProbed`,
`GoneEnds`, `HeadersOrEnd`, `PumpReturnsAtLast`, `NothingIsLeftRunning`,
`ShutdownCompletes`), which is out of the prover's reach. Every safety property
of a passing run, invariant or action property, is stated by a theorem.

## 6. Where code and documentation disagree

Each has a violation run, and `findings` in `PROJECT.json` quotes the lines.

1. `breaker.go:49`: after 53 failures in a row the cooldown overflows and the
   circuit stays closed.
2. `handler.go:562`: a client that leaves while certain bodies are read counts as
   an upstream failure.
3. `sse.go:454`: in anthropic format a keepalive may split an event.
4. `thinkstrip.go:73` and `thinkstrip.go:58-63`: with a second span, text is sent
   twice, or a split tag gets through.

Seen while modelling, and stated in a property or noted with a hazard rather than
shown by a run of its own:

* `sse.go:308`: at the end of a stream that stops in a beginning of a tag within
  an unfinished event, the stripper's bytes are sent before the filter's, which
  were earlier in the stream. `DeliveredInOrder` names this case and no other.
* `sse.go:318`: the tail of the filter is sent but never classified, so an event
  without its blank line does not count as data.
* `sse.go:261`: the filter looks for `\n\n` only; a stream with CR LF line ends is
  withheld to its end.
* `sseparse.go:40`: a CR LF cut in two ends a block early. `VerdictsOfTheWhole`
  says how far that reaches: a ping may count as data, nothing is hidden.
* `stats.go:102` and `handler.go:401`: an answer 204 is a failure in the statistics
  ("http_204") and a success for the breaker. `stats.go:108`: no caller sets
  `WafBlock`, so `wafBlocks` is always 0.
* the shorter expiry that overwrites a longer one (`breaker.go:53`,
  `health.go:107`), the WAF retry only at attempt 0 (`handler.go:350`), the stale
  cookie of a retry (`handler.go:334`), the terminal marker lost with a dropped
  frame (`sse.go:411`), the active count that `/health` shows (`server.go:68`), the
  check-in that the wait group does not know (`manager.go:182`).

## 7. Not modelled, and the plan

Left out for good: headers, spoof profiles, configuration, token counting, the
dashboard's pages, routing, the installers, and the test double. They are tables
and formatting, or have no state of their own. The model list of discovery is one
value with one writer: a fetch replaces it, a failed one falls back to the static
list (`discovery.go:84-117`, `141-147`), and only a 200 without a list keeps the
current one (`discovery.go:118-121`); its loop is one of the goroutines of
`Server`. The output buffer of a check-in and the token
totals of a stream are data that nothing decides on.

What could follow: a composition of `Handler` with `Breaker` and `ModelHealth`,
which shows that `Handler`'s view of the breaker is implemented by the interleaved
one.
