------------------------------ MODULE Pipeline ------------------------------
(***************************************************************************)
(* What PumpSSE's reader makes of the upstream's bytes                     *)
(* (src/internal/proxy/sse.go, sseparse.go): for openai the ThinkStripper, *)
(* if it is on, then the filter of `data: null` keepalives, which holds an *)
(* unfinished event back; then the FrameClassifier, whose verdict becomes  *)
(* the result of the stream.  Module ThinkStrip is the stripper; SsePump   *)
(* has the goroutines around this one, for whole chunks.                   *)
(*                                                                         *)
(* A byte of the model is a byte of a tag, a line end, or the text of a    *)
(* line that the code knows: it may be cut off from what follows, but not  *)
(* within itself, because all that is done with it is done to whole lines. *)
(***************************************************************************)
EXTENDS ThinkStrip, FiniteSetsExt

CONSTANT Modes   \* Options.Format, and openai with StripThinkingTags

ASSUME ModesAssumption ==
  Modes \subseteq {"anthropic", "openai", "openai strip"}

LF == "LF"

(* A tag is on one line.                                                   *)
ASSUME OneLineAssumption == LF \notin ToSet(OpenTag)

CR == "CR"
NullLine    == "data: null"
DoneLine    == "data: [DONE]"
PingLine    == "event: ping"
CommentMark == ":"

VARIABLES
  mode,
  openaiPending,      \* the unfinished event the filter holds back
  carry,              \* FrameClassifier: text of an unfinished block
  sawData, sawStop,   \* its verdicts
  delivered           \* the bytes queued for the client

lineVars == <<openaiPending, carry, sawData, sawStop, delivered>>
pipelineVars == <<vars, mode, lineVars>>

PipelineInit ==
  /\ Init
  /\ mode \in Modes
  /\ openaiPending = <<>>
  /\ carry = <<>>
  /\ sawData = FALSE /\ sawStop = FALSE
  /\ delivered = <<>>

openai == mode # "anthropic"
strips == mode = "openai strip"

-----------------------------------------------------------------------------
(* Lines and blocks.                                                       *)

LineEnds(text) == {i \in DOMAIN text : text[i] = LF}

(* The line that place i is on; its own line end is not a part of it.      *)
LineAt(text, i) ==
  LET before == {j \in LineEnds(text) : j < i}
      after  == {j \in LineEnds(text) : j >= i}
  IN  SubSeq(text, IF before = {} THEN 1 ELSE Max(before) + 1,
                   IF after = {} THEN Len(text) ELSE Min(after) - 1)

(* The elements of s at some of its places, in order: s, if at all of them.*)
Only(s, places) ==
  LET only[k \in 0..Len(s)] ==
        IF k = 0 THEN <<>>
        ELSE only[k - 1] \o IF k \in places THEN <<s[k]>> ELSE <<>>
  IN  IF DOMAIN s \subseteq places THEN s ELSE only[Len(s)]

Trimmed(line) == Only(line, {i \in DOMAIN line : line[i] # CR})

Lines(text) == {Trimmed(LineAt(text, i)) : i \in DOMAIN text} \ {<<>>}

BlankLines(text) ==
  {i \in 1..(Len(text) - 1) : text[i] = LF /\ text[i + 1] = LF}

(* The filter: the part up to the last blank line, and the unfinished rest.*)
ReadyEnd(text) ==
  IF BlankLines(text) = {} THEN 0 ELSE Max(BlankLines(text)) + 1

Clean(buf) ==
  LET text == Bytes(buf)
  IN  Only(buf, {i \in DOMAIN buf : Trimmed(LineAt(text, i)) # <<NullLine>>})

Ready(buf) == Clean(SubSeq(buf, 1, ReadyEnd(Bytes(buf))))
Rest(buf)  == From(buf, ReadyEnd(Bytes(buf)) + 1)

(* The classifier takes CR LF and a lone CR of a chunk for LF ...          *)
Normalized(text) ==
  Only([i \in DOMAIN text |-> IF text[i] = CR THEN LF ELSE text[i]],
       {i \in DOMAIN text : ~(text[i] = LF /\ i > 1 /\ text[i - 1] = CR)})

(* ... and cuts off block after block at a blank line, as long as there is *)
(* one; further rounds change nothing.                                     *)
Blocks(text) ==
  LET blank == BlankLines(text)
      cut[k \in 0..Len(text)] ==
        IF k = 0 THEN [pos |-> 1, blocks |-> {}]
        ELSE LET s    == cut[k - 1]
                 ends == {i \in blank : i >= s.pos}
             IN  IF ends = {} THEN s
                 ELSE [pos    |-> Min(ends) + 2,
                       blocks |-> s.blocks \cup
                                    {SubSeq(text, s.pos, Min(ends) - 1)}]
      last == cut[Len(text)]
  IN  [blocks |-> last.blocks, carry |-> From(text, last.pos)]

Fields(block) == {line \in Lines(block) : line[1] # CommentMark}

IsData(block) == Fields(block) # {} /\ <<PingLine>> \notin Fields(block)
IsStop(block) == <<DoneLine>> \in Fields(block)

-----------------------------------------------------------------------------
classifyBlocks(blocks) ==
  /\ sawData' = (sawData \/ \E b \in blocks : IsData(b))
  /\ sawStop' = (sawStop \/ \E b \in blocks : IsStop(b))

Analyze(buf) ==
  LET parts == Blocks(carry \o Normalized(Bytes(buf)))
  IN  carry' = parts.carry /\ classifyBlocks(parts.blocks)

(* A variant with a plausible bug: it breaks VerdictsOfTheWhole.           *)
FlushForgetsTheCarry == carry' = <<>> /\ UNCHANGED <<sawData, sawStop>>

FlushCarry == carry' = <<>> /\ classifyBlocks({carry} \ {<<>>})

(* What the stripper lets through, or the chunk as it came.                *)
Stripped(n) ==
  IF strips THEN Process(n)
  ELSE /\ end = "open" /\ fed + n <= Len(stream)
       /\ fed' = fed + n
       /\ forwarded' = forwarded \o Run(fed, fed + n)
       /\ UNCHANGED <<stream, insideThinkTag, thinkBuf, tagPrefixPending, end>>

(* The reader has read a chunk of n bytes.                                 *)
ReadChunk(n) ==
  /\ Stripped(n)
  /\ LET out == openaiPending \o From(forwarded', Len(forwarded) + 1)
         sends == IF openai THEN Ready(out) ELSE out
     IN  /\ openaiPending' = IF openai THEN Rest(out) ELSE <<>>
         /\ Analyze(sends)
         /\ delivered' = delivered \o sends
  /\ UNCHANGED mode

(* A variant with a plausible bug: it breaks DeliveredInOrder.             *)
HandleCleanEndDropsTheTail ==
  /\ Flush
  /\ FlushCarry
  /\ delivered' = delivered \o From(forwarded', Len(forwarded) + 1)
  /\ openaiPending' = <<>>
  /\ UNCHANGED mode

(* The upstream ends the stream: the classifier is flushed, then what the  *)
(* stripper held is sent, and then what the filter held, unclassified.     *)
HandleCleanEnd ==
  /\ Flush
  /\ FlushCarry
  /\ \/ end' = "unterminated" /\ UNCHANGED <<delivered, openaiPending>>
     \/ /\ end' = "clean"
        /\ delivered' = delivered \o From(forwarded', Len(forwarded) + 1)
                                  \o openaiPending
        /\ openaiPending' = <<>>
  /\ UNCHANGED mode

(* The upstream breaks it: what the filter and the stripper held is lost.  *)
HandleStreamError ==
  /\ end = "open"
  /\ end' = "broken"
  /\ FlushCarry
  /\ openaiPending' = <<>>
  /\ UNCHANGED <<stream, fed, insideThinkTag, thinkBuf, tagPrefixPending,
                 forwarded, mode, delivered>>

PipelineNext ==
  \/ HandleCleanEnd
  \/ HandleStreamError
  \/ \E n \in 1..Len(stream) : ReadChunk(n)

PipelineSpec == PipelineInit /\ [][PipelineNext]_pipelineVars

-----------------------------------------------------------------------------
(* Each byte that has arrived is in one place: withheld by the stripper,   *)
(* held back by the filter, or on; only the filter's unfinished event and  *)
(* an unfinished block are kept from chunk to chunk.                       *)
PipelineTypeOK ==
  /\ TypeOK
  /\ ~strips => thinkBuf \o tagPrefixPending = <<>>
  /\ \E n \in 0..Len(forwarded) : openaiPending = From(forwarded, n + 1)
  /\ ReadyEnd(Bytes(openaiPending)) = 0
  /\ BlankLines(carry) = {} /\ CR \notin ToSet(carry)
  /\ delivered \in Seq(1..fed)

(* The stripper alone, whatever is done with its output.                   *)
StrippedExactly == strips => OneSpanIsExact

(* The text the client is to get: what one pass over all of it would keep. *)
WholeText == IF strips THEN Visible.out ELSE Run(0, Len(stream))

Kept == IF openai THEN Ready(WholeText) \o Rest(WholeText) ELSE WholeText

(* However the bytes are cut into chunks, the client has at any time a     *)
(* beginning of the text it is to get, and at a clean end all of it, in    *)
(* order: "no bytes are lost (verbatim-streaming contract)" (sse.go:305).  *)
(* The order may differ in one case: both the stripper and the filter hold *)
(* something at the end, a beginning of a tag in an unfinished event; the  *)
(* stripper's comes later in the stream and is sent first.                 *)
DeliveredInOrder ==
  OneSpan \/ ~strips =>
    \/ IsPrefix(delivered, Kept) /\ (end = "clean" => delivered = Kept)
    \/ /\ strips /\ end = "clean" /\ hold(WholeText) > 0
       /\ Rest(WholeText) # <<>>
       /\ Len(delivered) = Len(Kept) /\ ToSet(delivered) = ToSet(Kept)

(* "Chunk boundaries are irrelevant" (sseparse.go:36): the verdicts on a   *)
(* stream that is over are those of its text taken as a whole, as far as   *)
(* the filter let it through.  For sawData that takes line ends without CR:*)
(* a CR LF that was cut ends a block early, and what follows the ping of   *)
(* the first half counts as data; it never hides data, nor a terminal      *)
(* marker, that is there.                                                  *)
VerdictsOfTheWhole ==
  LET text   == Bytes(IF openai THEN Ready(forwarded) ELSE forwarded)
      parts  == Blocks(Normalized(text))
      blocks == parts.blocks \cup {parts.carry}
      data   == \E b \in blocks : IsData(b)
  IN  end # "open" =>
        /\ sawStop <=> \E b \in blocks : IsStop(b)
        /\ data => sawData
        /\ CR \notin ToSet(text) => (sawData => data)
=============================================================================
