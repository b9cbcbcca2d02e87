----------------------------- MODULE ThinkStrip -----------------------------
(***************************************************************************)
(* ThinkStripper of src/internal/proxy/thinkstrip.go, byte by byte: the    *)
(* upstream's bytes arrive in chunks of any size and the spans between the *)
(* two tags are to be taken out.  A byte is known by its place in the      *)
(* stream, so the model tells a byte forwarded twice from an equal one.    *)
(***************************************************************************)
EXTENDS Integers, Sequences, SequencesExt

CONSTANTS
  OpenTag, CloseTag,   \* thinkOpenTag and thinkCloseTag
  Streams              \* the byte sequences an upstream may send

(* The first byte of the tags is nowhere else in them, so that no two tags *)
(* overlap in a stream, and neither tag is a beginning of the other.       *)
ASSUME TagsAssumption ==
  /\ OpenTag \in Seq(ToSet(OpenTag)) /\ CloseTag \in Seq(ToSet(CloseTag))
  /\ \A tag, other \in {OpenTag, CloseTag} :
       /\ tag # <<>>
       /\ \A k \in 2..Len(tag) : tag[k] # other[1]
  /\ \E k \in 1..Len(OpenTag) :
       k <= Len(CloseTag) /\ OpenTag[k] # CloseTag[k]
  /\ \A s \in Streams : s \in Seq(ToSet(s))

VARIABLES
  stream,           \* the bytes of this stream
  fed,              \* how many of them have arrived
  insideThinkTag,
  thinkBuf,
  tagPrefixPending,
  forwarded,        \* what Process and Flush returned
  end               \* "open", then what Flush found

vars == <<stream, fed, insideThinkTag, thinkBuf, tagPrefixPending,
          forwarded, end>>

Init ==
  /\ stream \in Streams
  /\ fed = 0
  /\ insideThinkTag = FALSE
  /\ thinkBuf = <<>>
  /\ tagPrefixPending = <<>>
  /\ forwarded = <<>>
  /\ end = "open"

-----------------------------------------------------------------------------
(* Buffers are sequences of places: most are the places after a up to b.   *)

Run(a, b) == [i \in 1..(b - a) |-> a + i]

Bytes(buf) == [i \in DOMAIN buf |-> stream[buf[i]]]

From(buf, i) == SubSeq(buf, i, Len(buf))

TagAt(buf, i, tag) ==
  /\ i + Len(tag) - 1 <= Len(buf)
  /\ \A k \in 1..Len(tag) : stream[buf[i + k - 1]] = tag[k]

(* bytes.Index from place i of buf on: 0 where the code has -1.            *)
Index(buf, i, tag) ==
  LET found == {j \in i..Len(buf) : TagAt(buf, j, tag)}
  IN  IF found = {} THEN 0 ELSE CHOOSE j \in found : \A k \in found : j <= k

(* A round of the loop over thinkBuf: it goes past the next tag, or to the *)
(* end if there is none.                                                   *)
Round(buf, s) ==
  LET tag == IF s.inside THEN CloseTag ELSE OpenTag
      at  == Index(buf, s.pos, tag)
      upTo(last) == IF s.inside THEN <<>> ELSE SubSeq(buf, s.pos, last)
  IN  IF at = 0
      THEN [s EXCEPT !.pos = Len(buf) + 1, !.out = @ \o upTo(Len(buf))]
      ELSE [pos |-> at + Len(tag), inside |-> ~s.inside,
            out |-> s.out \o upTo(at - 1)]

(* The loop: what lies outside the spans, and whether the last of them is  *)
(* still open.  It is over after as many rounds as there are bytes; further*)
(* ones change nothing.                                                    *)
Scan(buf, inside) ==
  LET scan[k \in 0..Len(buf)] ==
        IF k = 0 THEN [pos |-> 1, inside |-> inside, out |-> <<>>]
                 ELSE Round(buf, scan[k - 1])
  IN  scan[Len(buf)]

(* Variants with a plausible bug: each breaks a property.                  *)
RetainsResolved(buf, inside) == buf

(* An unresolved span stays in thinkBuf, from the first open tag there.    *)
Retained(buf, inside) ==
  IF inside THEN From(buf, Index(buf, 1, OpenTag)) ELSE <<>>

HoldsNothing(buf) == 0

(* How many bytes at the end of buf may begin an open tag.                 *)
hold(buf) ==
  LET ends == {n \in 1..(Len(OpenTag) - 1) :
                 /\ n <= Len(buf)
                 /\ \A k \in 1..n :
                      stream[buf[Len(buf) - n + k]] = OpenTag[k]}
  IN  IF ends = {} THEN 0 ELSE CHOOSE n \in ends : \A k \in ends : k <= n

Strip(buf) ==
  LET whole == thinkBuf \o buf
      scan  == Scan(whole, insideThinkTag)
  IN  /\ insideThinkTag' = scan.inside
      /\ thinkBuf' = Retained(whole, scan.inside)
      /\ tagPrefixPending' = <<>>
      /\ forwarded' = forwarded \o scan.out

PassThrough(buf) ==
  /\ tagPrefixPending' = From(buf, Len(buf) - hold(buf) + 1)
  /\ forwarded' = forwarded \o SubSeq(buf, 1, Len(buf) - hold(buf))
  /\ UNCHANGED <<insideThinkTag, thinkBuf>>

(* The next n bytes arrive as one chunk.                                   *)
Process(n) ==
  /\ end = "open" /\ fed + n <= Len(stream)
  /\ fed' = fed + n
  /\ LET buf == tagPrefixPending \o Run(fed, fed + n)
     IN  IF insideThinkTag \/ Index(buf, 1, OpenTag) # 0 THEN Strip(buf)
                                                         ELSE PassThrough(buf)
  /\ UNCHANGED <<stream, end>>

FlushDropsThePrefix ==
  /\ end = "open" /\ fed = Len(stream)
  /\ end' = IF thinkBuf # <<>> THEN "unterminated" ELSE "clean"
  /\ UNCHANGED <<stream, fed, insideThinkTag, thinkBuf, tagPrefixPending,
                 forwarded>>

(* The stream ends.                                                        *)
Flush ==
  /\ end = "open" /\ fed = Len(stream)
  /\ IF thinkBuf # <<>>
     THEN end' = "unterminated" /\ UNCHANGED <<forwarded, tagPrefixPending>>
     ELSE /\ end' = "clean"
          /\ forwarded' = forwarded \o tagPrefixPending
          /\ tagPrefixPending' = <<>>
  /\ UNCHANGED <<stream, fed, insideThinkTag, thinkBuf>>

Next == Flush \/ \E n \in 1..Len(stream) : Process(n)

Spec == Init /\ [][Next]_vars

-----------------------------------------------------------------------------
(* Properties.                                                             *)

(* Buffers hold places that have arrived; what is withheld is the end of   *)
(* what has, either an open span or a few bytes that may begin one.        *)
TypeOK ==
  /\ fed \in 0..Len(stream)
  /\ forwarded \in Seq(1..fed)
  /\ insideThinkTag <=> thinkBuf # <<>>
  /\ thinkBuf = <<>> \/ tagPrefixPending = <<>>
  /\ \E withheld \in 0..fed :
       thinkBuf \o tagPrefixPending = Run(fed - withheld, fed)

(* What a stripper that saw the whole stream at once would forward.        *)
Visible == Scan(Run(0, Len(stream)), FALSE)

(* No chunking loses text: when the stripper says the stream ended well,   *)
(* each byte outside the spans has been forwarded (thinkstrip.go:86-90).   *)
NothingIsLost == end = "clean" => ToSet(Visible.out) \subseteq ToSet(forwarded)

OneSpan ==
  \A i, j \in 1..Len(stream) :
    LET places == Run(0, Len(stream))
    IN  TagAt(places, i, OpenTag) /\ TagAt(places, j, OpenTag) => i = j

(* In a stream with at most one span no chunking makes a difference: what  *)
(* is forwarded is at any time a beginning of the text around the span, at *)
(* the end all of it, and an unterminated span is always told.             *)
OneSpanIsExact ==
  OneSpan =>
    /\ IsPrefix(forwarded, Visible.out)
    /\ end = "clean" => forwarded = Visible.out
    /\ end \in {"clean", "unterminated"} =>
         (end = "unterminated" <=> Visible.inside)

(* "Tags and their content are handled correctly even when they span       *)
(* multiple SSE chunks or split mid-tag at a chunk boundary" (README.md:   *)
(* 213-215), of any stream: just the text outside the spans, once.         *)
SpansAreRemoved == IsPrefix(forwarded, Visible.out)
=============================================================================
