--------------------------- MODULE PipelineProofs ---------------------------
(***************************************************************************)
(* The think stripper, for tags and streams of any length cut into chunks  *)
(* in any way, alone (module ThinkStrip) and as the reader uses it (module *)
(* Pipeline).                                                              *)
(***************************************************************************)
EXTENDS Pipeline, Recursion

-----------------------------------------------------------------------------
(* The tags and the stream.                                                *)
Tags == {OpenTag, CloseTag}

LEMMA TagFacts ==
  /\ \A tag \in Tags : Len(tag) \in Nat /\ Len(tag) > 0
  /\ OpenTag \in Tags /\ CloseTag \in Tags
<1>1. ASSUME NEW tag \in Tags PROVE Len(tag) \in Nat /\ Len(tag) > 0
  <2>1. tag \in Seq(ToSet(tag)) /\ tag # <<>>
    BY TagsAssumption DEF Tags
  <2> QED BY <2>1, LenProperties, EmptySeq
<1> QED BY <1>1 DEF Tags

LEMMA StreamFacts ==
  ASSUME stream \in Streams
  PROVE  stream \in Seq(ToSet(stream)) /\ Len(stream) \in Nat
<1>1. stream \in Seq(ToSet(stream))
  BY TagsAssumption
<1> QED BY <1>1, LenProperties

(* A tag stands at place p of the stream.                                  *)
Occurs(tag, p) ==
  /\ p + Len(tag) - 1 <= Len(stream)
  /\ \A k \in 1..Len(tag) : stream[p + k - 1] = tag[k]

(* Tags do not overlap.                                                    *)
LEMMA TagsApart ==
  ASSUME NEW tag \in Tags, NEW other \in Tags, NEW p \in Nat, NEW q \in Nat,
         Occurs(tag, p), Occurs(other, q), p < q
  PROVE  p + Len(tag) <= q
<1> SUFFICES ASSUME q < p + Len(tag) PROVE FALSE
  BY TagFacts
<1>1. PICK k \in 2..Len(tag) : p + k - 1 = q
  <2>1. q - p + 1 \in 2..Len(tag) /\ p + (q - p + 1) - 1 = q
    BY TagFacts
  <2> QED BY <2>1
<1>2. stream[q] = tag[k] /\ stream[q] = other[1]
  <2>1. k \in 1..Len(tag) /\ 1 \in 1..Len(other) /\ q + 1 - 1 = q
    BY TagFacts
  <2>2. stream[p + k - 1] = tag[k] /\ stream[q + 1 - 1] = other[1]
    BY <2>1 DEF Occurs
  <2> QED BY <1>1, <2>1, <2>2
<1>3. tag[k] # other[1]
  BY <1>1, TagsAssumption DEF Tags
<1> QED BY <1>1, <1>2, <1>3

LEMMA TagsDiffer ==
  ASSUME NEW p \in Nat, Occurs(OpenTag, p), Occurs(CloseTag, p)
  PROVE  FALSE
<1>1. PICK k \in 1..Len(OpenTag) :
        k <= Len(CloseTag) /\ OpenTag[k] # CloseTag[k]
  BY TagsAssumption
<1>2. k \in 1..Len(CloseTag)
  BY <1>1, TagFacts
<1> QED BY <1>1, <1>2 DEF Occurs

-----------------------------------------------------------------------------
(* Buffers that are runs of places.                                        *)
LEMMA RunFacts ==
  ASSUME NEW a \in Nat, NEW b \in Nat, a <= b
  PROVE  /\ Len(Run(a, b)) = b - a
         /\ DOMAIN Run(a, b) = 1..(b - a)
         /\ Run(a, b) \in Seq((a + 1)..b) /\ Run(a, b) \in Seq(Nat)
         /\ \A i \in 1..(b - a) : Run(a, b)[i] = a + i
         /\ ToSet(Run(a, b)) = (a + 1)..b
         /\ Run(a, b) = <<>> <=> a = b
<1>1. DOMAIN Run(a, b) = 1..(b - a)
      /\ \A i \in 1..(b - a) : Run(a, b)[i] = a + i
  BY DEF Run
<1>2. b - a \in Nat /\ \A i \in 1..(b - a) : a + i \in (a + 1)..b
  OBVIOUS
<1>3. Run(a, b) \in [1..(b - a) -> (a + 1)..b]
  BY <1>2 DEF Run
<1>4. Run(a, b) \in Seq((a + 1)..b)
  BY <1>2, <1>3
<1>5. Run(a, b) \in Seq(Nat)
  BY <1>4, SeqMonotonic
<1>6. Len(Run(a, b)) = b - a
  BY <1>1, <1>2, <1>4, LenProperties
<1>7. ToSet(Run(a, b)) = (a + 1)..b
  <2>1. \A x \in (a + 1)..b : x - a \in 1..(b - a) /\ Run(a, b)[x - a] = x
    BY <1>1
  <2> QED BY <1>1, <1>2, <2>1 DEF ToSet
<1>8. Run(a, b) = <<>> <=> a = b
  BY <1>4, <1>6, EmptySeq
<1> QED BY <1>1, <1>4, <1>5, <1>6, <1>7, <1>8

LEMMA SameSeq ==
  ASSUME NEW S, NEW s \in Seq(S), NEW t \in Seq(S), Len(s) = Len(t),
         \A i \in 1..Len(s) : s[i] = t[i]
  PROVE  s = t
BY SeqEqual

LEMMA RunConcat ==
  ASSUME NEW a \in Nat, NEW b \in Nat, NEW c \in Nat, a <= b, b <= c
  PROVE  Run(a, b) \o Run(b, c) = Run(a, c)
<1> DEFINE s == Run(a, b)
           t == Run(b, c)
           u == Run(a, c)
<1>1. /\ s \in Seq(Nat) /\ t \in Seq(Nat) /\ u \in Seq(Nat)
      /\ Len(s) = b - a /\ Len(t) = c - b /\ Len(u) = c - a
      /\ \A i \in 1..(b - a) : s[i] = a + i
      /\ \A i \in 1..(c - b) : t[i] = b + i
      /\ \A i \in 1..(c - a) : u[i] = a + i
  <2>1. a <= c
    OBVIOUS
  <2> QED BY <2>1, RunFacts
<1> HIDE DEF s, t, u
<1>2. /\ s \o t \in Seq(Nat) /\ Len(s \o t) = Len(s) + Len(t)
      /\ \A i \in 1..Len(s) + Len(t) :
           (s \o t)[i] = IF i <= Len(s) THEN s[i] ELSE t[i - Len(s)]
  BY <1>1, ConcatProperties
<1>3. Len(s \o t) = c - a
  BY <1>1, <1>2
<1>4. ASSUME NEW i \in 1..(c - a) PROVE (s \o t)[i] = u[i]
  <2>1. CASE i <= b - a
    BY <1>1, <1>2, <2>1
  <2>2. CASE i > b - a
    <3>1. i - (b - a) \in 1..(c - b)
      BY <2>2
    <3>a. i \in 1..Len(s) + Len(t) /\ ~(i <= Len(s)) /\ Len(s) = b - a
      BY <1>1, <2>2
    <3>2. (s \o t)[i] = t[i - (b - a)]
      BY <1>2, <3>a
    <3> QED BY <1>1, <3>1, <3>2
  <2>3. i <= b - a \/ i > b - a
    OBVIOUS
  <2> QED BY <2>1, <2>2, <2>3, Zenon
<1>5. s \o t = u
  BY <1>1, <1>2, <1>3, <1>4, SameSeq
<1> QED BY <1>5 DEF s, t, u

LEMMA RunPart ==
  ASSUME NEW a \in Nat, NEW b \in Nat, a <= b,
         NEW i \in 1..(b - a + 1), NEW j \in (i - 1)..(b - a)
  PROVE  SubSeq(Run(a, b), i, j) = Run(a + i - 1, a + j)
<1> DEFINE s == Run(a, b)
           t == Run(a + i - 1, a + j)
<1>1. /\ s \in Seq(Nat) /\ Len(s) = b - a
      /\ \A k \in 1..(b - a) : s[k] = a + k
  BY RunFacts
<1>2. /\ a + i - 1 \in Nat /\ a + j \in Nat /\ a + i - 1 <= a + j
      /\ t \in Seq(Nat) /\ Len(t) = j - i + 1
      /\ \A k \in 1..(j - i + 1) : t[k] = a + i - 1 + k
  <2>1. PICK c \in Nat, d \in Nat : c = a + i - 1 /\ d = a + j /\ c <= d
    OBVIOUS
  <2>2. /\ Run(c, d) \in Seq(Nat) /\ Len(Run(c, d)) = d - c
        /\ \A k \in 1..(d - c) : Run(c, d)[k] = c + k
    BY <2>1, RunFacts
  <2>3. d - c = j - i + 1
    BY <2>1
  <2> QED BY <2>1, <2>2, <2>3
<1> HIDE DEF s, t
<1>3. CASE i <= j
  <2>1. \A k \in i..j : s[k] \in Nat
    BY <1>1
  <2>2. /\ SubSeq(s, i, j) \in Seq(Nat)
        /\ Len(SubSeq(s, i, j)) = j - i + 1
        /\ \A k \in 1..(j - i + 1) : SubSeq(s, i, j)[k] = s[i + k - 1]
    BY <1>1, <1>3, <2>1, SubSeqProperties
  <2>3. \A k \in 1..(j - i + 1) : SubSeq(s, i, j)[k] = t[k]
    BY <1>1, <1>2, <2>2
  <2>4. SubSeq(s, i, j) = t
    BY <1>2, <2>2, <2>3, SameSeq
  <2> QED BY <2>4 DEF s, t
<1>4. CASE i > j
  <2>1. SubSeq(s, i, j) = <<>>
    BY <1>1, <1>4, SubSeqEmpty
  <2>2. t = <<>>
    BY <1>2, <1>4, EmptySeq
  <2> QED BY <2>1, <2>2 DEF s, t
<1> QED BY <1>3, <1>4

-----------------------------------------------------------------------------
(* A tag at place p of the stream is found in a buffer that has all of it. *)
LEMMA TagInRun ==
  ASSUME stream \in Streams, NEW tag \in Tags,
         NEW a \in Nat, NEW b \in Nat, a <= b, b <= Len(stream),
         NEW i \in 1..(b - a + 1)
  PROVE  TagAt(Run(a, b), i, tag) <=> /\ Occurs(tag, a + i)
                                      /\ a + i + Len(tag) - 1 <= b
<1>1. Len(tag) \in Nat /\ Len(tag) > 0 /\ Len(stream) \in Nat
  BY TagFacts, StreamFacts
<1>2. /\ Len(Run(a, b)) = b - a
      /\ \A k \in 1..(b - a) : Run(a, b)[k] = a + k
  BY RunFacts
<1>3. i + Len(tag) - 1 <= b - a <=> a + i + Len(tag) - 1 <= b
  BY <1>1
<1>4. ASSUME a + i + Len(tag) - 1 <= b, NEW k \in 1..Len(tag)
      PROVE  stream[Run(a, b)[i + k - 1]] = stream[a + i + k - 1]
  <2>1. i + k - 1 \in 1..(b - a) /\ a + (i + k - 1) = a + i + k - 1
    BY <1>1, <1>4
  <2>2. Run(a, b)[i + k - 1] = a + (i + k - 1)
    BY <1>2, <2>1
  <2> QED BY <2>1, <2>2
<1>5. a + i + Len(tag) - 1 <= b => a + i + Len(tag) - 1 <= Len(stream)
  BY <1>1
<1> QED BY <1>2, <1>3, <1>4, <1>5 DEF TagAt, Occurs

(* What Index returns: no tag from place p on that ends by place b, or the *)
(* first one.                                                              *)
NoTag(tag, p, b) ==
  \A q \in p..b : Occurs(tag, q) => q + Len(tag) - 1 > b

FirstTag(tag, p, b, q) ==
  /\ q \in p..b /\ Occurs(tag, q) /\ q + Len(tag) - 1 <= b
  /\ \A x \in p..(q - 1) : ~Occurs(tag, x)

LEMMA IndexFinds ==
  ASSUME stream \in Streams, NEW tag \in Tags,
         NEW a \in Nat, NEW b \in Nat, a <= b, b <= Len(stream),
         NEW i \in 1..(b - a + 1)
  PROVE  \/ Index(Run(a, b), i, tag) = 0 /\ NoTag(tag, a + i, b)
         \/ /\ Index(Run(a, b), i, tag) \in i..(b - a)
            /\ FirstTag(tag, a + i, b, a + Index(Run(a, b), i, tag))
<1> DEFINE buf == Run(a, b)
           found == {j \in i..(b - a) : TagAt(buf, j, tag)}
<1>0. Len(tag) \in Nat /\ Len(tag) > 0 /\ Len(stream) \in Nat
  BY TagFacts, StreamFacts
<1>1. Len(buf) = b - a
  BY RunFacts
<1>2. Index(buf, i, tag) =
        IF found = {} THEN 0 ELSE CHOOSE j \in found : \A k \in found : j <= k
  BY <1>1 DEF Index
<1>3. \A j \in i..(b - a) :
        j \in found <=> Occurs(tag, a + j) /\ a + j + Len(tag) - 1 <= b
  <2>1. \A j \in i..(b - a) : j \in 1..(b - a + 1)
    OBVIOUS
  <2> QED BY <2>1, TagInRun
<1>4. CASE found = {}
  <2>1. Index(buf, i, tag) = 0
    BY <1>2, <1>4
  <2>2. ASSUME NEW q \in (a + i)..b, Occurs(tag, q)
        PROVE  q + Len(tag) - 1 > b
    <3>1. PICK j \in i..(b - a) : a + j = q
      <4>1. q - a \in i..(b - a) /\ a + (q - a) = q
        OBVIOUS
      <4> QED BY <4>1
    <3>2. ~(q + Len(tag) - 1 <= b)
      BY <1>3, <1>4, <2>2, <3>1
    <3> QED BY <1>0, <3>2
  <2>3. NoTag(tag, a + i, b)
    BY <2>2 DEF NoTag
  <2> QED BY <2>1, <2>3
<1>5. CASE found # {}
  <2>1. found \in SUBSET Nat
    OBVIOUS
  <2>2. \E j \in found : \A k \in found : j <= k
    <3> HIDE DEF found
    <3> QED BY <1>5, <2>1, Minimum
  <2>3. PICK at \in found : /\ \A k \in found : at <= k
                            /\ at = Index(buf, i, tag)
    <3> HIDE DEF found
    <3> QED BY <1>2, <1>5, <2>2
  <2>4. at \in i..(b - a) /\ a + at \in (a + i)..b
        /\ Occurs(tag, a + at) /\ a + at + Len(tag) - 1 <= b
    BY <1>3, <2>3
  <2>5. ASSUME NEW x \in (a + i)..(a + at - 1), Occurs(tag, x)
        PROVE  FALSE
    <3>1. PICK j \in i..(b - a) : a + j = x
      <4>1. x - a \in i..(b - a) /\ a + (x - a) = x
        BY <2>4
      <4> QED BY <4>1
    <3>2. a + j + Len(tag) - 1 <= b /\ ~(at <= j)
      BY <1>0, <2>4, <2>5, <3>1
    <3>3. j \in found
      BY <1>3, <2>5, <3>1, <3>2
    <3> QED BY <2>3, <3>2, <3>3
  <2>6. FirstTag(tag, a + i, b, a + at)
    BY <2>4, <2>5 DEF FirstTag
  <2> QED BY <2>3, <2>4, <2>6
<1> QED BY <1>4, <1>5

-----------------------------------------------------------------------------
(* A round of the loop over a run of places.                               *)
States(a, b) ==
  [pos : 1..(b - a + 1), inside : BOOLEAN, out : Seq((a + 1)..b)]

Sought(s) == IF s.inside THEN CloseTag ELSE OpenTag

(* What the round forwards if it looks as far as place q.                  *)
OutUpTo(a, s, q) ==
  IF s.inside THEN s.out ELSE s.out \o Run(a + s.pos - 1, q)

Ends(a, b, s, r) ==
  /\ NoTag(Sought(s), a + s.pos, b)
  /\ r.pos = b - a + 1 /\ r.inside = s.inside /\ r.out = OutUpTo(a, s, b)

Passes(a, b, s, r, q) ==
  /\ FirstTag(Sought(s), a + s.pos, b, q)
  /\ r.pos = q - a + Len(Sought(s)) /\ r.inside = ~s.inside
  /\ r.out = OutUpTo(a, s, q - 1)

LEMMA OutUpToType ==
  ASSUME NEW a \in Nat, NEW b \in Nat, a <= b,
         NEW s \in States(a, b), NEW q \in (a + s.pos - 1)..b
  PROVE  /\ OutUpTo(a, s, q) \in Seq((a + 1)..b)
         /\ ToSet(OutUpTo(a, s, q)) =
              ToSet(s.out) \cup IF s.inside THEN {} ELSE (a + s.pos)..q
<1> DEFINE run == Run(a + s.pos - 1, q)
<1>1. s.pos \in 1..(b - a + 1) /\ s.inside \in BOOLEAN
      /\ s.out \in Seq((a + 1)..b)
  BY DEF States
<1>2. run \in Seq((a + 1)..b) /\ ToSet(run) = (a + s.pos)..q
  <2>1. PICK c \in Nat : c = a + s.pos - 1
    BY <1>1
  <2>2. q \in Nat /\ c <= q /\ c + 1 = a + s.pos
    BY <1>1, <2>1
  <2>3. Run(c, q) \in Seq((c + 1)..q) /\ ToSet(Run(c, q)) = (c + 1)..q
    BY <2>2, RunFacts
  <2>4. (c + 1)..q \subseteq (a + 1)..b
    BY <1>1, <2>2
  <2>5. Run(c, q) \in Seq((a + 1)..b)
    BY <2>3, <2>4, SeqMonotonic
  <2> QED BY <2>1, <2>2, <2>3, <2>5
<1> HIDE DEF run
<1>3. s.out \o run \in Seq((a + 1)..b)
      /\ ToSet(s.out \o run) = ToSet(s.out) \cup ToSet(run)
  <2>1. /\ s.out \o run \in Seq((a + 1)..b)
        /\ Range(s.out \o run) = Range(s.out) \cup Range(run)
    BY <1>1, <1>2, ConcatProperties, RangeConcatenation
  <2>2. \A t : Range(t) = ToSet(t)
    BY DEF Range, ToSet
  <2> QED BY <2>1, <2>2
<1>4. CASE s.inside
  BY <1>1, <1>4 DEF OutUpTo
<1>5. CASE ~s.inside
  <2>1. OutUpTo(a, s, q) = s.out \o run
    BY <1>5 DEF OutUpTo, run
  <2> QED BY <1>2, <1>3, <1>5, <2>1
<1> QED BY <1>4, <1>5

LEMMA RoundOf ==
  ASSUME stream \in Streams,
         NEW a \in Nat, NEW b \in Nat, a <= b, b <= Len(stream),
         NEW s \in States(a, b)
  PROVE  LET r == Round(Run(a, b), s)
         IN  /\ r \in States(a, b)
             /\ Ends(a, b, s, r) \/ \E q : Passes(a, b, s, r, q)
<1> DEFINE buf == Run(a, b)
           tag == Sought(s)
           at == Index(buf, s.pos, tag)
           r == Round(buf, s)
           upTo(last) == IF s.inside THEN <<>> ELSE SubSeq(buf, s.pos, last)
<1>1. /\ s.pos \in 1..(b - a + 1) /\ s.inside \in BOOLEAN
      /\ s.out \in Seq((a + 1)..b)
      /\ s = [pos |-> s.pos, inside |-> s.inside, out |-> s.out]
  BY DEF States
<1>2. tag \in Tags /\ Len(tag) \in Nat /\ Len(tag) > 0
  BY TagFacts DEF Sought
<1>3. Len(buf) = b - a
  BY RunFacts
<1>4. r = IF at = 0
          THEN [s EXCEPT !.pos = b - a + 1, !.out = @ \o upTo(b - a)]
          ELSE [pos |-> at + Len(tag), inside |-> ~s.inside,
                out |-> s.out \o upTo(at - 1)]
  BY <1>3 DEF Round, Sought
<1>5. ASSUME NEW last \in (s.pos - 1)..(b - a)
      PROVE  s.out \o upTo(last) = OutUpTo(a, s, a + last)
  <2>1. CASE s.inside
    BY <1>1, <2>1, ConcatEmptySeq DEF OutUpTo
  <2>2. CASE ~s.inside
    <3>1. SubSeq(buf, s.pos, last) = Run(a + s.pos - 1, a + last)
      BY <1>1, RunPart
    <3> QED BY <2>2, <3>1 DEF OutUpTo
  <2> QED BY <2>1, <2>2
<1>6. \/ at = 0 /\ NoTag(tag, a + s.pos, b)
      \/ at \in s.pos..(b - a) /\ FirstTag(tag, a + s.pos, b, a + at)
  BY <1>1, <1>2, IndexFinds
<1> HIDE DEF buf, tag, at, r, upTo
<1>7. CASE at = 0 /\ NoTag(tag, a + s.pos, b)
  <2>1. r = [pos |-> b - a + 1, inside |-> s.inside,
             out |-> s.out \o upTo(b - a)]
    BY <1>1, <1>4, <1>7
  <2>2. b - a \in (s.pos - 1)..(b - a) /\ a + (b - a) = b
        /\ b \in (a + s.pos - 1)..b /\ b - a + 1 \in 1..(b - a + 1)
    BY <1>1
  <2>3. s.out \o upTo(b - a) = OutUpTo(a, s, b)
    <3>1. s.out \o upTo(b - a) = OutUpTo(a, s, a + (b - a))
      BY <1>5, <2>2
    <3> QED BY <2>2, <3>1
  <2>4. OutUpTo(a, s, b) \in Seq((a + 1)..b)
    BY <2>2, OutUpToType
  <2>5. r.pos = b - a + 1 /\ r.inside = s.inside /\ r.out = OutUpTo(a, s, b)
    BY <2>1, <2>3
  <2>6. r \in States(a, b)
    BY <1>1, <2>1, <2>2, <2>3, <2>4 DEF States
  <2>7. Ends(a, b, s, r)
    BY <1>7, <2>5 DEF Ends, tag
  <2> QED BY <2>6, <2>7 DEF r, buf
<1>8. CASE at \in s.pos..(b - a) /\ FirstTag(tag, a + s.pos, b, a + at)
  <2>1. r = [pos |-> at + Len(tag), inside |-> ~s.inside,
             out |-> s.out \o upTo(at - 1)]
    BY <1>1, <1>4, <1>8
  <2>a. at \in Nat /\ s.pos \in Nat /\ s.pos >= 1 /\ s.pos <= at
        /\ at <= b - a /\ a + at + Len(tag) - 1 <= b
    BY <1>1, <1>8 DEF FirstTag
  <2>2. at - 1 \in (s.pos - 1)..(b - a)
        /\ a + (at - 1) = a + at - 1 /\ a + at - 1 \in (a + s.pos - 1)..b
        /\ a + at - a = at
    BY <2>a
  <2>3. s.out \o upTo(at - 1) = OutUpTo(a, s, a + at - 1)
    <3>1. s.out \o upTo(at - 1) = OutUpTo(a, s, a + (at - 1))
      BY <1>5, <2>2
    <3> QED BY <2>2, <3>1
  <2>4. OutUpTo(a, s, a + at - 1) \in Seq((a + 1)..b)
    BY <2>2, OutUpToType
  <2>5. at + Len(tag) \in 1..(b - a + 1)
    BY <1>2, <2>a
  <2>6. r \in States(a, b)
    BY <1>1, <2>1, <2>3, <2>4, <2>5 DEF States
  <2>b. PICK q : q = a + at
    OBVIOUS
  <2>7. Passes(a, b, s, r, q)
    <3>1. r.pos = q - a + Len(tag)
      <4>1. r.pos = at + Len(tag)
        BY <2>1
      <4> QED BY <1>2, <2>a, <2>b, <4>1
    <3>2. r.inside = ~s.inside
      BY <2>1
    <3>3. r.out = OutUpTo(a, s, q - 1)
      <4>1. r.out = s.out \o upTo(at - 1)
        BY <2>1
      <4>2. r.out = OutUpTo(a, s, a + at - 1)
        BY <2>3, <4>1
      <4>3. a + at - 1 = q - 1
        BY <2>a, <2>b
      <4> QED BY <4>2, <4>3
    <3>4. tag = Sought(s)
      BY DEF tag
    <3>5. FirstTag(tag, a + s.pos, b, q)
      BY <1>8, <2>b
    <3> QED BY <3>1, <3>2, <3>3, <3>4, <3>5, Zenon DEF Passes
  <2>8. \E c : Passes(a, b, s, r, c)
    BY <2>7
  <2> QED BY <2>6, <2>8 DEF r, buf
<1> QED BY <1>6, <1>7, <1>8

-----------------------------------------------------------------------------
(* The loop, and an induction over its rounds: what its first state has and*)
(* a round preserves, its result has.                                      *)
Start(inside) == [pos |-> 1, inside |-> inside, out |-> <<>>]

LEMMA ScanLoop ==
  ASSUME stream \in Streams, NEW inside \in BOOLEAN,
         NEW a \in Nat, NEW b \in Nat, a <= b, b <= Len(stream)
  PROVE  \E f \in [0..(b - a) -> States(a, b)] :
           /\ f[0] = Start(inside)
           /\ \A k \in 1..(b - a) : f[k] = Round(Run(a, b), f[k - 1])
           /\ Scan(Run(a, b), inside) = f[b - a]
<1> DEFINE m == b - a
           round(s) == Round(Run(a, b), s)
           Loop(f) == f = [k \in 0..m |-> IF k = 0 THEN Start(inside)
                                                   ELSE round(f[k - 1])]
<1>1. m \in Nat /\ Len(Run(a, b)) = m
  BY RunFacts
<1>2. Start(inside) \in States(a, b)
  <2>1. <<>> \in Seq((a + 1)..b)
    OBVIOUS
  <2> QED BY <2>1 DEF Start, States
<1>3. \A s \in States(a, b) : round(s) \in States(a, b)
  BY RoundOf
<1>4. Scan(Run(a, b), inside) = (CHOOSE f : Loop(f))[m]
  BY <1>1 DEF Scan, Start
<1> HIDE DEF m, round
<1>5. PICK step \in [(1..m) \X States(a, b) -> States(a, b)] :
        \A k \in 1..m, s \in States(a, b) : step[<<k, s>>] = round(s)
  <2> DEFINE g == [ks \in (1..m) \X States(a, b) |-> round(ks[2])]
  <2>1. g \in [(1..m) \X States(a, b) -> States(a, b)]
    BY <1>3
  <2>2. \A k \in 1..m, s \in States(a, b) : g[<<k, s>>] = round(s)
    OBVIOUS
  <2> QED BY <2>1, <2>2
<1>6. PICK f \in [0..m -> States(a, b)] :
        /\ f[0] = Start(inside)
        /\ \A k \in 1..m : f[k] = step[<<k, f[k - 1]>>]
  <2>1. LoopRuns(m, States(a, b), Start(inside), step)
    BY <1>1, <1>2, LoopDefined
  <2> QED BY <2>1 DEF LoopRuns
<1>7. ASSUME NEW k \in 1..m PROVE f[k] = round(f[k - 1])
  <2>1. k - 1 \in 0..m /\ f[k - 1] \in States(a, b)
    BY <1>1
  <2>2. f[k] = step[<<k, f[k - 1]>>]
    BY <1>6
  <2> QED BY <1>5, <2>1, <2>2
<1>8. Loop(f)
  <2>1. f = [k \in 0..m |-> f[k]]
    BY <1>6
  <2>2. \A k \in 0..m :
          f[k] = IF k = 0 THEN Start(inside) ELSE round(f[k - 1])
    BY <1>1, <1>6, <1>7
  <2> QED BY <2>1, <2>2
<1>9. PICK g : Loop(g) /\ Scan(Run(a, b), inside) = g[m]
  <2> HIDE DEF Loop
  <2> QED BY <1>4, <1>8
<1>10. /\ g[0] = Start(inside)
       /\ \A k \in 1..m : g[k] = round(g[k - 1])
  <2>1. \A k \in 0..m :
          g[k] = IF k = 0 THEN Start(inside) ELSE round(g[k - 1])
    <3>1. g = [k \in 0..m |-> IF k = 0 THEN Start(inside)
                                       ELSE round(g[k - 1])]
      BY <1>9
    <3> QED BY <3>1
  <2>2. 0 \in 0..m /\ \A k \in 1..m : k \in 0..m /\ k # 0
    BY <1>1
  <2> QED BY <2>1, <2>2
<1>11. g \in [0..m -> States(a, b)]
  <2> DEFINE T == {k \in 0..m : g[k] \in States(a, b)}
  <2>1. 0 \in T
    BY <1>1, <1>2, <1>10
  <2>2. ASSUME NEW k \in 1..m, k - 1 \in T PROVE k \in T
    BY <1>1, <1>3, <1>10, <2>2
  <2>3. \A k \in 0..m : k \in T
    <3> HIDE DEF T
    <3> QED BY <1>1, <2>1, <2>2, BoundedInduct
  <2>4. g = [k \in 0..m |-> g[k]]
    BY <1>9
  <2> QED BY <2>3, <2>4
<1> QED BY <1>9, <1>10, <1>11 DEF m, round

LEMMA ScanInduct ==
  ASSUME stream \in Streams, NEW inside \in BOOLEAN,
         NEW a \in Nat, NEW b \in Nat, a <= b, b <= Len(stream),
         NEW T \in SUBSET States(a, b), Start(inside) \in T,
         \A s \in T : Round(Run(a, b), s) \in T
  PROVE  Scan(Run(a, b), inside) \in {s \in T : s.pos = b - a + 1}
<1>1. PICK f \in [0..(b - a) -> States(a, b)] :
        /\ f[0] = Start(inside)
        /\ \A k \in 1..(b - a) : f[k] = Round(Run(a, b), f[k - 1])
        /\ Scan(Run(a, b), inside) = f[b - a]
  BY ScanLoop
<1> DEFINE m == b - a
           K == {k \in 0..m : f[k] \in T /\ (f[k].pos > k \/ f[k].pos = m + 1)}
<1>2. m \in Nat
  OBVIOUS
<1>3. 0 \in K
  BY <1>1, <1>2 DEF Start
<1>4. ASSUME NEW k \in 1..m, k - 1 \in K PROVE k \in K
  <2>1. PICK s \in T : s = f[k - 1] /\ (s.pos > k - 1 \/ s.pos = m + 1)
    BY <1>4
  <2>2. PICK r \in T : r = f[k] /\ r = Round(Run(a, b), s)
    BY <1>1, <2>1
  <2>3. s \in States(a, b) /\ r \in States(a, b)
    OBVIOUS
  <2>4. s.pos \in Nat /\ r.pos \in Nat
    BY <2>3 DEF States
  <2>5. Ends(a, b, s, r) \/ \E q : Passes(a, b, s, r, q)
    BY <2>2, <2>3, RoundOf
  <2>6. CASE Ends(a, b, s, r)
    <3>1. r.pos = b - a + 1
      BY <2>6 DEF Ends
    <3>2. f[k] \in T /\ f[k].pos = m + 1 /\ k \in 0..m
      BY <2>2, <3>1
    <3> HIDE DEF m
    <3> QED BY <3>2
  <2>7. CASE \E q : Passes(a, b, s, r, q)
    <3>1. PICK q : Passes(a, b, s, r, q)
      BY <2>7
    <3>2. q \in (a + s.pos)..b /\ r.pos = q - a + Len(Sought(s))
      BY <3>1 DEF Passes, FirstTag
    <3>3. Len(Sought(s)) \in Nat /\ Len(Sought(s)) > 0
      BY TagFacts DEF Sought
    <3>4. r.pos > s.pos
      BY <2>4, <3>2, <3>3
    <3>5. s.pos # m + 1
      BY <2>4, <3>2
    <3>6. r.pos > k
      BY <2>1, <2>4, <3>4, <3>5
    <3> QED BY <2>2, <3>6
  <2> QED BY <2>5, <2>6, <2>7
<1>5. \A k \in 0..m : k \in K
  <2> HIDE DEF K, m
  <2> QED BY <1>2, <1>3, <1>4, BoundedInduct
<1>6. f[m] \in T /\ (f[m].pos > m \/ f[m].pos = m + 1)
  BY <1>2, <1>5
<1>7. f[m].pos \in 1..(m + 1)
  BY <1>6 DEF States
<1>8. f[m].pos = m + 1
  BY <1>2, <1>6, <1>7
<1> QED BY <1>1, <1>6, <1>8

-----------------------------------------------------------------------------
(* Spans.  The open tag at place p makes one, up to the end of the first   *)
(* close tag behind it, at q, or of the stream.                            *)
SpanTo(p, q, e) ==
  /\ p \in Nat \ {0} /\ Occurs(OpenTag, p)
  /\ \/ FirstTag(CloseTag, p, Len(stream), q) /\ e = q + Len(CloseTag) - 1
     \/ /\ \A x \in p..Len(stream) : ~Occurs(CloseTag, x)
        /\ q = Len(stream) + 1 /\ e = Len(stream)

Covered(x) == \E p, q, e : SpanTo(p, q, e) /\ x \in p..e

LEMMA SpanFacts ==
  ASSUME stream \in Streams, NEW p, NEW q, NEW e, SpanTo(p, q, e)
  PROVE  /\ p \in 1..Len(stream) /\ q \in Nat /\ e \in Nat
         /\ Len(stream) \in Nat
         /\ p + Len(OpenTag) <= q /\ p <= e /\ e <= Len(stream) /\ q <= e + 1
<1>1. /\ Len(stream) \in Nat
      /\ Len(OpenTag) \in Nat /\ Len(OpenTag) > 0
      /\ Len(CloseTag) \in Nat /\ Len(CloseTag) > 0
  BY StreamFacts, TagFacts
<1>2. /\ p \in Nat \ {0} /\ Occurs(OpenTag, p)
      /\ p + Len(OpenTag) - 1 <= Len(stream)
  BY DEF SpanTo, Occurs
<1>3. CASE FirstTag(CloseTag, p, Len(stream), q) /\ e = q + Len(CloseTag) - 1
  <2>1. q \in p..Len(stream) /\ Occurs(CloseTag, q) /\ e <= Len(stream)
    BY <1>3 DEF FirstTag
  <2>2. p # q
    BY <1>2, <2>1, TagsDiffer
  <2>3. q \in Nat /\ p \in Nat /\ p < q
    BY <1>1, <1>2, <2>1, <2>2
  <2>4. p + Len(OpenTag) <= q
    BY <1>2, <2>1, <2>3, TagsApart, TagFacts
  <2> QED BY <1>1, <1>2, <1>3, <2>1, <2>4
<1>4. CASE q = Len(stream) + 1 /\ e = Len(stream)
  BY <1>1, <1>2, <1>4
<1> QED BY <1>3, <1>4 DEF SpanTo

(* The scan of the whole stream takes out each span it has.                *)
LEMMA SpansAreHidden ==
  ASSUME stream \in Streams, NEW p, NEW q, NEW e, SpanTo(p, q, e)
  PROVE  \A x \in p..e : x \notin ToSet(Visible.out)
<1> DEFINE n == Len(stream)
           T == {s \in States(0, n) :
                   /\ \A x \in p..e : x \notin ToSet(s.out)
                   /\ s.pos <= p \/ (s.inside /\ s.pos <= q) \/ s.pos > e}
<1>1. /\ n \in Nat /\ p \in 1..n /\ q \in Nat /\ e \in Nat
      /\ p + Len(OpenTag) <= q /\ e <= n
      /\ Len(OpenTag) \in Nat /\ Len(OpenTag) > 0
      /\ Len(CloseTag) \in Nat /\ Len(CloseTag) > 0
  BY SpanFacts, TagFacts
<1>2. Occurs(OpenTag, p) /\ OpenTag \in Tags /\ CloseTag \in Tags
  BY TagFacts DEF SpanTo
(* The close tag that is found first is that of the span.                  *)
<1>3. ASSUME NEW c \in p..n, Occurs(CloseTag, c),
             \A x \in p..(c - 1) : ~Occurs(CloseTag, x)
      PROVE  c + Len(CloseTag) = e + 1
  <2>1. FirstTag(CloseTag, p, n, q) /\ e = q + Len(CloseTag) - 1
    BY <1>3 DEF SpanTo
  <2>2. q \in p..n /\ Occurs(CloseTag, q)
        /\ \A x \in p..(q - 1) : ~Occurs(CloseTag, x)
    BY <2>1 DEF FirstTag
  <2>3. ~(c < q) /\ ~(q < c)
    BY <1>1, <1>3, <2>2
  <2> QED BY <1>1, <2>1, <2>2, <2>3
<1>4. Start(FALSE) \in T
  <2>1. Start(FALSE) \in States(0, n)
    BY <1>1 DEF Start, States
  <2>2. ToSet(Start(FALSE).out) = {}
    BY DEF Start, ToSet
  <2>3. Start(FALSE).pos <= p
    BY <1>1 DEF Start
  <2> QED BY <2>1, <2>2, <2>3
<1>5. ASSUME NEW s \in T PROVE Round(Run(0, n), s) \in T
  <2>1. PICK r : r = Round(Run(0, n), s)
    OBVIOUS
  <2>2. r \in States(0, n)
        /\ (Ends(0, n, s, r) \/ \E c : Passes(0, n, s, r, c))
    BY <1>1, <2>1, RoundOf
  <2>3. /\ s \in States(0, n) /\ s.pos \in 1..(n + 1) /\ s.inside \in BOOLEAN
        /\ 0 + s.pos = s.pos
        /\ \A x \in p..e : x \notin ToSet(s.out)
        /\ s.pos <= p \/ (s.inside /\ s.pos <= q) \/ s.pos > e
    BY <1>1 DEF States
  <2>4. SUFFICES /\ \A x \in p..e : x \notin ToSet(r.out)
                 /\ r.pos <= p \/ (r.inside /\ r.pos <= q) \/ r.pos > e
    BY <2>1, <2>2
  <2>5. ASSUME NEW last \in (s.pos - 1)..n,
               s.inside \/ last < p \/ s.pos > e
        PROVE  \A x \in p..e : x \notin ToSet(OutUpTo(0, s, last))
    <3>1. ToSet(OutUpTo(0, s, last)) =
            ToSet(s.out) \cup IF s.inside THEN {} ELSE s.pos..last
      <4>1. last \in (0 + s.pos - 1)..n
        BY <2>3
      <4> QED BY <1>1, <2>3, <4>1, OutUpToType
    <3> QED BY <1>1, <2>3, <2>5, <3>1
  <2>6. CASE Ends(0, n, s, r)
    <3>1. r.pos = n + 1 /\ r.out = OutUpTo(0, s, n)
          /\ NoTag(Sought(s), s.pos, n)
      BY <1>1, <2>3, <2>6 DEF Ends
    <3>2. s.inside \/ s.pos > e
      <4>1. CASE ~s.inside /\ s.pos <= p
        <5>1. p \in s.pos..n /\ p + Len(OpenTag) - 1 > n
          BY <1>1, <1>2, <2>3, <3>1, <4>1 DEF NoTag, Sought
        <5> QED BY <1>2, <5>1 DEF Occurs
      <4> QED BY <2>3, <4>1
    <3>3. n \in (s.pos - 1)..n
      BY <1>1, <2>3
    <3> QED BY <1>1, <2>5, <3>1, <3>2, <3>3
  <2>7. CASE \E c : Passes(0, n, s, r, c)
    <3>1. PICK c : Passes(0, n, s, r, c)
      BY <2>7
    <3>2. /\ FirstTag(Sought(s), s.pos, n, c)
          /\ r.pos = c + Len(Sought(s)) /\ r.inside = ~s.inside
          /\ r.out = OutUpTo(0, s, c - 1)
      <4>1. c \in s.pos..n
        BY <2>3, <3>1 DEF Passes, FirstTag
      <4> QED BY <1>1, <2>3, <3>1, <4>1 DEF Passes
    <3>3. /\ c \in s.pos..n /\ Occurs(Sought(s), c)
          /\ \A x \in s.pos..(c - 1) : ~Occurs(Sought(s), x)
          /\ c - 1 \in (s.pos - 1)..n
      BY <1>1, <2>3, <3>2 DEF FirstTag
    <3>4. CASE s.inside
      <4>1. Sought(s) = CloseTag /\ r.out = s.out
        BY <3>2, <3>4 DEF Sought, OutUpTo
      <4>2. CASE s.pos > e
        BY <1>1, <2>3, <3>2, <3>3, <4>1, <4>2
      <4>3. CASE s.pos <= q /\ c < p
        <5>1. c + Len(CloseTag) <= p
          BY <1>1, <1>2, <2>3, <3>3, <4>1, <4>3, TagsApart
        <5> QED BY <2>3, <3>2, <4>1, <5>1
      <4>4. CASE (s.pos <= p \/ s.pos <= q) /\ c >= p
        <5>1. c \in p..n
          BY <1>1, <2>3, <3>3, <4>4
        <5>2. \A x \in p..(c - 1) : ~Occurs(CloseTag, x)
          <6>1. ASSUME NEW x \in p..(c - 1), Occurs(CloseTag, x) PROVE FALSE
            <7>1. x < s.pos
              BY <1>1, <2>3, <3>3, <4>1, <6>1
            <7>2. x < q
              BY <1>1, <2>3, <4>4, <6>1, <7>1
            <7>3. FirstTag(CloseTag, p, n, q)
                  \/ \A y \in p..n : ~Occurs(CloseTag, y)
              BY DEF SpanTo
            <7>4. x \in p..n /\ x \in p..(q - 1)
              BY <1>1, <3>3, <5>1, <6>1, <7>2
            <7> QED BY <6>1, <7>3, <7>4 DEF FirstTag
          <6> QED BY <6>1
        <5>3. c + Len(CloseTag) = e + 1
          BY <1>3, <3>3, <4>1, <5>1, <5>2
        <5> QED BY <1>1, <2>3, <3>2, <4>1, <5>3
      <4> QED BY <1>1, <2>3, <3>3, <4>2, <4>3, <4>4
    <3>5. CASE ~s.inside
      <4>1. Sought(s) = OpenTag
        BY <3>5 DEF Sought
      <4>2. CASE s.pos > e
        <5>1. \A x \in p..e : x \notin ToSet(r.out)
          BY <2>5, <3>2, <3>3, <4>2
        <5> QED BY <1>1, <2>3, <3>2, <3>3, <4>1, <4>2, <5>1
      <4>3. CASE s.pos <= p
        <5>1. c <= p
          BY <1>1, <1>2, <2>3, <3>3, <4>1, <4>3
        <5>2. \A x \in p..e : x \notin ToSet(r.out)
          BY <1>1, <2>3, <2>5, <3>2, <3>3, <5>1
        <5>3. CASE c = p
          BY <1>1, <3>2, <3>5, <4>1, <5>2, <5>3
        <5>4. CASE c < p
          <6>1. c + Len(OpenTag) <= p
            BY <1>1, <1>2, <2>3, <3>3, <4>1, <5>4, TagsApart
          <6> QED BY <3>2, <4>1, <5>2, <6>1
        <5> QED BY <1>1, <2>3, <3>3, <5>1, <5>3, <5>4
      <4> QED BY <2>3, <3>5, <4>2, <4>3
    <3> QED BY <2>3, <3>4, <3>5
  <2> QED BY <2>2, <2>6, <2>7
<1>6. Visible \in T
  <2>1. T \in SUBSET States(0, n)
    OBVIOUS
  <2>2. Scan(Run(0, n), FALSE) \in {s \in T : s.pos = n - 0 + 1}
    <3> HIDE DEF T
    <3>1. 0 \in Nat /\ 0 <= n /\ n <= Len(stream) /\ FALSE \in BOOLEAN
      BY <1>1
    <3>2. \A s \in T : Round(Run(0, n), s) \in T
      BY <1>5
    <3> HIDE DEF n
    <3> QED BY <1>1, <1>4, <2>1, <3>1, <3>2, ScanInduct, Zenon
  <2> QED BY <2>2 DEF Visible
<1> QED BY <1>6

(* What a scan of the places after a passes over and does not forward lies *)
(* in a span; if it ends inside one, that is the span of the open tag at p *)
(* and all before it is dealt with.                                        *)
Dealt(a, out, y) == \A x \in (a + 1)..y : x \in ToSet(out) \/ Covered(x)

OpenAfter(a, b, p) ==
  p \in (a + 1)..b /\ Occurs(OpenTag, p) /\ p + Len(OpenTag) - 1 <= b

LEMMA ScanDrops ==
  ASSUME stream \in Streams, NEW inside \in BOOLEAN,
         NEW a \in Nat, NEW b \in Nat, a <= b, b <= Len(stream),
         inside => OpenAfter(a, b, a + 1)
  PROVE  LET scan == Scan(Run(a, b), inside)
         IN  /\ scan.inside \in BOOLEAN /\ scan.out \in Seq((a + 1)..b)
             /\ ~scan.inside => Dealt(a, scan.out, b)
             /\ scan.inside => \E p : /\ OpenAfter(a, b, p)
                                      /\ Dealt(a, scan.out, p - 1)
<1> DEFINE n == Len(stream)
           within(s, p) ==
             /\ OpenAfter(a, b, p) /\ p <= a + s.pos
             /\ Dealt(a, s.out, p - 1)
             /\ a + s.pos <= b =>
                  \A c \in p..(a + s.pos - 1) : ~Occurs(CloseTag, c)
           T == {s \in States(a, b) :
                   IF s.inside THEN \E p : within(s, p)
                               ELSE Dealt(a, s.out, a + s.pos - 1)}
<1>1. /\ n \in Nat
      /\ Len(OpenTag) \in Nat /\ Len(OpenTag) > 0
      /\ Len(CloseTag) \in Nat /\ Len(CloseTag) > 0
      /\ OpenTag \in Tags /\ CloseTag \in Tags
  BY StreamFacts, TagFacts
<1>2. Start(inside) \in T
  <2>1. /\ Start(inside) \in States(a, b) /\ Start(inside).pos = 1
        /\ Start(inside).inside = inside
    BY DEF Start, States
  <2>2. Dealt(a, Start(inside).out, a)
    BY DEF Dealt
  <2>3. ASSUME inside PROVE \E p : within(Start(inside), p)
    <3>1. PICK p : p = a + 1
      OBVIOUS
    <3>2. p - 1 = a /\ p <= a + Start(inside).pos
          /\ a + Start(inside).pos - 1 = p - 1 /\ p..(p - 1) = {}
      BY <2>1, <3>1
    <3>3. Dealt(a, Start(inside).out, p - 1)
      BY <2>2, <3>2
    <3>4. OpenAfter(a, b, p)
      BY <2>3, <3>1
    <3>5. within(Start(inside), p)
      BY <3>2, <3>3, <3>4
    <3> QED BY <3>5
  <2>4. a + Start(inside).pos - 1 = a
    BY <2>1
  <2> QED BY <2>1, <2>2, <2>3, <2>4
<1>3. ASSUME NEW s \in T PROVE Round(Run(a, b), s) \in T
  <2>1. PICK r : r = Round(Run(a, b), s)
    OBVIOUS
  <2>2. r \in States(a, b)
        /\ (Ends(a, b, s, r) \/ \E c : Passes(a, b, s, r, c))
    BY <2>1, RoundOf
  <2>3. /\ s \in States(a, b) /\ s.pos \in 1..(b - a + 1)
        /\ s.inside \in BOOLEAN /\ r.inside \in BOOLEAN
        /\ s.inside => \E p : within(s, p)
        /\ ~s.inside => Dealt(a, s.out, a + s.pos - 1)
    BY <2>2 DEF States
  <2>4. SUFFICES /\ r.inside => \E p : within(r, p)
                 /\ ~r.inside => Dealt(a, r.out, a + r.pos - 1)
    BY <2>1, <2>2
  <2>5. ASSUME NEW last \in (a + s.pos - 1)..b, ~s.inside
        PROVE  Dealt(a, OutUpTo(a, s, last), last)
    <3>1. ToSet(OutUpTo(a, s, last)) = ToSet(s.out) \cup (a + s.pos)..last
      BY <2>3, <2>5, OutUpToType
    <3>2. ASSUME NEW x \in (a + 1)..last
          PROVE  x \in ToSet(OutUpTo(a, s, last)) \/ Covered(x)
      <4>1. x \in (a + 1)..(a + s.pos - 1) \/ x \in (a + s.pos)..last
        BY <2>3
      <4> QED BY <2>3, <2>5, <3>1, <4>1 DEF Dealt
    <3> QED BY <3>2 DEF Dealt
  <2>6. CASE Ends(a, b, s, r)
    <3>1. r.pos = b - a + 1 /\ r.inside = s.inside /\ r.out = OutUpTo(a, s, b)
      BY <2>6 DEF Ends
    <3>2. CASE s.inside
      <4>1. PICK p : within(s, p)
        BY <2>3, <3>2
      <4>2. r.out = s.out /\ ~(a + r.pos <= b) /\ p <= a + r.pos
        BY <3>1, <3>2, <4>1 DEF OutUpTo, OpenAfter
      <4>3. within(r, p)
        BY <4>1, <4>2
      <4> QED BY <3>1, <3>2, <4>3
    <3>3. CASE ~s.inside
      <4>1. b \in (a + s.pos - 1)..b /\ a + r.pos - 1 = b
        BY <2>3, <3>1
      <4>2. Dealt(a, OutUpTo(a, s, b), b)
        BY <2>5, <3>3, <4>1
      <4> QED BY <3>1, <3>3, <4>1, <4>2
    <3> QED BY <2>3, <3>2, <3>3
  <2>7. CASE \E c : Passes(a, b, s, r, c)
    <3>1. PICK c : Passes(a, b, s, r, c)
      BY <2>7
    <3>2. /\ FirstTag(Sought(s), a + s.pos, b, c)
          /\ r.pos = c - a + Len(Sought(s)) /\ r.inside = ~s.inside
          /\ r.out = OutUpTo(a, s, c - 1)
      BY <3>1 DEF Passes
    <3>3. /\ c \in (a + s.pos)..b /\ Occurs(Sought(s), c)
          /\ c + Len(Sought(s)) - 1 <= b
          /\ \A x \in (a + s.pos)..(c - 1) : ~Occurs(Sought(s), x)
          /\ c - 1 \in (a + s.pos - 1)..b /\ c \in Nat
      BY <2>3, <3>2 DEF FirstTag
    <3>4. CASE s.inside
      <4>1. Sought(s) = CloseTag /\ r.out = s.out /\ ~r.inside
        BY <3>2, <3>4 DEF Sought, OutUpTo
      <4>2. PICK p : within(s, p)
        BY <2>3, <3>4
      <4>3. /\ p \in (a + 1)..b /\ p <= a + s.pos /\ Occurs(OpenTag, p)
            /\ Dealt(a, s.out, p - 1)
            /\ \A x \in p..(a + s.pos - 1) : ~Occurs(CloseTag, x)
        BY <2>3, <3>3, <4>2 DEF OpenAfter
      <4>4. \A x \in p..(c - 1) : ~Occurs(CloseTag, x)
        <5>1. \A x \in p..(c - 1) :
                x \in p..(a + s.pos - 1) \/ x \in (a + s.pos)..(c - 1)
          BY <2>3, <3>3, <4>3
        <5> QED BY <3>3, <4>1, <4>3, <5>1
      <4>5. SpanTo(p, c, c + Len(CloseTag) - 1)
        <5>0. /\ p \in Int /\ a \in Int /\ c \in Int /\ s.pos \in Int
              /\ b \in Int /\ n \in Int /\ Len(CloseTag) \in Int
          BY <1>1, <2>3, <3>3, <4>3
        <5>2. p >= a + 1 /\ a >= 0 /\ p <= a + s.pos /\ a + s.pos <= c
          BY <3>3, <4>3, <5>0
        <5>3. c + Len(CloseTag) - 1 <= b /\ b <= n /\ c <= b
          BY <3>3, <4>1, <5>0
        <5>1. c \in p..n /\ c + Len(CloseTag) - 1 <= n /\ p \in Nat \ {0}
          BY <5>0, <5>2, <5>3
        <5> QED BY <3>3, <4>1, <4>3, <4>4, <5>1 DEF SpanTo, FirstTag
      <4>6. a + r.pos - 1 = c + Len(CloseTag) - 1
        BY <1>1, <3>2, <3>3, <4>1
      <4>7. ASSUME NEW x \in (a + 1)..(c + Len(CloseTag) - 1)
            PROVE  x \in ToSet(s.out) \/ Covered(x)
        <5>1. CASE x <= p - 1
          <6>1. x \in (a + 1)..(p - 1)
            BY <4>3, <5>1
          <6> QED BY <4>3, <6>1 DEF Dealt
        <5>2. CASE x >= p
          <6>1. x \in p..(c + Len(CloseTag) - 1)
            BY <4>3, <5>2
          <6> QED BY <4>5, <6>1 DEF Covered
        <5> QED BY <4>3, <5>1, <5>2
      <4>8. Dealt(a, r.out, a + r.pos - 1)
        BY <4>1, <4>6, <4>7 DEF Dealt
      <4> QED BY <4>1, <4>8
    <3>5. CASE ~s.inside
      <4>1. Sought(s) = OpenTag /\ r.inside
        BY <3>2, <3>5 DEF Sought
      <4>2. Dealt(a, r.out, c - 1)
        BY <2>5, <3>2, <3>3, <3>5
      <4>3. OpenAfter(a, b, c)
        <5>1. c \in (a + 1)..b
          BY <2>3, <3>3
        <5> QED BY <3>3, <4>1, <5>1 DEF OpenAfter
      <4>4. a + r.pos = c + Len(OpenTag)
        BY <1>1, <3>2, <3>3, <4>1
      <4>5. ASSUME NEW x \in c..(c + Len(OpenTag) - 1), Occurs(CloseTag, x)
            PROVE  FALSE
        <5>1. x \in Nat /\ c <= x /\ x < c + Len(OpenTag)
          BY <1>1, <3>3
        <5>2. x # c
          BY <3>3, <4>1, <4>5, TagsDiffer
        <5>3. c < x
          BY <3>3, <5>1, <5>2
        <5>4. c + Len(OpenTag) <= x
          BY <1>1, <3>3, <4>1, <4>5, <5>1, <5>3, TagsApart
        <5> QED BY <1>1, <3>3, <5>1, <5>4
      <4>6. c <= a + r.pos
        BY <1>1, <3>3, <4>4
      <4>7. within(r, c)
        <5>1. \A x \in c..(a + r.pos - 1) : ~Occurs(CloseTag, x)
          <6>1. a + r.pos - 1 = c + Len(OpenTag) - 1
            BY <1>1, <3>2, <3>3, <4>1
          <6> QED BY <4>5, <6>1
        <5> QED BY <4>2, <4>3, <4>6, <5>1
      <4> QED BY <4>1, <4>7
    <3> QED BY <2>3, <3>4, <3>5
  <2> QED BY <2>2, <2>6, <2>7
<1>4. PICK scan \in T : /\ scan = Scan(Run(a, b), inside)
                        /\ scan.pos = b - a + 1
  <2>1. T \in SUBSET States(a, b)
    OBVIOUS
  <2>2. \A s \in T : Round(Run(a, b), s) \in T
    BY <1>3
  <2> HIDE DEF T
  <2>3. Scan(Run(a, b), inside) \in {s \in T : s.pos = b - a + 1}
    BY <1>2, <2>1, <2>2, ScanInduct, Zenon
  <2> QED BY <2>3
<1>5. /\ scan.inside \in BOOLEAN /\ scan.out \in Seq((a + 1)..b)
      /\ a + scan.pos - 1 = b
  BY <1>4 DEF States
<1>6. ~scan.inside => Dealt(a, scan.out, b)
  BY <1>5
<1>7. scan.inside => \E p : /\ OpenAfter(a, b, p) /\ Dealt(a, scan.out, p - 1)
  OBVIOUS
<1> QED BY <1>4, <1>5, <1>6, <1>7

-----------------------------------------------------------------------------
(* A step of the stripper, in terms of places.  It withholds the places    *)
(* after a: an open span, which begins with its tag, or a beginning of one.*)
Withheld(a) ==
  \/ ~insideThinkTag /\ thinkBuf = <<>> /\ tagPrefixPending = Run(a, fed)
  \/ /\ insideThinkTag /\ thinkBuf = Run(a, fed) /\ tagPrefixPending = <<>>
     /\ OpenAfter(a, fed, a + 1)

(* The last h places up to b may begin an open tag.                        *)
Begins(b, h) == \A k \in 1..h : stream[b - h + k] = OpenTag[k]

Held(a, b, h) ==
  /\ h \in 0..(b - a) /\ h < Len(OpenTag) /\ Begins(b, h)
  /\ \A m \in 1..(Len(OpenTag) - 1) : m <= b - a /\ Begins(b, m) => m <= h

Strips(a, b) ==
  LET scan == Scan(Run(a, b), insideThinkTag)
  IN  /\ insideThinkTag \/ \E p : OpenAfter(a, b, p)
      /\ insideThinkTag' = scan.inside
      /\ thinkBuf' = Retained(Run(a, b), scan.inside)
      /\ tagPrefixPending' = <<>>
      /\ forwarded' = forwarded \o scan.out

PassesThrough(a, b, h) ==
  /\ ~insideThinkTag /\ NoTag(OpenTag, a + 1, b) /\ Held(a, b, h)
  /\ tagPrefixPending' = Run(b - h, b)
  /\ forwarded' = forwarded \o Run(a, b - h)
  /\ UNCHANGED <<insideThinkTag, thinkBuf>>

LEMMA HoldOf ==
  ASSUME stream \in Streams,
         NEW a \in Nat, NEW b \in Nat, a <= b, b <= Len(stream)
  PROVE  Held(a, b, hold(Run(a, b)))
<1> DEFINE buf == Run(a, b)
           ends == {m \in 1..(Len(OpenTag) - 1) : m <= b - a /\ Begins(b, m)}
<1>1. Len(OpenTag) \in Nat /\ Len(OpenTag) > 0
  BY TagFacts
<1>2. Len(buf) = b - a /\ \A i \in 1..(b - a) : buf[i] = a + i
  BY RunFacts
<1>3. \A m \in 1..(Len(OpenTag) - 1) : m <= b - a =>
        (Begins(b, m) <=>
           \A k \in 1..m : stream[buf[b - a - m + k]] = OpenTag[k])
  <2> SUFFICES ASSUME NEW m \in 1..(Len(OpenTag) - 1), m <= b - a,
                      NEW k \in 1..m
               PROVE  buf[b - a - m + k] = b - m + k
    BY DEF Begins
  <2>1. b - a - m + k \in 1..(b - a) /\ a + (b - a - m + k) = b - m + k
    OBVIOUS
  <2>2. buf[b - a - m + k] = a + (b - a - m + k)
    BY <1>2, <2>1
  <2> QED BY <2>1, <2>2
<1>4. ends = {m \in 1..(Len(OpenTag) - 1) :
                /\ m <= Len(buf)
                /\ \A k \in 1..m : stream[buf[Len(buf) - m + k]] = OpenTag[k]}
  <2> HIDE DEF buf
  <2> QED BY <1>2, <1>3
<1>5. hold(buf) = IF ends = {} THEN 0
                  ELSE CHOOSE m \in ends : \A k \in ends : k <= m
  <2> DEFINE fits(m) ==
               /\ m <= Len(buf)
               /\ \A k \in 1..m : stream[buf[Len(buf) - m + k]] = OpenTag[k]
             E == {m \in 1..(Len(OpenTag) - 1) : fits(m)}
  <2>1. hold(buf) = IF E = {} THEN 0
                    ELSE CHOOSE m \in E : \A k \in E : k <= m
    BY DEF hold
  <2>2. E = ends
    BY <1>4
  <2> HIDE DEF E, ends
  <2> QED BY <2>1, <2>2
<1>6. CASE ends = {}
  <2>1. hold(buf) = 0
    BY <1>5, <1>6
  <2>2. Begins(b, 0)
    BY DEF Begins
  <2> QED BY <1>1, <1>6, <2>1, <2>2 DEF Held
<1>7. CASE ends # {}
  <2> DEFINE gaps == {Len(OpenTag) - m : m \in ends}
  <2>1. gaps \in SUBSET Nat /\ gaps # {}
    BY <1>1, <1>7
  <2>2. PICK g \in gaps : \A h \in gaps : g <= h
    <3> HIDE DEF gaps
    <3> QED BY <2>1, Minimum
  <2>3. PICK m \in ends : g = Len(OpenTag) - m
    BY <2>2
  <2>4. \A k \in ends : k <= m
    <3>1. ASSUME NEW k \in ends PROVE k <= m
      <4>1. Len(OpenTag) - k \in gaps /\ k \in Nat
        OBVIOUS
      <4>2. g <= Len(OpenTag) - k
        BY <2>2, <4>1
      <4> QED BY <1>1, <2>3, <4>1, <4>2
    <3> QED BY <3>1
  <2>5. PICK h \in ends : h = hold(buf) /\ \A k \in ends : k <= h
    <3> HIDE DEF ends
    <3>1. \E h \in ends : \A k \in ends : k <= h
      BY <2>4
    <3> QED BY <1>5, <1>7, <3>1
  <2>6. h \in 0..(b - a) /\ h < Len(OpenTag) /\ Begins(b, h)
    BY <1>1
  <2> QED BY <2>5, <2>6 DEF Held
<1> QED BY <1>6, <1>7

LEMMA RetainedOf ==
  ASSUME stream \in Streams,
         NEW a \in Nat, NEW b \in Nat, a <= b, b <= Len(stream),
         NEW p, OpenAfter(a, b, p)
  PROVE  \E f : /\ OpenAfter(a, b, f) /\ f <= p
                /\ Retained(Run(a, b), TRUE) = Run(f - 1, b)
<1> DEFINE at == Index(Run(a, b), 1, OpenTag)
<1>1. OpenTag \in Tags /\ Len(OpenTag) \in Nat /\ Len(OpenTag) > 0
  BY TagFacts
<1>2. p \in (a + 1)..b /\ Occurs(OpenTag, p) /\ p + Len(OpenTag) - 1 <= b
  BY DEF OpenAfter
<1>3. \/ at = 0 /\ NoTag(OpenTag, a + 1, b)
      \/ at \in 1..(b - a) /\ FirstTag(OpenTag, a + 1, b, a + at)
  <2>1. 1 \in 1..(b - a + 1)
    BY <1>2
  <2> QED BY <1>1, <2>1, IndexFinds
<1>4. Retained(Run(a, b), TRUE) = SubSeq(Run(a, b), at, b - a)
  BY RunFacts DEF Retained, From
<1> HIDE DEF at
<1>5. ~NoTag(OpenTag, a + 1, b)
  BY <1>1, <1>2 DEF NoTag
<1>6. at \in 1..(b - a) /\ FirstTag(OpenTag, a + 1, b, a + at)
  BY <1>3, <1>5
<1>7. PICK f : f = a + at
  OBVIOUS
<1>8. /\ f \in (a + 1)..b /\ Occurs(OpenTag, f) /\ f + Len(OpenTag) - 1 <= b
      /\ \A x \in (a + 1)..(f - 1) : ~Occurs(OpenTag, x)
  BY <1>6, <1>7 DEF FirstTag
<1>9. f <= p
  <2>1. CASE p < f
    <3>1. p \in (a + 1)..(f - 1)
      BY <1>2, <1>8, <2>1
    <3> QED BY <1>2, <1>8, <3>1
  <2> QED BY <1>2, <1>8, <2>1
<1>10. SubSeq(Run(a, b), at, b - a) = Run(f - 1, b)
  <2>1. at \in 1..(b - a + 1) /\ b - a \in (at - 1)..(b - a)
    BY <1>6
  <2>2. SubSeq(Run(a, b), at, b - a) = Run(a + at - 1, a + (b - a))
    BY <2>1, RunPart
  <2>3. a + at - 1 = f - 1 /\ a + (b - a) = b
    BY <1>6, <1>7
  <2> QED BY <2>2, <2>3
<1> QED BY <1>4, <1>8, <1>9, <1>10 DEF OpenAfter

LEMMA ProcessIs ==
  ASSUME stream \in Streams, fed \in Nat, insideThinkTag \in BOOLEAN,
         NEW a \in Nat, a <= fed, Withheld(a),
         NEW n \in 1..Len(stream), Process(n)
  PROVE  \E b \in Nat :
           /\ fed <= b /\ b <= Len(stream) /\ a < b /\ fed' = b
           /\ end = "open" /\ UNCHANGED <<stream, end>>
           /\ \/ Strips(a, b)
              \/ \E h : PassesThrough(a, b, h)
<1> DEFINE buf == tagPrefixPending \o Run(fed, fed + n)
<1>1. PICK b \in Nat : b = fed + n
  OBVIOUS
<1>2. /\ Len(stream) \in Nat /\ n \in Nat /\ n > 0
      /\ OpenTag \in Tags /\ Len(OpenTag) \in Nat /\ Len(OpenTag) > 0
  BY StreamFacts, TagFacts
<1>3. fed < b /\ a < b /\ fed <= b /\ a <= b
  BY <1>1, <1>2
<1>4. /\ end = "open" /\ b <= Len(stream) /\ fed' = b
      /\ UNCHANGED <<stream, end>>
      /\ IF insideThinkTag \/ Index(buf, 1, OpenTag) # 0 THEN Strip(buf)
                                                         ELSE PassThrough(buf)
  BY <1>1 DEF Process
<1>5. /\ Run(fed, b) \in Seq(Nat) /\ Run(a, fed) \in Seq(Nat)
      /\ Run(a, b) \in Seq(Nat) /\ Len(Run(a, b)) = b - a
      /\ Run(a, fed) \o Run(fed, b) = Run(a, b)
  <2>1. Run(fed, b) \in Seq(Nat) /\ Run(a, fed) \in Seq(Nat)
    BY <1>3, RunFacts
  <2>2. Run(a, b) \in Seq(Nat) /\ Len(Run(a, b)) = b - a
    BY <1>3, RunFacts
  <2>3. Run(a, fed) \o Run(fed, b) = Run(a, b)
    BY <1>3, RunConcat
  <2> QED BY <2>1, <2>2, <2>3
<1>6. /\ \/ buf = Run(a, b) /\ ~insideThinkTag
         \/ insideThinkTag
      /\ thinkBuf \o buf = Run(a, b)
  <2>1. CASE ~insideThinkTag /\ thinkBuf = <<>>
             /\ tagPrefixPending = Run(a, fed)
    <3>1. buf = Run(a, b)
      BY <1>1, <1>5, <2>1
    <3>2. <<>> \o buf = buf
      <4> HIDE DEF buf
      <4> QED BY <1>5, <3>1, ConcatEmptySeq
    <3> QED BY <2>1, <3>1, <3>2
  <2>2. CASE insideThinkTag /\ thinkBuf = Run(a, fed)
             /\ tagPrefixPending = <<>>
    <3>1. buf = Run(fed, b)
      BY <1>1, <1>5, <2>2, ConcatEmptySeq
    <3> QED BY <1>5, <2>2, <3>1
  <2> QED BY <2>1, <2>2 DEF Withheld
<1> HIDE DEF buf
<1>7. CASE Strip(buf) /\ (insideThinkTag \/ Index(buf, 1, OpenTag) # 0)
  <2>1. insideThinkTag \/ \E p : OpenAfter(a, b, p)
    <3>1. CASE ~insideThinkTag
      <4>1. PICK at : at = Index(Run(a, b), 1, OpenTag) /\ at # 0
        BY <1>6, <1>7, <3>1
      <4>2. 1 \in 1..(b - a + 1)
        BY <1>3
      <4>3. FirstTag(OpenTag, a + 1, b, a + at)
        BY <1>2, <1>3, <1>4, <4>1, <4>2, IndexFinds
      <4>4. OpenAfter(a, b, a + at)
        BY <4>3 DEF FirstTag, OpenAfter
      <4> QED BY <4>4
    <3> QED BY <3>1
  <2>2. Strips(a, b)
    BY <1>6, <1>7, <2>1 DEF Strip, Strips
  <2> QED BY <1>3, <1>4, <2>2
<1>8. CASE PassThrough(buf) /\ ~insideThinkTag /\ Index(buf, 1, OpenTag) = 0
  <2>1. buf = Run(a, b)
    BY <1>6, <1>8
  <2>2. NoTag(OpenTag, a + 1, b)
    <3>1. 1 \in 1..(b - a + 1)
      BY <1>3
    <3>2. ~(0 \in 1..(b - a))
      OBVIOUS
    <3> QED BY <1>2, <1>3, <1>4, <1>8, <2>1, <3>1, <3>2, IndexFinds
  <2>3. PICK h : h = hold(buf)
    OBVIOUS
  <2>4. Held(a, b, h)
    BY <1>3, <1>4, <2>1, <2>3, HoldOf
  <2>5. h \in 0..(b - a)
    BY <2>4 DEF Held
  <2>6. /\ tagPrefixPending' = SubSeq(Run(a, b), b - a - h + 1, b - a)
        /\ forwarded' = forwarded \o SubSeq(Run(a, b), 1, b - a - h)
        /\ UNCHANGED <<insideThinkTag, thinkBuf>>
    BY <1>5, <1>8, <2>1, <2>3 DEF PassThrough, From
  <2>7. SubSeq(Run(a, b), b - a - h + 1, b - a) = Run(b - h, b)
    <3>1. PICK i \in 1..(b - a + 1) : i = b - a - h + 1
      BY <1>3, <2>5
    <3>2. b - a \in (i - 1)..(b - a) /\ a + i - 1 = b - h /\ a + (b - a) = b
      BY <1>3, <2>5, <3>1
    <3>3. SubSeq(Run(a, b), i, b - a) = Run(a + i - 1, a + (b - a))
      BY <1>3, <3>2, RunPart
    <3> QED BY <3>1, <3>2, <3>3
  <2>8. SubSeq(Run(a, b), 1, b - a - h) = Run(a, b - h)
    <3>1. PICK j \in (1 - 1)..(b - a) : j = b - a - h
      BY <1>3, <2>5
    <3>2. 1 \in 1..(b - a + 1) /\ a + 1 - 1 = a /\ a + j = b - h
      BY <1>3, <2>5, <3>1
    <3>3. SubSeq(Run(a, b), 1, j) = Run(a + 1 - 1, a + j)
      BY <1>3, <3>2, RunPart
    <3> QED BY <3>1, <3>2, <3>3
  <2>9. PassesThrough(a, b, h)
    BY <1>8, <2>2, <2>4, <2>6, <2>7, <2>8 DEF PassesThrough
  <2> QED BY <1>3, <1>4, <2>9
<1> QED BY <1>4, <1>7, <1>8

-----------------------------------------------------------------------------
(* The stripper's invariant: each place that has arrived is withheld, has  *)
(* been forwarded or lies in a span.                                       *)
StripInv ==
  /\ stream \in Streams /\ fed \in 0..Len(stream)
  /\ insideThinkTag \in BOOLEAN
  /\ forwarded \in Seq(1..fed)
  /\ \E a \in 0..fed : /\ Withheld(a)
                       /\ Dealt(0, forwarded, a)
                       /\ end = "clean" => a = Len(stream)

LEMMA DealtConcat ==
  ASSUME NEW a \in Nat, NEW b \in Nat, NEW y \in Nat, a <= y, y <= b,
         NEW s \in Seq(Nat), NEW t \in Seq(Nat),
         Dealt(0, s, a), Dealt(a, t, y)
  PROVE  Dealt(0, s \o t, y)
<1>1. ToSet(s \o t) = ToSet(s) \cup ToSet(t)
  <2>1. \A u : Range(u) = ToSet(u)
    BY DEF Range, ToSet
  <2> QED BY <2>1, RangeConcatenation
<1>2. ASSUME NEW x \in (0 + 1)..y PROVE x \in ToSet(s \o t) \/ Covered(x)
  <2>1. x \in (0 + 1)..a \/ x \in (a + 1)..y
    OBVIOUS
  <2> QED BY <1>1, <2>1 DEF Dealt
<1> QED BY <1>2 DEF Dealt

LEMMA ConcatIn ==
  ASSUME NEW f \in Nat, NEW b \in Nat, f <= b, NEW a \in Nat,
         NEW s \in Seq(1..f), NEW t \in Seq((a + 1)..b)
  PROVE  s \o t \in Seq(1..b) /\ s \in Seq(Nat) /\ t \in Seq(Nat)
<1>1. 1..f \subseteq 1..b /\ (a + 1)..b \subseteq 1..b /\ 1..b \subseteq Nat
  OBVIOUS
<1>2. s \in Seq(1..b) /\ t \in Seq(1..b)
  BY <1>1, SeqMonotonic
<1> QED BY <1>1, <1>2, SeqMonotonic, ConcatProperties

LEMMA StreamKept ==
  ASSUME UNCHANGED stream
  PROVE  /\ \A tag, p : Occurs(tag, p)' <=> Occurs(tag, p)
         /\ \A x : Covered(x)' <=> Covered(x)
         /\ \A a, b, p : OpenAfter(a, b, p)' <=> OpenAfter(a, b, p)
         /\ \A p, q, e : SpanTo(p, q, e)' <=> SpanTo(p, q, e)
         /\ Visible' = Visible
<1>1. \A tag, p : Occurs(tag, p)' <=> Occurs(tag, p)
  BY DEF Occurs
<1>2. \A p, q, e : SpanTo(p, q, e)' <=> SpanTo(p, q, e)
  BY <1>1 DEF SpanTo, FirstTag
<1>3. \A x : Covered(x)' <=> Covered(x)
  BY <1>2 DEF Covered
<1>4. \A a, b, p : OpenAfter(a, b, p)' <=> OpenAfter(a, b, p)
  BY <1>1 DEF OpenAfter
<1>5. Visible' = Visible
  BY DEF Visible, Scan, Round, Index, TagAt
<1> QED BY <1>1, <1>2, <1>3, <1>4, <1>5

LEMMA DealtKept ==
  ASSUME UNCHANGED stream, NEW y, Dealt(0, forwarded', y)
  PROVE  Dealt(0, forwarded, y)'
BY StreamKept DEF Dealt

LEMMA ProcessPreserves ==
  ASSUME StripInv, NEW n \in 1..Len(stream), Process(n)
  PROVE  StripInv'
<1>1. /\ stream \in Streams /\ fed \in Nat /\ Len(stream) \in Nat
      /\ insideThinkTag \in BOOLEAN /\ forwarded \in Seq(1..fed)
  BY StreamFacts DEF StripInv
<1>2. PICK a \in 0..fed : Withheld(a) /\ Dealt(0, forwarded, a)
  BY DEF StripInv
<1>3. PICK b \in Nat :
        /\ fed <= b /\ b <= Len(stream) /\ a < b /\ fed' = b
        /\ end = "open" /\ UNCHANGED <<stream, end>>
        /\ Strips(a, b) \/ \E h : PassesThrough(a, b, h)
  BY <1>1, <1>2, ProcessIs
<1>4. a \in Nat /\ a <= b /\ b \in 0..Len(stream)'
  BY <1>2, <1>3
(* It remains to find out what is withheld now.                            *)
<1>5. SUFFICES ASSUME NEW c \in 0..b, NEW out \in Seq((a + 1)..b),
                      forwarded' = forwarded \o out, Dealt(a, out, c), a <= c,
                      Withheld(c)', insideThinkTag' \in BOOLEAN
               PROVE  StripInv'
  <2>1. CASE Strips(a, b)
    <3>1. PICK scan : scan = Scan(Run(a, b), insideThinkTag)
      OBVIOUS
    <3>2. insideThinkTag => OpenAfter(a, b, a + 1)
      <4>1. insideThinkTag => OpenAfter(a, fed, a + 1)
        BY <1>2 DEF Withheld
      <4> QED BY <1>1, <1>3, <4>1, TagFacts DEF OpenAfter
    <3>3. /\ scan.inside \in BOOLEAN /\ scan.out \in Seq((a + 1)..b)
          /\ ~scan.inside => Dealt(a, scan.out, b)
          /\ scan.inside =>
               \E p : OpenAfter(a, b, p) /\ Dealt(a, scan.out, p - 1)
      BY <1>1, <1>3, <1>4, <3>1, <3>2, ScanDrops
    <3>4. /\ insideThinkTag' = scan.inside
          /\ thinkBuf' = Retained(Run(a, b), scan.inside)
          /\ tagPrefixPending' = <<>>
          /\ forwarded' = forwarded \o scan.out
      BY <2>1, <3>1 DEF Strips
    <3>5. CASE ~scan.inside
      <4>1. thinkBuf' = <<>> /\ ~insideThinkTag'
        BY <3>4, <3>5 DEF Retained
      <4>2. Run(b, b) = <<>>
        BY RunFacts
      <4>3. Withheld(b)'
        BY <1>3, <3>4, <4>1, <4>2 DEF Withheld
      <4>4. b \in 0..b
        OBVIOUS
      <4> QED BY <1>4, <1>5, <3>3, <3>4, <3>5, <4>3, <4>4
    <3>6. CASE scan.inside
      <4>1. PICK p : OpenAfter(a, b, p) /\ Dealt(a, scan.out, p - 1)
        BY <3>3, <3>6
      <4>2. PICK f : /\ OpenAfter(a, b, f) /\ f <= p
                     /\ Retained(Run(a, b), TRUE) = Run(f - 1, b)
        BY <1>1, <1>3, <1>4, <4>1, RetainedOf
      <4>3. p \in (a + 1)..b /\ f \in (a + 1)..b
        BY <4>1, <4>2 DEF OpenAfter
      <4>4. PICK c : c = f - 1
        OBVIOUS
      <4>5. c \in 0..b /\ a <= c /\ c + 1 = f
        BY <1>4, <4>3, <4>4
      <4>6. Dealt(a, scan.out, c)
        <5>1. (a + 1)..c \subseteq (a + 1)..(p - 1)
          BY <1>4, <4>2, <4>3, <4>5
        <5> QED BY <4>1, <5>1 DEF Dealt
      <4>7. insideThinkTag' /\ thinkBuf' = Run(c, b)
        <5>1. scan.inside = TRUE
          BY <3>3, <3>6
        <5> QED BY <3>4, <4>2, <4>4, <5>1
      <4>8. OpenAfter(c, b, c + 1)'
        <5>1. OpenAfter(c, b, c + 1)
          BY <4>2, <4>3, <4>5 DEF OpenAfter
        <5> QED BY <1>3, <5>1, StreamKept
      <4>9. Withheld(c)'
        BY <1>3, <3>4, <4>7, <4>8 DEF Withheld
      <4>10. insideThinkTag' \in BOOLEAN
        BY <3>3, <3>4
      <4> QED BY <1>5, <3>3, <3>4, <4>5, <4>6, <4>9, <4>10
    <3> QED BY <3>3, <3>5, <3>6
  <2>2. ASSUME NEW h, PassesThrough(a, b, h) PROVE StripInv'
    <3>1. /\ ~insideThinkTag /\ h \in 0..(b - a)
          /\ tagPrefixPending' = Run(b - h, b)
          /\ forwarded' = forwarded \o Run(a, b - h)
          /\ insideThinkTag' = insideThinkTag /\ thinkBuf' = thinkBuf
      BY <2>2 DEF PassesThrough, Held
    <3>2. PICK c \in Nat : c = b - h /\ c \in 0..b /\ a <= c
      BY <1>4, <3>1
    <3>3. Run(a, c) \in Seq((a + 1)..b) /\ Dealt(a, Run(a, c), c)
      <4>1. Run(a, c) \in Seq((a + 1)..c) /\ ToSet(Run(a, c)) = (a + 1)..c
        BY <1>4, <3>2, RunFacts
      <4>2. (a + 1)..c \subseteq (a + 1)..b
        BY <1>4, <3>2
      <4>3. Run(a, c) \in Seq((a + 1)..b)
        BY <4>1, <4>2, SeqMonotonic
      <4> QED BY <4>1, <4>3 DEF Dealt
    <3>4. ~insideThinkTag' /\ thinkBuf' = <<>> /\ tagPrefixPending' = Run(c, b)
      BY <1>2, <3>1, <3>2 DEF Withheld
    <3>5. Withheld(c)'
      BY <1>3, <3>4 DEF Withheld
    <3> QED BY <1>1, <1>5, <3>1, <3>2, <3>3, <3>5
  <2> QED BY <1>3, <2>1, <2>2
<1>6. /\ forwarded' \in Seq(1..b)
      /\ forwarded \in Seq(Nat) /\ out \in Seq(Nat)
  BY <1>1, <1>3, <1>4, <1>5, ConcatIn
<1>7. Dealt(0, forwarded', c)
  <2>1. c \in Nat /\ c <= b
    OBVIOUS
  <2> QED BY <1>2, <1>4, <1>5, <1>6, <2>1, DealtConcat
<1>8. Dealt(0, forwarded, c)'
  BY <1>3, <1>7, DealtKept
<1> QED BY <1>1, <1>3, <1>4, <1>5, <1>6, <1>8 DEF StripInv

LEMMA FlushPreserves ==
  ASSUME StripInv, Flush
  PROVE  StripInv'
<1>1. /\ stream \in Streams /\ fed \in Nat /\ Len(stream) \in Nat
      /\ fed \in 0..Len(stream)
      /\ insideThinkTag \in BOOLEAN /\ forwarded \in Seq(1..fed)
  BY StreamFacts DEF StripInv
<1>2. PICK a \in 0..fed : Withheld(a) /\ Dealt(0, forwarded, a)
  BY DEF StripInv
<1>3. fed = Len(stream) /\ UNCHANGED <<stream, fed, insideThinkTag, thinkBuf>>
  BY DEF Flush
<1>4. CASE thinkBuf # <<>>
  <2>1. end' = "unterminated" /\ UNCHANGED <<forwarded, tagPrefixPending>>
    BY <1>4 DEF Flush
  <2>2. Dealt(0, forwarded, a)'
    BY <1>2, <1>3, <2>1, DealtKept
  <2>3. Withheld(a)'
    BY <1>2, <1>3, <2>1, StreamKept DEF Withheld
  <2> QED BY <1>1, <1>2, <1>3, <2>1, <2>2, <2>3 DEF StripInv
<1>5. CASE thinkBuf = <<>>
  <2>1. forwarded' = forwarded \o tagPrefixPending /\ tagPrefixPending' = <<>>
    BY <1>5 DEF Flush
  <2>2. ~insideThinkTag /\ tagPrefixPending = Run(a, fed)
    <3>1. ~(thinkBuf = Run(a, fed) /\ OpenAfter(a, fed, a + 1))
      <4>1. ASSUME thinkBuf = Run(a, fed), a + 1 \in (a + 1)..fed PROVE FALSE
        <5>1. a # fed
          BY <1>2, <4>1
        <5> QED BY <1>1, <1>2, <1>5, <4>1, <5>1, RunFacts
      <4> QED BY <4>1 DEF OpenAfter
    <3> QED BY <1>2, <3>1 DEF Withheld
  <2>3. Run(a, fed) \in Seq((a + 1)..fed) /\ ToSet(Run(a, fed)) = (a + 1)..fed
        /\ Run(fed, fed) = <<>> /\ a \in Nat /\ a <= fed
    BY <1>1, <1>2, RunFacts
  <2>4. forwarded' \in Seq(1..fed) /\ forwarded \in Seq(Nat)
        /\ Run(a, fed) \in Seq(Nat)
    BY <1>1, <2>1, <2>2, <2>3, ConcatIn
  <2>5. Dealt(a, Run(a, fed), fed)
    BY <2>3 DEF Dealt
  <2>6. Dealt(0, forwarded', fed)
    <3>1. forwarded' = forwarded \o Run(a, fed) /\ fed <= fed
      BY <1>1, <2>1, <2>2
    <3> QED BY <1>1, <1>2, <2>3, <2>4, <2>5, <3>1, DealtConcat
  <2>7. Dealt(0, forwarded, fed)'
    BY <1>3, <2>6, DealtKept
  <2>8. Withheld(fed)'
    BY <1>3, <1>5, <2>1, <2>2, <2>3 DEF Withheld
  <2>9. fed \in 0..fed
    BY <1>1
  <2> QED BY <1>1, <1>3, <2>4, <2>7, <2>8, <2>9 DEF StripInv
<1> QED BY <1>4, <1>5

LEMMA StripInit == Init => StripInv
<1> SUFFICES ASSUME Init PROVE StripInv
  OBVIOUS
<1>1. /\ stream \in Streams /\ fed = 0 /\ insideThinkTag = FALSE
      /\ thinkBuf = <<>> /\ tagPrefixPending = <<>> /\ forwarded = <<>>
      /\ end = "open"
  BY DEF Init
<1>2. Len(stream) \in Nat
  BY <1>1, StreamFacts
<1>3. Withheld(0)
  <2>1. Run(0, 0) = <<>>
    BY RunFacts
  <2> QED BY <1>1, <2>1 DEF Withheld
<1>4. Dealt(0, <<>>, 0)
  BY DEF Dealt
<1>5. <<>> \in Seq(1..0)
  OBVIOUS
<1>6. 0 \in 0..0 /\ 0 \in 0..Len(stream) /\ FALSE \in BOOLEAN
      /\ end # "clean"
  BY <1>1, <1>2
<1> QED BY <1>1, <1>3, <1>4, <1>5, <1>6 DEF StripInv

LEMMA StripNext == StripInv /\ [Next]_vars => StripInv'
<1> SUFFICES ASSUME StripInv, [Next]_vars PROVE StripInv'
  OBVIOUS
<1>1. CASE UNCHANGED vars
  <2>1. UNCHANGED <<stream, fed, insideThinkTag, thinkBuf, tagPrefixPending,
                    forwarded, end>>
    BY <1>1 DEF vars
  <2>2. PICK a \in 0..fed : /\ Withheld(a) /\ Dealt(0, forwarded, a)
                            /\ end = "clean" => a = Len(stream)
    BY DEF StripInv
  <2>3. Dealt(0, forwarded, a)'
    BY <2>1, <2>2, DealtKept
  <2>4. Withheld(a)'
    BY <2>1, <2>2, StreamKept DEF Withheld
  <2> QED BY <2>1, <2>2, <2>3, <2>4 DEF StripInv
<1> QED BY <1>1, FlushPreserves, ProcessPreserves DEF Next

LEMMA StripImplies == StripInv => TypeOK /\ NothingIsLost
<1> SUFFICES ASSUME StripInv PROVE TypeOK /\ NothingIsLost
  OBVIOUS
<1>1. /\ stream \in Streams /\ fed \in Nat /\ Len(stream) \in Nat
      /\ fed \in 0..Len(stream)
      /\ insideThinkTag \in BOOLEAN /\ forwarded \in Seq(1..fed)
  BY StreamFacts DEF StripInv
<1>2. PICK a \in 0..fed : /\ Withheld(a) /\ Dealt(0, forwarded, a)
                          /\ end = "clean" => a = Len(stream)
  BY DEF StripInv
<1>3. /\ a \in Nat /\ a <= fed /\ Run(a, fed) \in Seq(Nat)
      /\ Run(a, fed) = <<>> <=> a = fed
  BY <1>1, <1>2, RunFacts
<1>4. /\ insideThinkTag <=> thinkBuf # <<>>
      /\ thinkBuf = <<>> \/ tagPrefixPending = <<>>
      /\ thinkBuf \o tagPrefixPending = Run(a, fed)
  <2>1. CASE ~insideThinkTag /\ thinkBuf = <<>>
             /\ tagPrefixPending = Run(a, fed)
    BY <1>3, <2>1, ConcatEmptySeq
  <2>2. CASE insideThinkTag /\ thinkBuf = Run(a, fed)
             /\ tagPrefixPending = <<>> /\ OpenAfter(a, fed, a + 1)
    <3>1. a # fed
      BY <1>3, <2>2 DEF OpenAfter
    <3> QED BY <1>3, <2>2, <3>1, ConcatEmptySeq
  <2> QED BY <1>2, <2>1, <2>2 DEF Withheld
<1>5. TypeOK
  <2>1. PICK w \in 0..fed : w = fed - a /\ fed - w = a
    BY <1>1, <1>3
  <2> QED BY <1>1, <1>4, <2>1 DEF TypeOK
<1>6. NothingIsLost
  <2> SUFFICES ASSUME end = "clean", NEW x \in ToSet(Visible.out)
               PROVE  x \in ToSet(forwarded)
    BY DEF NothingIsLost
  <2>1. Visible.out \in Seq((0 + 1)..Len(stream))
    <3>1. /\ 0 \in Nat /\ 0 <= Len(stream) /\ Len(stream) <= Len(stream)
          /\ FALSE \in BOOLEAN /\ FALSE => OpenAfter(0, Len(stream), 0 + 1)
      BY <1>1
    <3> QED BY <1>1, <3>1, ScanDrops, Zenon DEF Visible
  <2>2. x \in (0 + 1)..Len(stream)
    BY <2>1, LenProperties, ElementOfSeq DEF ToSet
  <2>3. ~Covered(x)
    BY <1>1, SpansAreHidden DEF Covered
  <2> QED BY <1>2, <2>2, <2>3 DEF Dealt
<1> QED BY <1>5, <1>6

-----------------------------------------------------------------------------
(* A stream with at most one span.  It is that of the open tag at p, up to *)
(* e, its close tag at q; p is behind the end of the stream if there is no *)
(* open tag, and so is q if there is no close tag behind it.               *)
TheSpan(p, q, e) ==
  /\ \A x \in 1..Len(stream) : Occurs(OpenTag, x) => x = p
  /\ \/ SpanTo(p, q, e)
     \/ p = Len(stream) + 1 /\ q = Len(stream) + 1 /\ e = Len(stream)

Closed(q, b) == q + Len(CloseTag) - 1 <= b

LEMMA TheSpanFacts ==
  ASSUME stream \in Streams, NEW p, NEW q, NEW e, TheSpan(p, q, e)
  PROVE  /\ Len(stream) \in Nat /\ p \in 1..(Len(stream) + 1)
         /\ q \in Nat /\ p <= q /\ q <= Len(stream) + 1
         /\ e \in Nat /\ e <= Len(stream) /\ p <= e + 1
         /\ p <= Len(stream) =>
              /\ SpanTo(p, q, e) /\ Occurs(OpenTag, p) /\ p <= e
              /\ p + Len(OpenTag) <= q
              /\ p + Len(OpenTag) - 1 <= Len(stream)
         /\ Closed(q, Len(stream)) =>
              /\ p <= Len(stream) /\ Occurs(CloseTag, q)
              /\ e = q + Len(CloseTag) - 1
              /\ \A x \in p..(q - 1) : ~Occurs(CloseTag, x)
         /\ ~Closed(q, Len(stream)) =>
              /\ q = Len(stream) + 1 /\ e = Len(stream)
              /\ \A x \in p..Len(stream) : ~Occurs(CloseTag, x)
<1>1. /\ Len(stream) \in Nat
      /\ Len(OpenTag) \in Nat /\ Len(OpenTag) > 0
      /\ Len(CloseTag) \in Nat /\ Len(CloseTag) > 0
  BY StreamFacts, TagFacts
<1>2. CASE p = Len(stream) + 1 /\ q = Len(stream) + 1 /\ e = Len(stream)
  BY <1>1, <1>2 DEF Closed
<1>3. CASE SpanTo(p, q, e)
  <2>1. /\ p \in 1..Len(stream) /\ q \in Nat /\ e \in Nat
        /\ p + Len(OpenTag) <= q /\ p <= e /\ e <= Len(stream) /\ q <= e + 1
    BY <1>3, SpanFacts
  <2>2. Occurs(OpenTag, p) /\ p + Len(OpenTag) - 1 <= Len(stream)
    BY <1>3 DEF SpanTo, Occurs
  <2>3. CASE FirstTag(CloseTag, p, Len(stream), q)
             /\ e = q + Len(CloseTag) - 1
    <3>1. /\ Closed(q, Len(stream)) /\ Occurs(CloseTag, q)
          /\ \A x \in p..(q - 1) : ~Occurs(CloseTag, x)
      BY <2>3 DEF FirstTag, Closed
    <3> QED BY <1>1, <1>3, <2>1, <2>2, <2>3, <3>1
  <2>4. CASE /\ \A x \in p..Len(stream) : ~Occurs(CloseTag, x)
             /\ q = Len(stream) + 1 /\ e = Len(stream)
    <3>1. ~Closed(q, Len(stream))
      BY <1>1, <2>4 DEF Closed
    <3> QED BY <1>1, <1>3, <2>1, <2>2, <2>4, <3>1
  <2> QED BY <1>3, <2>3, <2>4 DEF SpanTo
<1> QED BY <1>2, <1>3 DEF TheSpan

LEMMA TheSpanExists ==
  ASSUME stream \in Streams, OneSpan
  PROVE  \E p, q, e : TheSpan(p, q, e)
<1> DEFINE n == Len(stream)
<1>1. /\ n \in Nat /\ OpenTag \in Tags /\ CloseTag \in Tags
      /\ Len(OpenTag) \in Nat /\ Len(OpenTag) > 0
      /\ Len(CloseTag) \in Nat /\ Len(CloseTag) > 0
  BY StreamFacts, TagFacts
<1>2. \A i \in 1..n : TagAt(Run(0, n), i, OpenTag) <=> Occurs(OpenTag, i)
  <2>1. ASSUME NEW i \in 1..n
        PROVE  TagAt(Run(0, n), i, OpenTag) <=> Occurs(OpenTag, i)
    <3>1. i \in 1..(n - 0 + 1) /\ 0 + i = i /\ 0 \in Nat /\ 0 <= n /\ n <= n
      BY <1>1
    <3>2. TagAt(Run(0, n), i, OpenTag) <=>
            Occurs(OpenTag, 0 + i) /\ 0 + i + Len(OpenTag) - 1 <= n
      <4> HIDE DEF n
      <4> QED BY <1>1, <3>1, TagInRun DEF n
    <3>3. Occurs(OpenTag, i) => i + Len(OpenTag) - 1 <= n
      BY DEF Occurs
    <3> QED BY <3>1, <3>2, <3>3
  <2> QED BY <2>1
<1>3. \A x, y \in 1..n : Occurs(OpenTag, x) /\ Occurs(OpenTag, y) => x = y
  BY <1>2 DEF OneSpan
<1>4. CASE \A x \in 1..n : ~Occurs(OpenTag, x)
  <2>1. TheSpan(n + 1, n + 1, n)
    BY <1>4 DEF TheSpan
  <2> QED BY <2>1
<1>5. CASE \E x \in 1..n : Occurs(OpenTag, x)
  <2>1. PICK p \in 1..n : Occurs(OpenTag, p)
    BY <1>5
  <2>2. \E q, e : SpanTo(p, q, e)
    <3>1. PICK a \in Nat : a = p - 1
      BY <1>1
    <3>2. PICK at : at = Index(Run(a, n), 1, CloseTag)
      OBVIOUS
    <3>3. a <= n /\ n <= Len(stream) /\ 1 \in 1..(n - a + 1) /\ a + 1 = p
      BY <1>1, <3>1
    <3>4. \/ NoTag(CloseTag, a + 1, n)
          \/ FirstTag(CloseTag, a + 1, n, a + at)
      <4> HIDE DEF n
      <4> QED BY <1>1, <3>2, <3>3, IndexFinds DEF n
    <3>5. CASE NoTag(CloseTag, p, n)
      <4>1. \A x \in p..n : ~Occurs(CloseTag, x)
        BY <3>5 DEF NoTag, Occurs
      <4>2. SpanTo(p, n + 1, n)
        BY <2>1, <4>1 DEF SpanTo
      <4> QED BY <4>2
    <3>6. CASE FirstTag(CloseTag, p, n, a + at)
      <4>1. SpanTo(p, a + at, a + at + Len(CloseTag) - 1)
        BY <2>1, <3>6 DEF SpanTo
      <4> QED BY <4>1
    <3> QED BY <3>3, <3>4, <3>5, <3>6
  <2>3. PICK q, e : SpanTo(p, q, e)
    BY <2>2
  <2>4. TheSpan(p, q, e)
    BY <1>3, <2>1, <2>3 DEF TheSpan
  <2> QED BY <2>4
<1> QED BY <1>4, <1>5

LEMMA ConcatRegroups ==
  ASSUME NEW S
  PROVE  \A s, t, u \in Seq(S) : (s \o t) \o u = s \o (t \o u)
BY ConcatAssociative

LEMMA ConcatPlaces ==
  \A s, t, u \in Seq(Nat) : (s \o t) \o u = s \o (t \o u)
BY ConcatAssociative

LEMMA RunJoin ==
  ASSUME NEW s \in Seq(Nat),
         NEW a \in Nat, NEW b \in Nat, NEW c \in Nat, a <= b, b <= c
  PROVE  (s \o Run(a, b)) \o Run(b, c) = s \o Run(a, c)
<1> DEFINE t == Run(a, b)
           u == Run(b, c)
<1>1. t \in Seq(Nat) /\ u \in Seq(Nat)
  BY RunFacts
<1>2. t \o u = Run(a, c)
  BY RunConcat
<1> HIDE DEF t, u
<1>3. (s \o t) \o u = s \o (t \o u)
  BY <1>1, ConcatPlaces
<1>4. (s \o t) \o u = s \o Run(a, c)
  BY <1>2, <1>3
<1> QED BY <1>4 DEF t, u

LEMMA PrefixOfConcat ==
  ASSUME NEW s \in Seq(Nat), NEW t \in Seq(Nat)
  PROVE  IsPrefix(s, s \o t) /\ IsPrefix(s, s)
<1>1. /\ Len(s) \in Nat /\ Len(t) \in Nat
      /\ s \o t \in Seq(Nat) /\ Len(s \o t) = Len(s) + Len(t)
      /\ \A i \in 1..Len(s) + Len(t) :
           (s \o t)[i] = IF i <= Len(s) THEN s[i] ELSE t[i - Len(s)]
  BY ConcatProperties, LenProperties
<1>2. SubSeq(s, 1, Len(s)) = s
  BY SubSeqFull
<1>3. SubSeq(s \o t, 1, Len(s)) = s
  <2> DEFINE u == s \o t
             v == SubSeq(u, 1, Len(s))
  <2>1. \A i \in 1..Len(s) : u[i] = s[i] /\ u[i] \in Nat
    BY <1>1
  <2>2. /\ v \in Seq(Nat) /\ Len(v) = Len(s)
        /\ \A i \in 1..Len(s) : v[i] = u[i]
    <3>1. 1 \in Int /\ Len(s) \in Int
      BY <1>1
    <3> HIDE DEF u
    <3>2. /\ v \in Seq(Nat)
          /\ Len(v) = IF 1 <= Len(s) THEN Len(s) - 1 + 1 ELSE 0
          /\ \A i \in 1..(Len(s) - 1 + 1) : v[i] = u[1 + i - 1]
      BY <2>1, <3>1, SubSeqProperties
    <3> QED BY <1>1, <3>2
  <2> HIDE DEF u, v
  <2>3. v = s
    BY <2>1, <2>2, SameSeq
  <2> QED BY <2>3 DEF u, v
<1> QED BY <1>1, <1>2, <1>3 DEF IsPrefix

(* What a scan of the places after a up to b forwards.                     *)
LEMMA ScanOne ==
  ASSUME stream \in Streams, NEW inside \in BOOLEAN,
         NEW a \in Nat, NEW b \in Nat, a <= b, b <= Len(stream),
         NEW p, NEW q, NEW e, TheSpan(p, q, e),
         inside => a = p - 1 /\ OpenAfter(a, b, p)
  PROVE  LET scan == Scan(Run(a, b), inside)
         IN  /\ ~OpenAfter(a, b, p) =>
                  ~scan.inside /\ scan.out = Run(a, b)
             /\ (OpenAfter(a, b, p) /\ ~Closed(q, b)) =>
                  scan.inside /\ scan.out = Run(a, p - 1)
             /\ OpenAfter(a, b, p) /\ Closed(q, b) =>
                  ~scan.inside /\ scan.out = Run(a, p - 1) \o Run(e, b)
<1> DEFINE n == Len(stream)
           O == OpenAfter(a, b, p)
           before(s) == /\ ~s.inside /\ s.out = Run(a, a + s.pos - 1)
                        /\ O => a + s.pos <= p
           within(s) == /\ s.inside /\ O /\ s.out = Run(a, p - 1)
                        /\ p <= a + s.pos
                        /\ \/ a + s.pos <= q
                           \/ ~Closed(q, b) /\ s.pos = b - a + 1
           behind(s) == /\ ~s.inside /\ O /\ Closed(q, b) /\ e < a + s.pos
                        /\ s.out = Run(a, p - 1) \o Run(e, a + s.pos - 1)
           T == {s \in States(a, b) : before(s) \/ within(s) \/ behind(s)}
<1>1. /\ n \in Nat /\ OpenTag \in Tags /\ CloseTag \in Tags
      /\ Len(OpenTag) \in Nat /\ Len(OpenTag) > 0
      /\ Len(CloseTag) \in Nat /\ Len(CloseTag) > 0
  BY StreamFacts, TagFacts
<1>2. /\ p \in 1..(n + 1) /\ q \in Nat /\ e \in Nat /\ p <= q
      /\ \A x \in 1..n : Occurs(OpenTag, x) => x = p
  BY TheSpanFacts DEF TheSpan
<1>3. O => /\ p \in (a + 1)..b /\ p <= n /\ Occurs(OpenTag, p)
           /\ p + Len(OpenTag) - 1 <= b /\ p + Len(OpenTag) <= q /\ p <= e
  <2>1. O => /\ p \in (a + 1)..b /\ p <= n /\ Occurs(OpenTag, p)
             /\ p + Len(OpenTag) - 1 <= b
    BY <1>1, <1>2 DEF OpenAfter
  <2> QED BY <2>1, TheSpanFacts
<1>4. Closed(q, b) => /\ Occurs(CloseTag, q) /\ e = q + Len(CloseTag) - 1
                      /\ e <= b /\ q <= b
                      /\ \A x \in p..(q - 1) : ~Occurs(CloseTag, x)
  <2>1. Closed(q, b) => Closed(q, n)
    BY <1>1, <1>2 DEF Closed
  <2>2. Closed(q, b) => /\ Occurs(CloseTag, q) /\ e = q + Len(CloseTag) - 1
                        /\ \A x \in p..(q - 1) : ~Occurs(CloseTag, x)
    BY <2>1, TheSpanFacts
  <2> QED BY <1>1, <1>2, <2>2 DEF Closed
<1>5. \A x \in p..n : Occurs(CloseTag, x) => q <= x /\ Closed(q, n)
  <2>1. ASSUME NEW x \in p..n, Occurs(CloseTag, x), x < q PROVE FALSE
    <3>1. x \in p..(q - 1)
      BY <1>1, <1>2, <2>1
    <3> QED BY <2>1, <3>1, TheSpanFacts
  <2>2. ASSUME NEW x \in p..n, Occurs(CloseTag, x) PROVE Closed(q, n)
    BY <2>2, TheSpanFacts
  <2> QED BY <1>1, <1>2, <2>1, <2>2
<1> HIDE DEF O
<1>6. Start(inside) \in T
  <2>1. /\ Start(inside) \in States(a, b) /\ Start(inside).pos = 1
        /\ Start(inside).inside = inside /\ Start(inside).out = <<>>
    BY DEF Start, States
  <2>2. Run(a, a) = <<>>
    BY RunFacts
  <2>3. CASE inside
    <3>1. O /\ a = p - 1 /\ a + 1 = p
      BY <1>2, <2>3 DEF O
    <3>2. Run(a, p - 1) = <<>>
      BY <2>2, <3>1
    <3>3. within(Start(inside))
      BY <1>2, <2>1, <2>3, <3>1, <3>2
    <3> QED BY <2>1, <3>3
  <2>4. CASE ~inside
    <3>1. a + Start(inside).pos - 1 = a
      BY <2>1
    <3>2. Run(a, a + Start(inside).pos - 1) = <<>>
      BY <2>2, <3>1
    <3>3. O => a + Start(inside).pos <= p
      BY <1>3, <2>1
    <3>4. before(Start(inside))
      BY <2>1, <2>4, <3>2, <3>3
    <3> QED BY <2>1, <3>4
  <2> QED BY <2>3, <2>4
<1>7. ASSUME NEW s \in T PROVE Round(Run(a, b), s) \in T
  <2>1. PICK r : r = Round(Run(a, b), s)
    OBVIOUS
  <2>2. r \in States(a, b)
        /\ (Ends(a, b, s, r) \/ \E c : Passes(a, b, s, r, c))
    BY <2>1, RoundOf
  <2>3. /\ s \in States(a, b) /\ s.pos \in 1..(b - a + 1)
        /\ s.inside \in BOOLEAN /\ r.inside \in BOOLEAN
        /\ r.pos \in 1..(b - a + 1)
        /\ before(s) \/ within(s) \/ behind(s)
    BY <2>2 DEF States
  <2>4. SUFFICES before(r) \/ within(r) \/ behind(r)
    BY <2>1, <2>2
  <2>5. CASE Ends(a, b, s, r)
    <3>1. /\ NoTag(Sought(s), a + s.pos, b) /\ r.pos = b - a + 1
          /\ r.inside = s.inside /\ r.out = OutUpTo(a, s, b)
          /\ a + r.pos = b + 1 /\ a + r.pos - 1 = b
      BY <2>5 DEF Ends
    <3>2. CASE before(s)
      <4>1. r.out = Run(a, b)
        <5>1. r.out = Run(a, a + s.pos - 1) \o Run(a + s.pos - 1, b)
          BY <3>1, <3>2 DEF OutUpTo
        <5>2. PICK c \in Nat : c = a + s.pos - 1 /\ a <= c /\ c <= b
          BY <2>3
        <5> QED BY <5>1, <5>2, RunConcat
      <4>2. ~O
        <5>1. ASSUME O PROVE FALSE
          <6>1. p \in (a + s.pos)..b /\ Sought(s) = OpenTag
            BY <1>3, <2>3, <3>2, <5>1 DEF Sought
          <6>2. p + Len(OpenTag) - 1 > b
            BY <1>3, <3>1, <5>1, <6>1 DEF NoTag
          <6> QED BY <1>1, <1>3, <5>1, <6>2
        <5> QED BY <5>1
      <4>3. Run(a, a + r.pos - 1) = Run(a, b)
        BY <3>1
      <4> QED BY <3>1, <3>2, <4>1, <4>2, <4>3
    <3>3. CASE within(s)
      <4>1. r.out = Run(a, p - 1) /\ r.inside
        BY <3>1, <3>3 DEF OutUpTo
      <4>2. ~Closed(q, b)
        <5>1. ASSUME Closed(q, b) PROVE FALSE
          <6>1. q \in (a + s.pos)..b /\ Sought(s) = CloseTag
            BY <1>2, <1>4, <2>3, <3>3, <5>1 DEF Sought
          <6>2. q + Len(CloseTag) - 1 > b
            BY <1>4, <3>1, <5>1, <6>1 DEF NoTag
          <6> QED BY <1>1, <1>2, <5>1, <6>2 DEF Closed
        <5> QED BY <5>1
      <4>3. p <= a + r.pos
        BY <1>3, <3>1, <3>3
      <4> QED BY <3>1, <3>3, <4>1, <4>2, <4>3
    <3>4. CASE behind(s)
      <4>1. r.out = Run(a, p - 1) \o Run(e, b)
        <5>1. r.out = (Run(a, p - 1) \o Run(e, a + s.pos - 1))
                        \o Run(a + s.pos - 1, b)
          BY <3>1, <3>4 DEF OutUpTo
        <5>2. PICK c \in Nat : c = a + s.pos - 1 /\ e <= c /\ c <= b
          BY <1>2, <2>3, <3>4
        <5>3. p - 1 \in Nat /\ a <= p - 1
          BY <1>2, <1>3, <3>4
        <5>4. Run(a, p - 1) \in Seq(Nat)
          BY <5>3, RunFacts
        <5>5. r.out = (Run(a, p - 1) \o Run(e, c)) \o Run(c, b)
          BY <5>1, <5>2
        <5>6. (Run(a, p - 1) \o Run(e, c)) \o Run(c, b)
                = Run(a, p - 1) \o Run(e, b)
          <6>1. PICK x \in Seq(Nat) : x = Run(a, p - 1)
            BY <5>4
          <6>2. e \in Nat /\ c \in Nat /\ e <= c /\ c <= b
            BY <1>2, <5>2
          <6>3. (x \o Run(e, c)) \o Run(c, b) = x \o Run(e, b)
            <7> HIDE DEF T, before, within, behind, O, n
            <7> QED BY <6>2, RunJoin
          <6> QED BY <6>1, <6>3
        <5> QED BY <5>5, <5>6
      <4>2. e < a + r.pos
        BY <1>4, <1>2, <3>1, <3>4
      <4>3. Run(e, a + r.pos - 1) = Run(e, b)
        BY <3>1
      <4> QED BY <3>1, <3>4, <4>1, <4>2, <4>3
    <3> QED BY <2>3, <3>2, <3>3, <3>4
  <2>6. CASE \E c : Passes(a, b, s, r, c)
    <3>1. PICK c : Passes(a, b, s, r, c)
      BY <2>6
    <3>2. /\ FirstTag(Sought(s), a + s.pos, b, c)
          /\ r.pos = c - a + Len(Sought(s)) /\ r.inside = ~s.inside
          /\ r.out = OutUpTo(a, s, c - 1)
      BY <3>1 DEF Passes
    <3>3. /\ c \in (a + s.pos)..b /\ Occurs(Sought(s), c)
          /\ c + Len(Sought(s)) - 1 <= b
          /\ c \in Nat /\ c \in (a + 1)..b /\ c \in 1..n
      BY <2>3, <3>2 DEF FirstTag
    <3>4. CASE ~s.inside
      <4>1. Sought(s) = OpenTag /\ r.inside
        BY <3>2, <3>4 DEF Sought
      <4>2. c = p /\ O
        BY <1>2, <3>3, <4>1 DEF OpenAfter, O
      <4>3. before(s)
        BY <1>2, <1>3, <2>3, <3>3, <3>4, <4>2
      <4>4. r.out = Run(a, p - 1)
        <5>1. r.out = Run(a, a + s.pos - 1) \o Run(a + s.pos - 1, p - 1)
          BY <3>2, <4>2, <4>3 DEF OutUpTo
        <5>2. PICK d \in Nat : d = a + s.pos - 1 /\ a <= d /\ d <= p - 1
          BY <2>3, <3>3, <4>2
        <5>3. p - 1 \in Nat
          BY <1>2
        <5> QED BY <5>1, <5>2, <5>3, RunConcat
      <4>5. a + r.pos = p + Len(OpenTag)
        BY <1>1, <3>2, <3>3, <4>1, <4>2
      <4>6. p <= a + r.pos /\ a + r.pos <= q
        BY <1>1, <1>2, <1>3, <4>2, <4>5
      <4> QED BY <4>1, <4>2, <4>4, <4>6
    <3>5. CASE s.inside
      <4>1. Sought(s) = CloseTag /\ ~r.inside /\ within(s)
            /\ r.out = Run(a, p - 1)
        BY <2>3, <3>2, <3>5 DEF Sought, OutUpTo
      <4>2. c \in p..n /\ Occurs(CloseTag, c)
        BY <1>1, <1>2, <2>3, <3>3, <4>1
      <4>3. q <= c
        BY <1>5, <4>2
      <4>4. Closed(q, b)
        BY <1>1, <1>2, <3>3, <4>1, <4>3 DEF Closed
      <4>5. c = q
        <5>1. ASSUME q < c PROVE FALSE
          <6>1. a + s.pos <= q
            BY <4>1, <4>4
          <6>2. q \in (a + s.pos)..(c - 1)
            BY <1>2, <2>3, <3>3, <5>1, <6>1
          <6>3. ~Occurs(CloseTag, q)
            BY <3>2, <4>1, <6>2 DEF FirstTag
          <6> QED BY <1>4, <4>4, <6>3
        <5> QED BY <1>2, <3>3, <4>3, <5>1
      <4>6. a + r.pos = e + 1 /\ a + r.pos - 1 = e
        BY <1>1, <1>2, <1>4, <3>2, <3>3, <4>1, <4>4, <4>5
      <4>7. r.out = Run(a, p - 1) \o Run(e, a + r.pos - 1)
        <5>1. Run(e, e) = <<>>
          BY <1>2, RunFacts
        <5>2. Run(a, p - 1) \in Seq(Nat)
          <6>1. p - 1 \in Nat /\ a <= p - 1
            BY <1>2, <1>3, <4>1
          <6> QED BY <6>1, RunFacts
        <5>3. Run(e, a + r.pos - 1) = <<>>
          BY <4>6, <5>1
        <5> QED BY <4>1, <5>2, <5>3, ConcatEmptySeq
      <4>8. e < a + r.pos
        BY <1>2, <4>6
      <4> QED BY <4>1, <4>4, <4>7, <4>8
    <3> QED BY <2>3, <3>4, <3>5
  <2> QED BY <2>2, <2>5, <2>6
<1>8. PICK scan \in T : /\ scan = Scan(Run(a, b), inside)
                        /\ scan.pos = b - a + 1
  <2>1. T \in SUBSET States(a, b)
    OBVIOUS
  <2>2. \A s \in T : Round(Run(a, b), s) \in T
    BY <1>7
  <2> HIDE DEF T
  <2>3. Scan(Run(a, b), inside) \in {s \in T : s.pos = b - a + 1}
    BY <1>6, <2>1, <2>2, ScanInduct, Zenon
  <2> QED BY <2>3
<1>9. a + scan.pos = b + 1 /\ a + scan.pos - 1 = b
  BY <1>8
<1>10. before(scan) => ~O /\ ~scan.inside /\ scan.out = Run(a, b)
  BY <1>3, <1>9
<1>11. within(scan) => O /\ ~Closed(q, b) /\ scan.inside
                         /\ scan.out = Run(a, p - 1)
  <2>1. Closed(q, b) => ~(a + scan.pos <= q)
    BY <1>2, <1>4, <1>9
  <2> QED BY <2>1
<1>12. behind(scan) => O /\ Closed(q, b) /\ ~scan.inside
                         /\ scan.out = Run(a, p - 1) \o Run(e, b)
  BY <1>9
<1>13. before(scan) \/ within(scan) \/ behind(scan)
  BY <1>8
<1> HIDE DEF before, within, behind
<1> QED BY <1>8, <1>10, <1>11, <1>12, <1>13 DEF O

(* The text around the span, up to place b behind it.                      *)
Around(p, e, b) == Run(0, p - 1) \o Run(e, b)

LEMMA AroundFacts ==
  ASSUME stream \in Streams, NEW p, NEW q, NEW e, TheSpan(p, q, e),
         NEW b \in Nat, e <= b
  PROVE  /\ Around(p, e, b) \in Seq(Nat)
         /\ \A c \in Nat :
              b <= c => Around(p, e, b) \o Run(b, c) = Around(p, e, c)
         /\ Run(0, p - 1) \in Seq(Nat)
         /\ \A a \in 0..(p - 1) : Run(0, a) \o Run(a, p - 1) = Run(0, p - 1)
<1>1. e \in Nat /\ p \in 1..(Len(stream) + 1) /\ Len(stream) \in Nat
  BY TheSpanFacts
<1>2. PICK d \in Nat : d = p - 1
  BY <1>1
<1>3. PICK x \in Seq(Nat) : x = Run(0, d)
  BY <1>2, RunFacts
<1>4. Run(e, b) \in Seq(Nat)
  BY <1>1, RunFacts
<1>5. x \o Run(e, b) \in Seq(Nat)
  BY <1>4, ConcatProperties
<1>6. \A c \in Nat : b <= c => (x \o Run(e, b)) \o Run(b, c) = x \o Run(e, c)
  BY <1>1, RunJoin
<1>7. \A a \in 0..d : Run(0, a) \o Run(a, d) = Run(0, d)
  <2>1. ASSUME NEW a \in 0..d PROVE Run(0, a) \o Run(a, d) = Run(0, d)
    <3>1. 0 \in Nat /\ a \in Nat /\ 0 <= a /\ a <= d
      BY <1>2
    <3> QED BY <3>1, RunConcat
  <2> QED BY <2>1
<1>8. x = Run(0, p - 1)
  BY <1>2, <1>3
<1>9. \A c : Around(p, e, c) = x \o Run(e, c)
  BY <1>8 DEF Around
<1>10. \A a \in 0..(p - 1) : Run(0, a) \o Run(a, p - 1) = Run(0, p - 1)
  BY <1>2, <1>7
<1>11. ASSUME NEW c \in Nat, b <= c
       PROVE  Around(p, e, b) \o Run(b, c) = Around(p, e, c)
  BY <1>6, <1>9, <1>11, Zenon
<1> QED BY <1>5, <1>8, <1>9, <1>10, <1>11

LEMMA AroundGrows ==
  ASSUME stream \in Streams, NEW p, NEW q, NEW e, TheSpan(p, q, e),
         NEW b \in Nat, NEW c \in Nat, e <= b, b <= c
  PROVE  Around(p, e, b) \o Run(b, c) = Around(p, e, c)
BY AroundFacts

LEMMA VisibleIs ==
  ASSUME stream \in Streams, NEW p, NEW q, NEW e, TheSpan(p, q, e)
  PROVE  /\ Visible.out = Around(p, e, Len(stream))
         /\ Visible.inside <=> p <= Len(stream) /\ ~Closed(q, Len(stream))
<1> DEFINE n == Len(stream)
<1>1. /\ n \in Nat /\ p \in 1..(n + 1) /\ e \in Nat /\ e <= n
      /\ 0 \in Nat /\ 0 <= n /\ n <= n /\ FALSE \in BOOLEAN
      /\ FALSE => 0 = p - 1 /\ OpenAfter(0, n, p)
  BY TheSpanFacts
<1>2. /\ ~OpenAfter(0, n, p) => ~Visible.inside /\ Visible.out = Run(0, n)
      /\ (OpenAfter(0, n, p) /\ ~Closed(q, n)) =>
           Visible.inside /\ Visible.out = Run(0, p - 1)
      /\ (OpenAfter(0, n, p) /\ Closed(q, n)) =>
           ~Visible.inside /\ Visible.out = Run(0, p - 1) \o Run(e, n)
  <2> HIDE DEF n
  <2>1. n <= Len(stream)
    BY DEF n
  <2> QED BY <1>1, <2>1, ScanOne, Zenon DEF Visible, n
<1>3. OpenAfter(0, n, p) <=> p <= n
  <2>1. p <= n => Occurs(OpenTag, p) /\ p + Len(OpenTag) - 1 <= n
    BY TheSpanFacts
  <2>2. p <= n <=> p \in (0 + 1)..n
    BY <1>1
  <2> QED BY <2>1, <2>2 DEF OpenAfter
<1>4. Run(n, n) = <<>>
  BY <1>1, RunFacts
<1>5. Run(0, p - 1) \in Seq(Nat)
  BY <1>1, AroundFacts
<1>6. ~Closed(q, n) => Around(p, e, n) = Run(0, p - 1)
  <2>1. ~Closed(q, n) => e = n
    BY TheSpanFacts
  <2>2. Run(0, p - 1) \o <<>> = Run(0, p - 1)
    BY <1>5, ConcatEmptySeq
  <2> QED BY <1>4, <2>1, <2>2 DEF Around
<1>7. ~OpenAfter(0, n, p) => Run(0, n) = Run(0, p - 1) /\ ~Closed(q, n)
  <2>1. ~OpenAfter(0, n, p) => p - 1 = n
    BY <1>1, <1>3
  <2>2. Closed(q, n) => p <= n
    BY TheSpanFacts
  <2> QED BY <1>3, <2>1, <2>2
<1> QED BY <1>2, <1>3, <1>6, <1>7 DEF Around

(* How far the stripper has come: it is before the span, with none of its  *)
(* open tag or a beginning of it; within the span; or behind it.           *)
Reached(a, p, q, e) ==
  \/ /\ ~insideThinkTag /\ a < p /\ fed < p + Len(OpenTag) - 1
     /\ forwarded = Run(0, a)
  \/ /\ insideThinkTag /\ a = p - 1 /\ ~Closed(q, fed)
     /\ forwarded = Run(0, p - 1)
  \/ /\ ~insideThinkTag /\ e <= a /\ Closed(q, Len(stream))
     /\ forwarded = Around(p, e, a)

OnCourse(p, q, e) ==
  \E a \in 0..fed :
    /\ Withheld(a) /\ Reached(a, p, q, e)
    /\ end = "clean" => a = Len(stream)
    /\ end = "unterminated" => insideThinkTag /\ fed = Len(stream)

ExactInv == \A p, q, e : TheSpan(p, q, e) => OnCourse(p, q, e)

LEMMA ExactKept ==
  ASSUME UNCHANGED stream,
         \A p, q, e : TheSpan(p, q, e) => OnCourse(p, q, e)'
  PROVE  ExactInv'
<1>1. \A p, q, e : TheSpan(p, q, e)' <=> TheSpan(p, q, e)
  BY StreamKept DEF TheSpan
<1> QED BY <1>1 DEF ExactInv

LEMMA ExactInit == Init => ExactInv
<1> SUFFICES ASSUME Init, NEW p, NEW q, NEW e, TheSpan(p, q, e)
             PROVE  OnCourse(p, q, e)
  BY DEF ExactInv
<1>1. /\ stream \in Streams /\ fed = 0 /\ insideThinkTag = FALSE
      /\ thinkBuf = <<>> /\ tagPrefixPending = <<>> /\ forwarded = <<>>
      /\ end = "open"
  BY DEF Init
<1>2. p \in Nat /\ p >= 1 /\ Len(OpenTag) \in Nat /\ Len(OpenTag) > 0
  BY <1>1, TheSpanFacts, TagFacts
<1>3. Run(0, 0) = <<>>
  BY RunFacts
<1>4. Withheld(0)
  BY <1>1, <1>3 DEF Withheld
<1>5. Reached(0, p, q, e)
  BY <1>1, <1>2, <1>3 DEF Reached
<1>6. 0 \in 0..fed
  BY <1>1
<1> QED BY <1>1, <1>4, <1>5, <1>6 DEF OnCourse

(* A chunk that is scanned ...                                             *)
LEMMA StripsOnCourse ==
  ASSUME StripInv, NEW p, NEW q, NEW e, TheSpan(p, q, e),
         NEW a \in 0..fed, Withheld(a), Reached(a, p, q, e),
         NEW b \in Nat, fed <= b, b <= Len(stream), a < b, fed' = b,
         end = "open", UNCHANGED <<stream, end>>, Strips(a, b)
  PROVE  OnCourse(p, q, e)'
<1>1. /\ stream \in Streams /\ fed \in Nat /\ Len(stream) \in Nat
      /\ insideThinkTag \in BOOLEAN /\ a \in Nat /\ a <= b /\ a <= fed
      /\ Len(OpenTag) \in Nat /\ Len(OpenTag) > 0
  BY StreamFacts, TagFacts DEF StripInv
<1>2. /\ p \in 1..(Len(stream) + 1) /\ q \in Nat /\ e \in Nat
      /\ e <= Len(stream) /\ p - 1 \in Nat
      /\ \A x \in 1..Len(stream) : Occurs(OpenTag, x) => x = p
  <2>1. /\ p \in 1..(Len(stream) + 1) /\ q \in Nat /\ e \in Nat
        /\ e <= Len(stream)
    BY <1>1, TheSpanFacts
  <2> QED BY <1>1, <2>1 DEF TheSpan
<1>3. \A x : OpenAfter(a, b, x) => x = p
  BY <1>1, <1>2 DEF OpenAfter
<1>4. insideThinkTag => a = p - 1 /\ OpenAfter(a, b, p)
  <2>1. insideThinkTag => OpenAfter(a, fed, a + 1)
    BY DEF Withheld
  <2>2. insideThinkTag => OpenAfter(a, b, a + 1)
    BY <1>1, <2>1 DEF OpenAfter
  <2>3. insideThinkTag => a + 1 = p
    BY <1>3, <2>2
  <2> QED BY <1>1, <1>2, <2>2, <2>3
<1>5. OpenAfter(a, b, p)
  BY <1>3, <1>4 DEF Strips
<1>6. a < p /\ p <= Len(stream) /\ p \in (a + 1)..b
  BY <1>1, <1>2, <1>5 DEF OpenAfter
<1>7. forwarded = Run(0, a)
  <2>1. ~(e <= a)
    <3>1. p <= e
      BY <1>1, <1>6, TheSpanFacts
    <3> QED BY <1>1, <1>2, <1>6, <3>1
  <2>2. insideThinkTag => p - 1 = a
    BY <1>4
  <2> QED BY <2>1, <2>2 DEF Reached
<1>8. PICK scan : scan = Scan(Run(a, b), insideThinkTag)
  OBVIOUS
<1>9. /\ insideThinkTag' = scan.inside
      /\ thinkBuf' = Retained(Run(a, b), scan.inside)
      /\ tagPrefixPending' = <<>>
      /\ forwarded' = forwarded \o scan.out
  BY <1>8 DEF Strips
<1>10. /\ ~Closed(q, b) => scan.inside /\ scan.out = Run(a, p - 1)
       /\ Closed(q, b) => /\ ~scan.inside
                          /\ scan.out = Run(a, p - 1) \o Run(e, b)
  BY <1>1, <1>4, <1>5, <1>8, ScanOne
<1>11. scan.inside \in BOOLEAN
  <2>1. insideThinkTag => OpenAfter(a, b, a + 1)
    BY <1>1, <1>2, <1>4
  <2> QED BY <1>1, <1>8, <2>1, ScanDrops
<1>12. Run(0, a) \o Run(a, p - 1) = Run(0, p - 1)
  <2>1. PICK d \in Nat : d = p - 1 /\ 0 <= a /\ a <= d
    BY <1>1, <1>2, <1>6
  <2>2. Run(0, a) \o Run(a, d) = Run(0, d)
    BY <1>1, <2>1, RunConcat
  <2> QED BY <2>1, <2>2
<1>13. CASE ~Closed(q, b)
  <2>1. scan.inside = TRUE /\ forwarded' = Run(0, p - 1)
    BY <1>7, <1>9, <1>10, <1>11, <1>12, <1>13
  <2>2. PICK f : /\ OpenAfter(a, b, f)
                 /\ Retained(Run(a, b), TRUE) = Run(f - 1, b)
    BY <1>1, <1>5, RetainedOf
  <2>3. PICK c \in Nat : c = p - 1 /\ c \in 0..b /\ c + 1 = p /\ f = p
    BY <1>1, <1>2, <1>3, <1>6, <2>2
  <2>4. thinkBuf' = Run(c, b) /\ insideThinkTag' /\ tagPrefixPending' = <<>>
    BY <1>9, <2>1, <2>2, <2>3
  <2>5. OpenAfter(c, b, c + 1)'
    <3>1. OpenAfter(c, b, c + 1)
      BY <1>2, <1>5, <1>6, <2>3 DEF OpenAfter
    <3> QED BY <3>1, StreamKept
  <2>6. Withheld(c)'
    BY <2>4, <2>5 DEF Withheld
  <2>7. Reached(c, p, q, e)'
    BY <1>13, <2>1, <2>3, <2>4 DEF Reached, Closed
  <2> QED BY <2>3, <2>6, <2>7 DEF OnCourse
<1>14. CASE Closed(q, b)
  <2>1. ~scan.inside /\ scan.inside = FALSE
    BY <1>10, <1>11, <1>14
  <2>2. thinkBuf' = <<>> /\ ~insideThinkTag' /\ tagPrefixPending' = <<>>
    BY <1>9, <2>1 DEF Retained
  <2>3. forwarded' = Around(p, e, b)
    <3>1. forwarded' = Run(0, a) \o (Run(a, p - 1) \o Run(e, b))
      BY <1>7, <1>9, <1>10, <1>14
    <3>2. /\ Run(0, a) \in Seq(Nat) /\ Run(a, p - 1) \in Seq(Nat)
          /\ Run(e, b) \in Seq(Nat) \/ ~(e <= b)
      <4>1. 0 \in Nat /\ 0 <= a /\ a <= p - 1
        BY <1>1, <1>2, <1>6
      <4> QED BY <1>1, <1>2, <4>1, RunFacts
    <3>3. e <= b
      <4>1. Closed(q, Len(stream))
        BY <1>1, <1>2, <1>14, TagFacts DEF Closed
      <4>2. e = q + Len(CloseTag) - 1
        BY <1>1, <4>1, TheSpanFacts
      <4> QED BY <1>14, <4>2 DEF Closed
    <3>4. forwarded' = (Run(0, a) \o Run(a, p - 1)) \o Run(e, b)
      BY <3>1, <3>2, <3>3, ConcatPlaces
    <3> QED BY <1>12, <3>4 DEF Around
  <2>4. Withheld(b)'
    <3>1. Run(b, b) = <<>>
      BY RunFacts
    <3> QED BY <2>2, <3>1 DEF Withheld
  <2>5. Closed(q, Len(stream)) /\ e <= b
    <3>1. Closed(q, Len(stream))
      BY <1>1, <1>2, <1>14, TagFacts DEF Closed
    <3>2. e = q + Len(CloseTag) - 1
      BY <1>1, <3>1, TheSpanFacts
    <3> QED BY <1>14, <3>1, <3>2 DEF Closed
  <2>6. Reached(b, p, q, e)'
    BY <2>2, <2>3, <2>5 DEF Reached, Closed, Around
  <2>7. b \in 0..b
    OBVIOUS
  <2> QED BY <2>4, <2>6, <2>7 DEF OnCourse
<1> QED BY <1>13, <1>14

(* ... and one that is passed through.                                     *)
LEMMA PassesOnCourse ==
  ASSUME StripInv, NEW p, NEW q, NEW e, TheSpan(p, q, e),
         NEW a \in 0..fed, Withheld(a), Reached(a, p, q, e),
         NEW b \in Nat, fed <= b, b <= Len(stream), a < b, fed' = b,
         end = "open", UNCHANGED <<stream, end>>,
         NEW h, PassesThrough(a, b, h)
  PROVE  OnCourse(p, q, e)'
<1>1. /\ stream \in Streams /\ fed \in Nat /\ Len(stream) \in Nat
      /\ a \in Nat /\ a <= b
      /\ Len(OpenTag) \in Nat /\ Len(OpenTag) > 0
  BY StreamFacts, TagFacts DEF StripInv
<1>2. /\ p \in 1..(Len(stream) + 1) /\ q \in Nat /\ e \in Nat
      /\ e <= Len(stream)
  BY <1>1, TheSpanFacts
<1>3. /\ ~insideThinkTag /\ NoTag(OpenTag, a + 1, b)
      /\ h \in 0..(b - a) /\ h < Len(OpenTag)
      /\ \A m \in 1..(Len(OpenTag) - 1) : m <= b - a /\ Begins(b, m) => m <= h
      /\ tagPrefixPending' = Run(b - h, b)
      /\ forwarded' = forwarded \o Run(a, b - h)
      /\ insideThinkTag' = insideThinkTag /\ thinkBuf' = thinkBuf
  BY DEF PassesThrough, Held
<1>4. PICK c \in Nat : c = b - h /\ c \in 0..b /\ a <= c
  BY <1>1, <1>3
<1>5. Withheld(c)'
  <2>1. thinkBuf = <<>>
    BY <1>3 DEF Withheld
  <2> QED BY <1>3, <1>4, <2>1 DEF Withheld
<1>6. CASE a < p /\ fed < p + Len(OpenTag) - 1 /\ forwarded = Run(0, a)
  <2>1. forwarded' = Run(0, c)
    <3>1. 0 \in Nat /\ 0 <= a
      BY <1>1
    <3> QED BY <1>1, <1>3, <1>4, <1>6, <3>1, RunConcat
  <2>2. b < p + Len(OpenTag) - 1
    <3>1. CASE p <= b
      <4>1. p \in (a + 1)..b /\ Occurs(OpenTag, p)
        BY <1>1, <1>2, <1>6, <3>1, TheSpanFacts
      <4> QED BY <1>1, <1>2, <1>3, <4>1 DEF NoTag
    <3>2. CASE b < p
      BY <1>1, <1>2, <3>2
    <3> QED BY <1>2, <3>1, <3>2
  <2>3. c < p
    <3>1. CASE p <= b
      <4>1. PICK m \in 1..(Len(OpenTag) - 1) : m = b - p + 1 /\ m <= b - a
        BY <1>1, <1>2, <1>6, <2>2, <3>1
      <4>2. Occurs(OpenTag, p)
        BY <1>1, <1>2, <3>1, TheSpanFacts
      <4>3. Begins(b, m)
        <5>1. ASSUME NEW k \in 1..m PROVE stream[b - m + k] = OpenTag[k]
          <6>1. b - m + k = p + k - 1 /\ k \in 1..Len(OpenTag)
            BY <1>1, <1>2, <4>1
          <6> QED BY <4>2, <6>1 DEF Occurs
        <5> QED BY <5>1 DEF Begins
      <4>4. m <= h
        BY <1>3, <4>1, <4>3
      <4> QED BY <1>1, <1>2, <1>3, <1>4, <4>1, <4>4
    <3>2. CASE b < p
      BY <1>2, <1>4, <3>2
    <3> QED BY <1>2, <3>1, <3>2
  <2>4. Reached(c, p, q, e)'
    BY <1>3, <2>1, <2>2, <2>3 DEF Reached
  <2> QED BY <1>4, <1>5, <2>4 DEF OnCourse
<1>7. CASE e <= a /\ Closed(q, Len(stream)) /\ forwarded = Around(p, e, a)
  <2>1. forwarded' = Around(p, e, c)
    <3>1. Around(p, e, a) \o Run(a, c) = Around(p, e, c)
      <4>1. /\ stream \in Streams /\ TheSpan(p, q, e)
            /\ a \in Nat /\ c \in Nat /\ e <= a /\ a <= c
        BY <1>1, <1>4, <1>7
      <4> QED BY <4>1, AroundGrows, Zenon
    <3> QED BY <1>3, <1>4, <1>7, <3>1
  <2>2. e <= c
    BY <1>1, <1>2, <1>4, <1>7
  <2>3. Reached(c, p, q, e)'
    BY <1>3, <1>7, <2>1, <2>2 DEF Reached, Closed, Around
  <2> QED BY <1>4, <1>5, <2>3 DEF OnCourse
<1> QED BY <1>3, <1>6, <1>7 DEF Reached

LEMMA ProcessExact ==
  ASSUME StripInv, ExactInv, NEW n \in 1..Len(stream), Process(n)
  PROVE  ExactInv'
<1>1. /\ stream \in Streams /\ fed \in Nat /\ insideThinkTag \in BOOLEAN
  BY StreamFacts DEF StripInv
<1>2. ASSUME NEW p, NEW q, NEW e, TheSpan(p, q, e) PROVE OnCourse(p, q, e)'
  <2>1. PICK a \in 0..fed : Withheld(a) /\ Reached(a, p, q, e)
    BY <1>2 DEF ExactInv, OnCourse
  <2>2. PICK b \in Nat :
          /\ fed <= b /\ b <= Len(stream) /\ a < b /\ fed' = b
          /\ end = "open" /\ UNCHANGED <<stream, end>>
          /\ Strips(a, b) \/ \E h : PassesThrough(a, b, h)
    <3>1. a \in Nat /\ a <= fed
      BY <1>1
    <3> QED BY <1>1, <2>1, <3>1, ProcessIs
  <2>3. CASE Strips(a, b)
    BY <1>2, <2>1, <2>2, <2>3, StripsOnCourse
  <2>4. CASE \E h : PassesThrough(a, b, h)
    BY <1>2, <2>1, <2>2, <2>4, PassesOnCourse
  <2> QED BY <2>2, <2>3, <2>4
<1>3. UNCHANGED stream
  BY DEF Process
<1> QED BY <1>2, <1>3, ExactKept

LEMMA FlushExact ==
  ASSUME StripInv, ExactInv, Flush
  PROVE  ExactInv'
<1>1. /\ stream \in Streams /\ fed \in Nat /\ Len(stream) \in Nat
      /\ fed = Len(stream)
      /\ UNCHANGED <<stream, fed, insideThinkTag, thinkBuf>>
      /\ Len(OpenTag) \in Nat /\ Len(OpenTag) > 0
  BY StreamFacts, TagFacts DEF StripInv, Flush
<1>2. ASSUME NEW p, NEW q, NEW e, TheSpan(p, q, e) PROVE OnCourse(p, q, e)'
  <2>1. PICK a \in 0..fed : Withheld(a) /\ Reached(a, p, q, e)
    BY <1>2 DEF ExactInv, OnCourse
  <2>2. /\ p \in 1..(Len(stream) + 1) /\ q \in Nat /\ e \in Nat
        /\ e <= Len(stream) /\ a \in Nat /\ a <= fed
    BY <1>1, <1>2, TheSpanFacts
  <2>3. CASE thinkBuf # <<>>
    <3>1. end' = "unterminated" /\ UNCHANGED <<forwarded, tagPrefixPending>>
      BY <2>3 DEF Flush
    <3>2. insideThinkTag
      BY <2>1, <2>3 DEF Withheld
    <3>3. Withheld(a)'
      BY <1>1, <2>1, <3>1, StreamKept DEF Withheld
    <3>4. Reached(a, p, q, e)'
      BY <1>1, <2>1, <3>1 DEF Reached, Closed, Around
    <3> QED BY <1>1, <3>1, <3>2, <3>3, <3>4 DEF OnCourse
  <2>4. CASE thinkBuf = <<>>
    <3>1. /\ end' = "clean" /\ forwarded' = forwarded \o tagPrefixPending
          /\ tagPrefixPending' = <<>>
      BY <2>4 DEF Flush
    <3>2. ~insideThinkTag /\ tagPrefixPending = Run(a, fed)
      <4>1. ~(thinkBuf = Run(a, fed) /\ OpenAfter(a, fed, a + 1))
        <5>1. ASSUME thinkBuf = Run(a, fed), a + 1 \in (a + 1)..fed PROVE FALSE
          <6>1. a # fed
            BY <1>1, <5>1
          <6> QED BY <1>1, <2>2, <2>4, <5>1, <6>1, RunFacts
        <5> QED BY <5>1 DEF OpenAfter
      <4> QED BY <2>1, <4>1 DEF Withheld
    <3>3. Withheld(fed)'
      <4>1. Run(fed, fed) = <<>>
        BY <1>1, RunFacts
      <4> QED BY <1>1, <2>4, <3>1, <3>2, <4>1 DEF Withheld
    <3>4. CASE a < p /\ fed < p + Len(OpenTag) - 1 /\ forwarded = Run(0, a)
      <4>1. fed < p
        <5>1. p <= Len(stream) => p + Len(OpenTag) - 1 <= Len(stream)
          BY <1>1, <1>2, TheSpanFacts
        <5> QED BY <1>1, <2>2, <3>4, <5>1
      <4>2. forwarded' = Run(0, fed)
        <5>1. 0 \in Nat /\ 0 <= a
          BY <2>2
        <5> QED BY <1>1, <2>2, <3>1, <3>2, <3>4, <5>1, RunConcat
      <4>3. Reached(fed, p, q, e)'
        BY <1>1, <3>2, <3>4, <4>1, <4>2 DEF Reached
      <4>4. fed \in 0..fed
        BY <1>1
      <4> QED BY <1>1, <3>1, <3>3, <4>3, <4>4 DEF OnCourse
    <3>5. CASE e <= a /\ Closed(q, Len(stream)) /\ forwarded = Around(p, e, a)
      <4>1. forwarded' = Around(p, e, fed)
        <5>0. /\ stream \in Streams /\ TheSpan(p, q, e)
              /\ a \in Nat /\ fed \in Nat /\ e <= a /\ a <= fed
          BY <1>1, <1>2, <2>2, <3>5
        <5>1. Around(p, e, a) \o Run(a, fed) = Around(p, e, fed)
          BY <5>0, AroundGrows
        <5> QED BY <3>1, <3>2, <3>5, <5>1
      <4>2. Reached(fed, p, q, e)'
        BY <1>1, <2>2, <3>2, <3>5, <4>1 DEF Reached, Closed, Around
      <4>3. fed \in 0..fed
        BY <1>1
      <4> QED BY <1>1, <3>1, <3>3, <4>2, <4>3 DEF OnCourse
    <3> QED BY <2>1, <3>2, <3>4, <3>5 DEF Reached
  <2> QED BY <2>3, <2>4
<1> QED BY <1>1, <1>2, ExactKept

(* A step that leaves the stripper alone, except that it may break off the *)
(* stream.                                                                 *)
LEMMA StripKept ==
  ASSUME StripInv, end' = end \/ end' = "broken",
         UNCHANGED <<stream, fed, insideThinkTag, thinkBuf, tagPrefixPending,
                     forwarded>>
  PROVE  StripInv'
<1>1. PICK a \in 0..fed : /\ Withheld(a) /\ Dealt(0, forwarded, a)
                          /\ end = "clean" => a = Len(stream)
  BY DEF StripInv
<1>2. Dealt(0, forwarded, a)'
  BY <1>1, DealtKept
<1>3. Withheld(a)'
  BY <1>1, StreamKept DEF Withheld
<1> QED BY <1>1, <1>2, <1>3 DEF StripInv

LEMMA ExactStays ==
  ASSUME ExactInv, end' = end \/ end' = "broken",
         UNCHANGED <<stream, fed, insideThinkTag, thinkBuf, tagPrefixPending,
                     forwarded>>
  PROVE  ExactInv'
<1>1. ASSUME NEW p, NEW q, NEW e, TheSpan(p, q, e) PROVE OnCourse(p, q, e)'
  <2>1. PICK a \in 0..fed :
          /\ Withheld(a) /\ Reached(a, p, q, e)
          /\ end = "clean" => a = Len(stream)
          /\ end = "unterminated" => insideThinkTag /\ fed = Len(stream)
    BY <1>1 DEF ExactInv, OnCourse
  <2>2. Withheld(a)'
    BY <2>1, StreamKept DEF Withheld
  <2>3. Reached(a, p, q, e)'
    BY <2>1 DEF Reached, Closed, Around
  <2> QED BY <2>1, <2>2, <2>3 DEF OnCourse
<1> QED BY <1>1, ExactKept

LEMMA ExactImplies == StripInv /\ ExactInv => OneSpanIsExact
<1> SUFFICES ASSUME StripInv, ExactInv, OneSpan
             PROVE  /\ IsPrefix(forwarded, Visible.out)
                    /\ end = "clean" => forwarded = Visible.out
                    /\ end \in {"clean", "unterminated"} =>
                         (end = "unterminated" <=> Visible.inside)
  BY DEF OneSpanIsExact
<1> DEFINE n == Len(stream)
<1>1. /\ stream \in Streams /\ fed \in 0..n /\ n \in Nat /\ fed \in Nat
      /\ Len(OpenTag) \in Nat /\ Len(OpenTag) > 0
      /\ Len(CloseTag) \in Nat /\ Len(CloseTag) > 0
  BY StreamFacts, TagFacts DEF StripInv
<1>2. PICK p, q, e : TheSpan(p, q, e)
  BY <1>1, TheSpanExists
<1>3. PICK a \in 0..fed :
        /\ Withheld(a) /\ Reached(a, p, q, e)
        /\ end = "clean" => a = n
        /\ end = "unterminated" => insideThinkTag /\ fed = n
  BY <1>2 DEF ExactInv, OnCourse
<1>4. /\ Visible.out = Around(p, e, n)
      /\ Visible.inside <=> p <= n /\ ~Closed(q, n)
  BY <1>1, <1>2, VisibleIs
<1>5. /\ p \in 1..(n + 1) /\ q \in Nat /\ e \in Nat /\ e <= n /\ a \in Nat
      /\ a <= n /\ p - 1 \in Nat
  BY <1>1, <1>2, TheSpanFacts
<1>6. Run(0, p - 1) \in Seq(Nat) /\ Run(e, n) \in Seq(Nat)
  BY <1>1, <1>2, <1>5, AroundFacts, RunFacts
<1>7. CASE ~insideThinkTag /\ a < p /\ fed < p + Len(OpenTag) - 1
           /\ forwarded = Run(0, a)
  <2>1. IsPrefix(forwarded, Visible.out)
    <3>1. PICK d \in Nat : d = p - 1 /\ 0 <= a /\ a <= d /\ 0 <= d
      BY <1>5, <1>7
    <3>2. Run(0, a) \in Seq(Nat) /\ Run(a, d) \in Seq(Nat)
      BY <1>5, <3>1, RunFacts
    <3>3. Run(0, a) \o Run(a, d) = Run(0, d)
      BY <1>5, <3>1, RunConcat
    <3>4. Visible.out = Run(0, a) \o (Run(a, d) \o Run(e, n))
      <4>1. Visible.out = (Run(0, a) \o Run(a, d)) \o Run(e, n)
        BY <1>4, <3>1, <3>3 DEF Around
      <4> QED BY <1>6, <3>2, <4>1, ConcatPlaces
    <3>5. Run(a, d) \o Run(e, n) \in Seq(Nat)
      BY <1>6, <3>2, ConcatProperties
    <3> QED BY <1>7, <3>2, <3>4, <3>5, PrefixOfConcat
  <2>2. end # "unterminated"
    BY <1>3, <1>7
  <2>3. ASSUME end = "clean" PROVE forwarded = Visible.out /\ ~Visible.inside
    <3>1. p = n + 1 /\ a = n /\ p - 1 = n
      BY <1>1, <1>3, <1>5, <1>7, <2>3
    <3>2. ~Closed(q, n)
      BY <1>1, <1>2, <3>1, TheSpanFacts
    <3>3. e = n
      BY <1>1, <1>2, <3>2, TheSpanFacts
    <3>4. Run(n, n) = <<>>
      BY <1>1, RunFacts
    <3>5. Run(0, n) \o <<>> = Run(0, n)
      <4>1. Run(0, n) \in Seq(Nat)
        BY <1>6, <3>1
      <4> QED BY <4>1, ConcatEmptySeq
    <3>6. Visible.out = Run(0, n)
      BY <1>4, <3>1, <3>3, <3>4, <3>5 DEF Around
    <3> QED BY <1>1, <1>4, <1>7, <3>1, <3>6
  <2> QED BY <2>1, <2>2, <2>3
<1>8. CASE insideThinkTag /\ a = p - 1 /\ ~Closed(q, fed)
           /\ forwarded = Run(0, p - 1)
  <2>1. IsPrefix(forwarded, Visible.out)
    BY <1>4, <1>6, <1>8, PrefixOfConcat DEF Around
  <2>2. a + 1 <= fed /\ a # n /\ p <= n
    <3>1. OpenAfter(a, fed, a + 1)
      BY <1>3, <1>8 DEF Withheld
    <3> QED BY <1>1, <1>5, <1>8, <3>1 DEF OpenAfter
  <2>3. end # "clean"
    BY <1>3, <2>2
  <2>4. end = "unterminated" => Visible.inside
    BY <1>3, <1>4, <1>8, <2>2
  <2> QED BY <2>1, <2>3, <2>4
<1>9. CASE ~insideThinkTag /\ e <= a /\ Closed(q, n)
           /\ forwarded = Around(p, e, a)
  <2>1. /\ Around(p, e, a) \in Seq(Nat)
        /\ Around(p, e, a) \o Run(a, n) = Around(p, e, n)
    <3>1. Around(p, e, a) \in Seq(Nat)
      BY <1>1, <1>2, <1>5, <1>9, AroundFacts
    <3>2. Around(p, e, a) \o Run(a, n) = Around(p, e, n)
      <4> HIDE DEF n
      <4> QED BY <1>1, <1>2, <1>5, <1>9, AroundGrows
    <3> QED BY <3>1, <3>2
  <2>2. Run(a, n) \in Seq(Nat)
    BY <1>1, <1>5, RunFacts
  <2>3. IsPrefix(forwarded, Visible.out)
    BY <1>4, <1>9, <2>1, <2>2, PrefixOfConcat
  <2>4. end = "clean" => forwarded = Visible.out
    BY <1>3, <1>4, <1>9
  <2>5. end # "unterminated" /\ ~Visible.inside
    BY <1>3, <1>4, <1>9
  <2> QED BY <2>3, <2>4, <2>5
<1> QED BY <1>3, <1>7, <1>8, <1>9 DEF Reached

(* However the bytes of a stream are cut into chunks, the stripper's two   *)
(* buffers are the end of what has arrived, and at most one of them is in  *)
(* use (thinkstrip.go:36-104).                                             *)
THEOREM StripperTypeCorrect == Spec => []TypeOK
<1>1. StripInv => TypeOK
  BY StripImplies
<1> QED BY <1>1, StripInit, StripNext, PTL DEF Spec

(* The stripper forwards all text outside the spans of a stream that it    *)
(* says has ended well, for every stream and every way to cut it           *)
(* (thinkstrip.go:112-126).                                                *)
THEOREM TextIsNeverLost == Spec => []NothingIsLost
<1>1. StripInv => NothingIsLost
  BY StripImplies
<1> QED BY <1>1, StripInit, StripNext, PTL DEF Spec

(* In a stream with at most one span the chunks make no difference: at any *)
(* time the stripper has forwarded a beginning of the text around the span,*)
(* at the end all of it, and it tells an unterminated span                 *)
(* (thinkstrip.go:36-126).                                                 *)
THEOREM OneSpanIsLeftOut == Spec => []OneSpanIsExact
<1> DEFINE Inv == StripInv /\ ExactInv
<1>1. Init => Inv
  BY StripInit, ExactInit
<1>2. Inv /\ [Next]_vars => Inv'
  <2> SUFFICES ASSUME StripInv, ExactInv, [Next]_vars
               PROVE  StripInv' /\ ExactInv'
    OBVIOUS
  <2>1. StripInv'
    BY StripNext
  <2>2. CASE UNCHANGED vars
    BY <2>1, <2>2, ExactStays DEF vars
  <2> QED BY <2>1, <2>2, FlushExact, ProcessExact DEF Next
<1>3. Inv => OneSpanIsExact
  BY ExactImplies
<1> HIDE DEF Inv
<1> QED BY <1>1, <1>2, <1>3, PTL DEF Spec

-----------------------------------------------------------------------------
(* The stripper in the pipeline.  Without it chunks go through as they are.*)
PassInv ==
  ~strips =>
    /\ ~insideThinkTag /\ thinkBuf = <<>> /\ tagPrefixPending = <<>>
    /\ forwarded = Run(0, fed)

PipelineStripInv == StripInv /\ PassInv /\ (strips => ExactInv)

LEMMA PipelineStripInit == PipelineInit => PipelineStripInv
<1> SUFFICES ASSUME PipelineInit PROVE PipelineStripInv
  OBVIOUS
<1>1. Init
  BY DEF PipelineInit
<1>2. PassInv
  <2>1. Run(0, 0) = <<>>
    BY RunFacts
  <2> QED BY <1>1, <2>1 DEF Init, PassInv
<1> QED BY <1>1, <1>2, StripInit, ExactInit DEF PipelineStripInv

LEMMA PassThroughStays ==
  ASSUME StripInv, PassInv, ~strips, UNCHANGED mode,
         NEW n \in 1..Len(stream), Stripped(n)
  PROVE  StripInv' /\ PassInv'
<1>1. /\ stream \in Streams /\ fed \in Nat /\ Len(stream) \in Nat
      /\ ~insideThinkTag /\ thinkBuf = <<>> /\ tagPrefixPending = <<>>
      /\ forwarded = Run(0, fed)
  BY StreamFacts DEF StripInv, PassInv
<1>2. PICK b \in Nat : b = fed + n /\ b \in 0..Len(stream) /\ fed <= b
  BY <1>1 DEF Stripped
<1>3. /\ end = "open" /\ fed' = b /\ forwarded' = forwarded \o Run(fed, b)
      /\ UNCHANGED <<stream, insideThinkTag, thinkBuf, tagPrefixPending, end>>
  BY <1>2 DEF Stripped
<1>4. forwarded' = Run(0, b)
  <2>1. 0 \in Nat /\ 0 <= fed
    BY <1>1
  <2> QED BY <1>1, <1>2, <1>3, <2>1, RunConcat
<1>5. PassInv'
  BY <1>1, <1>3, <1>4 DEF PassInv
<1>6. /\ Run(0, b) \in Seq((0 + 1)..b) /\ ToSet(Run(0, b)) = (0 + 1)..b
      /\ Run(b, b) = <<>>
  <2>1. 0 \in Nat /\ 0 <= b
    BY <1>2
  <2> QED BY <1>2, <2>1, RunFacts
<1>7. Withheld(b)'
  BY <1>1, <1>3, <1>6 DEF Withheld
<1>8. Dealt(0, forwarded, b)'
  <2>1. Dealt(0, forwarded', b)
    BY <1>4, <1>6 DEF Dealt
  <2> QED BY <1>3, <2>1, DealtKept
<1>9. /\ stream' \in Streams /\ fed' \in 0..Len(stream)'
      /\ insideThinkTag' \in BOOLEAN /\ b \in 0..fed' /\ end' # "clean"
  BY <1>1, <1>2, <1>3 DEF StripInv
<1>10. forwarded' \in Seq(1..fed')
  BY <1>3, <1>4, <1>6
<1> QED BY <1>5, <1>7, <1>8, <1>9, <1>10 DEF StripInv

LEMMA PipelineStripNext ==
  PipelineStripInv /\ [PipelineNext]_pipelineVars => PipelineStripInv'
<1> SUFFICES ASSUME StripInv, PassInv, strips => ExactInv,
                    [PipelineNext]_pipelineVars
             PROVE  PipelineStripInv'
  BY DEF PipelineStripInv
<1>1. CASE UNCHANGED pipelineVars \/ HandleStreamError
  <2>1. /\ UNCHANGED <<stream, fed, insideThinkTag, thinkBuf,
                       tagPrefixPending, forwarded, mode>>
        /\ end' = end \/ end' = "broken"
    BY <1>1 DEF pipelineVars, vars, HandleStreamError
  <2>2. StripInv' /\ PassInv'
    BY <2>1, StripKept DEF PassInv, strips
  <2>3. strips' => ExactInv'
    BY <2>1, ExactStays DEF strips
  <2> QED BY <2>2, <2>3 DEF PipelineStripInv
<1>2. CASE HandleCleanEnd
  <2>1. Flush /\ UNCHANGED mode
    BY <1>2 DEF HandleCleanEnd
  <2>2. StripInv' /\ (strips' => ExactInv')
    BY <2>1, FlushPreserves, FlushExact DEF strips
  <2>3. PassInv'
    <3>1. ASSUME ~strips
          PROVE  /\ ~insideThinkTag' /\ thinkBuf' = <<>>
                 /\ tagPrefixPending' = <<>> /\ forwarded' = Run(0, fed')
      <4>1. /\ ~insideThinkTag /\ thinkBuf = <<>> /\ tagPrefixPending = <<>>
            /\ forwarded = Run(0, fed) /\ forwarded \in Seq(1..fed)
        BY <3>1 DEF PassInv, StripInv
      <4>2. forwarded \o tagPrefixPending = forwarded
        BY <4>1, ConcatEmptySeq
      <4> QED BY <2>1, <4>1, <4>2 DEF Flush
    <3> QED BY <2>1, <3>1 DEF PassInv, strips
  <2> QED BY <2>2, <2>3 DEF PipelineStripInv
<1>3. ASSUME NEW n \in 1..Len(stream), ReadChunk(n) PROVE PipelineStripInv'
  <2>1. Stripped(n) /\ UNCHANGED mode
    BY <1>3 DEF ReadChunk
  <2>2. CASE strips
    <3>1. Process(n)
      BY <2>1, <2>2 DEF Stripped
    <3>2. StripInv' /\ ExactInv'
      BY <2>2, <3>1, ProcessPreserves, ProcessExact
    <3> QED BY <2>1, <2>2, <3>2 DEF PipelineStripInv, PassInv, strips
  <2>3. CASE ~strips
    <3>1. StripInv' /\ PassInv'
      BY <2>1, <2>3, PassThroughStays
    <3> QED BY <2>1, <2>3, <3>1 DEF PipelineStripInv, strips
  <2> QED BY <2>2, <2>3
<1> QED BY <1>1, <1>2, <1>3 DEF PipelineNext

(* TextIsNeverLost, with the filter and the classifier behind the stripper *)
(* and a stream that may break at any time.                                *)
THEOREM PipelineLosesNothing == PipelineSpec => []NothingIsLost
<1>1. PipelineStripInv => NothingIsLost
  BY StripImplies DEF PipelineStripInv
<1> QED BY <1>1, PipelineStripInit, PipelineStripNext, PTL DEF PipelineSpec

(* OneSpanIsLeftOut, likewise.                                             *)
THEOREM PipelineStripsExactly == PipelineSpec => []StrippedExactly
<1>1. PipelineStripInv => StrippedExactly
  BY ExactImplies DEF PipelineStripInv, StrippedExactly
<1> QED BY <1>1, PipelineStripInit, PipelineStripNext, PTL DEF PipelineSpec

-----------------------------------------------------------------------------
(* The loop of Only, and what it picks of two sequences in a row.          *)
Picks(f, s, K, S) ==
  /\ f \in [0..Len(s) -> Seq(S)] /\ f[0] = <<>>
  /\ \A k \in 1..Len(s) :
       f[k] = f[k - 1] \o IF k \in K THEN <<s[k]>> ELSE <<>>

LEMMA PickAll ==
  ASSUME NEW S, NEW s \in Seq(S), NEW K, DOMAIN s \subseteq K
  PROVE  \E f : Picks(f, s, K, S) /\ s = f[Len(s)]
<1> DEFINE f == [k \in 0..Len(s) |-> SubSeq(s, 1, k)]
<1>1. Len(s) \in Nat /\ DOMAIN s = 1..Len(s) /\ \A i \in 1..Len(s) : s[i] \in S
  BY LenProperties, ElementOfSeq
<1>2. \A k \in 0..Len(s) : SubSeq(s, 1, k) \in Seq(S)
  <2>1. ASSUME NEW k \in 0..Len(s) PROVE SubSeq(s, 1, k) \in Seq(S)
    <3>1. 1 \in Int /\ k \in Int /\ \A i \in 1..k : s[i] \in S
      BY <1>1
    <3> QED BY <3>1, SubSeqProperties
  <2> QED BY <2>1
<1>3. SubSeq(s, 1, 0) = <<>>
  BY SubSeqEmpty
<1>4. ASSUME NEW k \in 1..Len(s)
      PROVE  SubSeq(s, 1, k) = SubSeq(s, 1, k - 1) \o <<s[k]>>
  <2>1. 1 \in 1..Len(s) /\ k \in 1..Len(s)
    BY <1>1
  <2> QED BY <2>1, SubSeqRecursiveSecond
<1>5. Picks(f, s, K, S)
  <2>1. \A k \in 1..Len(s) : k \in 0..Len(s) /\ k - 1 \in 0..Len(s) /\ k \in K
    BY <1>1
  <2>2. 0 \in 0..Len(s)
    BY <1>1
  <2>3. f \in [0..Len(s) -> Seq(S)]
    BY <1>2
  <2>4. f[0] = <<>>
    BY <1>3, <2>2
  <2>5. \A k \in 1..Len(s) :
          f[k] = f[k - 1] \o IF k \in K THEN <<s[k]>> ELSE <<>>
    BY <1>4, <2>1
  <2> QED BY <2>3, <2>4, <2>5 DEF Picks
<1>6. f[Len(s)] = s
  BY <1>1, SubSeqFull
<1> QED BY <1>5, <1>6

LEMMA OnlyPicks ==
  ASSUME NEW S, NEW s \in Seq(S), NEW K
  PROVE  \E f : Picks(f, s, K, S) /\ Only(s, K) = f[Len(s)]
<1> DEFINE n == Len(s)
           round(k, x) == x \o IF k \in K THEN <<s[k]>> ELSE <<>>
           Loop(f) == f = [k \in 0..n |-> IF k = 0 THEN <<>>
                                                   ELSE round(k, f[k - 1])]
<1>1. n \in Nat /\ \A i \in 1..n : s[i] \in S
  BY LenProperties, ElementOfSeq
<1>2. CASE DOMAIN s \subseteq K
  <2>1. Only(s, K) = s
    BY <1>2 DEF Only
  <2> QED BY <1>2, <2>1, PickAll
<1>3. CASE ~(DOMAIN s \subseteq K)
  <2>1. Only(s, K) = (CHOOSE f : Loop(f))[n]
    BY <1>3 DEF Only
  <2>2. ASSUME NEW k \in 1..n, NEW x \in Seq(S) PROVE round(k, x) \in Seq(S)
    <3>1. <<>> \in Seq(S) /\ <<s[k]>> \in Seq(S)
      BY <1>1
    <3> QED BY <3>1, ConcatProperties
  <2> HIDE DEF n, round
  <2>3. PICK step \in [(1..n) \X Seq(S) -> Seq(S)] :
          \A k \in 1..n, x \in Seq(S) : step[<<k, x>>] = round(k, x)
    <3> DEFINE g == [kx \in (1..n) \X Seq(S) |-> round(kx[1], kx[2])]
    <3>1. g \in [(1..n) \X Seq(S) -> Seq(S)]
      BY <2>2
    <3>2. \A k \in 1..n, x \in Seq(S) : g[<<k, x>>] = round(k, x)
      OBVIOUS
    <3> QED BY <3>1, <3>2
  <2>4. PICK f \in [0..n -> Seq(S)] :
          f[0] = <<>> /\ \A k \in 1..n : f[k] = step[<<k, f[k - 1]>>]
    <3>1. <<>> \in Seq(S)
      OBVIOUS
    <3>2. LoopRuns(n, Seq(S), <<>>, step)
      BY <1>1, <3>1, LoopDefined
    <3> QED BY <3>2 DEF LoopRuns
  <2>5. ASSUME NEW k \in 1..n PROVE f[k] = round(k, f[k - 1])
    <3>1. k - 1 \in 0..n /\ f[k - 1] \in Seq(S)
      BY <1>1
    <3> QED BY <2>3, <2>4, <3>1
  <2>6. Loop(f)
    <3>1. f = [k \in 0..n |-> f[k]]
      BY <2>4
    <3>2. \A k \in 0..n :
            f[k] = IF k = 0 THEN <<>> ELSE round(k, f[k - 1])
      BY <1>1, <2>4, <2>5
    <3> QED BY <3>1, <3>2
  <2>7. PICK g : Loop(g) /\ Only(s, K) = g[n]
    <3> HIDE DEF Loop
    <3> QED BY <2>1, <2>6
  <2>8. g[0] = <<>> /\ \A k \in 1..n : g[k] = round(k, g[k - 1])
    <3>1. \A k \in 0..n :
            g[k] = IF k = 0 THEN <<>> ELSE round(k, g[k - 1])
      <4>1. g = [k \in 0..n |-> IF k = 0 THEN <<>> ELSE round(k, g[k - 1])]
        BY <2>7
      <4> QED BY <4>1
    <3>2. 0 \in 0..n /\ \A k \in 1..n : k \in 0..n /\ k # 0
      BY <1>1
    <3> QED BY <3>1, <3>2
  <2>9. g \in [0..n -> Seq(S)]
    <3> DEFINE T == {k \in 0..n : g[k] \in Seq(S)}
    <3>1. 0 \in T
      <4>1. g[0] = <<>> /\ <<>> \in Seq(S) /\ 0 \in 0..n
        BY <1>1, <2>8
      <4> QED BY <4>1
    <3>2. ASSUME NEW k \in 1..n, k - 1 \in T PROVE k \in T
      BY <1>1, <2>2, <2>8, <3>2
    <3>3. \A k \in 0..n : k \in T
      <4> HIDE DEF T
      <4> QED BY <1>1, <3>1, <3>2, BoundedInduct
    <3>4. g = [k \in 0..n |-> g[k]]
      BY <2>7
    <3> QED BY <3>3, <3>4
  <2>10. Picks(g, s, K, S)
    BY <2>8, <2>9 DEF Picks, n, round
  <2> QED BY <2>7, <2>10 DEF n
<1> QED BY <1>2, <1>3

LEMMA OnlyType ==
  ASSUME NEW S, NEW s \in Seq(S), NEW K
  PROVE  Only(s, K) \in Seq(S)
<1>1. PICK f : Picks(f, s, K, S) /\ Only(s, K) = f[Len(s)]
  BY OnlyPicks
<1>2. Len(s) \in 0..Len(s)
  BY LenProperties
<1> QED BY <1>1, <1>2 DEF Picks

PlacesApart(s, t, K, J, L) ==
  /\ \A k \in 1..Len(s) : k \in K <=> k \in J
  /\ \A k \in 1..Len(t) : Len(s) + k \in K <=> k \in L

LEMMA OnlyConcat ==
  ASSUME NEW S, NEW s \in Seq(S), NEW t \in Seq(S), NEW K, NEW J, NEW L,
         PlacesApart(s, t, K, J, L)
  PROVE  Only(s \o t, K) = Only(s, J) \o Only(t, L)
<1>0. \A a, b, c \in Seq(S) : (a \o b) \o c = a \o (b \o c)
  BY ONLY ConcatRegroups
<1> DEFINE m == Len(s)
           n == Len(t)
           w == s \o t
<1>1. m \in Nat /\ n \in Nat
  BY LenProperties
<1>2. /\ w \in Seq(S) /\ Len(w) = m + n
      /\ \A k \in 1..m : w[k] = s[k]
      /\ \A k \in 1..n : w[m + k] = t[k]
  <2>1. /\ w \in Seq(S) /\ Len(w) = m + n
        /\ \A k \in 1..m + n : w[k] = IF k <= m THEN s[k] ELSE t[k - m]
    BY ConcatProperties
  <2> HIDE DEF m, n, w
  <2>2. ASSUME NEW k \in 1..n PROVE w[m + k] = t[k]
    <3>1. m + k \in 1..m + n /\ ~(m + k <= m) /\ (m + k) - m = k
      BY <1>1
    <3>2. w[m + k] = t[(m + k) - m]
      BY <2>1, <3>1
    <3> QED BY <3>1, <3>2
  <2>3. ASSUME NEW k \in 1..m PROVE w[k] = s[k]
    <3>1. k \in 1..m + n /\ k <= m
      BY <1>1
    <3> QED BY <2>1, <3>1
  <2> QED BY <2>1, <2>2, <2>3
<1>3. PICK f : Picks(f, w, K, S) /\ Only(w, K) = f[Len(w)]
  BY <1>2, OnlyPicks
<1>4. PICK g : Picks(g, s, J, S) /\ Only(s, J) = g[m]
  BY OnlyPicks
<1>5. PICK h : Picks(h, t, L, S) /\ Only(t, L) = h[n]
  BY OnlyPicks
<1>6. /\ \A k \in 1..m : k \in K <=> k \in J
      /\ \A k \in 1..n : m + k \in K <=> k \in L
  BY DEF PlacesApart
<1>7. /\ f \in [0..(m + n) -> Seq(S)] /\ f[0] = <<>>
      /\ \A k \in 1..(m + n) :
           f[k] = f[k - 1] \o IF k \in K THEN <<w[k]>> ELSE <<>>
  BY <1>2, <1>3 DEF Picks
<1>8. /\ g \in [0..m -> Seq(S)] /\ g[0] = <<>>
      /\ \A k \in 1..m :
           g[k] = g[k - 1] \o IF k \in J THEN <<s[k]>> ELSE <<>>
  BY <1>4 DEF Picks
<1>9. /\ h \in [0..n -> Seq(S)] /\ h[0] = <<>>
      /\ \A k \in 1..n :
           h[k] = h[k - 1] \o IF k \in L THEN <<t[k]>> ELSE <<>>
  BY <1>5 DEF Picks
<1>10. \A k \in 1..n : t[k] \in S
  BY ElementOfSeq
<1> HIDE DEF m, n, w
<1>11. f[m] = g[m]
  <2> DEFINE T == {k \in 0..m : f[k] = g[k]}
  <2>1. 0 \in T
    BY <1>1, <1>7, <1>8
  <2>2. ASSUME NEW k \in 1..m, k - 1 \in T PROVE k \in T
    <3>1. f[k - 1] = g[k - 1] /\ k \in 1..(m + n) /\ k \in 0..m
      BY <1>1, <2>2
    <3>2. f[k] = g[k]
      BY <1>2, <1>6, <1>7, <1>8, <3>1
    <3> QED BY <3>1, <3>2
  <2>3. \A k \in 0..m : k \in T
    <3> HIDE DEF T
    <3> QED BY <1>1, <2>1, <2>2, BoundedInduct
  <2> QED BY <1>1, <2>3
<1>12. f[m + n] = g[m] \o h[n]
  <2> DEFINE P(k) == f[m + k] = g[m] \o h[k]
             T == {k \in 0..n : P(k)}
  <2>0. g[m] \in Seq(S)
    BY <1>1, <1>8
  <2>1. 0 \in T
    <3>1. g[m] \o <<>> = g[m] /\ m + 0 = m
      BY <1>1, <2>0, ConcatEmptySeq
    <3>2. P(0)
      BY <1>9, <1>11, <3>1
    <3> HIDE DEF P
    <3> QED BY <1>1, <3>2
  <2>2. ASSUME NEW k \in 1..n, k - 1 \in T PROVE k \in T
    <3>0. P(k - 1)
      <4> HIDE DEF P
      <4> QED BY <2>2
    <3>1. /\ m + k \in 1..(m + n) /\ k \in 0..n /\ m + k - 1 = m + (k - 1)
          /\ k - 1 \in 0..n
      BY <1>1
    <3>2. PICK x : x = IF k \in L THEN <<t[k]>> ELSE <<>>
      OBVIOUS
    <3>3. x \in Seq(S)
      <4>1. <<t[k]>> \in Seq(S) /\ <<>> \in Seq(S)
        BY <1>10
      <4> QED BY <3>2, <4>1
    <3>4. f[m + k] = (g[m] \o h[k - 1]) \o x
      <4>1. PICK i \in 1..(m + n) : i = m + k
        BY <3>1
      <4>5. f[i] = f[i - 1] \o IF i \in K THEN <<w[i]>> ELSE <<>>
        BY <1>7
      <4>2. w[i] = t[k] /\ (i \in K <=> k \in L)
        <5>1. w[m + k] = t[k]
          BY <1>2
        <5>2. m + k \in K <=> k \in L
          BY <1>6
        <5>3. w[i] = t[k]
          BY <4>1, <5>1
        <5>4. i \in K <=> k \in L
          BY <4>1, <5>2
        <5> QED BY <5>3, <5>4
      <4>3. i - 1 = m + (k - 1)
        BY <1>1, <3>1, <4>1
      <4>4. f[i - 1] = g[m] \o h[k - 1]
        BY <3>0, <4>3
      <4>6. (IF i \in K THEN <<w[i]>> ELSE <<>>) = x
        BY <3>2, <4>2, Zenon
      <4>7. f[i] = (g[m] \o h[k - 1]) \o x
        BY <4>4, <4>5, <4>6, Zenon
      <4> QED BY <4>1, <4>7, Zenon
    <3>5. h[k] = h[k - 1] \o x
      BY <1>9, <3>2
    <3>6. h[k - 1] \in Seq(S)
      BY <1>9, <3>1
    <3>7. (g[m] \o h[k - 1]) \o x = g[m] \o (h[k - 1] \o x)
      <4>2. PICK y, z : y = g[m] /\ z = h[k - 1]
        OBVIOUS
      <4>3. y \in Seq(S) /\ z \in Seq(S)
        BY <2>0, <3>6, <4>2
      <4>4. (y \o z) \o x = y \o (z \o x)
        BY <1>0, <3>3, <4>3, Zenon
      <4> QED BY <4>2, <4>4, Zenon
    <3>8. P(k)
      BY <3>4, <3>5, <3>7, Zenon
    <3> HIDE DEF P
    <3> QED BY <3>1, <3>8
  <2>3. \A k \in 0..n : k \in T
    <3> HIDE DEF T
    <3> QED BY <1>1, <2>1, <2>2, BoundedInduct
  <2>4. n \in T
    <3> HIDE DEF T
    <3> QED BY <1>1, <2>3
  <2> QED BY <2>4
<1>13. Len(w) = m + n
  BY <1>2
<1> QED BY <1>3, <1>4, <1>5, <1>12, <1>13, Zenon DEF w

-----------------------------------------------------------------------------
(* Lines.  The line of place i is what lies after the last line end before *)
(* i and up to the next.                                                   *)
LEMMA MaxIs ==
  ASSUME NEW n \in Nat, NEW T, T \subseteq 0..n, T # {}
  PROVE  Max(T) \in T /\ \A x \in T : x <= Max(T)
<1> DEFINE gaps == {n - x : x \in T}
<1>0. \A x \in T : x \in Nat /\ x <= n /\ n - x \in Nat
  OBVIOUS
<1>1. gaps \in SUBSET Nat /\ gaps # {}
  BY <1>0
<1>2. PICK g \in gaps : \A h \in gaps : g <= h
  <2> HIDE DEF gaps
  <2> QED BY <1>1, Minimum
<1>3. PICK m \in T : g = n - m
  BY <1>2
<1>4. ASSUME NEW x \in T PROVE m >= x
  <2>1. n - x \in gaps /\ x \in Nat /\ m \in Nat
    BY <1>0
  <2>2. g <= n - x
    BY <1>2, <2>1
  <2> QED BY <1>3, <2>1, <2>2
<1>5. \E x \in T : \A y \in T : x >= y
  BY <1>4
<1>6. Max(T) \in T /\ \A y \in T : Max(T) >= y
  BY <1>5 DEF Max
<1>7. ASSUME NEW x \in T PROVE x <= Max(T)
  <2>1. Max(T) >= x /\ Max(T) \in 0..n /\ x \in 0..n
    BY <1>6
  <2> QED BY <2>1
<1> QED BY <1>6, <1>7

LEMMA MinIs ==
  ASSUME NEW T, T \subseteq Nat, T # {}
  PROVE  Min(T) \in T /\ \A x \in T : Min(T) <= x
<1>1. \E x \in T : \A y \in T : x <= y
  BY Minimum
<1> QED BY <1>1 DEF Min

LineFrom(text, i, a, b) ==
  /\ a \in 0..(i - 1) /\ b \in (i - 1)..Len(text)
  /\ a > 0 => text[a] = LF
  /\ b < Len(text) => text[b + 1] = LF
  /\ \A j \in (a + 1)..b : text[j] # LF

LEMMA LineIs ==
  ASSUME NEW S, NEW text \in Seq(S), NEW i \in 1..Len(text),
         NEW a, NEW b, LineFrom(text, i, a, b)
  PROVE  LineAt(text, i) = SubSeq(text, a + 1, b)
<1> DEFINE before == {j \in LineEnds(text) : j < i}
           after  == {j \in LineEnds(text) : j >= i}
<1>1. Len(text) \in Nat /\ DOMAIN text = 1..Len(text)
  BY LenProperties
<1>2. /\ a \in 0..(i - 1) /\ b \in (i - 1)..Len(text)
      /\ a > 0 => text[a] = LF
      /\ b < Len(text) => text[b + 1] = LF
      /\ \A j \in (a + 1)..b : text[j] # LF
  BY DEF LineFrom
<1>3. \A j : j \in LineEnds(text) <=> j \in 1..Len(text) /\ text[j] = LF
  BY <1>1 DEF LineEnds
<1>4. (IF before = {} THEN 1 ELSE Max(before) + 1) = a + 1
  <2>1. ASSUME NEW j \in before PROVE j <= a
    <3>1. j \in 1..Len(text) /\ text[j] = LF /\ j < i
      BY <1>3
    <3>2. ~(j \in (a + 1)..b)
      BY <1>2, <3>1
    <3> QED BY <1>1, <1>2, <3>1, <3>2
  <2>2. CASE a = 0
    <3>1. before = {}
      <4>1. ASSUME NEW j \in before PROVE FALSE
        <5>1. j <= 0 /\ j \in 1..Len(text)
          BY <1>3, <2>1, <2>2
        <5> QED BY <1>1, <5>1
      <4> QED BY <4>1
    <3> HIDE DEF before
    <3> QED BY <2>2, <3>1
  <2>3. CASE a > 0
    <3>1. a \in before
      BY <1>1, <1>2, <1>3, <2>3
    <3>2. before \subseteq 0..Len(text)
      BY <1>1, <1>3
    <3> HIDE DEF before
    <3>3. Max(before) \in before /\ \A x \in before : x <= Max(before)
      BY <1>1, <3>1, <3>2, MaxIs
    <3>4. Max(before) = a
      <4>1. Max(before) <= a /\ a <= Max(before) /\ Max(before) \in 0..Len(text)
        BY <2>1, <3>1, <3>2, <3>3
      <4> QED BY <1>1, <1>2, <4>1
    <3> QED BY <3>1, <3>4
  <2> QED BY <1>2, <2>2, <2>3
<1>5. (IF after = {} THEN Len(text) ELSE Min(after) - 1) = b
  <2>1. ASSUME NEW j \in after PROVE b + 1 <= j
    <3>1. j \in 1..Len(text) /\ text[j] = LF /\ j >= i
      BY <1>3
    <3>2. ~(j \in (a + 1)..b)
      BY <1>2, <3>1
    <3> QED BY <1>1, <1>2, <3>1, <3>2
  <2>2. CASE b = Len(text)
    <3>1. after = {}
      <4>1. ASSUME NEW j \in after PROVE FALSE
        <5>1. b + 1 <= j /\ j \in 1..Len(text)
          BY <1>3, <2>1
        <5> QED BY <1>1, <2>2, <5>1
      <4> QED BY <4>1
    <3> HIDE DEF after
    <3> QED BY <2>2, <3>1
  <2>3. CASE b < Len(text)
    <3>1. b + 1 \in after
      <4>1. b + 1 \in 1..Len(text) /\ b + 1 >= i /\ text[b + 1] = LF
        BY <1>1, <1>2, <2>3
      <4> QED BY <1>3, <4>1
    <3>2. after \subseteq Nat
      BY <1>1, <1>3
    <3> HIDE DEF after
    <3>3. Min(after) \in after /\ \A x \in after : Min(after) <= x
      BY <3>1, <3>2, MinIs
    <3>4. Min(after) = b + 1
      <4>1. Min(after) <= b + 1 /\ b + 1 <= Min(after) /\ Min(after) \in Nat
        BY <2>1, <3>1, <3>2, <3>3
      <4> QED BY <1>1, <1>2, <4>1
    <3>5. (b + 1) - 1 = b
      BY <1>1, <1>2
    <3>6. Min(after) - 1 = b
      BY <3>4, <3>5
    <3> QED BY <3>1, <3>6
  <2>4. b = Len(text) \/ b < Len(text)
    <3>1. b \in Int /\ b <= Len(text) /\ Len(text) \in Int
      BY <1>1, <1>2
    <3> QED BY <3>1
  <2> HIDE DEF after
  <2> QED BY <2>2, <2>3, <2>4
<1> HIDE DEF before, after
<1>6. LineAt(text, i) = SubSeq(text, IF before = {} THEN 1 ELSE Max(before) + 1,
                          IF after = {} THEN Len(text) ELSE Min(after) - 1)
  BY DEF LineAt, before, after
<1> QED BY <1>4, <1>5, <1>6, Zenon

LEMMA LineHas ==
  ASSUME NEW S, NEW text \in Seq(S), NEW i \in 1..Len(text)
  PROVE  \E a, b : LineFrom(text, i, a, b)
<1>1. Len(text) \in Nat
  BY LenProperties
<1>2. PICK a : /\ a \in 0..(i - 1) /\ (a > 0 => text[a] = LF)
               /\ \A j \in (a + 1)..(i - 1) : text[j] # LF
  <2> DEFINE T == {j \in 0..(i - 1) : j > 0 => text[j] = LF}
  <2>1. 0 \in T /\ T \subseteq 0..i /\ i \in Nat
    BY <1>1
  <2>2. Max(T) \in T /\ \A x \in T : x <= Max(T)
    <3> HIDE DEF T
    <3> QED BY <2>1, MaxIs
  <2>3. PICK a \in T : \A x \in T : x <= a
    BY <2>2
  <2>4. ASSUME NEW j \in (a + 1)..(i - 1) PROVE text[j] # LF
    <3>1. ~(j <= a) /\ j \in 0..(i - 1)
      BY <1>1
    <3>2. j \notin T
      BY <2>3, <3>1
    <3> QED BY <3>1, <3>2
  <2>5. a \in 0..(i - 1) /\ (a > 0 => text[a] = LF)
    OBVIOUS
  <2> QED BY <2>4, <2>5
<1>3. PICK b : /\ b \in (i - 1)..Len(text)
               /\ b < Len(text) => text[b + 1] = LF
               /\ \A j \in i..b : text[j] # LF
  <2> DEFINE T == {j \in (i - 1)..Len(text) : j < Len(text) => text[j + 1] = LF}
  <2>1. Len(text) \in T /\ T \subseteq Nat
    BY <1>1
  <2>2. PICK b \in T : \A x \in T : b <= x
    <3> HIDE DEF T
    <3> QED BY <2>1, Minimum
  <2>3. ASSUME NEW j \in i..b PROVE text[j] # LF
    <3>0. j \in Int /\ i <= j /\ j <= b /\ b \in Int /\ b <= Len(text)
      BY <1>1, <2>2
    <3>1. PICK k \in (i - 1)..Len(text) : k = j - 1 /\ k < b /\ j = k + 1
      <4>1. i \in Int
        BY <1>1
      <4>2. j - 1 \in (i - 1)..Len(text) /\ j - 1 < b /\ j = (j - 1) + 1
        BY <1>1, <3>0, <4>1
      <4> QED BY <4>2
    <3>2. k \notin T
      <4>1. ~(b <= k)
        BY <1>1, <3>0, <3>1
      <4> QED BY <2>2, <4>1
    <3> QED BY <3>1, <3>2
  <2>4. b \in (i - 1)..Len(text) /\ (b < Len(text) => text[b + 1] = LF)
    OBVIOUS
  <2> QED BY <2>3, <2>4
<1>4. ASSUME NEW j \in (a + 1)..b PROVE text[j] # LF
  <2>1. j \in (a + 1)..(i - 1) \/ j \in i..b
    BY <1>1, <1>2, <1>3
  <2> QED BY <1>2, <1>3, <2>1
<1> QED BY <1>2, <1>3, <1>4 DEF LineFrom

-----------------------------------------------------------------------------
LEMMA ConcatAt ==
  ASSUME NEW S, NEW u \in Seq(S), NEW v \in Seq(S)
  PROVE  /\ u \o v \in Seq(S) /\ Len(u \o v) = Len(u) + Len(v)
         /\ Len(u) \in Nat /\ Len(v) \in Nat
         /\ \A i \in 1..Len(u) : (u \o v)[i] = u[i]
         /\ \A i \in 1..Len(v) : (u \o v)[Len(u) + i] = v[i]
<1> DEFINE m == Len(u)
           n == Len(v)
           w == u \o v
<1>1. /\ w \in Seq(S) /\ Len(w) = m + n /\ m \in Nat /\ n \in Nat
      /\ \A k \in 1..m + n : w[k] = IF k <= m THEN u[k] ELSE v[k - m]
  BY ConcatProperties, LenProperties
<1> HIDE DEF m, n, w
<1>2. ASSUME NEW k \in 1..n PROVE w[m + k] = v[k]
  <2>1. m + k \in 1..m + n /\ ~(m + k <= m) /\ (m + k) - m = k
    BY <1>1
  <2>2. w[m + k] = v[(m + k) - m]
    BY <1>1, <2>1
  <2> QED BY <2>1, <2>2
<1>3. ASSUME NEW k \in 1..m PROVE w[k] = u[k]
  <2>1. k \in 1..m + n /\ k <= m
    BY <1>1
  <2> QED BY <1>1, <2>1
<1> QED BY <1>1, <1>2, <1>3 DEF m, n, w

LinesApart(u, v) ==
  /\ \A i \in 1..Len(u) : LineAt(u \o v, i) = LineAt(u, i)
  /\ \A i \in 1..Len(v) : LineAt(u \o v, Len(u) + i) = LineAt(v, i)

LEMMA LineLocal ==
  ASSUME NEW S, NEW u \in Seq(S), NEW v \in Seq(S),
         Len(u) > 0 => u[Len(u)] = LF
  PROVE  LinesApart(u, v)
<1> DEFINE w == u \o v
<1>0. PICK m, n : m = Len(u) /\ n = Len(v)
  OBVIOUS
<1>1. /\ w \in Seq(S) /\ Len(w) = m + n /\ m \in Nat /\ n \in Nat
      /\ \A k \in 1..m : w[k] = u[k]
      /\ \A k \in 1..n : w[m + k] = v[k]
  BY <1>0, ConcatAt
<1>2. m > 0 => u[m] = LF
  BY <1>0
<1>3. ASSUME NEW i \in 1..m PROVE LineAt(w, i) = LineAt(u, i)
  <2>1. i \in 1..Len(u)
    BY <1>0
  <2>2. PICK a, b : LineFrom(u, i, a, b)
    BY <2>1, LineHas
  <2>3. /\ a \in 0..(i - 1) /\ b \in (i - 1)..m
        /\ a > 0 => u[a] = LF
        /\ b < m => u[b + 1] = LF
        /\ \A j \in (a + 1)..b : u[j] # LF
    BY <1>0, <2>2 DEF LineFrom
  <2>4. /\ a \in Int /\ b \in Int /\ i \in Int /\ 0 <= a /\ a <= i - 1
        /\ i - 1 <= b /\ b <= m /\ 1 <= i /\ i <= m /\ m \in Int
    BY <1>1, <2>3
  <2>5. b < m
    <3>1. CASE b = m
      <4>1. m \in (a + 1)..b /\ m > 0
        BY <2>4, <3>1
      <4> QED BY <1>2, <2>3, <4>1
    <3> QED BY <2>4, <3>1
  <2>6. LineFrom(w, i, a, b)
    <3>1. b \in (i - 1)..Len(w)
      BY <1>1, <2>4
    <3>2. a > 0 => w[a] = LF
      <4>1. a > 0 => a \in 1..m
        BY <2>4
      <4> QED BY <1>1, <2>3, <4>1
    <3>3. w[b + 1] = LF
      <4>1. b + 1 \in 1..m
        BY <2>4, <2>5
      <4> QED BY <1>1, <2>3, <2>5, <4>1
    <3>4. ASSUME NEW j \in (a + 1)..b PROVE w[j] # LF
      <4>1. j \in 1..m
        BY <2>4
      <4> QED BY <1>1, <2>3, <4>1
    <3> QED BY <2>3, <3>1, <3>2, <3>3, <3>4 DEF LineFrom
  <2>7. LineAt(u, i) = SubSeq(u, a + 1, b)
    BY <2>1, <2>2, LineIs
  <2>8. LineAt(w, i) = SubSeq(w, a + 1, b)
    <3>1. i \in 1..Len(w)
      BY <1>1, <2>4
    <3> HIDE DEF w
    <3> QED BY <1>1, <2>6, <3>1, LineIs
  <2>9. SubSeq(w, a + 1, b) = SubSeq(u, a + 1, b)
    <3>1. CASE b < a + 1
      <4>1. a + 1 \in Int
        BY <2>4
      <4>2. SubSeq(w, a + 1, b) = <<>>
        BY <2>4, <3>1, <4>1, SubSeqEmpty
      <4>3. SubSeq(u, a + 1, b) = <<>>
        BY <2>4, <3>1, <4>1, SubSeqEmpty
      <4> QED BY <4>2, <4>3
    <3>2. CASE a + 1 <= b
      <4>1. a + 1 \in 1..Len(u) /\ b \in 1..Len(u)
        BY <1>0, <2>4, <3>2
      <4> QED BY <4>1, SubSeqOfConcat1
    <3>3. b < a + 1 \/ a + 1 <= b
      BY <2>4
    <3> QED BY <3>1, <3>2, <3>3
  <2> QED BY <2>7, <2>8, <2>9
<1>4. ASSUME NEW k \in 1..n PROVE LineAt(w, m + k) = LineAt(v, k)
  <2>1. k \in 1..Len(v)
    BY <1>0
  <2>2. PICK a, b : LineFrom(v, k, a, b)
    BY <2>1, LineHas
  <2>3. /\ a \in 0..(k - 1) /\ b \in (k - 1)..n
        /\ a > 0 => v[a] = LF
        /\ b < n => v[b + 1] = LF
        /\ \A j \in (a + 1)..b : v[j] # LF
    BY <1>0, <2>2 DEF LineFrom
  <2>4. /\ a \in Int /\ b \in Int /\ k \in Int /\ 0 <= a /\ a <= k - 1
        /\ k - 1 <= b /\ b <= n /\ 1 <= k /\ k <= n /\ m \in Int /\ n \in Int
        /\ 0 <= m
    BY <1>1, <2>3
  <2>5. PICK i, c, d : i = m + k /\ c = m + a /\ d = m + b
    OBVIOUS
  <2>6. LineFrom(w, i, c, d)
    <3>1. c \in 0..(i - 1) /\ d \in (i - 1)..Len(w)
      BY <1>1, <2>4, <2>5
    <3>2. c > 0 => w[c] = LF
      <4>1. CASE a = 0 /\ m > 0
        <5>1. m \in 1..m /\ c = m
          BY <2>4, <2>5, <4>1
        <5> QED BY <1>1, <1>2, <4>1, <5>1
      <4>2. CASE a > 0
        <5>1. a \in 1..n
          BY <2>4, <4>2
        <5> QED BY <1>1, <2>3, <2>5, <4>2, <5>1
      <4>3. c > 0 => (a = 0 /\ m > 0) \/ a > 0
        BY <2>4, <2>5
      <4> QED BY <4>1, <4>2, <4>3
    <3>3. d < Len(w) => w[d + 1] = LF
      <4> SUFFICES ASSUME d < Len(w) PROVE w[d + 1] = LF
        OBVIOUS
      <4>1. b < n /\ b + 1 \in 1..n /\ d + 1 = m + (b + 1)
        BY <1>1, <2>4, <2>5
      <4> QED BY <1>1, <2>3, <4>1
    <3>4. ASSUME NEW j \in (c + 1)..d PROVE w[j] # LF
      <4>1. PICK l \in (a + 1)..b : j = m + l
        <5>1. j - m \in (a + 1)..b /\ j = m + (j - m)
          BY <2>4, <2>5
        <5> QED BY <5>1
      <4>2. l \in 1..n
        BY <2>4
      <4> QED BY <1>1, <2>3, <4>1, <4>2
    <3> QED BY <3>1, <3>2, <3>3, <3>4 DEF LineFrom
  <2>7. LineAt(v, k) = SubSeq(v, a + 1, b)
    BY <2>1, <2>2, LineIs
  <2>8. LineAt(w, i) = SubSeq(w, c + 1, d)
    <3>1. i \in 1..Len(w)
      BY <1>1, <2>4, <2>5
    <3> HIDE DEF w
    <3> QED BY <1>1, <2>6, <3>1, LineIs
  <2>9. SubSeq(w, c + 1, d) = SubSeq(v, a + 1, b)
    <3>1. CASE b < a + 1
      <4>1. a + 1 \in Int /\ c + 1 \in Int /\ d \in Int /\ d < c + 1
        BY <2>4, <2>5, <3>1
      <4>2. SubSeq(w, c + 1, d) = <<>>
        BY <4>1, SubSeqEmpty
      <4>3. SubSeq(v, a + 1, b) = <<>>
        BY <2>4, <3>1, <4>1, SubSeqEmpty
      <4> QED BY <4>2, <4>3
    <3>2. CASE a + 1 <= b
      <4>1. PICK x : x = c + 1
        OBVIOUS
      <4>2. /\ x \in Len(u) + 1..Len(u) + Len(v)
            /\ d \in Len(u) + 1..Len(u) + Len(v)
            /\ x - Len(u) = a + 1 /\ d - Len(u) = b
        BY <1>0, <2>4, <2>5, <3>2, <4>1
      <4>3. SubSeq(u \o v, x, d) = SubSeq(v, x - Len(u), d - Len(u))
        BY <4>2, SubSeqOfConcat2
      <4> QED BY <4>1, <4>2, <4>3
    <3>3. b < a + 1 \/ a + 1 <= b
      BY <2>4
    <3> QED BY <3>1, <3>2, <3>3
  <2> QED BY <2>5, <2>7, <2>8, <2>9
<1> QED BY <1>0, <1>3, <1>4 DEF LinesApart

-----------------------------------------------------------------------------
(* The filter.                                                             *)
Places == 1..Len(stream)

LEMMA BytesFacts ==
  ASSUME stream \in Streams, NEW buf \in Seq(Places)
  PROVE  /\ Bytes(buf) \in Seq(ToSet(stream)) /\ Len(Bytes(buf)) = Len(buf)
         /\ \A i \in 1..Len(buf) : Bytes(buf)[i] = stream[buf[i]]
         /\ DOMAIN buf = 1..Len(buf) /\ Len(buf) \in Nat
         /\ \A i \in 1..Len(buf) : buf[i] \in Places
         /\ buf \in Seq(Nat)
<1>1. /\ Len(buf) \in Nat /\ DOMAIN buf = 1..Len(buf)
      /\ \A i \in 1..Len(buf) : buf[i] \in Places
  BY LenProperties, ElementOfSeq
<1>2. \A x \in Places : stream[x] \in ToSet(stream)
  <2>1. stream \in Seq(ToSet(stream))
    BY StreamFacts
  <2> QED BY <2>1, ElementOfSeq DEF Places
<1>3. /\ DOMAIN Bytes(buf) = 1..Len(buf)
      /\ \A i \in 1..Len(buf) : Bytes(buf)[i] = stream[buf[i]]
  BY <1>1 DEF Bytes
<1>4. Bytes(buf) \in [1..Len(buf) -> ToSet(stream)]
  BY <1>1, <1>2 DEF Bytes
<1>5. Bytes(buf) \in Seq(ToSet(stream))
  BY <1>1, <1>4
<1>6. Len(Bytes(buf)) = Len(buf)
  BY <1>1, <1>3, <1>5, LenProperties
<1>7. Places \subseteq Nat
  BY StreamFacts DEF Places
<1>8. buf \in Seq(Nat)
  BY <1>7, SeqMonotonic
<1> QED BY <1>1, <1>3, <1>5, <1>6, <1>8

LEMMA BytesConcat ==
  ASSUME stream \in Streams, NEW u \in Seq(Places), NEW v \in Seq(Places)
  PROVE  /\ u \o v \in Seq(Places) /\ Bytes(u \o v) = Bytes(u) \o Bytes(v)
<1> DEFINE m == Len(u)
           n == Len(v)
           w == u \o v
           a == Bytes(u)
           b == Bytes(v)
           c == Bytes(w)
<1>1. /\ w \in Seq(Places) /\ Len(w) = m + n /\ m \in Nat /\ n \in Nat
      /\ \A k \in 1..m : w[k] = u[k]
      /\ \A k \in 1..n : w[m + k] = v[k]
  BY ConcatAt
<1>2. /\ a \in Seq(ToSet(stream)) /\ b \in Seq(ToSet(stream))
      /\ Len(a) = m /\ Len(b) = n
      /\ \A k \in 1..m : a[k] = stream[u[k]]
      /\ \A k \in 1..n : b[k] = stream[v[k]]
  BY BytesFacts
<1>3. /\ c \in Seq(ToSet(stream)) /\ Len(c) = m + n
      /\ \A k \in 1..(m + n) : c[k] = stream[w[k]]
  <2> HIDE DEF w
  <2> QED BY <1>1, BytesFacts
<1> HIDE DEF a, b, c, m, n, w
<1>4. /\ a \o b \in Seq(ToSet(stream)) /\ Len(a \o b) = m + n
      /\ \A k \in 1..m : (a \o b)[k] = a[k]
      /\ \A k \in 1..n : (a \o b)[m + k] = b[k]
  <2>1. a \in Seq(ToSet(stream)) /\ b \in Seq(ToSet(stream))
    BY <1>2
  <2>2. /\ a \o b \in Seq(ToSet(stream)) /\ Len(a \o b) = Len(a) + Len(b)
        /\ \A k \in 1..Len(a) : (a \o b)[k] = a[k]
    BY <2>1, ConcatAt, Zenon
  <2>3. \A k \in 1..Len(b) : (a \o b)[Len(a) + k] = b[k]
    BY <2>1, ConcatAt
  <2> QED BY <1>2, <2>2, <2>3
<1>5. ASSUME NEW i \in 1..(m + n) PROVE c[i] = (a \o b)[i]
  <2>1. CASE i <= m
    <3>1. i \in 1..m
      BY <1>1, <2>1
    <3> QED BY <1>1, <1>2, <1>3, <1>4, <3>1
  <2>2. CASE m < i
    <3>1. PICK k \in 1..n : i = m + k
      <4>1. i - m \in 1..n /\ i = m + (i - m)
        BY <1>1, <2>2
      <4> QED BY <4>1
    <3>2. c[i] = stream[v[k]]
      BY <1>1, <1>3, <3>1
    <3>3. (a \o b)[i] = stream[v[k]]
      BY <1>2, <1>4, <3>1
    <3> QED BY <3>2, <3>3
  <2>3. i <= m \/ m < i
    BY <1>1
  <2> QED BY <2>1, <2>2, <2>3
<1>6. c = a \o b
  BY <1>3, <1>4, <1>5, SameSeq
<1> QED BY <1>1, <1>6 DEF a, b, c, w

EndsLine(u) == u = <<>> \/ stream[u[Len(u)]] = LF

LEMMA CleanConcat ==
  ASSUME stream \in Streams, NEW u \in Seq(Places), NEW v \in Seq(Places),
         EndsLine(u)
  PROVE  Clean(u \o v) = Clean(u) \o Clean(v)
<1> DEFINE keep(x) == {i \in DOMAIN x :
                         Trimmed(LineAt(Bytes(x), i)) # <<NullLine>>}
           w == u \o v
<1>1. \A x : Clean(x) = Only(x, keep(x))
  BY DEF Clean
<1>2. /\ w \in Seq(Places) /\ Bytes(w) = Bytes(u) \o Bytes(v)
      /\ Len(w) = Len(u) + Len(v) /\ Len(u) \in Nat /\ Len(v) \in Nat
  BY BytesConcat, ConcatAt
<1>3. /\ DOMAIN u = 1..Len(u) /\ DOMAIN v = 1..Len(v)
      /\ DOMAIN w = 1..Len(w)
      /\ u \in Seq(Nat) /\ v \in Seq(Nat)
      /\ Bytes(u) \in Seq(ToSet(stream)) /\ Bytes(v) \in Seq(ToSet(stream))
      /\ Len(Bytes(u)) = Len(u) /\ Len(Bytes(v)) = Len(v)
  <2>1. DOMAIN w = 1..Len(w)
    <3> HIDE DEF w
    <3> QED BY <1>2, BytesFacts
  <2> QED BY <2>1, BytesFacts
<1>4. Len(Bytes(u)) > 0 => Bytes(u)[Len(Bytes(u))] = LF
  <2> SUFFICES ASSUME Len(u) > 0 PROVE Bytes(u)[Len(u)] = LF
    BY <1>3
  <2>1. u # <<>>
    BY EmptySeq
  <2>2. Len(u) \in 1..Len(u)
    BY <1>2
  <2> QED BY <2>1, <2>2, BytesFacts DEF EndsLine
<1>5. /\ \A i \in 1..Len(u) : LineAt(Bytes(w), i) = LineAt(Bytes(u), i)
      /\ \A i \in 1..Len(v) : LineAt(Bytes(w), Len(u) + i) = LineAt(Bytes(v), i)
  <2>1. PICK a, b : a = Bytes(u) /\ b = Bytes(v)
    OBVIOUS
  <2>2. /\ a \in Seq(ToSet(stream)) /\ b \in Seq(ToSet(stream))
        /\ Len(a) = Len(u) /\ Len(b) = Len(v) /\ Bytes(w) = a \o b
    BY <1>2, <1>3, <1>4, <2>1
  <2>3. Len(a) > 0 => a[Len(a)] = LF
    BY <1>4, <2>1
  <2>4. a \in Seq(ToSet(stream)) /\ b \in Seq(ToSet(stream))
    BY <2>2
  <2>5. LinesApart(a, b)
    BY <2>3, <2>4, LineLocal, Zenon
  <2> HIDE DEF w
  <2> QED BY <2>1, <2>2, <2>5 DEF LinesApart
<1> HIDE DEF w
<1>6. \A k \in 1..Len(u) : k \in keep(w) <=> k \in keep(u)
  <2>1. \A k \in 1..Len(u) : k \in DOMAIN w /\ k \in DOMAIN u
    BY <1>2, <1>3
  <2> QED BY <1>5, <2>1
<1>7. \A k \in 1..Len(v) : Len(u) + k \in keep(w) <=> k \in keep(v)
  <2>1. \A k \in 1..Len(v) : Len(u) + k \in DOMAIN w /\ k \in DOMAIN v
    BY <1>2, <1>3
  <2> QED BY <1>5, <2>1
<1>8. Only(u \o v, keep(w)) = Only(u, keep(u)) \o Only(v, keep(v))
  <2>1. PICK K, J, L : K = keep(w) /\ J = keep(u) /\ L = keep(v)
    OBVIOUS
  <2>2. \A k \in 1..Len(u) : k \in K <=> k \in J
    <3> HIDE DEF keep
    <3> QED BY <1>6, <2>1
  <2>4. \A k \in 1..Len(v) : Len(u) + k \in K <=> k \in L
    <3> HIDE DEF keep
    <3> QED BY <1>7, <2>1
  <2>5. u \in Seq(Nat) /\ v \in Seq(Nat)
    BY <1>3
  <2>6. PlacesApart(u, v, K, J, L)
    <3> HIDE DEF keep
    <3> QED BY <2>2, <2>4 DEF PlacesApart
  <2>3. Only(u \o v, K) = Only(u, J) \o Only(v, L)
    <3> HIDE DEF keep
    <3>1. \A A, B, C : PlacesApart(u, v, A, B, C) =>
                         Only(u \o v, A) = Only(u, B) \o Only(v, C)
      BY <2>5, OnlyConcat
    <3> QED BY <2>6, <3>1
  <2> HIDE DEF keep
  <2> QED BY <2>1, <2>3
<1>9. Clean(w) = Only(w, keep(w)) /\ Clean(u) = Only(u, keep(u))
      /\ Clean(v) = Only(v, keep(v))
  BY <1>1
<1> HIDE DEF keep
<1> QED BY <1>8, <1>9 DEF w

LEMMA CleanType ==
  ASSUME stream \in Streams, NEW S, NEW u \in Seq(S)
  PROVE  Clean(u) \in Seq(S)
<1> DEFINE K == {i \in DOMAIN u : Trimmed(LineAt(Bytes(u), i)) # <<NullLine>>}
<1>1. Clean(u) = Only(u, K)
  BY DEF Clean
<1> HIDE DEF K
<1> QED BY <1>1, OnlyType

LEMMA CleanEmpty == Clean(<<>>) = <<>>
<1> DEFINE K == {i \in DOMAIN <<>> :
                   Trimmed(LineAt(Bytes(<<>>), i)) # <<NullLine>>}
<1>1. Clean(<<>>) = Only(<<>>, K)
  BY DEF Clean
<1>2. DOMAIN <<>> = {}
  OBVIOUS
<1> HIDE DEF K
<1> QED BY <1>1, <1>2 DEF Only

(* A line end is not on a line.                                            *)
LEMMA CleanLineEnd ==
  ASSUME stream \in Streams, NEW p \in Places, stream[p] = LF
  PROVE  Clean(<<p>>) = <<p>>
<1> DEFINE u == <<p>>
           K == {i \in DOMAIN u : Trimmed(LineAt(Bytes(u), i)) # <<NullLine>>}
<1>1. /\ u \in Seq(Places) /\ Len(u) = 1 /\ DOMAIN u = 1..1 /\ u[1] = p
  OBVIOUS
<1>2. /\ Bytes(u) \in Seq(ToSet(stream)) /\ Len(Bytes(u)) = 1
      /\ Bytes(u)[1] = LF
  <2> HIDE DEF u
  <2> QED BY <1>1, BytesFacts
<1>3. LineFrom(Bytes(u), 1, 0, 0)
  <2> HIDE DEF u
  <2> QED BY <1>2 DEF LineFrom
<1>4. LineAt(Bytes(u), 1) = <<>>
  <2> HIDE DEF u
  <2>1. LineAt(Bytes(u), 1) = SubSeq(Bytes(u), 0 + 1, 0)
    <3>1. 1 \in 1..Len(Bytes(u))
      BY <1>2
    <3> QED BY <1>2, <1>3, <3>1, LineIs
  <2>2. SubSeq(Bytes(u), 0 + 1, 0) = <<>>
    <3>1. 0 + 1 \in Int /\ 0 \in Int /\ 0 < 0 + 1
      OBVIOUS
    <3> QED BY <3>1, SubSeqEmpty
  <2> QED BY <2>1, <2>2
<1>5. Trimmed(<<>>) = <<>>
  <2> DEFINE J == {i \in DOMAIN <<>> : <<>>[i] # CR}
  <2>1. Trimmed(<<>>) = Only(<<>>, J)
    BY DEF Trimmed
  <2>2. DOMAIN <<>> = {}
    OBVIOUS
  <2> HIDE DEF J
  <2> QED BY <2>1, <2>2 DEF Only
<1>6. <<>> # <<NullLine>>
  OBVIOUS
<1>7. DOMAIN u \subseteq K
  <2>1. Trimmed(LineAt(Bytes(u), 1)) # <<NullLine>>
    <3> HIDE DEF u
    <3> QED BY <1>4, <1>5, <1>6
  <2>2. \A i \in DOMAIN u : i = 1
    BY <1>1
  <2> HIDE DEF u
  <2> QED BY <2>1, <2>2
<1>8. Clean(u) = Only(u, K)
  BY DEF Clean
<1> HIDE DEF u, K
<1>9. Clean(u) = u
  BY <1>7, <1>8 DEF Only
<1> QED BY <1>9 DEF u

-----------------------------------------------------------------------------
LEMMA SplitAt ==
  ASSUME NEW S, NEW w \in Seq(S), NEW e \in 0..Len(w)
  PROVE  /\ SubSeq(w, 1, e) \in Seq(S) /\ SubSeq(w, e + 1, Len(w)) \in Seq(S)
         /\ SubSeq(w, 1, e) \o SubSeq(w, e + 1, Len(w)) = w
         /\ Len(SubSeq(w, 1, e)) = e
         /\ Len(SubSeq(w, e + 1, Len(w))) = Len(w) - e
<1>1. Len(w) \in Nat /\ \A i \in 1..Len(w) : w[i] \in S
  BY LenProperties, ElementOfSeq
<1>2. /\ SubSeq(w, 1, e) \in Seq(S)
      /\ Len(SubSeq(w, 1, e)) = IF 1 <= e THEN e - 1 + 1 ELSE 0
  <2>1. 1 \in Int /\ e \in Int /\ \A i \in 1..e : w[i] \in S
    BY <1>1
  <2> QED BY <2>1, SubSeqProperties
<1>3. PICK f : f = e + 1
  OBVIOUS
<1>4. /\ SubSeq(w, f, Len(w)) \in Seq(S)
      /\ Len(SubSeq(w, f, Len(w))) = IF f <= Len(w) THEN Len(w) - f + 1 ELSE 0
  <2>1. f \in Int /\ Len(w) \in Int /\ \A i \in f..Len(w) : w[i] \in S
    BY <1>1, <1>3
  <2> QED BY <2>1, SubSeqProperties
<1>5. SubSeq(w, 1, e) \o SubSeq(w, e + 1, Len(w)) = SubSeq(w, 1, Len(w))
  <2>1. 1 \in 1..Len(w) + 1 /\ e \in (1 - 1)..Len(w) /\ Len(w) \in e..Len(w)
    BY <1>1
  <2> QED BY <2>1, ConcatAdjacentSubSeq
<1>6. SubSeq(w, 1, Len(w)) = w
  BY SubSeqFull
<1>7. e \in Nat /\ e <= Len(w)
  BY <1>1
<1>8. Len(SubSeq(w, 1, e)) = e
  BY <1>2, <1>7
<1>9. Len(SubSeq(w, f, Len(w))) = Len(w) - e
  BY <1>1, <1>3, <1>4, <1>7
<1> QED BY <1>2, <1>3, <1>4, <1>5, <1>6, <1>8, <1>9

LEMMA SplitOnce ==
  ASSUME NEW S, NEW u \in Seq(S), NEW v \in Seq(S),
         NEW x \in Seq(S), NEW y \in Seq(S),
         u \o v = x \o y, Len(u) = Len(x)
  PROVE  u = x /\ v = y
<1>1. PICK w, m : w = u \o v /\ m = Len(u)
  OBVIOUS
<1>2. /\ Len(w) = m + Len(v) /\ m \in Nat /\ Len(v) \in Nat
      /\ \A i \in 1..m : w[i] = u[i]
      /\ \A i \in 1..Len(v) : w[m + i] = v[i]
  <2>1. /\ Len(u \o v) = Len(u) + Len(v) /\ Len(u) \in Nat /\ Len(v) \in Nat
        /\ \A i \in 1..Len(u) : (u \o v)[i] = u[i]
    BY ConcatAt
  <2>2. \A i \in 1..Len(v) : (u \o v)[Len(u) + i] = v[i]
    BY ConcatAt
  <2> QED BY <1>1, <2>1, <2>2
<1>3. /\ Len(w) = m + Len(y) /\ Len(y) \in Nat
      /\ \A i \in 1..m : w[i] = x[i]
      /\ \A i \in 1..Len(y) : w[m + i] = y[i]
  <2>1. /\ Len(x \o y) = Len(x) + Len(y) /\ Len(y) \in Nat
        /\ \A i \in 1..Len(x) : (x \o y)[i] = x[i]
        /\ \A i \in 1..Len(y) : (x \o y)[Len(x) + i] = y[i]
    BY ConcatAt
  <2> QED BY <1>1, <2>1
<1>4. u = x
  <2>1. \A i \in 1..Len(u) : u[i] = x[i]
    BY <1>1, <1>2, <1>3
  <2> QED BY <2>1, SameSeq
<1>5. v = y
  <2>1. Len(v) = Len(y)
    BY <1>2, <1>3
  <2>2. \A i \in 1..Len(v) : v[i] = y[i]
    BY <1>2, <1>3, <2>1
  <2> QED BY <2>1, <2>2, SameSeq
<1> QED BY <1>4, <1>5

(* Up to place e the filter lets w through.                                *)
Blank(w, i) == stream[w[i]] = LF /\ stream[w[i + 1]] = LF

EndsAt(w, e) ==
  /\ e \in 0..Len(w)
  /\ e > 0 => e >= 2 /\ stream[w[e - 1]] = LF /\ stream[w[e]] = LF
  /\ \A i \in 1..(Len(w) - 1) : e <= i => ~Blank(w, i)

LEMMA EndOf ==
  ASSUME stream \in Streams, NEW w \in Seq(Places)
  PROVE  EndsAt(w, ReadyEnd(Bytes(w)))
<1> DEFINE blank == {i \in 1..(Len(w) - 1) : Blank(w, i)}
<1>1. /\ Len(w) \in Nat /\ Len(Bytes(w)) = Len(w)
      /\ \A i \in 1..Len(w) : Bytes(w)[i] = stream[w[i]]
  BY BytesFacts
<1>2. BlankLines(Bytes(w)) = blank
  <2>1. \A i \in 1..(Len(w) - 1) : i \in 1..Len(w) /\ i + 1 \in 1..Len(w)
    BY <1>1
  <2>2. \A i \in 1..(Len(w) - 1) :
          Bytes(w)[i] = stream[w[i]] /\ Bytes(w)[i + 1] = stream[w[i + 1]]
    BY <1>1, <2>1
  <2> QED BY <1>1, <2>2 DEF BlankLines, Blank
<1>3. ReadyEnd(Bytes(w)) = IF blank = {} THEN 0 ELSE Max(blank) + 1
  BY <1>2 DEF ReadyEnd
<1>4. \A i : i \in blank <=> i \in 1..(Len(w) - 1) /\ Blank(w, i)
  OBVIOUS
<1>5. blank \subseteq 0..Len(w)
  BY <1>1
<1> HIDE DEF blank
<1>6. CASE blank = {}
  <2>1. ReadyEnd(Bytes(w)) = 0
    BY <1>3, <1>6
  <2>2. 0 \in 0..Len(w)
    BY <1>1
  <2> QED BY <1>4, <1>6, <2>1, <2>2 DEF EndsAt
<1>7. CASE blank # {}
  <2>1. Max(blank) \in blank /\ \A x \in blank : x <= Max(blank)
    BY <1>1, <1>5, <1>7, MaxIs
  <2>2. PICK k \in blank : k = Max(blank) /\ \A x \in blank : x <= k
    BY <2>1
  <2>3. k \in 1..(Len(w) - 1) /\ Blank(w, k)
    BY <1>4
  <2>4. PICK e : e = k + 1
    OBVIOUS
  <2>5. /\ e \in 0..Len(w) /\ e >= 2 /\ e - 1 = k
    BY <1>1, <2>3, <2>4
  <2>6. stream[w[e - 1]] = LF /\ stream[w[e]] = LF
    BY <2>3, <2>4, <2>5 DEF Blank
  <2>7. ASSUME NEW i \in 1..(Len(w) - 1), e <= i PROVE ~Blank(w, i)
    <3>1. ~(i <= k)
      BY <1>1, <2>3, <2>4, <2>7
    <3> QED BY <1>4, <2>2, <3>1
  <2>8. EndsAt(w, e)
    BY <2>5, <2>6, <2>7 DEF EndsAt
  <2>9. ReadyEnd(Bytes(w)) = e
    BY <1>3, <1>7, <2>2, <2>4
  <2> QED BY <2>8, <2>9
<1> QED BY <1>6, <1>7

LEMMA EndOnce ==
  ASSUME NEW S, NEW w \in Seq(S), NEW e, NEW f, EndsAt(w, e), EndsAt(w, f)
  PROVE  e = f
<1>1. Len(w) \in Nat
  BY LenProperties
<1>2. ASSUME NEW x, NEW y, EndsAt(w, x), EndsAt(w, y) PROVE ~(x < y)
  <2> SUFFICES ASSUME x < y PROVE FALSE
    OBVIOUS
  <2>1. x \in 0..Len(w) /\ y \in 0..Len(w)
    BY <1>2 DEF EndsAt
  <2>2. y > 0
    BY <1>1, <2>1
  <2>3. stream[w[y - 1]] = LF /\ stream[w[y]] = LF /\ y >= 2
    BY <1>2, <2>2 DEF EndsAt
  <2>4. PICK i \in 1..(Len(w) - 1) : i = y - 1 /\ i + 1 = y /\ x <= i
    <3>1. y - 1 \in 1..(Len(w) - 1) /\ (y - 1) + 1 = y /\ x <= y - 1
      BY <1>1, <2>1, <2>3
    <3> QED BY <3>1
  <2>5. Blank(w, i)
    BY <2>3, <2>4 DEF Blank
  <2> QED BY <1>2, <2>4, <2>5 DEF EndsAt
<1>3. e \in 0..Len(w) /\ f \in 0..Len(w)
  BY DEF EndsAt
<1>4. ~(e < f) /\ ~(f < e)
  BY <1>2
<1> QED BY <1>1, <1>3, <1>4

Cutted(u) ==
  u = <<>> \/ /\ Len(u) >= 2
              /\ stream[u[Len(u) - 1]] = LF /\ stream[u[Len(u)]] = LF

NoBlank(v) == \A i \in 1..(Len(v) - 1) : ~Blank(v, i)

Splits(w, u, v) ==
  /\ u \in Seq(Places) /\ v \in Seq(Places) /\ w = u \o v
  /\ Cutted(u) /\ NoBlank(v)

LEMMA ReadySplit ==
  ASSUME stream \in Streams, NEW w \in Seq(Places)
  PROVE  \E x, y : Splits(w, x, y) /\ Ready(w) = Clean(x) /\ Rest(w) = y
<1>1. PICK e : e = ReadyEnd(Bytes(w)) /\ EndsAt(w, e)
  BY EndOf
<1>2. /\ e \in 0..Len(w)
      /\ e > 0 => e >= 2 /\ stream[w[e - 1]] = LF /\ stream[w[e]] = LF
      /\ \A i \in 1..(Len(w) - 1) : e <= i => ~Blank(w, i)
  BY <1>1 DEF EndsAt
<1>3. PICK x, y : x = SubSeq(w, 1, e) /\ y = SubSeq(w, e + 1, Len(w))
  OBVIOUS
<1>4. Ready(w) = Clean(x) /\ Rest(w) = y
  BY <1>1, <1>3 DEF Ready, Rest, From
<1>5. /\ x \in Seq(Places) /\ y \in Seq(Places) /\ x \o y = w
      /\ Len(x) = e /\ Len(y) = Len(w) - e
  BY <1>2, <1>3, SplitAt
<1>6. /\ Len(w) \in Nat /\ e \in Nat /\ e <= Len(w) /\ Len(y) \in Nat
      /\ \A i \in 1..e : w[i] = x[i]
      /\ \A i \in 1..Len(y) : w[e + i] = y[i]
  <2>1. Len(w) \in Nat
    BY LenProperties
  <2>2. /\ \A i \in 1..Len(x) : (x \o y)[i] = x[i]
        /\ \A i \in 1..Len(y) : (x \o y)[Len(x) + i] = y[i]
    <3>1. x \in Seq(Places) /\ y \in Seq(Places)
      BY <1>5
    <3> QED BY <3>1, ConcatAt
  <2>3. e \in Nat /\ e <= Len(w) /\ Len(y) \in Nat
    BY <1>2, <1>5, <2>1
  <2> QED BY <1>5, <2>1, <2>2, <2>3
<1>7. Cutted(x)
  <2>1. CASE e = 0
    <3>1. x = <<>>
      BY <1>5, <2>1, EmptySeq
    <3> QED BY <3>1 DEF Cutted
  <2>2. CASE e > 0
    <3>1. e >= 2 /\ stream[w[e - 1]] = LF /\ stream[w[e]] = LF
      BY <1>2, <2>2
    <3>2. e - 1 \in 1..e /\ e \in 1..e
      BY <1>6, <3>1
    <3>3. x[e - 1] = w[e - 1] /\ x[e] = w[e]
      BY <1>6, <3>2
    <3> QED BY <1>5, <3>1, <3>3 DEF Cutted
  <2> QED BY <1>6, <2>1, <2>2
<1>8. NoBlank(y)
  <2>1. ASSUME NEW i \in 1..(Len(y) - 1) PROVE ~Blank(y, i)
    <3>1. PICK j : j = e + i
      OBVIOUS
    <3>2. /\ j \in 1..(Len(w) - 1) /\ e <= j /\ j + 1 = e + (i + 1)
          /\ i \in 1..Len(y) /\ i + 1 \in 1..Len(y)
      <4>1. PICK l, n : l = Len(w) /\ n = Len(y)
        OBVIOUS
      <4>2. /\ l \in Int /\ n \in Int /\ e \in Int /\ n = l - e /\ 0 <= e
            /\ i \in 1..(n - 1)
        BY <1>5, <1>6, <4>1
      <4>3. /\ j \in 1..(l - 1) /\ e <= j /\ j + 1 = e + (i + 1)
            /\ i \in 1..n /\ i + 1 \in 1..n
        BY <3>1, <4>2
      <4> QED BY <4>1, <4>3
    <3>3. w[j] = y[i] /\ w[j + 1] = y[i + 1]
      BY <1>6, <3>1, <3>2
    <3>4. ~Blank(w, j)
      BY <1>2, <3>2
    <3> QED BY <3>3, <3>4 DEF Blank
  <2> QED BY <2>1 DEF NoBlank
<1>9. Splits(w, x, y)
  BY <1>5, <1>7, <1>8 DEF Splits
<1> QED BY <1>4, <1>9

-----------------------------------------------------------------------------
(* What the filter makes of a text that a blank line cuts.                 *)
LEMMA CuttedEnds ==
  ASSUME NEW u, Cutted(u)
  PROVE  EndsLine(u)
BY DEF Cutted, EndsLine

OneMore(w, u, v) ==
  \E p \in Places, y \in Seq(Places) :
    /\ stream[p] = LF /\ u # <<>> /\ v = <<p>> \o y
    /\ Ready(w) = Clean(u) \o <<p>> /\ Rest(w) = y

LEMMA ReadyIs ==
  ASSUME stream \in Streams, NEW w, NEW u, NEW v, Splits(w, u, v)
  PROVE  (Ready(w) = Clean(u) /\ Rest(w) = v) \/ OneMore(w, u, v)
<1>1. /\ u \in Seq(Places) /\ v \in Seq(Places) /\ w = u \o v
      /\ Cutted(u) /\ NoBlank(v)
  BY DEF Splits
<1>2. PICK m, n : m = Len(u) /\ n = Len(v)
  OBVIOUS
<1>3. w \in Seq(Places) /\ Len(w) = m + n /\ m \in Nat /\ n \in Nat
  BY <1>1, <1>2, ConcatAt
<1>4. \A i \in 1..m : w[i] = u[i]
  BY <1>1, <1>2, ConcatAt
<1>5. \A i \in 1..n : w[m + i] = v[i]
  BY <1>1, <1>2, ConcatAt
<1>6. PICK e : e = ReadyEnd(Bytes(w)) /\ EndsAt(w, e)
  BY <1>3, EndOf
<1>7. Ready(w) = Clean(SubSeq(w, 1, e)) /\ Rest(w) = SubSeq(w, e + 1, Len(w))
  BY <1>6 DEF Ready, Rest, From
<1>8. m > 0 => /\ m >= 2 /\ stream[w[m - 1]] = LF /\ stream[w[m]] = LF
  <2> SUFFICES ASSUME m > 0
               PROVE  m >= 2 /\ stream[w[m - 1]] = LF /\ stream[w[m]] = LF
    OBVIOUS
  <2>1. u # <<>>
    BY <1>2, EmptySeq
  <2>2. m >= 2 /\ stream[u[m - 1]] = LF /\ stream[u[m]] = LF
    BY <1>1, <1>2, <2>1 DEF Cutted
  <2>3. m - 1 \in 1..m /\ m \in 1..m
    BY <1>3, <2>2
  <2> QED BY <1>4, <2>2, <2>3
<1>9. ASSUME NEW i \in 1..(m + n - 1), m < i PROVE ~Blank(w, i)
  <2>1. PICK j \in 1..(n - 1) : i = m + j /\ i + 1 = m + (j + 1)
    <3>1. i - m \in 1..(n - 1) /\ i = m + (i - m) /\ i + 1 = m + ((i - m) + 1)
      BY <1>3, <1>9
    <3> QED BY <3>1
  <2>2. j \in 1..n /\ j + 1 \in 1..n
    BY <1>3
  <2>3. w[i] = v[j] /\ w[i + 1] = v[j + 1]
    BY <1>5, <2>1, <2>2
  <2>4. ~Blank(v, j)
    BY <1>1, <1>2 DEF NoBlank
  <2> QED BY <2>3, <2>4 DEF Blank
<1>10. SubSeq(w, 1, m) = u /\ SubSeq(w, m + 1, Len(w)) = v
  <2>1. PICK x, y : x = SubSeq(w, 1, m) /\ y = SubSeq(w, m + 1, Len(w))
    OBVIOUS
  <2>2. m \in 0..Len(w)
    BY <1>3
  <2>3. x \in Seq(Places) /\ y \in Seq(Places) /\ x \o y = w /\ Len(x) = m
    BY <1>3, <2>1, <2>2, SplitAt
  <2>4. u \o v = x \o y /\ Len(u) = Len(x)
    BY <1>1, <1>2, <2>3
  <2>5. u = x /\ v = y
    BY <1>1, <2>3, <2>4, SplitOnce
  <2> QED BY <2>1, <2>5
<1>11. CASE m = 0 \/ n = 0 \/ stream[v[1]] # LF
  <2>1. ASSUME NEW i \in 1..(m + n - 1), m <= i PROVE ~Blank(w, i)
    <3>1. CASE m < i
      BY <1>9, <3>1
    <3>2. CASE i = m
      <4>1. m > 0 /\ n > 0 /\ 1 \in 1..n
        BY <1>3, <3>2
      <4>2. w[m + 1] = v[1] /\ stream[v[1]] # LF
        BY <1>5, <1>11, <4>1
      <4> QED BY <3>2, <4>2 DEF Blank
    <3> QED BY <1>3, <2>1, <3>1, <3>2
  <2>2. EndsAt(w, m)
    <3>1. m \in 0..Len(w) /\ Len(w) - 1 = m + n - 1
      BY <1>3
    <3> QED BY <1>8, <2>1, <3>1 DEF EndsAt
  <2>3. e = m
    BY <1>3, <1>6, <2>2, EndOnce
  <2>4. Ready(w) = Clean(u) /\ Rest(w) = v
    BY <1>7, <1>10, <2>3
  <2> QED BY <2>4
<1>12. CASE m > 0 /\ n > 0 /\ stream[v[1]] = LF
  <2>1. PICK f : f = m + 1
    OBVIOUS
  <2>2. f \in 1..(m + n) /\ f - 1 = m /\ f >= 2 /\ 1 \in 1..n
    BY <1>3, <1>12, <2>1
  <2>3. EndsAt(w, f)
    <3>1. f \in 0..Len(w) /\ Len(w) - 1 = m + n - 1
      BY <1>3, <2>2
    <3>2. stream[w[f - 1]] = LF /\ stream[w[f]] = LF
      <4>1. w[f] = v[1]
        BY <1>5, <2>1, <2>2
      <4> QED BY <1>8, <1>12, <2>2, <4>1
    <3>3. ASSUME NEW i \in 1..(m + n - 1), f <= i PROVE ~Blank(w, i)
      <4>1. m < i
        BY <1>3, <2>1, <3>3
      <4> QED BY <1>9, <4>1
    <3> QED BY <2>2, <3>1, <3>2, <3>3 DEF EndsAt
  <2>4. e = f
    BY <1>3, <1>6, <2>3, EndOnce
  <2>5. PICK p, y : p = v[1] /\ y = SubSeq(v, 2, n)
    OBVIOUS
  <2>6. p \in Places /\ stream[p] = LF /\ <<p>> \in Seq(Places)
    <3>1. v[1] \in Places
      BY <1>1, <1>2, <2>2, ElementOfSeq
    <3> QED BY <1>12, <2>5, <3>1
  <2>7. y \in Seq(Places) /\ <<p>> \o y = v
    <3>1. 1 \in 0..Len(v)
      BY <1>2, <1>3, <2>2
    <3>2. /\ SubSeq(v, 1 + 1, Len(v)) \in Seq(Places)
          /\ SubSeq(v, 1, 1) \o SubSeq(v, 1 + 1, Len(v)) = v
      BY <1>1, <3>1, SplitAt
    <3>3. SubSeq(v, 1 + 1, Len(v)) = y
      BY <1>2, <2>5
    <3>4. SubSeq(v, 1, 1) = <<p>>
      <4>1. 1 \in 1..Len(v) /\ 1 \in 1..Len(v)
        BY <1>2, <2>2
      <4>2. SubSeq(v, 1, 1) = <<v[1]>> \o SubSeq(v, 1 + 1, 1)
        BY <1>1, <4>1, SubSeqRecursiveFirst
      <4>3. SubSeq(v, 1 + 1, 1) = <<>>
        <5>1. 1 + 1 \in Int /\ 1 \in Int /\ 1 < 1 + 1
          OBVIOUS
        <5> QED BY <5>1, SubSeqEmpty
      <4>4. <<p>> \o <<>> = <<p>>
        BY <2>6, ConcatEmptySeq
      <4> QED BY <2>5, <4>2, <4>3, <4>4
    <3> QED BY <1>2, <3>2, <3>3, <3>4
  <2>8. PICK z : z = u \o <<p>>
    OBVIOUS
  <2>9. /\ z \in Seq(Places) /\ Len(z) = f
    <3>1. Len(<<p>>) = 1 /\ u \in Seq(Places) /\ <<p>> \in Seq(Places)
      BY <1>1, <2>6
    <3>2. u \o <<p>> \in Seq(Places) /\ Len(u \o <<p>>) = Len(u) + Len(<<p>>)
      BY <3>1, ConcatAt
    <3> QED BY <1>2, <2>1, <2>8, <3>1, <3>2
  <2>10. z \o y = w
    <3>1. /\ u \in Seq(Nat) /\ <<p>> \in Seq(Nat) /\ y \in Seq(Nat)
      BY <1>1, <2>6, <2>7, BytesFacts
    <3>2. PICK q : q = <<p>>
      OBVIOUS
    <3>3. (u \o q) \o y = u \o (q \o y)
      BY <3>1, <3>2, ConcatPlaces
    <3> QED BY <1>1, <2>7, <2>8, <3>2, <3>3
  <2>11. SubSeq(w, 1, f) = z /\ SubSeq(w, f + 1, Len(w)) = y
    <3>1. PICK a, b : a = SubSeq(w, 1, f) /\ b = SubSeq(w, f + 1, Len(w))
      OBVIOUS
    <3>2. f \in 0..Len(w)
      BY <1>3, <2>2
    <3>3. a \in Seq(Places) /\ b \in Seq(Places) /\ a \o b = w /\ Len(a) = f
      BY <1>3, <3>1, <3>2, SplitAt
    <3>4. z \o y = a \o b /\ Len(z) = Len(a)
      BY <2>9, <2>10, <3>3
    <3>5. z = a /\ y = b
      BY <2>7, <2>9, <3>3, <3>4, SplitOnce
    <3> QED BY <3>1, <3>5
  <2>12. Clean(z) = Clean(u) \o <<p>>
    <3>1. EndsLine(u)
      BY <1>1, CuttedEnds
    <3>2. Clean(<<p>>) = <<p>>
      BY <2>6, CleanLineEnd
    <3>3. Clean(u \o <<p>>) = Clean(u) \o Clean(<<p>>)
      BY <1>1, <2>6, <3>1, CleanConcat
    <3> QED BY <2>8, <3>2, <3>3
  <2>13. Ready(w) = Clean(z) /\ Rest(w) = y
    BY <1>7, <2>4, <2>11
  <2>14. u # <<>>
    BY <1>2, <1>12, EmptySeq
  <2>15. Ready(w) = Clean(u) \o <<p>>
    BY <2>12, <2>13
  <2> QED BY <2>6, <2>7, <2>13, <2>14, <2>15 DEF OneMore
<1> QED BY <1>3, <1>11, <1>12

LEMMA SplitKept ==
  ASSUME stream \in Streams, NEW w, NEW u, NEW v, Splits(w, u, v)
  PROVE  /\ Ready(w) \o Rest(w) = Clean(u) \o v
         /\ Len(v) >= 2 => Rest(w) # <<>>
<1>1. u \in Seq(Places) /\ v \in Seq(Places)
  BY DEF Splits
<1>2. CASE Ready(w) = Clean(u) /\ Rest(w) = v
  <2>1. Len(v) >= 2 => v # <<>>
    BY EmptySeq
  <2> QED BY <1>2, <2>1
<1>3. ASSUME NEW p \in Places, NEW y \in Seq(Places), v = <<p>> \o y,
             Ready(w) = Clean(u) \o <<p>>, Rest(w) = y
      PROVE  /\ Ready(w) \o Rest(w) = Clean(u) \o v
             /\ Len(v) >= 2 => Rest(w) # <<>>
  <2>1. PICK c, q : c = Clean(u) /\ q = <<p>>
    OBVIOUS
  <2>2. q \in Seq(Places) /\ Len(q) = 1
    BY <2>1
  <2>3. c \in Seq(Nat) /\ q \in Seq(Nat) /\ y \in Seq(Nat)
    BY <1>1, <2>1, <2>2, BytesFacts, CleanType
  <2>4. (c \o q) \o y = c \o (q \o y)
    BY <2>3, ConcatPlaces
  <2>5. Ready(w) \o Rest(w) = Clean(u) \o v
    BY <1>3, <2>1, <2>4, Zenon
  <2>6. Len(q \o y) = Len(q) + Len(y) /\ Len(y) \in Nat
    BY <2>2, ConcatAt
  <2>7. Len(v) = 1 + Len(y)
    BY <1>3, <2>1, <2>2, <2>6
  <2>8. Len(v) >= 2 => y # <<>>
    BY <2>6, <2>7, EmptySeq
  <2> QED BY <1>3, <2>5, <2>8
<1>4. CASE OneMore(w, u, v)
  <2>1. PICK p \in Places, y \in Seq(Places) :
            v = <<p>> \o y /\ Ready(w) = Clean(u) \o <<p>> /\ Rest(w) = y
    BY <1>4 DEF OneMore
  <2> QED BY <1>3, <2>1
<1> QED BY <1>2, <1>4, ReadyIs

-----------------------------------------------------------------------------
(* More of the text makes the filter let more of it through.               *)
LEMMA CuttedConcat ==
  ASSUME NEW u \in Seq(Places), NEW x \in Seq(Places), Cutted(u), Cutted(x)
  PROVE  Cutted(u \o x)
<1>1. CASE x = <<>>
  <2>1. u \o x = u
    BY <1>1, ConcatEmptySeq
  <2> QED BY <2>1
<1>2. CASE x # <<>>
  <2>1. Len(x) >= 2 /\ stream[x[Len(x) - 1]] = LF /\ stream[x[Len(x)]] = LF
    BY <1>2 DEF Cutted
  <2>2. PICK m, n, w : m = Len(u) /\ n = Len(x) /\ w = u \o x
    OBVIOUS
  <2>3. Len(w) = m + n /\ m \in Nat /\ n \in Nat
    BY <2>2, ConcatAt
  <2>4. \A i \in 1..n : w[m + i] = x[i]
    BY <2>2, ConcatAt
  <2>5. PICK k : k = n - 1
    OBVIOUS
  <2>6. /\ k \in 1..n /\ n \in 1..n /\ (m + n) - 1 = m + k /\ m + n >= 2
    BY <2>1, <2>2, <2>3, <2>5
  <2>7. w[m + k] = x[k] /\ w[m + n] = x[n]
    BY <2>4, <2>6
  <2>8. stream[w[m + k]] = LF /\ stream[w[m + n]] = LF
    BY <2>1, <2>2, <2>5, <2>7
  <2>9. Len(w) >= 2 /\ Len(w) - 1 = m + k
    BY <2>3, <2>6
  <2> QED BY <2>2, <2>3, <2>8, <2>9 DEF Cutted
<1> QED BY <1>1, <1>2

Onward(w, u, v, t) ==
  \E x, y, z : /\ Ready(v \o t) = Clean(x) /\ Rest(v \o t) = y
              /\ Splits(w \o t, z, y) /\ Clean(z) = Clean(u) \o Clean(x)
              /\ x \in Seq(Places)

LEMMA GoesOn ==
  ASSUME stream \in Streams, NEW w, NEW u, NEW v, Splits(w, u, v),
         NEW t \in Seq(Places)
  PROVE  Onward(w, u, v, t)
<1>1. /\ u \in Seq(Places) /\ v \in Seq(Places) /\ w = u \o v
      /\ Cutted(u) /\ NoBlank(v)
  BY DEF Splits
<1>2. v \o t \in Seq(Places)
  BY <1>1, ConcatProperties
<1>3. PICK x, y : Splits(v \o t, x, y) /\ Ready(v \o t) = Clean(x)
                  /\ Rest(v \o t) = y
  BY <1>2, ReadySplit
<1>4. /\ x \in Seq(Places) /\ y \in Seq(Places) /\ v \o t = x \o y
      /\ Cutted(x) /\ NoBlank(y)
  BY <1>3 DEF Splits
<1>5. Clean(u \o x) = Clean(u) \o Clean(x)
  <2>1. EndsLine(u)
    BY <1>1, CuttedEnds
  <2> QED BY <1>1, <1>4, <2>1, CleanConcat
<1>6. u \o x \in Seq(Places) /\ Cutted(u \o x)
  BY <1>1, <1>4, CuttedConcat, ConcatProperties
<1>7. w \o t = (u \o x) \o y
  <2>1. /\ u \in Seq(Nat) /\ v \in Seq(Nat) /\ t \in Seq(Nat)
        /\ x \in Seq(Nat) /\ y \in Seq(Nat)
    BY <1>1, <1>4, BytesFacts
  <2>2. (u \o v) \o t = u \o (v \o t)
    BY <2>1, ConcatPlaces
  <2>3. (u \o x) \o y = u \o (x \o y)
    BY <2>1, ConcatPlaces
  <2> QED BY <1>1, <1>4, <2>2, <2>3
<1>8. Splits(w \o t, u \o x, y)
  BY <1>4, <1>6, <1>7 DEF Splits
<1> QED BY <1>3, <1>4, <1>5, <1>8 DEF Onward

LEMMA KeptBegins ==
  ASSUME stream \in Streams, NEW w, NEW u, NEW v, Splits(w, u, v),
         NEW t \in Seq(Places)
  PROVE  IsPrefix(Clean(u), Ready(w \o t) \o Rest(w \o t))
<1>1. PICK x, y, z : /\ Splits(w \o t, z, y) /\ x \in Seq(Places)
                     /\ Clean(z) = Clean(u) \o Clean(x)
  <2>1. Onward(w, u, v, t)
    BY GoesOn
  <2> QED BY <2>1 DEF Onward
<1>2. Ready(w \o t) \o Rest(w \o t) = Clean(z) \o y
  <2>1. PICK s : s = w \o t
    OBVIOUS
  <2>2. Splits(s, z, y)
    BY <1>1, <2>1
  <2>3. Ready(s) \o Rest(s) = Clean(z) \o y
    BY <2>2, SplitKept
  <2> QED BY <2>1, <2>3
<1>3. PICK c, d : c = Clean(u) /\ d = Clean(x)
  OBVIOUS
<1>4. c \in Seq(Nat) /\ d \in Seq(Nat) /\ y \in Seq(Nat)
  BY <1>1, <1>3, BytesFacts, CleanType DEF Splits
<1>5. (c \o d) \o y = c \o (d \o y) /\ d \o y \in Seq(Nat)
  BY <1>4, ConcatPlaces, ConcatProperties
<1>6. IsPrefix(c, c \o (d \o y))
  BY <1>4, <1>5, PrefixOfConcat
<1> QED BY <1>1, <1>2, <1>3, <1>5, <1>6

LEMMA PrefixSplits ==
  ASSUME NEW S, NEW s \in Seq(S), NEW w \in Seq(S), IsPrefix(s, w)
  PROVE  \E t \in Seq(S) : w = s \o t
<1>1. /\ Len(s) \in Nat /\ Len(w) \in Nat /\ Len(s) <= Len(w)
      /\ SubSeq(s, 1, Len(s)) = SubSeq(w, 1, Len(s))
  BY LenProperties DEF IsPrefix
<1>2. SubSeq(s, 1, Len(s)) = s
  BY SubSeqFull
<1>3. Len(s) \in 0..Len(w)
  BY <1>1
<1>4. PICK t : t = SubSeq(w, Len(s) + 1, Len(w))
  OBVIOUS
<1>5. t \in Seq(S) /\ SubSeq(w, 1, Len(s)) \o t = w
  BY <1>3, <1>4, SplitAt
<1> QED BY <1>1, <1>2, <1>5

(* The stripper's output, or the stream as it is.                          *)
LEMMA WholeFacts ==
  ASSUME stream \in Streams
  PROVE  WholeText \in Seq(Places)
<1>1. Len(stream) \in Nat
  BY StreamFacts
<1>2. CASE strips
  <2>1. Visible.out \in Seq((0 + 1)..Len(stream))
    <3>1. /\ 0 \in Nat /\ 0 <= Len(stream) /\ Len(stream) <= Len(stream)
          /\ FALSE \in BOOLEAN
      BY <1>1
    <3>2. FALSE => OpenAfter(0, Len(stream), 0 + 1)
      OBVIOUS
    <3> QED BY <1>1, <3>1, <3>2, ScanDrops DEF Visible
  <2> QED BY <1>2, <2>1 DEF WholeText, Places
<1>3. CASE ~strips
  <2>1. Run(0, Len(stream)) \in Seq((0 + 1)..Len(stream))
    <3>1. 0 \in Nat /\ 0 <= Len(stream)
      BY <1>1
    <3> QED BY <1>1, <3>1, RunFacts
  <2> QED BY <1>3, <2>1 DEF WholeText, Places
<1> QED BY <1>2, <1>3

LEMMA OutIsPrefix ==
  ASSUME PipelineStripInv, OneSpan \/ ~strips
  PROVE  /\ IsPrefix(forwarded, WholeText)
         /\ end = "clean" => forwarded = WholeText
<1>1. /\ StripInv /\ stream \in Streams /\ fed \in 0..Len(stream)
      /\ Len(stream) \in Nat
  BY StreamFacts DEF PipelineStripInv, StripInv
<1>2. CASE strips
  <2>1. OneSpanIsExact
    BY <1>1, <1>2, ExactImplies DEF PipelineStripInv
  <2> QED BY <1>2, <2>1 DEF OneSpanIsExact, WholeText
<1>3. CASE ~strips
  <2>1. forwarded = Run(0, fed) /\ WholeText = Run(0, Len(stream))
    BY <1>3 DEF PipelineStripInv, PassInv, WholeText
  <2>2. /\ 0 \in Nat /\ 0 <= fed /\ fed \in Nat /\ fed <= Len(stream)
    BY <1>1
  <2>3. PICK s, t : s = Run(0, fed) /\ t = Run(fed, Len(stream))
    OBVIOUS
  <2>4. s \in Seq(Nat) /\ t \in Seq(Nat)
    BY <1>1, <2>2, <2>3, RunFacts
  <2>5. s \o t = WholeText
    BY <1>1, <2>1, <2>2, <2>3, RunConcat
  <2>6. IsPrefix(s, s \o t)
    BY <2>4, PrefixOfConcat
  <2>7. end = "clean" => fed = Len(stream)
    <3>1. PICK a \in 0..fed : end = "clean" => a = Len(stream)
      BY <1>1 DEF StripInv
    <3> QED BY <1>1, <2>2, <3>1
  <2> QED BY <2>1, <2>3, <2>5, <2>6, <2>7
<1> QED BY <1>2, <1>3

-----------------------------------------------------------------------------
(* The end of a stream that leaves the beginning t of a tag.               *)
Begun(t) ==
  /\ Len(t) < Len(OpenTag)
  /\ \A k \in 1..Len(t) : stream[t[k]] = OpenTag[k]

LEMMA NoBlankBegun ==
  ASSUME NEW v \in Seq(Places), NEW t \in Seq(Places), NoBlank(v), Begun(t)
  PROVE  NoBlank(v \o t)
<1>1. PICK n, l, w : n = Len(v) /\ l = Len(t) /\ w = v \o t
  OBVIOUS
<1>2. Len(w) = n + l /\ n \in Nat /\ l \in Nat
  BY <1>1, ConcatAt
<1>3. \A i \in 1..n : w[i] = v[i]
  BY <1>1, ConcatAt
<1>4. \A i \in 1..l : w[n + i] = t[i]
  BY <1>1, ConcatAt
<1>5. ASSUME NEW k \in 1..l PROVE stream[t[k]] # LF
  <2>1. OpenTag \in Seq(ToSet(OpenTag)) /\ Len(OpenTag) \in Nat
    BY TagsAssumption, TagFacts
  <2>2. k \in 1..Len(OpenTag) /\ k \in 1..Len(t)
    BY <1>1, <1>2, <2>1 DEF Begun
  <2>3. OpenTag[k] \in ToSet(OpenTag)
    BY <2>1, <2>2, ElementOfSeq
  <2> QED BY <2>2, <2>3, OneLineAssumption DEF Begun
<1>6. ASSUME NEW i \in 1..(n + l - 1) PROVE ~Blank(w, i)
  <2>1. CASE i + 1 <= n
    <3>1. i \in 1..n /\ i + 1 \in 1..n /\ i \in 1..(n - 1)
      BY <1>2, <2>1
    <3>2. ~Blank(v, i)
      BY <1>1, <3>1 DEF NoBlank
    <3>3. w[i] = v[i] /\ w[i + 1] = v[i + 1]
      BY <1>3, <3>1
    <3> QED BY <3>2, <3>3 DEF Blank
  <2>2. CASE n < i + 1
    <3>1. PICK j \in 1..l : i + 1 = n + j
      <4>1. (i + 1) - n \in 1..l /\ i + 1 = n + ((i + 1) - n)
        BY <1>2, <2>2
      <4> QED BY <4>1
    <3>2. w[i + 1] = t[j]
      BY <1>4, <3>1
    <3> QED BY <1>5, <3>2 DEF Blank
  <2>3. i + 1 <= n \/ n < i + 1
    BY <1>2
  <2> QED BY <2>1, <2>2, <2>3
<1> QED BY <1>1, <1>2, <1>6 DEF NoBlank

LEMMA HoldsBegun ==
  ASSUME NEW f \in Seq(Places), NEW t \in Seq(Places), Begun(t), t # <<>>
  PROVE  hold(f \o t) > 0
<1>1. PICK n, l, w : n = Len(f) /\ l = Len(t) /\ w = f \o t
  OBVIOUS
<1>2. Len(w) = n + l /\ n \in Nat /\ l \in Nat
  BY <1>1, ConcatAt
<1>3. \A i \in 1..l : w[n + i] = t[i]
  BY <1>1, ConcatAt
<1> DEFINE fits(m) ==
             /\ m <= Len(w)
             /\ \A k \in 1..m : stream[w[Len(w) - m + k]] = OpenTag[k]
           ends == {m \in 1..(Len(OpenTag) - 1) : fits(m)}
<1>4. hold(w) = IF ends = {} THEN 0
                ELSE CHOOSE m \in ends : \A k \in ends : k <= m
  BY DEF hold
<1>5. Len(OpenTag) \in Nat
  BY TagFacts
<1>6. l \in ends
  <2>1. l \in 1..(Len(OpenTag) - 1) /\ l <= Len(w)
    <3>1. l > 0
      BY <1>1, <1>2, EmptySeq
    <3> QED BY <1>1, <1>2, <1>5, <3>1 DEF Begun
  <2>2. ASSUME NEW k \in 1..l PROVE stream[w[Len(w) - l + k]] = OpenTag[k]
    <3>1. Len(w) - l + k = n + k
      BY <1>2
    <3>2. stream[t[k]] = OpenTag[k]
      BY <1>1 DEF Begun
    <3> QED BY <1>3, <3>1, <3>2
  <2>3. fits(l)
    BY <2>1, <2>2
  <2> HIDE DEF fits
  <2> QED BY <2>1, <2>3
<1>7. ends \subseteq 0..Len(OpenTag) /\ \A m \in ends : m \in Nat /\ m > 0
  <2>1. \A m \in ends : m \in 1..(Len(OpenTag) - 1)
    <3> HIDE DEF fits
    <3> QED OBVIOUS
  <2> HIDE DEF ends
  <2> QED BY <1>5, <2>1
<1> HIDE DEF ends
<1>8. Max(ends) \in ends /\ \A x \in ends : x <= Max(ends)
  BY <1>5, <1>6, <1>7, MaxIs
<1>9. hold(w) \in ends
  BY <1>4, <1>6, <1>8
<1> QED BY <1>1, <1>7, <1>9

LEMMA ToSetConcat ==
  ASSUME NEW s \in Seq(Nat), NEW t \in Seq(Nat)
  PROVE  ToSet(s \o t) = ToSet(s) \cup ToSet(t)
<1>1. \A u : Range(u) = ToSet(u)
  BY DEF Range, ToSet
<1> QED BY <1>1, RangeConcatenation

AllSent(d) ==
  \/ d = Kept
  \/ /\ strips /\ hold(WholeText) > 0 /\ Rest(WholeText) # <<>>
     /\ Len(d) = Len(Kept) /\ ToSet(d) = ToSet(Kept)

LEMMA SplitsBegun ==
  ASSUME NEW f, NEW u, NEW v, Splits(f, u, v),
         NEW t \in Seq(Places), t # <<>> => Begun(t)
  PROVE  Splits(f \o t, u, v \o t)
<1>1. /\ u \in Seq(Places) /\ v \in Seq(Places) /\ f = u \o v
      /\ Cutted(u) /\ NoBlank(v)
  BY DEF Splits
<1>2. v \o t \in Seq(Places)
  BY <1>1, ConcatProperties
<1>3. (u \o v) \o t = u \o (v \o t)
  BY <1>1, ConcatAssociative
<1>4. NoBlank(v \o t)
  <2>1. CASE t = <<>>
    <3>1. v \o t = v
      BY <1>1, <2>1, ConcatEmptySeq
    <3> QED BY <1>1, <3>1
  <2>2. CASE t # <<>>
    BY <1>1, <2>2, NoBlankBegun
  <2> QED BY <2>1, <2>2
<1> QED BY <1>1, <1>2, <1>3, <1>4 DEF Splits

LEMMA EndsWhole ==
  ASSUME stream \in Streams, openai, NEW f, NEW u, NEW v, Splits(f, u, v),
         NEW t \in Seq(Places), t # <<>> => strips /\ Begun(t),
         WholeText = f \o t
  PROVE  AllSent((Clean(u) \o t) \o v)
<1>1. /\ u \in Seq(Places) /\ v \in Seq(Places) /\ f = u \o v
      /\ Cutted(u) /\ NoBlank(v) /\ f \in Seq(Places)
  BY ConcatProperties DEF Splits
<1>2. /\ u \in Seq(Nat) /\ v \in Seq(Nat) /\ t \in Seq(Nat)
      /\ Clean(u) \in Seq(Nat)
  BY <1>1, BytesFacts, CleanType
<1>3. PICK c : c = Clean(u)
  OBVIOUS
<1>4. Splits(WholeText, u, v \o t)
  BY SplitsBegun
<1>5. PICK y : y = v \o t
  OBVIOUS
<1>6. /\ Ready(WholeText) \o Rest(WholeText) = c \o y
      /\ Len(y) >= 2 => Rest(WholeText) # <<>>
  <2>1. PICK w : w = WholeText
    OBVIOUS
  <2>2. Splits(w, u, y)
    BY <1>4, <1>5, <2>1
  <2>3. /\ Ready(w) \o Rest(w) = Clean(u) \o y
        /\ Len(y) >= 2 => Rest(w) # <<>>
    BY <2>2, SplitKept
  <2> QED BY <1>3, <2>1, <2>3
<1>7. Kept = c \o y
  BY <1>6 DEF Kept
<1>8. PICK d : d = (c \o t) \o v
  OBVIOUS
<1>9. CASE t = <<>>
  <2>1. c \o t = c /\ v \o t = v
    BY <1>2, <1>3, <1>9, ConcatEmptySeq
  <2> QED BY <1>3, <1>5, <1>7, <2>1 DEF AllSent
<1>10. CASE v = <<>>
  <2>1. PICK e : e = c \o t
    OBVIOUS
  <2>2. e \in Seq(Nat) /\ v \o t = t
    BY <1>2, <1>3, <1>10, <2>1, ConcatEmptySeq, ConcatProperties
  <2>3. e \o v = e
    BY <1>10, <2>2, ConcatEmptySeq
  <2> QED BY <1>3, <1>5, <1>7, <2>1, <2>2, <2>3 DEF AllSent
<1>11. CASE t # <<>> /\ v # <<>>
  <2>1. strips /\ Begun(t)
    BY <1>11
  <2>2. hold(WholeText) > 0
    BY <1>1, <1>11, <2>1, HoldsBegun
  <2>3. Len(t) \in Nat /\ Len(v) \in Nat /\ Len(t) > 0 /\ Len(v) > 0
    BY <1>2, <1>11, EmptySeq, LenProperties
  <2>4. Len(y) = Len(v) + Len(t) /\ y \in Seq(Nat)
    BY <1>2, <1>5, ConcatProperties
  <2>5. Rest(WholeText) # <<>>
    BY <1>6, <2>3, <2>4
  <2>6. PICK e : e = c \o t
    OBVIOUS
  <2>7. /\ e \in Seq(Nat) /\ Len(e) = Len(c) + Len(t) /\ Len(c) \in Nat
    BY <1>2, <1>3, <2>6, ConcatProperties, LenProperties
  <2>8. Len(d) = Len(e) + Len(v)
    BY <1>2, <1>8, <2>6, <2>7, ConcatProperties
  <2>9. Len(c \o y) = Len(c) + Len(y)
    BY <1>2, <1>3, <2>4, ConcatProperties
  <2>10. Len(d) = Len(c \o y)
    BY <2>3, <2>4, <2>7, <2>8, <2>9
  <2>11. ToSet(d) = ToSet(c \o y)
    <3>1. ToSet(e) = ToSet(c) \cup ToSet(t)
      BY <1>2, <1>3, <2>6, ToSetConcat
    <3>2. ToSet(d) = ToSet(e) \cup ToSet(v)
      BY <1>2, <1>8, <2>6, <2>7, ToSetConcat
    <3>3. ToSet(y) = ToSet(v) \cup ToSet(t)
      BY <1>2, <1>5, ToSetConcat
    <3>4. ToSet(c \o y) = ToSet(c) \cup ToSet(y)
      BY <1>2, <1>3, <2>4, ToSetConcat
    <3> QED BY <3>1, <3>2, <3>3, <3>4
  <2> QED BY <1>3, <1>7, <1>8, <2>1, <2>2, <2>5, <2>10, <2>11 DEF AllSent
<1> QED BY <1>9, <1>10, <1>11

-----------------------------------------------------------------------------
(* The filter's invariant: of the stripper's output, as far as a blank     *)
(* line goes, the client has all but the keepalives; the rest is held back.*)
FilterInv ==
  \E u, v : /\ Splits(forwarded, u, v) /\ delivered = Clean(u)
            /\ openaiPending = IF end = "broken" THEN <<>> ELSE v

OrderInv ==
  /\ PipelineStripInv
  /\ Begun(tagPrefixPending)
  /\ openai /\ end # "clean" => FilterInv
  /\ ~openai => delivered = forwarded /\ openaiPending = <<>>
  /\ end = "clean" => DeliveredInOrder

LEMMA FilterKept ==
  ASSUME UNCHANGED stream, NEW u, NEW v, Splits(forwarded', u, v),
         delivered' = Clean(u),
         openaiPending' = IF end' = "broken" THEN <<>> ELSE v
  PROVE  FilterInv'
<1>1. Splits(forwarded, u, v)'
  BY DEF Splits, Cutted, NoBlank, Blank, Places
<1>2. Clean(u)' = Clean(u)
  BY DEF Clean, Bytes
<1> QED BY <1>1, <1>2 DEF FilterInv

LEMMA TextKept ==
  ASSUME UNCHANGED <<stream, mode>>
  PROVE  /\ WholeText' = WholeText /\ Kept' = Kept
         /\ hold(WholeText)' = hold(WholeText)
         /\ Rest(WholeText)' = Rest(WholeText)
         /\ OneSpan' <=> OneSpan
         /\ strips' <=> strips
         /\ openai' <=> openai
<1>1. (strips' <=> strips) /\ (openai' <=> openai)
  BY DEF strips, openai
<1>2. WholeText' = WholeText
  BY <1>1, StreamKept DEF WholeText
<1>3. hold(WholeText)' = hold(WholeText)
  BY <1>2 DEF hold
<1>4. Rest(WholeText)' = Rest(WholeText)
  BY <1>2 DEF Rest, Bytes
<1>5. Kept' = Kept
  <2>1. Ready(WholeText)' = Ready(WholeText)
    BY <1>2 DEF Ready, Clean, Bytes
  <2> QED BY <1>1, <1>2, <1>4, <2>1 DEF Kept
<1>6. OneSpan' <=> OneSpan
  BY DEF OneSpan, TagAt
<1> QED BY <1>1, <1>2, <1>3, <1>4, <1>5, <1>6

LEMMA BegunKept ==
  ASSUME UNCHANGED stream, Begun(tagPrefixPending')
  PROVE  Begun(tagPrefixPending)'
BY DEF Begun

LEMMA BegunEmpty == Begun(<<>>)
BY TagFacts DEF Begun

(* What a chunk adds to the stripper's output.                             *)
LEMMA StrippedAdds ==
  ASSUME PipelineStripInv, Begun(tagPrefixPending),
         NEW n \in 1..Len(stream), Stripped(n)
  PROVE  /\ \E t \in Seq(Places) : forwarded' = forwarded \o t
         /\ Begun(tagPrefixPending')
         /\ end = "open" /\ UNCHANGED <<stream, end>>
<1>1. /\ stream \in Streams /\ fed \in Nat /\ Len(stream) \in Nat
      /\ fed \in 0..Len(stream)
      /\ insideThinkTag \in BOOLEAN
  BY StreamFacts DEF PipelineStripInv, StripInv
<1>2. CASE ~strips
  <2>1. PICK b \in Nat : b = fed + n /\ b \in 0..Len(stream) /\ fed <= b
    BY <1>1, <1>2 DEF Stripped
  <2>2. /\ end = "open" /\ forwarded' = forwarded \o Run(fed, b)
        /\ UNCHANGED <<stream, end, tagPrefixPending>>
    BY <1>2, <2>1 DEF Stripped
  <2>3. Run(fed, b) \in Seq(Places)
    <3>1. Run(fed, b) \in Seq((fed + 1)..b)
      BY <1>1, <2>1, RunFacts
    <3>2. (fed + 1)..b \subseteq Places
      BY <1>1, <2>1 DEF Places
    <3> QED BY <3>1, <3>2, SeqMonotonic
  <2> QED BY <2>2, <2>3
<1>3. CASE strips
  <2>1. PICK a \in 0..fed : Withheld(a)
    BY DEF PipelineStripInv, StripInv
  <2>2. Process(n)
    BY <1>3 DEF Stripped
  <2>3. PICK b \in Nat :
          /\ fed <= b /\ b <= Len(stream) /\ a < b /\ fed' = b
          /\ end = "open" /\ UNCHANGED <<stream, end>>
          /\ Strips(a, b) \/ \E h : PassesThrough(a, b, h)
    BY <1>1, <2>1, <2>2, ProcessIs
  <2>4. a \in Nat /\ a <= b /\ b \in 0..Len(stream)
    BY <1>1, <2>1, <2>3
  <2>5. (a + 1)..b \subseteq Places
    BY <1>1, <2>4 DEF Places
  <2>6. CASE Strips(a, b)
    <3>1. PICK scan : scan = Scan(Run(a, b), insideThinkTag)
      OBVIOUS
    <3>2. insideThinkTag => OpenAfter(a, b, a + 1)
      <4>1. insideThinkTag => OpenAfter(a, fed, a + 1)
        BY <2>1 DEF Withheld
      <4> QED BY <1>1, <2>3, <4>1, TagFacts DEF OpenAfter
    <3>3. scan.out \in Seq((a + 1)..b)
      BY <1>1, <2>3, <2>4, <3>1, <3>2, ScanDrops
    <3>4. scan.out \in Seq(Places)
      BY <2>5, <3>3, SeqMonotonic
    <3>5. tagPrefixPending' = <<>> /\ forwarded' = forwarded \o scan.out
      BY <2>6, <3>1 DEF Strips
    <3> QED BY <2>3, <3>4, <3>5, BegunEmpty
  <2>7. ASSUME NEW h, PassesThrough(a, b, h)
        PROVE  /\ \E t \in Seq(Places) : forwarded' = forwarded \o t
               /\ Begun(tagPrefixPending')
    <3>1. /\ h \in 0..(b - a) /\ h < Len(OpenTag) /\ Begins(b, h)
          /\ tagPrefixPending' = Run(b - h, b)
          /\ forwarded' = forwarded \o Run(a, b - h)
      BY <2>7 DEF PassesThrough, Held
    <3>2. PICK c \in Nat : c = b - h /\ c \in 0..b /\ a <= c /\ b - c = h
                           /\ h \in Nat
      BY <2>4, <3>1
    <3>3. Run(a, c) \in Seq(Places)
      <4>1. Run(a, c) \in Seq((a + 1)..c)
        BY <2>4, <3>2, RunFacts
      <4>2. (a + 1)..c \subseteq Places
        BY <2>4, <2>5, <3>2
      <4> QED BY <4>1, <4>2, SeqMonotonic
    <3>4. /\ Len(Run(c, b)) = h
          /\ \A k \in 1..h : Run(c, b)[k] = c + k
      <4>1. c <= b
        BY <3>2
      <4>2. /\ Len(Run(c, b)) = b - c
            /\ \A k \in 1..(b - c) : Run(c, b)[k] = c + k
        BY <4>1, RunFacts
      <4> QED BY <3>2, <4>2
    <3>5. Begun(Run(c, b))
      <4>1. \A k \in 1..h : stream[c + k] = OpenTag[k]
        BY <3>1, <3>2 DEF Begins
      <4> QED BY <3>1, <3>4, <4>1 DEF Begun
    <3> QED BY <3>1, <3>2, <3>3, <3>5
  <2> QED BY <2>3, <2>6, <2>7
<1> QED BY <1>2, <1>3

LEMMA FromConcat ==
  ASSUME NEW S, NEW f \in Seq(S), NEW t \in Seq(S)
  PROVE  From(f \o t, Len(f) + 1) = t
<1>1. PICK w, m : w = f \o t /\ m = Len(f)
  OBVIOUS
<1>2. w \in Seq(S) /\ Len(w) = m + Len(t) /\ m \in Nat /\ Len(t) \in Nat
  BY <1>1, ConcatAt
<1>3. m \in 0..Len(w)
  BY <1>2
<1>4. PICK x, y : x = SubSeq(w, 1, m) /\ y = SubSeq(w, m + 1, Len(w))
  OBVIOUS
<1>5. x \in Seq(S) /\ y \in Seq(S) /\ x \o y = w /\ Len(x) = m
  BY <1>2, <1>3, <1>4, SplitAt
<1>6. y = t
  <2>1. f \o t = x \o y /\ Len(f) = Len(x)
    BY <1>1, <1>5
  <2> QED BY <1>5, <2>1, SplitOnce
<1> QED BY <1>1, <1>4, <1>6 DEF From

-----------------------------------------------------------------------------
LEMMA OutPlaces ==
  ASSUME PipelineStripInv
  PROVE  /\ stream \in Streams /\ forwarded \in Seq(Places)
         /\ tagPrefixPending \in Seq(Places)
<1>1. /\ stream \in Streams /\ fed \in Nat /\ Len(stream) \in Nat
      /\ fed \in 0..Len(stream) /\ forwarded \in Seq(1..fed)
  BY StreamFacts DEF PipelineStripInv, StripInv
<1>2. PICK a \in 0..fed : Withheld(a)
  BY DEF PipelineStripInv, StripInv
<1>3. 1..fed \subseteq Places /\ (a + 1)..fed \subseteq Places
  BY <1>1, <1>2 DEF Places
<1>4. Run(a, fed) \in Seq(Places)
  <2>1. Run(a, fed) \in Seq((a + 1)..fed)
    BY <1>1, <1>2, RunFacts
  <2> QED BY <1>3, <2>1, SeqMonotonic
<1>5. <<>> \in Seq(Places)
  OBVIOUS
<1> QED BY <1>1, <1>2, <1>3, <1>4, <1>5, SeqMonotonic DEF Withheld

OutBegins ==
  OneSpan \/ ~strips =>
    /\ IsPrefix(forwarded, WholeText)
    /\ end = "clean" => forwarded = WholeText

LEMMA OutDoesBegin == PipelineStripInv => OutBegins
BY OutIsPrefix DEF OutBegins

LEMMA OrderInit == PipelineInit => OrderInv
<1> SUFFICES ASSUME PipelineInit PROVE OrderInv
  OBVIOUS
<1>1. /\ PipelineStripInv /\ forwarded = <<>> /\ tagPrefixPending = <<>>
      /\ delivered = <<>> /\ openaiPending = <<>> /\ end = "open"
  BY PipelineStripInit DEF PipelineInit, Init
<1>2. FilterInv
  <2>1. Splits(<<>>, <<>>, <<>>)
    <3>1. <<>> \in Seq(Places) /\ <<>> = <<>> \o <<>> /\ Len(<<>>) = 0
      OBVIOUS
    <3> QED BY <3>1 DEF Splits, Cutted, NoBlank
  <2>2. Splits(forwarded, <<>>, <<>>)
    BY <1>1, <2>1
  <2> QED BY <1>1, <2>2, CleanEmpty DEF FilterInv
<1> QED BY <1>1, <1>2, BegunEmpty DEF OrderInv

LEMMA OrderChunk ==
  ASSUME OrderInv, NEW n \in 1..Len(stream), ReadChunk(n),
         PipelineStripInv'
  PROVE  OrderInv'
<1>1. /\ stream \in Streams /\ forwarded \in Seq(Places) /\ Stripped(n)
      /\ UNCHANGED mode
  BY OutPlaces DEF OrderInv, ReadChunk
<1>2. /\ Begun(tagPrefixPending')
      /\ end = "open" /\ UNCHANGED <<stream, end>>
  BY <1>1, StrippedAdds DEF OrderInv
<1>3. PICK t \in Seq(Places) : forwarded' = forwarded \o t
  BY <1>1, StrippedAdds DEF OrderInv
<1>4. From(forwarded', Len(forwarded) + 1) = t
  BY <1>1, <1>3, FromConcat
<1>5. Begun(tagPrefixPending)'
  BY <1>2, BegunKept
<1>6. openai' <=> openai
  BY <1>1 DEF openai
<1>7. CASE openai
  <2>1. PICK u, v : /\ Splits(forwarded, u, v) /\ delivered = Clean(u)
                    /\ openaiPending = v
    BY <1>2, <1>7 DEF OrderInv, FilterInv
  <2>2. /\ openaiPending' = Rest(v \o t)
        /\ delivered' = delivered \o Ready(v \o t)
    BY <1>4, <1>7, <2>1 DEF ReadChunk
  <2>3. Onward(forwarded, u, v, t)
    BY <1>1, <2>1, GoesOn
  <2>4. PICK x, y, z :
              /\ Ready(v \o t) = Clean(x) /\ Rest(v \o t) = y
              /\ Splits(forwarded \o t, z, y)
              /\ Clean(z) = Clean(u) \o Clean(x)
    BY <2>3 DEF Onward
  <2>5. Splits(forwarded', z, y) /\ delivered' = Clean(z)
        /\ openaiPending' = y
    BY <1>3, <2>1, <2>2, <2>4
  <2>6. FilterInv'
    BY <1>2, <2>5, FilterKept
  <2> QED BY <1>2, <1>5, <1>6, <1>7, <2>6 DEF OrderInv
<1>8. CASE ~openai
  <2>1. delivered = forwarded /\ openaiPending = <<>>
    BY <1>8 DEF OrderInv
  <2>2. /\ openaiPending' = <<>>
        /\ delivered' = delivered \o (openaiPending \o t)
    BY <1>4, <1>8 DEF ReadChunk
  <2>3. <<>> \o t = t
    BY ConcatEmptySeq
  <2>4. delivered' = forwarded'
    BY <1>3, <2>1, <2>2, <2>3
  <2> QED BY <1>2, <1>5, <1>6, <1>8, <2>2, <2>4 DEF OrderInv
<1> QED BY <1>7, <1>8

LEMMA OrderStays ==
  ASSUME OrderInv, PipelineStripInv',
         UNCHANGED pipelineVars \/ HandleStreamError
  PROVE  OrderInv'
<1>1. UNCHANGED <<stream, mode, tagPrefixPending, forwarded, delivered>>
  BY DEF pipelineVars, lineVars, vars, HandleStreamError
<1>2. \/ UNCHANGED <<end, openaiPending>>
      \/ end = "open" /\ end' = "broken" /\ openaiPending' = <<>>
  BY DEF pipelineVars, lineVars, vars, HandleStreamError
<1>3. Begun(tagPrefixPending)'
  BY <1>1, BegunKept DEF OrderInv
<1>4. openai' <=> openai
  BY <1>1 DEF openai
<1>5. openai /\ end' # "clean" => FilterInv'
  <2> SUFFICES ASSUME openai, end' # "clean" PROVE FilterInv'
    OBVIOUS
  <2>1. end # "clean"
    BY <1>2
  <2>2. PICK u, v : /\ Splits(forwarded, u, v) /\ delivered = Clean(u)
                    /\ openaiPending = IF end = "broken" THEN <<>> ELSE v
    BY <2>1 DEF OrderInv, FilterInv
  <2>3. openaiPending' = IF end' = "broken" THEN <<>> ELSE v
    BY <1>2, <2>2
  <2>4. Splits(forwarded', u, v) /\ delivered' = Clean(u)
    BY <1>1, <2>2
  <2> QED BY <1>1, <2>3, <2>4, FilterKept
<1>6. ~openai => delivered' = forwarded' /\ openaiPending' = <<>>
  BY <1>1, <1>2 DEF OrderInv
<1>7. end' = "clean" => DeliveredInOrder'
  <2> SUFFICES ASSUME end' = "clean" PROVE DeliveredInOrder'
    OBVIOUS
  <2>1. end = "clean" /\ DeliveredInOrder
    BY <1>2 DEF OrderInv
  <2> QED BY <1>1, <2>1, TextKept DEF DeliveredInOrder
<1> QED BY <1>3, <1>4, <1>5, <1>6, <1>7 DEF OrderInv

LEMMA OrderEnd ==
  ASSUME OrderInv, PipelineStripInv', HandleCleanEnd
  PROVE  OrderInv'
<1>1. /\ stream \in Streams /\ forwarded \in Seq(Places)
      /\ tagPrefixPending \in Seq(Places)
      /\ PipelineStripInv /\ Begun(tagPrefixPending)
  BY OutPlaces DEF OrderInv
<1>2. /\ Flush /\ UNCHANGED <<stream, mode>> /\ end = "open"
  BY DEF HandleCleanEnd, Flush
<1>3. (openai' <=> openai) /\ (strips' <=> strips)
  BY <1>2 DEF openai, strips
<1>4. CASE end' = "unterminated"
  <2>1. UNCHANGED <<forwarded, tagPrefixPending>>
    BY <1>2, <1>4 DEF Flush
  <2>2. UNCHANGED <<delivered, openaiPending>>
    BY <1>4 DEF HandleCleanEnd
  <2>3. Begun(tagPrefixPending)'
    BY <1>1, <1>2, <2>1, BegunKept
  <2>4. openai => FilterInv'
    <3> SUFFICES ASSUME openai PROVE FilterInv'
      OBVIOUS
    <3>1. PICK u, v : /\ Splits(forwarded, u, v) /\ delivered = Clean(u)
                      /\ openaiPending = v
      BY <1>2 DEF OrderInv, FilterInv
    <3>2. openaiPending' = IF end' = "broken" THEN <<>> ELSE v
      BY <1>4, <2>2, <3>1
    <3>3. Splits(forwarded', u, v) /\ delivered' = Clean(u)
      BY <2>1, <2>2, <3>1
    <3> QED BY <1>2, <3>2, <3>3, FilterKept
  <2>5. ~openai => delivered' = forwarded' /\ openaiPending' = <<>>
    BY <2>1, <2>2 DEF OrderInv
  <2> QED BY <1>3, <1>4, <2>3, <2>4, <2>5 DEF OrderInv
<1>5. CASE end' = "clean"
  <2>1. PICK t \in Seq(Places) : t = tagPrefixPending
    BY <1>1
  <2>2. forwarded' = forwarded \o t /\ tagPrefixPending' = <<>>
    BY <1>2, <1>5, <2>1 DEF Flush
  <2>3. From(forwarded', Len(forwarded) + 1) = t
    BY <1>1, <2>2, FromConcat
  <2>4. /\ delivered' = (delivered \o t) \o openaiPending
        /\ openaiPending' = <<>>
    BY <1>5, <2>3 DEF HandleCleanEnd
  <2>5. Begun(tagPrefixPending)'
    BY <1>2, <2>2, BegunEmpty, BegunKept
  <2>6. t # <<>> => strips /\ Begun(t)
    BY <1>1, <2>1 DEF PipelineStripInv, PassInv
  <2>7. ~openai => delivered' = forwarded'
    <3> SUFFICES ASSUME ~openai PROVE delivered' = forwarded'
      OBVIOUS
    <3>1. delivered = forwarded /\ openaiPending = <<>>
      BY DEF OrderInv
    <3>2. PICK w : w = forwarded \o t /\ w \in Seq(Places)
      BY <1>1, ConcatProperties
    <3>3. w \o <<>> = w
      BY <3>2, ConcatEmptySeq
    <3> QED BY <2>2, <2>4, <3>1, <3>2, <3>3
  <2>8. DeliveredInOrder'
    <3>1. /\ WholeText' = WholeText /\ Kept' = Kept
          /\ hold(WholeText)' = hold(WholeText)
          /\ Rest(WholeText)' = Rest(WholeText)
          /\ OneSpan' <=> OneSpan
      BY <1>2, TextKept
    <3>2. ASSUME OneSpan \/ ~strips PROVE AllSent(delivered')
      <4>1. forwarded' = WholeText
        <5>1. (PipelineStripInv => OutBegins)'
          BY OutDoesBegin, PTL
        <5>2. OutBegins'
          BY <5>1
        <5> QED BY <1>3, <1>5, <3>1, <3>2, <5>2 DEF OutBegins
      <4>2. CASE openai
        <5>1. PICK u, v : /\ Splits(forwarded, u, v) /\ delivered = Clean(u)
                          /\ openaiPending = v
          BY <1>2, <4>2 DEF OrderInv, FilterInv
        <5>2. AllSent((Clean(u) \o t) \o v)
          BY <1>1, <2>2, <2>6, <4>1, <4>2, <5>1, EndsWhole
        <5> QED BY <2>4, <5>1, <5>2
      <4>3. CASE ~openai
        <5>1. delivered' = Kept
          BY <2>7, <4>1, <4>3 DEF Kept
        <5> QED BY <5>1 DEF AllSent
      <4> QED BY <4>2, <4>3
    <3>3. IsPrefix(Kept, Kept)
      BY DEF IsPrefix
    <3> QED BY <1>3, <1>5, <3>1, <3>2, <3>3 DEF DeliveredInOrder, AllSent
  <2> QED BY <1>3, <1>5, <2>4, <2>5, <2>7, <2>8 DEF OrderInv
<1>6. end' \in {"clean", "unterminated"}
  BY <1>2 DEF Flush
<1> QED BY <1>4, <1>5, <1>6

LEMMA OrderNext ==
  OrderInv /\ [PipelineNext]_pipelineVars => OrderInv'
<1> SUFFICES ASSUME OrderInv, [PipelineNext]_pipelineVars PROVE OrderInv'
  OBVIOUS
<1>1. PipelineStripInv'
  BY PipelineStripNext DEF OrderInv
<1> QED BY <1>1, OrderChunk, OrderStays, OrderEnd DEF PipelineNext

LEMMA OrderImplies == OrderInv => DeliveredInOrder
<1> SUFFICES ASSUME OrderInv, end # "clean", OneSpan \/ ~strips
             PROVE  IsPrefix(delivered, Kept)
  BY DEF OrderInv, DeliveredInOrder
<1>1. /\ stream \in Streams /\ forwarded \in Seq(Places)
      /\ WholeText \in Seq(Places) /\ IsPrefix(forwarded, WholeText)
  BY OutPlaces, OutIsPrefix, WholeFacts DEF OrderInv
<1>2. CASE ~openai
  BY <1>1, <1>2 DEF OrderInv, Kept
<1>3. CASE openai
  <2>1. PICK u, v : Splits(forwarded, u, v) /\ delivered = Clean(u)
    BY <1>3 DEF OrderInv, FilterInv
  <2>2. PICK t \in Seq(Places) : WholeText = forwarded \o t
    BY <1>1, PrefixSplits
  <2>3. IsPrefix(Clean(u), Ready(forwarded \o t) \o Rest(forwarded \o t))
    BY <1>1, <2>1, KeptBegins
  <2> QED BY <1>3, <2>1, <2>2, <2>3 DEF Kept
<1> QED BY <1>2, <1>3

(* However the bytes are cut into chunks, the client has at any time a     *)
(* beginning of the text it is to get, and all of it at a clean end; only  *)
(* what the filter and the stripper both held may then come in the other   *)
(* order (sse.go:298-333).                                                 *)
THEOREM DeliversInOrder == PipelineSpec => []DeliveredInOrder
BY OrderInit, OrderNext, OrderImplies, PTL DEF PipelineSpec

-----------------------------------------------------------------------------
(* The classifier cuts off every block that is finished.                   *)
Cuts(text, S) == [pos : 1..(Len(text) + 1), blocks : SUBSET Seq(S)]

BlankFrom(text, p) == {i \in BlankLines(text) : i >= p}

CutOff(text, s) ==
  LET ends == BlankFrom(text, s.pos)
  IN  IF ends = {} THEN s
      ELSE [pos    |-> Min(ends) + 2,
            blocks |-> s.blocks \cup {SubSeq(text, s.pos, Min(ends) - 1)}]

LEMMA BlankFromIs ==
  ASSUME NEW S, NEW text \in Seq(S), NEW p \in Nat, BlankFrom(text, p) # {}
  PROVE  /\ Min(BlankFrom(text, p)) \in 1..(Len(text) - 1)
         /\ Min(BlankFrom(text, p)) >= p
<1>1. Len(text) \in Nat
  BY LenProperties
<1>2. \A i \in BlankFrom(text, p) : i \in 1..(Len(text) - 1) /\ i >= p
  BY DEF BlankFrom, BlankLines
<1>3. BlankFrom(text, p) \subseteq Nat
  BY <1>1, <1>2
<1>4. Min(BlankFrom(text, p)) \in BlankFrom(text, p)
  BY <1>3, MinIs
<1> QED BY <1>2, <1>4

LEMMA CutOffIs ==
  ASSUME NEW S, NEW text \in Seq(S), NEW s \in Cuts(text, S)
  PROVE  /\ CutOff(text, s) \in Cuts(text, S)
         /\ BlankFrom(text, s.pos) = {} => CutOff(text, s) = s
         /\ BlankFrom(text, s.pos) # {} => CutOff(text, s).pos > s.pos
<1>1. /\ Len(text) \in Nat /\ \A i \in 1..Len(text) : text[i] \in S
      /\ s.pos \in 1..(Len(text) + 1) /\ s.blocks \in SUBSET Seq(S)
  BY LenProperties, ElementOfSeq DEF Cuts
<1>2. CASE BlankFrom(text, s.pos) = {}
  <2>1. CutOff(text, s) = s
    BY <1>2 DEF CutOff
  <2> QED BY <1>2, <2>1
<1>3. CASE BlankFrom(text, s.pos) # {}
  <2>1. PICK e : e = Min(BlankFrom(text, s.pos))
    OBVIOUS
  <2>2. e \in 1..(Len(text) - 1) /\ e >= s.pos
    BY <1>1, <1>3, <2>1, BlankFromIs
  <2>3. PICK b : b = SubSeq(text, s.pos, e - 1)
    OBVIOUS
  <2>4. b \in Seq(S)
    <3>1. /\ s.pos \in Int /\ e - 1 \in Int
          /\ \A i \in s.pos..(e - 1) : text[i] \in S
      BY <1>1, <2>2
    <3> QED BY <2>3, <3>1, SubSeqProperties
  <2>5. CutOff(text, s) = [pos |-> e + 2, blocks |-> s.blocks \cup {b}]
    BY <1>3, <2>1, <2>3 DEF CutOff
  <2>6. e + 2 \in 1..(Len(text) + 1) /\ e + 2 > s.pos
    BY <1>1, <2>2
  <2>7. s.blocks \cup {b} \in SUBSET Seq(S)
    BY <1>1, <2>4
  <2> QED BY <1>3, <2>5, <2>6, <2>7 DEF Cuts
<1> QED BY <1>2, <1>3

CutRun(f, text, S) ==
  /\ f \in [0..Len(text) -> Cuts(text, S)]
  /\ f[0] = [pos |-> 1, blocks |-> {}]
  /\ \A k \in 1..Len(text) : f[k] = CutOff(text, f[k - 1])

LEMMA CutLoop ==
  ASSUME NEW S, NEW text \in Seq(S)
  PROVE  \E f :
           /\ CutRun(f, text, S)
           /\ Blocks(text).blocks = f[Len(text)].blocks
           /\ Blocks(text).carry = From(text, f[Len(text)].pos)
<1> DEFINE n == Len(text)
           base == [pos |-> 1, blocks |-> {}]
           round(s) == CutOff(text, s)
           Loop(f) == f = [k \in 0..n |-> IF k = 0 THEN base
                                                   ELSE round(f[k - 1])]
           X == Cuts(text, S)
<1>1. n \in Nat
  BY LenProperties
<1>2. base \in X
  BY <1>1 DEF Cuts
<1>3. \A s \in X : round(s) \in X
  BY CutOffIs
<1>4. /\ Blocks(text).blocks = (CHOOSE f : Loop(f))[n].blocks
      /\ Blocks(text).carry = From(text, (CHOOSE f : Loop(f))[n].pos)
  BY DEF Blocks, CutOff, BlankFrom
<1> HIDE DEF n, round, base, X
<1>5. PICK step \in [(1..n) \X X -> X] :
        \A k \in 1..n, s \in X : step[<<k, s>>] = round(s)
  <2> DEFINE g == [ks \in (1..n) \X X |-> round(ks[2])]
  <2>1. g \in [(1..n) \X X -> X]
    BY <1>3
  <2>2. \A k \in 1..n, s \in X : g[<<k, s>>] = round(s)
    OBVIOUS
  <2> QED BY <2>1, <2>2
<1>6. PICK f \in [0..n -> X] :
        /\ f[0] = base
        /\ \A k \in 1..n : f[k] = step[<<k, f[k - 1]>>]
  <2>1. LoopRuns(n, X, base, step)
    BY <1>1, <1>2, LoopDefined
  <2> QED BY <2>1 DEF LoopRuns
<1>7. ASSUME NEW k \in 1..n PROVE f[k] = round(f[k - 1])
  <2>1. k - 1 \in 0..n /\ f[k - 1] \in X
    BY <1>1
  <2>2. f[k] = step[<<k, f[k - 1]>>]
    BY <1>6
  <2> QED BY <1>5, <2>1, <2>2
<1>8. Loop(f)
  <2>1. f = [k \in 0..n |-> f[k]]
    BY <1>6
  <2>2. \A k \in 0..n : f[k] = IF k = 0 THEN base ELSE round(f[k - 1])
    BY <1>1, <1>6, <1>7
  <2> QED BY <2>1, <2>2
<1>9. PICK g : /\ Loop(g) /\ Blocks(text).blocks = g[n].blocks
               /\ Blocks(text).carry = From(text, g[n].pos)
  <2> HIDE DEF Loop
  <2> QED BY <1>4, <1>8
<1>10. g[0] = base /\ \A k \in 1..n : g[k] = round(g[k - 1])
  <2>1. \A k \in 0..n : g[k] = IF k = 0 THEN base ELSE round(g[k - 1])
    <3>1. g = [k \in 0..n |-> IF k = 0 THEN base ELSE round(g[k - 1])]
      BY <1>9
    <3> QED BY <3>1
  <2>2. 0 \in 0..n /\ \A k \in 1..n : k \in 0..n /\ k # 0
    BY <1>1
  <2> QED BY <2>1, <2>2
<1>11. g \in [0..n -> X]
  <2> DEFINE T == {k \in 0..n : g[k] \in X}
  <2>1. 0 \in T
    BY <1>1, <1>2, <1>10
  <2>2. ASSUME NEW k \in 1..n, k - 1 \in T PROVE k \in T
    BY <1>1, <1>3, <1>10, <2>2
  <2>3. \A k \in 0..n : k \in T
    <3> HIDE DEF T
    <3> QED BY <1>1, <2>1, <2>2, BoundedInduct
  <2>4. g = [k \in 0..n |-> g[k]]
    BY <1>9
  <2> QED BY <2>3, <2>4
<1> QED BY <1>9, <1>10, <1>11 DEF n, round, base, X, CutRun

LEMMA CutsAll ==
  ASSUME NEW S, NEW text \in Seq(S), NEW f, CutRun(f, text, S)
  PROVE  /\ f[Len(text)].pos \in 1..(Len(text) + 1)
         /\ BlankFrom(text, f[Len(text)].pos) = {}
<1>1. /\ f \in [0..Len(text) -> Cuts(text, S)]
      /\ f[0] = [pos |-> 1, blocks |-> {}]
      /\ \A k \in 1..Len(text) : f[k] = CutOff(text, f[k - 1])
  BY DEF CutRun
<1>2. PICK n : n = Len(text) /\ n \in Nat
  BY LenProperties
<1> DEFINE T == {k \in 0..n : BlankFrom(text, f[k].pos) = {} \/ f[k].pos > k}
<1>3. 0 \in T
  BY <1>1, <1>2
<1>4. ASSUME NEW k \in 1..n, k - 1 \in T PROVE k \in T
  <2>1. PICK s : s = f[k - 1]
    OBVIOUS
  <2>2. /\ s \in Cuts(text, S) /\ f[k] = CutOff(text, s)
        /\ BlankFrom(text, s.pos) = {} \/ s.pos > k - 1
    BY <1>1, <1>2, <1>4, <2>1
  <2>3. /\ f[k] \in Cuts(text, S)
        /\ BlankFrom(text, s.pos) = {} => f[k] = s
        /\ BlankFrom(text, s.pos) # {} => f[k].pos > s.pos
    BY <2>2, CutOffIs
  <2>4. f[k].pos \in Nat /\ s.pos \in Nat
    BY <1>2, <2>2, <2>3 DEF Cuts
  <2> QED BY <2>2, <2>3, <2>4
<1>5. \A k \in 0..n : k \in T
  <2> HIDE DEF T
  <2> QED BY <1>2, <1>3, <1>4, BoundedInduct
<1>6. PICK p : p = f[n].pos
  OBVIOUS
<1>7. p \in 1..(n + 1) /\ (BlankFrom(text, p) = {} \/ p > n)
  <2>1. n \in 0..n /\ f[n] \in Cuts(text, S)
    BY <1>1, <1>2
  <2> QED BY <1>2, <1>5, <1>6, <2>1 DEF Cuts
<1>8. p > n => BlankFrom(text, p) = {}
  BY <1>2, <1>7 DEF BlankFrom, BlankLines
<1> QED BY <1>2, <1>6, <1>7, <1>8

LEMMA CarryIs ==
  ASSUME NEW S, NEW text \in Seq(S)
  PROVE  \E p \in 1..(Len(text) + 1) :
           Blocks(text).carry = From(text, p) /\ BlankFrom(text, p) = {}
<1>1. PICK f : /\ CutRun(f, text, S)
               /\ Blocks(text).carry = From(text, f[Len(text)].pos)
  BY CutLoop
<1> QED BY <1>1, CutsAll

Unfinished(c) == BlankLines(c) = {} /\ CR \notin ToSet(c)

LEMMA CarryUnfinished ==
  ASSUME NEW S, NEW text \in Seq(S), CR \notin S
  PROVE  Blocks(text).carry \in Seq(S) /\ Unfinished(Blocks(text).carry)
<1>1. PICK n, p, c : /\ n = Len(text) /\ n \in Nat /\ p \in 1..(n + 1)
                     /\ c = Blocks(text).carry /\ c = SubSeq(text, p, n)
                     /\ BlankFrom(text, p) = {}
  BY CarryIs, LenProperties DEF From
<1>2. \A i \in 1..n : text[i] \in S
  BY <1>1, ElementOfSeq
<1>3. /\ c \in Seq(S)
      /\ Len(c) = IF p <= n THEN n - p + 1 ELSE 0
      /\ \A i \in 1..(n - p + 1) : c[i] = text[p + i - 1]
  <2>1. p \in Int /\ n \in Int /\ \A i \in p..n : text[i] \in S
    BY <1>1, <1>2
  <2> QED BY <1>1, <2>1, SubSeqProperties
<1>4. \A i \in 1..(Len(c) - 1) : ~(c[i] = LF /\ c[i + 1] = LF)
  <2> SUFFICES ASSUME NEW i \in 1..(Len(c) - 1), c[i] = LF, c[i + 1] = LF
               PROVE  FALSE
    OBVIOUS
  <2>1. /\ i \in 1..(n - p + 1) /\ i + 1 \in 1..(n - p + 1)
        /\ p + (i + 1) - 1 = (p + i - 1) + 1
        /\ p + i - 1 \in 1..(n - 1) /\ p + i - 1 >= p
    BY <1>1, <1>3
  <2>2. text[p + i - 1] = LF /\ text[(p + i - 1) + 1] = LF
    BY <1>3, <2>1
  <2>3. p + i - 1 \in BlankFrom(text, p)
    BY <1>1, <2>1, <2>2 DEF BlankFrom, BlankLines
  <2> QED BY <1>1, <2>3
<1>5. BlankLines(c) = {}
  BY <1>4 DEF BlankLines
<1>6. CR \notin ToSet(c)
  BY <1>3, ElementOfSeq, LenProperties DEF ToSet
<1> QED BY <1>1, <1>3, <1>5, <1>6 DEF Unfinished

NoCR == (ToSet(stream) \cup {LF}) \ {CR}

LEMMA NormalizedType ==
  ASSUME stream \in Streams, NEW buf \in Seq(Places)
  PROVE  Normalized(Bytes(buf)) \in Seq(NoCR)
<1>1. PICK text, n : /\ text = Bytes(buf) /\ text \in Seq(ToSet(stream))
                     /\ n = Len(text) /\ n \in Nat
  BY BytesFacts, LenProperties
<1>2. DOMAIN text = 1..n /\ \A i \in 1..n : text[i] \in ToSet(stream)
  BY <1>1, LenProperties, ElementOfSeq
<1> DEFINE s == [i \in DOMAIN text |-> IF text[i] = CR THEN LF ELSE text[i]]
           K == {i \in DOMAIN text :
                   ~(text[i] = LF /\ i > 1 /\ text[i - 1] = CR)}
<1>3. \A i \in 1..n : (IF text[i] = CR THEN LF ELSE text[i]) \in NoCR
  <2>1. LF # CR
    BY DEF LF, CR
  <2> QED BY <1>2, <2>1 DEF NoCR
<1>4. s \in [1..n -> NoCR]
  BY <1>2, <1>3
<1>5. s \in Seq(NoCR)
  BY <1>1, <1>4
<1>6. Normalized(text) = Only(s, K)
  BY DEF Normalized
<1> HIDE DEF s, K
<1> QED BY <1>1, <1>5, <1>6, OnlyType

-----------------------------------------------------------------------------
(* What the order leaves open: the state after a clean end, and what the   *)
(* classifier keeps.                                                       *)
SettledInv ==
  end = "clean" => openaiPending = <<>> /\ delivered \in Seq(Places)

CarryInv == carry \in Seq(NoCR) /\ Unfinished(carry)

LEMMA UnfinishedEmpty == Unfinished(<<>>)
<1>1. Len(<<>>) = 0 /\ ToSet(<<>>) = {} /\ 1..(0 - 1) = {}
  BY DEF ToSet
<1> QED BY <1>1 DEF Unfinished, BlankLines

LEMMA AnalyzeKeeps ==
  ASSUME stream \in Streams, NEW buf \in Seq(Places), CarryInv, Analyze(buf),
         UNCHANGED stream
  PROVE  CarryInv'
<1>1. PICK text : text = carry \o Normalized(Bytes(buf))
  OBVIOUS
<1>2. text \in Seq(NoCR)
  BY <1>1, NormalizedType, ConcatProperties DEF CarryInv
<1>3. carry' = Blocks(text).carry
  BY <1>1 DEF Analyze
<1>4. CR \notin NoCR
  BY DEF NoCR
<1>5. carry' \in Seq(NoCR) /\ Unfinished(carry')
  BY <1>2, <1>3, <1>4, CarryUnfinished
<1> QED BY <1>5 DEF CarryInv, NoCR, Unfinished

LEMMA FlushKeeps ==
  ASSUME carry' = <<>>
  PROVE  CarryInv'
<1>1. <<>> \in Seq(NoCR')
  OBVIOUS
<1> QED BY <1>1, UnfinishedEmpty DEF CarryInv, Unfinished

(* What the filter has is a part of the stream.                            *)
LEMMA FilterPlaces ==
  ASSUME stream \in Streams, openai, FilterInv
  PROVE  openaiPending \in Seq(Places) /\ delivered \in Seq(Places)
<1>1. PICK u, v : /\ Splits(forwarded, u, v) /\ delivered = Clean(u)
                  /\ openaiPending = IF end = "broken" THEN <<>> ELSE v
  BY DEF FilterInv
<1>2. u \in Seq(Places) /\ v \in Seq(Places) /\ <<>> \in Seq(Places)
  BY <1>1 DEF Splits
<1> QED BY <1>1, <1>2, CleanType

LEMMA SentPlaces ==
  ASSUME OrderInv, NEW n \in 1..Len(stream), ReadChunk(n)
  PROVE  \E buf \in Seq(Places) :
           Analyze(buf) /\ delivered' = delivered \o buf
<1>1. /\ stream \in Streams /\ forwarded \in Seq(Places) /\ Stripped(n)
  BY OutPlaces DEF OrderInv, ReadChunk
<1>2. end = "open"
  BY <1>1, StrippedAdds DEF OrderInv
<1>3. PICK t \in Seq(Places) : forwarded' = forwarded \o t
  BY <1>1, StrippedAdds DEF OrderInv
<1>4. From(forwarded', Len(forwarded) + 1) = t
  BY <1>1, <1>3, FromConcat
<1>5. PICK out : out = openaiPending \o t
  OBVIOUS
<1>6. out \in Seq(Places)
  <2>1. CASE openai
    <3>1. openaiPending \in Seq(Places)
      BY <1>1, <1>2, <2>1, FilterPlaces DEF OrderInv
    <3> QED BY <1>5, <3>1, ConcatProperties
  <2>2. CASE ~openai
    <3>1. openaiPending = <<>>
      BY <2>2 DEF OrderInv
    <3> QED BY <1>5, <3>1, ConcatEmptySeq
  <2> QED BY <2>1, <2>2
<1>7. PICK sends : /\ sends = IF openai THEN Ready(out) ELSE out
                   /\ Analyze(sends) /\ delivered' = delivered \o sends
  BY <1>4, <1>5 DEF ReadChunk
<1>8. Ready(out) \in Seq(Places)
  <2>1. PICK x, y : Splits(out, x, y) /\ Ready(out) = Clean(x)
    BY <1>1, <1>6, ReadySplit
  <2> QED BY <1>1, <2>1, CleanType DEF Splits
<1> QED BY <1>6, <1>7, <1>8

LEMMA SettledEnd ==
  ASSUME OrderInv, HandleCleanEnd, end' = "clean"
  PROVE  openaiPending' = <<>> /\ delivered' \in Seq(Places)
<1>1. /\ stream \in Streams /\ forwarded \in Seq(Places)
      /\ tagPrefixPending \in Seq(Places) /\ Flush /\ end = "open"
  BY OutPlaces DEF OrderInv, HandleCleanEnd, Flush
<1>2. PICK t \in Seq(Places) : t = tagPrefixPending
  BY <1>1
<1>3. From(forwarded', Len(forwarded) + 1) = t
  <2>1. forwarded' = forwarded \o t
    BY <1>1, <1>2 DEF Flush
  <2> QED BY <1>1, <2>1, FromConcat
<1>4. /\ delivered' = (delivered \o t) \o openaiPending
      /\ openaiPending' = <<>>
  BY <1>3 DEF HandleCleanEnd
<1>5. delivered \in Seq(Places) /\ openaiPending \in Seq(Places)
  <2>1. CASE openai
    BY <1>1, <2>1, FilterPlaces DEF OrderInv
  <2>2. CASE ~openai
    BY <1>1, <2>2 DEF OrderInv
  <2> QED BY <2>1, <2>2
<1>6. delivered \o t \in Seq(Places)
  BY <1>5, ConcatProperties
<1> QED BY <1>4, <1>5, <1>6, ConcatProperties

TypeInv == OrderInv /\ SettledInv /\ CarryInv

LEMMA TypeInit == PipelineInit => TypeInv
<1> SUFFICES ASSUME PipelineInit PROVE TypeInv
  OBVIOUS
<1>1. carry = <<>> /\ end = "open" /\ OrderInv
  BY OrderInit DEF PipelineInit, Init
<1>2. <<>> \in Seq(NoCR)
  OBVIOUS
<1> QED BY <1>1, <1>2, UnfinishedEmpty DEF TypeInv, SettledInv, CarryInv

LEMMA TypeNext == TypeInv /\ [PipelineNext]_pipelineVars => TypeInv'
<1> SUFFICES ASSUME OrderInv, SettledInv, CarryInv,
                    [PipelineNext]_pipelineVars
             PROVE  TypeInv'
  BY DEF TypeInv
<1>1. OrderInv'
  BY OrderNext
<1>2. CASE UNCHANGED pipelineVars
  <2>1. UNCHANGED <<stream, end, openaiPending, delivered, carry>>
    BY <1>2 DEF pipelineVars, lineVars, vars
  <2>2. SettledInv'
    BY <2>1 DEF SettledInv, Places
  <2>3. CarryInv'
    BY <2>1 DEF CarryInv, NoCR, Unfinished
  <2> QED BY <1>1, <2>2, <2>3 DEF TypeInv
<1>3. CASE HandleStreamError
  <2>1. end' = "broken" /\ carry' = <<>>
    BY <1>3 DEF HandleStreamError, FlushCarry
  <2> QED BY <1>1, <2>1, FlushKeeps DEF TypeInv, SettledInv
<1>4. CASE HandleCleanEnd
  <2>1. carry' = <<>> /\ UNCHANGED stream
    BY <1>4 DEF HandleCleanEnd, FlushCarry, Flush
  <2>2. end' = "clean" =>
          openaiPending' = <<>> /\ delivered' \in Seq(Places)
    BY <1>4, SettledEnd
  <2>3. SettledInv'
    BY <2>1, <2>2 DEF SettledInv, Places
  <2> QED BY <1>1, <2>1, <2>3, FlushKeeps DEF TypeInv
<1>5. ASSUME NEW n \in 1..Len(stream), ReadChunk(n) PROVE TypeInv'
  <2>1. Stripped(n)
    BY <1>5 DEF ReadChunk
  <2>2. end = "open" /\ UNCHANGED <<stream, end>>
    BY <2>1, StrippedAdds DEF OrderInv
  <2>3. CarryInv'
    <3>1. PICK buf \in Seq(Places) : Analyze(buf)
      BY <1>5, SentPlaces
    <3>2. stream \in Streams
      BY OutPlaces DEF OrderInv
    <3> QED BY <2>2, <3>1, <3>2, AnalyzeKeeps
  <2> QED BY <1>1, <2>2, <2>3 DEF TypeInv, SettledInv
<1> QED BY <1>2, <1>3, <1>4, <1>5 DEF PipelineNext

(* The rest of a text begins somewhere in it.                              *)
IsEndOf(v, w) == \E n \in 0..Len(w) : v = From(w, n + 1)

LEMMA RestOf ==
  ASSUME NEW S, NEW u \in Seq(S), NEW v \in Seq(S), NEW w, w = u \o v
  PROVE  IsEndOf(v, w) /\ IsEndOf(<<>>, w)
<1>1. /\ w \in Seq(S) /\ Len(w) = Len(u) + Len(v)
      /\ Len(u) \in Nat /\ Len(v) \in Nat
  BY ConcatAt
<1>2. v = From(w, Len(u) + 1) /\ Len(u) \in 0..Len(w)
  BY <1>1, FromConcat
<1>3. w \o <<>> = w /\ <<>> \in Seq(S)
  BY <1>1, ConcatEmptySeq
<1>4. <<>> = From(w, Len(w) + 1) /\ Len(w) \in 0..Len(w)
  <2>1. From(w \o <<>>, Len(w) + 1) = <<>>
    BY <1>1, <1>3, FromConcat
  <2> QED BY <1>1, <1>3, <2>1
<1> QED BY <1>2, <1>4 DEF IsEndOf

LEMMA NoBlankReady ==
  ASSUME stream \in Streams, NEW v \in Seq(Places), NoBlank(v)
  PROVE  ReadyEnd(Bytes(v)) = 0
<1>1. EndsAt(v, ReadyEnd(Bytes(v)))
  BY EndOf
<1>2. EndsAt(v, 0)
  <2>1. Len(v) \in Nat
    BY LenProperties
  <2> QED BY <2>1 DEF EndsAt, NoBlank
<1> QED BY <1>1, <1>2, EndOnce

LEMMA TypeImplies == TypeInv => PipelineTypeOK
<1> SUFFICES ASSUME TypeInv PROVE PipelineTypeOK
  OBVIOUS
<1>1. /\ OrderInv /\ SettledInv /\ CarryInv /\ PipelineStripInv /\ StripInv
      /\ PassInv
  BY DEF TypeInv, OrderInv, PipelineStripInv
<1>2. /\ stream \in Streams /\ fed \in Nat /\ fed \in 0..Len(stream)
      /\ Len(stream) \in Nat /\ forwarded \in Seq(1..fed)
      /\ forwarded \in Seq(Places)
  BY <1>1, StreamFacts, OutPlaces DEF StripInv
<1>3. TypeOK
  BY <1>1, StripImplies
<1>4. ~strips => thinkBuf \o tagPrefixPending = <<>>
  BY <1>1 DEF PassInv
<1>5. BlankLines(carry) = {} /\ CR \notin ToSet(carry)
  BY <1>1 DEF CarryInv, Unfinished
<1>6. NoBlank(<<>>) /\ <<>> \in Seq(Places) /\ <<>> \in Seq(1..fed)
      /\ forwarded \o <<>> = forwarded
  BY <1>2, ConcatEmptySeq DEF NoBlank
<1>7. openaiPending = <<>> =>
        /\ \E n \in 0..Len(forwarded) : openaiPending = From(forwarded, n + 1)
        /\ ReadyEnd(Bytes(openaiPending)) = 0
  <2>1. IsEndOf(<<>>, forwarded)
    BY <1>2, <1>6, RestOf
  <2>2. ReadyEnd(Bytes(<<>>)) = 0
    BY <1>2, <1>6, NoBlankReady
  <2> QED BY <2>1, <2>2 DEF IsEndOf
<1>8. CASE openai /\ end # "clean"
  <2>1. PICK u, v : /\ Splits(forwarded, u, v) /\ delivered = Clean(u)
                    /\ openaiPending = IF end = "broken" THEN <<>> ELSE v
    BY <1>1, <1>8 DEF OrderInv, FilterInv
  <2>2. /\ u \in Seq(Places) /\ v \in Seq(Places) /\ forwarded = u \o v
        /\ NoBlank(v)
    BY <2>1 DEF Splits
  <2>3. IsEndOf(v, forwarded)
    BY <2>2, RestOf
  <2>4. ReadyEnd(Bytes(v)) = 0
    BY <1>2, <2>2, NoBlankReady
  <2>5. u \in Seq(1..fed)
    <3>1. PICK m, n : m = Len(u) /\ n = Len(v) /\ m \in Nat /\ n \in Nat
      BY <2>2, LenProperties
    <3>2. /\ Len(forwarded) = m + n
          /\ \A i \in 1..m : forwarded[i] = u[i]
      BY <2>2, <3>1, ConcatAt
    <3>3. \A i \in 1..m : u[i] \in 1..fed
      <4>1. \A i \in 1..m : i \in 1..Len(forwarded)
        BY <3>1, <3>2
      <4> QED BY <1>2, <3>2, <4>1, ElementOfSeq
    <3>4. u \in [1..m -> 1..fed]
      <4>1. u \in [1..m -> Places]
        BY <2>2, <3>1, LenProperties
      <4>2. u = [i \in 1..m |-> u[i]]
        BY <4>1
      <4> QED BY <3>3, <4>2
    <3> QED BY <3>1, <3>4, SeqDef
  <2>6. delivered \in Seq(1..fed)
    BY <1>2, <2>1, <2>5, CleanType
  <2> QED BY <1>3, <1>4, <1>5, <1>7, <2>1, <2>3, <2>4, <2>6
          DEF PipelineTypeOK, IsEndOf
<1>9. CASE ~openai /\ end # "clean"
  <2>1. openaiPending = <<>> /\ delivered \in Seq(1..fed)
    BY <1>1, <1>2, <1>9 DEF OrderInv
  <2> QED BY <1>3, <1>4, <1>5, <1>7, <2>1 DEF PipelineTypeOK
<1>10. CASE end = "clean"
  <2>1. openaiPending = <<>> /\ delivered \in Seq(Places)
    BY <1>1, <1>10 DEF SettledInv
  <2>2. fed = Len(stream)
    <3>1. PICK a \in 0..fed : end = "clean" => a = Len(stream)
      BY <1>1 DEF StripInv
    <3> QED BY <1>2, <1>10, <3>1
  <2>3. delivered \in Seq(1..fed)
    BY <2>1, <2>2 DEF Places
  <2> QED BY <1>3, <1>4, <1>5, <1>7, <2>1, <2>3 DEF PipelineTypeOK
<1> QED BY <1>8, <1>9, <1>10

(* At any time each byte that has arrived is in one place, the filter keeps*)
(* an unfinished event only and the classifier an unfinished block         *)
(* (sseparse.go:38-80, sse.go:262-333).                                    *)
THEOREM PipelineTypeCorrect == PipelineSpec => []PipelineTypeOK
BY TypeInit, TypeNext, TypeImplies, PTL DEF PipelineSpec

-----------------------------------------------------------------------------
(* The blocks of a text are its first one and those of the rest.           *)
LEMMA FromIs ==
  ASSUME NEW S, NEW T \in Seq(S), NEW d \in 0..Len(T)
  PROVE  /\ From(T, d + 1) \in Seq(S) /\ Len(From(T, d + 1)) = Len(T) - d
         /\ \A i \in 1..(Len(T) - d) : From(T, d + 1)[i] = T[d + i]
<1>1. Len(T) \in Nat /\ \A i \in 1..Len(T) : T[i] \in S
  BY LenProperties, ElementOfSeq
<1>2. PICK m, n : m = d + 1 /\ n = Len(T) /\ m \in Int /\ n \in Int
  BY <1>1
<1>3. \A i \in m..n : T[i] \in S
  BY <1>1, <1>2
<1>4. /\ SubSeq(T, m, n) \in Seq(S)
      /\ Len(SubSeq(T, m, n)) = IF m <= n THEN n - m + 1 ELSE 0
      /\ \A i \in 1..(n - m + 1) : SubSeq(T, m, n)[i] = T[m + i - 1]
  BY <1>2, <1>3, SubSeqProperties
<1>5. n - m + 1 = Len(T) - d /\ \A i \in 1..(Len(T) - d) : m + i - 1 = d + i
  BY <1>1, <1>2
<1>6. From(T, d + 1) = SubSeq(T, m, n)
  BY <1>2 DEF From
<1>7. (IF m <= n THEN n - m + 1 ELSE 0) = Len(T) - d
  BY <1>1, <1>2
<1> QED BY <1>4, <1>5, <1>6, <1>7

(* A piece of the rest of a text is a piece of the text.                   *)
LEMMA PartOfRest ==
  ASSUME NEW S, NEW T \in Seq(S), NEW d \in 0..Len(T),
         NEW p \in Nat \ {0}, NEW q \in 0..(Len(T) - d)
  PROVE  SubSeq(From(T, d + 1), p, q) = SubSeq(T, p + d, q + d)
<1>1. PICK r : r = From(T, d + 1)
  OBVIOUS
<1>2. /\ r \in Seq(S) /\ Len(r) = Len(T) - d /\ Len(T) \in Nat
      /\ \A i \in 1..(Len(T) - d) : r[i] = T[d + i]
  BY <1>1, FromIs, LenProperties
<1>3. CASE p > q
  <2>1. p \in Int /\ q \in Int /\ p + d \in Int /\ q + d \in Int
        /\ p + d > q + d
    BY <1>2, <1>3
  <2> QED BY <1>1, <1>3, <2>1, SubSeqEmpty
<1>4. CASE p <= q
  <2>1. PICK a, b : a = p + d /\ b = q + d
    OBVIOUS
  <2>2. /\ a \in Int /\ b \in Int /\ a <= b /\ b - a + 1 = q - p + 1
        /\ p \in Int /\ q \in Int /\ a >= 1 /\ b <= Len(T)
    BY <1>2, <1>4, <2>1
  <2>3. (\A i \in p..q : r[i] \in S) /\ (\A i \in a..b : T[i] \in S)
    <3>1. \A i \in p..q : i \in 1..Len(r)
      BY <1>2
    <3>2. \A i \in a..b : i \in 1..Len(T)
      BY <1>2, <2>2
    <3> QED BY <1>2, <3>1, <3>2, ElementOfSeq
  <2>4. /\ SubSeq(r, p, q) \in Seq(S) /\ Len(SubSeq(r, p, q)) = q - p + 1
        /\ \A i \in 1..(q - p + 1) : SubSeq(r, p, q)[i] = r[p + i - 1]
    BY <1>4, <2>2, <2>3, SubSeqProperties
  <2>5. /\ SubSeq(T, a, b) \in Seq(S) /\ Len(SubSeq(T, a, b)) = q - p + 1
        /\ \A i \in 1..(b - a + 1) : SubSeq(T, a, b)[i] = T[a + i - 1]
    BY <2>2, <2>3, SubSeqProperties
  <2>6. ASSUME NEW i \in 1..(q - p + 1)
        PROVE  SubSeq(r, p, q)[i] = SubSeq(T, a, b)[i]
    <3>1. /\ p + i - 1 \in 1..(Len(T) - d) /\ d + (p + i - 1) = a + i - 1
          /\ i \in 1..(b - a + 1)
      BY <1>2, <2>1, <2>2
    <3>2. r[p + i - 1] = T[d + (p + i - 1)]
      BY <1>2, <3>1
    <3> QED BY <2>4, <2>5, <3>1, <3>2
  <2>7. SubSeq(r, p, q) = SubSeq(T, a, b)
    BY <2>4, <2>5, <2>6, SameSeq
  <2> QED BY <1>1, <2>1, <2>7
<1> QED BY <1>3, <1>4

(* The blank lines of the rest of a text are those of the text behind it.  *)
LEMMA BlankMoved ==
  ASSUME NEW S, NEW T \in Seq(S), NEW d \in 0..Len(T), NEW p \in Nat \ {0}
  PROVE  /\ \A i \in BlankFrom(From(T, d + 1), p) :
              i + d \in BlankFrom(T, p + d)
         /\ \A j \in BlankFrom(T, p + d) :
              j - d \in BlankFrom(From(T, d + 1), p)
<1>1. PICK r : r = From(T, d + 1)
  OBVIOUS
<1>2. /\ r \in Seq(S) /\ Len(r) = Len(T) - d /\ Len(T) \in Nat
      /\ \A i \in 1..(Len(T) - d) : r[i] = T[d + i]
  BY <1>1, FromIs, LenProperties
<1>3. ASSUME NEW i \in BlankFrom(r, p) PROVE i + d \in BlankFrom(T, p + d)
  <2>1. /\ i \in 1..(Len(r) - 1) /\ r[i] = LF /\ r[i + 1] = LF /\ i >= p
    BY <1>3 DEF BlankFrom, BlankLines
  <2>2. /\ i \in 1..(Len(T) - d) /\ i + 1 \in 1..(Len(T) - d)
        /\ d + i = i + d /\ d + (i + 1) = (i + d) + 1
        /\ i + d \in 1..(Len(T) - 1) /\ i + d >= p + d
    BY <1>2, <2>1
  <2>3. T[i + d] = LF /\ T[(i + d) + 1] = LF
    BY <1>2, <2>1, <2>2
  <2> QED BY <2>2, <2>3 DEF BlankFrom, BlankLines
<1>4. ASSUME NEW j \in BlankFrom(T, p + d) PROVE j - d \in BlankFrom(r, p)
  <2>1. /\ j \in 1..(Len(T) - 1) /\ T[j] = LF /\ T[j + 1] = LF /\ j >= p + d
    BY <1>4 DEF BlankFrom, BlankLines
  <2>2. PICK i : i = j - d
    OBVIOUS
  <2>3. /\ i \in 1..(Len(T) - d) /\ i + 1 \in 1..(Len(T) - d)
        /\ d + i = j /\ d + (i + 1) = j + 1
        /\ i \in 1..(Len(r) - 1) /\ i >= p
    BY <1>2, <2>1, <2>2
  <2>4. r[i] = LF /\ r[i + 1] = LF
    BY <1>2, <2>1, <2>3
  <2> QED BY <2>2, <2>3, <2>4 DEF BlankFrom, BlankLines
<1> QED BY <1>1, <1>3, <1>4

Moved(s, d, b) == [pos |-> s.pos + d, blocks |-> s.blocks \cup {b}]

(* Cutting blocks off the rest is cutting them off the text, further on.   *)
LEMMA CutMoved ==
  ASSUME NEW S, NEW T \in Seq(S), NEW d \in 0..Len(T),
         NEW s \in Cuts(From(T, d + 1), S), NEW b
  PROVE  CutOff(T, Moved(s, d, b)) = Moved(CutOff(From(T, d + 1), s), d, b)
<1>1. PICK r : r = From(T, d + 1)
  OBVIOUS
<1>2. r \in Seq(S) /\ Len(r) = Len(T) - d /\ Len(T) \in Nat
  BY <1>1, FromIs, LenProperties
<1>3. PICK p : p = s.pos
  OBVIOUS
<1>4. p \in 1..(Len(r) + 1) /\ p \in Nat \ {0}
  BY <1>1, <1>2, <1>3 DEF Cuts
<1>5. PICK t : t = Moved(s, d, b)
  OBVIOUS
<1>6. t.pos = p + d /\ t.blocks = s.blocks \cup {b}
  BY <1>3, <1>5 DEF Moved
<1>7. /\ \A i \in BlankFrom(r, p) : i + d \in BlankFrom(T, p + d)
      /\ \A j \in BlankFrom(T, p + d) : j - d \in BlankFrom(r, p)
  BY <1>1, <1>4, BlankMoved
<1>8. CASE BlankFrom(r, p) = {}
  <2>1. BlankFrom(T, t.pos) = {}
    BY <1>6, <1>7, <1>8
  <2> QED BY <1>1, <1>3, <1>5, <1>8, <2>1 DEF CutOff
<1>9. CASE BlankFrom(r, p) # {}
  <2>1. BlankFrom(T, p + d) # {}
    BY <1>7, <1>9
  <2>2. /\ BlankFrom(r, p) \subseteq Nat /\ BlankFrom(T, p + d) \subseteq Nat
    BY <1>2 DEF BlankFrom, BlankLines
  <2>3. PICK e, f : e = Min(BlankFrom(r, p)) /\ f = Min(BlankFrom(T, p + d))
    OBVIOUS
  <2>4. /\ e \in BlankFrom(r, p) /\ \A x \in BlankFrom(r, p) : e <= x
        /\ f \in BlankFrom(T, p + d) /\ \A x \in BlankFrom(T, p + d) : f <= x
    BY <1>9, <2>1, <2>2, <2>3, MinIs
  <2>5. f = e + d /\ e \in 1..(Len(r) - 1) /\ e >= p
    <3>1. f <= e + d /\ e <= f - d
      BY <1>7, <2>4
    <3>2. e \in 1..(Len(r) - 1) /\ e >= p /\ f \in Nat
      BY <2>2, <2>4 DEF BlankFrom, BlankLines
    <3> QED BY <3>1, <3>2
  <2>6. SubSeq(r, p, e - 1) = SubSeq(T, p + d, f - 1)
    <3>1. e - 1 \in 0..(Len(T) - d) /\ (e - 1) + d = f - 1
      BY <1>2, <2>5
    <3>2. SubSeq(r, p, e - 1) = SubSeq(T, p + d, (e - 1) + d)
      BY <1>1, <1>4, <3>1, PartOfRest
    <3> QED BY <3>1, <3>2
  <2>7. CutOff(r, s) = [pos |-> e + 2,
                        blocks |-> s.blocks \cup {SubSeq(r, p, e - 1)}]
    BY <1>3, <1>9, <2>3 DEF CutOff
  <2>8. CutOff(T, t) = [pos |-> f + 2,
                        blocks |-> t.blocks \cup {SubSeq(T, p + d, f - 1)}]
    BY <1>6, <2>1, <2>3 DEF CutOff
  <2>9. f + 2 = (e + 2) + d
    BY <2>5
  <2>10. PICK c : c = SubSeq(r, p, e - 1)
    OBVIOUS
  <2>11. (s.blocks \cup {b}) \cup {c} = (s.blocks \cup {c}) \cup {b}
    OBVIOUS
  <2>12. CutOff(T, t) = [pos |-> (e + 2) + d,
                         blocks |-> (s.blocks \cup {c}) \cup {b}]
    BY <1>6, <2>6, <2>8, <2>9, <2>10, <2>11
  <2>13. PICK x : /\ x = CutOff(r, s) /\ x.pos = e + 2
                  /\ x.blocks = s.blocks \cup {c}
    BY <2>7, <2>10
  <2>14. Moved(x, d, b) = [pos |-> (e + 2) + d,
                           blocks |-> (s.blocks \cup {c}) \cup {b}]
    BY <2>13 DEF Moved
  <2> QED BY <1>1, <1>5, <2>12, <2>13, <2>14
<1> QED BY <1>8, <1>9

(* The first block ends at the first blank line; the others, and what is   *)
(* not finished, are those of the text behind that line.                   *)
LEMMA BlocksCut ==
  ASSUME NEW S, NEW T \in Seq(S), BlankLines(T) # {},
         NEW e, e = Min(BlankLines(T))
  PROVE  /\ e + 1 \in 0..Len(T)
         /\ Blocks(T).blocks = {SubSeq(T, 1, e - 1)}
                                 \cup Blocks(From(T, e + 2)).blocks
         /\ Blocks(T).carry = Blocks(From(T, e + 2)).carry
<1>1. PICK n, d : n = Len(T) /\ d = e + 1 /\ n \in Nat
  BY LenProperties
<1>2. BlankFrom(T, 1) = BlankLines(T)
  BY <1>1 DEF BlankFrom, BlankLines
<1>3. e \in 1..(n - 1) /\ d \in 0..n /\ e + 2 = d + 1
  <2>1. e \in 1..(n - 1)
    BY <1>1, <1>2, BlankFromIs
  <2> QED BY <1>1, <2>1
<1>4. PICK r, m : r = From(T, d + 1) /\ m = Len(r)
  OBVIOUS
<1>5. r \in Seq(S) /\ m = n - d /\ m \in Nat /\ m + 1 \in 0..n /\ 1 \in 1..n
  <2>1. r \in Seq(S) /\ m = n - d
    BY <1>1, <1>3, <1>4, FromIs
  <2>2. e \in Int /\ n \in Int /\ d \in Int /\ 1 <= e /\ e <= n - 1 /\ d <= n
        /\ d = e + 1
    BY <1>1, <1>3
  <2>3. m \in Nat /\ m + 1 \in 0..n /\ 1 \in 1..n
    BY <2>1, <2>2
  <2> QED BY <2>1, <2>3
<1>6. PICK b : b = SubSeq(T, 1, e - 1)
  OBVIOUS
<1>7. PICK f : /\ CutRun(f, T, S) /\ Blocks(T).blocks = f[n].blocks
               /\ Blocks(T).carry = From(T, f[n].pos)
  BY <1>1, CutLoop
<1>8. PICK g : /\ CutRun(g, r, S) /\ Blocks(r).blocks = g[m].blocks
               /\ Blocks(r).carry = From(r, g[m].pos)
  BY <1>4, <1>5, CutLoop
<1>9. /\ f[0] = [pos |-> 1, blocks |-> {}]
      /\ \A k \in 1..n : f[k] = CutOff(T, f[k - 1])
      /\ f \in [0..n -> Cuts(T, S)]
  BY <1>1, <1>7 DEF CutRun
<1>10. /\ g[0] = [pos |-> 1, blocks |-> {}]
       /\ \A k \in 1..m : g[k] = CutOff(r, g[k - 1])
       /\ g \in [0..m -> Cuts(r, S)]
  BY <1>4, <1>8 DEF CutRun
<1>11. f[1] = Moved(g[0], d, b)
  <2>1. f[1] = CutOff(T, f[0])
    BY <1>5, <1>9
  <2>2. PICK s : s = f[0] /\ s.pos = 1 /\ s.blocks = {}
    BY <1>9
  <2>3. BlankFrom(T, s.pos) # {} /\ Min(BlankFrom(T, s.pos)) = e
    BY <1>2, <2>2
  <2>4. CutOff(T, s) = [pos |-> e + 2, blocks |-> {} \cup {b}]
    BY <1>6, <2>2, <2>3 DEF CutOff
  <2>5. e + 2 = 1 + d
    BY <1>1, <1>3
  <2>6. PICK x : x = g[0] /\ x.pos = 1 /\ x.blocks = {}
    BY <1>10
  <2>7. Moved(x, d, b) = [pos |-> 1 + d, blocks |-> {} \cup {b}]
    BY <2>6 DEF Moved
  <2> QED BY <2>1, <2>2, <2>4, <2>5, <2>6, <2>7
<1>12. f[m + 1] = Moved(g[m], d, b)
  <2> DEFINE P(k) == f[k + 1] = Moved(g[k], d, b)
             K == {k \in 0..m : P(k)}
  <2>1. 0 \in K
    <3>1. P(0)
      BY <1>11
    <3> HIDE DEF P
    <3> QED BY <1>5, <3>1
  <2>2. ASSUME NEW k \in 1..m, k - 1 \in K PROVE k \in K
    <3>1. P(k - 1)
      <4> HIDE DEF P
      <4> QED BY <2>2
    <3>2. /\ k + 1 \in 1..n /\ (k + 1) - 1 = k /\ (k - 1) + 1 = k
          /\ k - 1 \in 0..m /\ k \in 0..m
      <4>1. m \in Nat /\ m + 1 <= n /\ n \in Nat /\ k \in 1..m
        BY <1>1, <1>5, <2>2
      <4> HIDE DEF K
      <4> QED BY <4>1
    <3>3. PICK s : s = g[k - 1] /\ s \in Cuts(r, S)
      BY <1>10, <3>2
    <3>4. f[k] = Moved(s, d, b)
      BY <3>1, <3>2, <3>3
    <3>5. f[k + 1] = CutOff(T, f[k])
      BY <1>9, <3>2
    <3>6. CutOff(T, Moved(s, d, b)) = Moved(CutOff(r, s), d, b)
      BY <1>1, <1>3, <1>4, <3>3, CutMoved
    <3>7. g[k] = CutOff(r, s)
      BY <1>10, <3>3
    <3>8. P(k)
      BY <3>4, <3>5, <3>6, <3>7
    <3> HIDE DEF P
    <3> QED BY <3>2, <3>8
  <2>3. \A k \in 0..m : k \in K
    <3> HIDE DEF K
    <3> QED BY <1>5, <2>1, <2>2, BoundedInduct
  <2>4. m \in K
    <3> HIDE DEF K
    <3> QED BY <1>5, <2>3
  <2> QED BY <2>4
<1>13. PICK p : p = g[m].pos
  OBVIOUS
<1>14. p \in 1..(m + 1) /\ BlankFrom(r, p) = {}
  BY <1>4, <1>5, <1>8, <1>13, CutsAll
<1>15. f[m + 1].pos = p + d /\ BlankFrom(T, p + d) = {}
  <2>1. f[m + 1].pos = p + d
    BY <1>12, <1>13 DEF Moved
  <2>2. p \in Nat \ {0}
    BY <1>14
  <2>3. \A j \in BlankFrom(T, p + d) : j - d \in BlankFrom(r, p)
    BY <1>1, <1>3, <1>4, <2>2, BlankMoved
  <2> QED BY <1>14, <2>1, <2>3
<1>16. f[n] = f[m + 1]
  <2> DEFINE P(k) == k >= m + 1 => f[k] = f[m + 1]
             K == {k \in 0..n : P(k)}
  <2>1. 0 \in K
    <3>1. P(0)
      BY <1>5
    <3> HIDE DEF P
    <3> QED BY <1>1, <3>1
  <2>2. ASSUME NEW k \in 1..n, k - 1 \in K PROVE k \in K
    <3>1. P(k - 1) /\ k \in 0..n
      <4> HIDE DEF P
      <4> QED BY <2>2
    <3>2. P(k)
      <4> SUFFICES ASSUME k > m + 1 PROVE f[k] = f[m + 1]
        BY <1>5
      <4>1. f[k - 1] = f[m + 1]
        BY <1>5, <3>1
      <4>2. PICK s : s = f[m + 1] /\ s.pos = p + d
        BY <1>15
      <4>3. CutOff(T, s) = s
        BY <1>15, <4>2 DEF CutOff
      <4> QED BY <1>9, <4>1, <4>2, <4>3
    <3> HIDE DEF P
    <3> QED BY <3>1, <3>2
  <2>3. \A k \in 0..n : k \in K
    <3> HIDE DEF K
    <3> QED BY <1>1, <2>1, <2>2, BoundedInduct
  <2>4. P(n)
    <3>1. n \in K
      <4> HIDE DEF K
      <4> QED BY <1>1, <2>3
    <3> HIDE DEF P
    <3> QED BY <3>1
  <2> QED BY <1>5, <2>4
<1>17. From(r, p) = From(T, p + d)
  <2>1. p \in Nat \ {0} /\ m \in 0..(n - d) /\ m + d = n
    <3>1. d \in Int /\ n \in Int /\ m = n - d /\ m \in Nat
      BY <1>1, <1>3, <1>5
    <3> QED BY <1>14, <3>1
  <2>2. SubSeq(From(T, d + 1), p, m) = SubSeq(T, p + d, m + d)
    <3>1. d \in 0..Len(T) /\ m \in 0..(Len(T) - d)
      BY <1>1, <1>3, <2>1
    <3> QED BY <2>1, <3>1, PartOfRest
  <2>3. From(r, p) = SubSeq(From(T, d + 1), p, m)
    BY <1>4 DEF From
  <2>4. From(T, p + d) = SubSeq(T, p + d, m + d)
    BY <1>1, <2>1 DEF From
  <2> QED BY <2>2, <2>3, <2>4
<1>18. Blocks(T).blocks = g[m].blocks \cup {b}
  BY <1>7, <1>12, <1>16 DEF Moved
<1>19. Blocks(T).carry = From(T, p + d)
  BY <1>7, <1>15, <1>16
<1>20. r = From(T, e + 2)
  BY <1>3, <1>4
<1> QED BY <1>1, <1>3, <1>6, <1>8, <1>13, <1>17, <1>18, <1>19, <1>20

-----------------------------------------------------------------------------
(* The lines of a text are those of its parts, if the cut is at a line end.*)
LEMMA LinesConcat ==
  ASSUME NEW S, NEW u \in Seq(S), NEW v \in Seq(S),
         Len(u) > 0 => u[Len(u)] = LF
  PROVE  Lines(u \o v) = Lines(u) \cup Lines(v)
<1>1. PICK w : w = u \o v
  OBVIOUS
<1>2. /\ w \in Seq(S) /\ Len(w) = Len(u) + Len(v)
      /\ Len(u) \in Nat /\ Len(v) \in Nat
  BY <1>1, ConcatAt
<1>3. /\ DOMAIN w = 1..(Len(u) + Len(v)) /\ DOMAIN u = 1..Len(u)
      /\ DOMAIN v = 1..Len(v)
  BY <1>2, LenProperties
<1>4. /\ \A i \in 1..Len(u) : LineAt(w, i) = LineAt(u, i)
      /\ \A i \in 1..Len(v) : LineAt(w, Len(u) + i) = LineAt(v, i)
  BY <1>1, LineLocal DEF LinesApart
<1>5. ASSUME NEW i \in DOMAIN w
      PROVE  \/ \E j \in DOMAIN u : LineAt(w, i) = LineAt(u, j)
             \/ \E j \in DOMAIN v : LineAt(w, i) = LineAt(v, j)
  <2>1. CASE i <= Len(u)
    BY <1>2, <1>3, <1>4, <2>1
  <2>2. CASE i > Len(u)
    <3>1. PICK j : j = i - Len(u)
      OBVIOUS
    <3>2. j \in 1..Len(v) /\ i = Len(u) + j
      <4>1. /\ i \in 1..(Len(u) + Len(v)) /\ Len(u) \in Nat
            /\ Len(v) \in Nat
        BY <1>2, <1>3
      <4> QED BY <2>2, <3>1, <4>1
    <3>3. LineAt(w, Len(u) + j) = LineAt(v, j) /\ j \in DOMAIN v
      BY <1>3, <1>4, <3>2
    <3> QED BY <3>2, <3>3
  <2> QED BY <1>2, <1>3, <2>1, <2>2
<1>6. \A j \in DOMAIN u : \E i \in DOMAIN w : LineAt(w, i) = LineAt(u, j)
  BY <1>2, <1>3, <1>4
<1>7. \A j \in DOMAIN v : \E i \in DOMAIN w : LineAt(w, i) = LineAt(v, j)
  <2> TAKE j \in DOMAIN v
  <2>1. PICK i : i = Len(u) + j
    OBVIOUS
  <2>2. i \in DOMAIN w /\ LineAt(w, i) = LineAt(v, j)
    BY <1>2, <1>3, <1>4, <2>1
  <2> QED BY <2>2
<1>8. Lines(w) = Lines(u) \cup Lines(v)
  <2>1. \A x : x \in Lines(w) => x \in Lines(u) \/ x \in Lines(v)
    BY <1>5 DEF Lines
  <2>2. \A x : x \in Lines(u) => x \in Lines(w)
    BY <1>6 DEF Lines
  <2>3. \A x : x \in Lines(v) => x \in Lines(w)
    BY <1>7 DEF Lines
  <2> QED BY <2>1, <2>2, <2>3
<1> QED BY <1>1, <1>8

LEMMA LinesEmpty == Lines(<<>>) = {}
<1>1. DOMAIN <<>> = {}
  OBVIOUS
<1> QED BY <1>1 DEF Lines

(* A line end adds no line.                                                *)
LEMMA LinesEnd ==
  ASSUME NEW S, LF \in S, NEW u \in Seq(S)
  PROVE  Lines(u \o <<LF>>) = Lines(u)
<1>1. PICK w, n : w = u \o <<LF>> /\ n = Len(u)
  OBVIOUS
<1>2. /\ w \in Seq(S) /\ Len(w) = n + 1 /\ n \in Nat /\ w[n + 1] = LF
      /\ \A i \in 1..n : w[i] = u[i]
  <2>1. <<LF>> \in Seq(S) /\ Len(<<LF>>) = 1 /\ <<LF>>[1] = LF
    OBVIOUS
  <2> QED BY <1>1, <2>1, ConcatAt
<1>3. DOMAIN w = 1..(n + 1) /\ DOMAIN u = 1..n
  BY <1>1, <1>2, LenProperties
<1>4. ASSUME NEW i \in 1..n PROVE LineAt(w, i) = LineAt(u, i)
  <2>1. PICK a, b : LineFrom(u, i, a, b)
    BY <1>1, LineHas
  <2>2. /\ a \in 0..(i - 1) /\ b \in (i - 1)..n
        /\ a > 0 => u[a] = LF
        /\ b < n => u[b + 1] = LF
        /\ \A j \in (a + 1)..b : u[j] # LF
    BY <1>1, <2>1 DEF LineFrom
  <2>3. LineFrom(w, i, a, b)
    <3>1. b \in (i - 1)..Len(w) /\ a \in 0..(i - 1)
      BY <1>2, <2>2
    <3>2. a > 0 => w[a] = LF
      <4>1. a > 0 => a \in 1..n
        BY <1>2, <2>2
      <4> QED BY <1>2, <2>2, <4>1
    <3>3. w[b + 1] = LF
      <4>1. CASE b < n
        <5>1. b + 1 \in 1..n
          BY <1>2, <2>2, <4>1
        <5> QED BY <1>2, <2>2, <4>1, <5>1
      <4>2. CASE b = n
        BY <1>2, <4>2
      <4> QED BY <1>2, <2>2, <4>1, <4>2
    <3>4. \A j \in (a + 1)..b : w[j] # LF
      <4>1. \A j \in (a + 1)..b : j \in 1..n
        BY <1>2, <2>2
      <4> QED BY <1>2, <2>2, <4>1
    <3> QED BY <3>1, <3>2, <3>3, <3>4 DEF LineFrom
  <2>4. SubSeq(w, a + 1, b) = SubSeq(u, a + 1, b)
    <3>1. PICK c : c = a + 1 /\ c \in Int /\ b \in Int /\ c >= 1 /\ b <= n
      BY <1>2, <2>2
    <3>2. CASE c > b
      BY <3>1, <3>2, SubSeqEmpty
    <3>3. CASE c <= b
      <4>1. \A k \in c..b : k \in 1..n /\ k \in 1..Len(w) /\ k \in 1..Len(u)
        BY <1>1, <1>2, <3>1
      <4>2. \A k \in c..b : w[k] \in S /\ u[k] \in S
        BY <1>2, <4>1, ElementOfSeq
      <4>3. /\ SubSeq(w, c, b) \in Seq(S) /\ Len(SubSeq(w, c, b)) = b - c + 1
            /\ \A k \in 1..(b - c + 1) : SubSeq(w, c, b)[k] = w[c + k - 1]
        BY <3>1, <3>3, <4>2, SubSeqProperties
      <4>4. /\ SubSeq(u, c, b) \in Seq(S) /\ Len(SubSeq(u, c, b)) = b - c + 1
            /\ \A k \in 1..(b - c + 1) : SubSeq(u, c, b)[k] = u[c + k - 1]
        BY <3>1, <3>3, <4>2, SubSeqProperties
      <4>5. \A k \in 1..(b - c + 1) : c + k - 1 \in 1..n
        BY <1>2, <3>1
      <4>6. \A k \in 1..(b - c + 1) : SubSeq(w, c, b)[k] = SubSeq(u, c, b)[k]
        BY <1>2, <4>3, <4>4, <4>5
      <4>7. SubSeq(w, c, b) = SubSeq(u, c, b)
        BY <4>3, <4>4, <4>6, SameSeq
      <4> QED BY <3>1, <4>7
    <3> QED BY <3>1, <3>2, <3>3
  <2>5. LineAt(u, i) = SubSeq(u, a + 1, b)
    BY <1>1, <2>1, LineIs
  <2>6. LineAt(w, i) = SubSeq(w, a + 1, b)
    BY <1>2, <2>3, LineIs
  <2> QED BY <2>4, <2>5, <2>6
<1>5. \/ Trimmed(LineAt(w, n + 1)) = <<>>
      \/ \E j \in 1..n : LineAt(w, n + 1) = LineAt(u, j)
  <2>1. CASE n > 0 => u[n] = LF
    <3>1. LineFrom(w, n + 1, n, n)
      <4>1. n > 0 => n \in 1..n
        BY <1>2
      <4>2. n > 0 => w[n] = LF
        BY <1>2, <2>1, <4>1
      <4>3. /\ n \in 0..((n + 1) - 1) /\ n \in ((n + 1) - 1)..Len(w)
            /\ (n + 1)..n = {}
        BY <1>2
      <4> QED BY <1>2, <4>2, <4>3 DEF LineFrom
    <3>2. LineAt(w, n + 1) = SubSeq(w, n + 1, n)
      <4>1. n + 1 \in 1..Len(w)
        BY <1>2
      <4> QED BY <1>2, <3>1, <4>1, LineIs
    <3>3. SubSeq(w, n + 1, n) = <<>>
      <4>1. n + 1 \in Int /\ n \in Int /\ n < n + 1
        BY <1>2
      <4> QED BY <4>1, SubSeqEmpty
    <3>4. Trimmed(<<>>) = <<>>
      <4>1. DOMAIN <<>> = {}
        OBVIOUS
      <4> QED BY <4>1 DEF Trimmed, Only
    <3> QED BY <3>2, <3>3, <3>4
  <2>2. CASE n > 0 /\ u[n] # LF
    <3>1. n \in 1..n /\ n \in 1..Len(w) /\ n + 1 \in 1..Len(w)
      BY <1>2, <2>2
    <3>2. PICK a, b : LineFrom(w, n, a, b)
      BY <1>2, <3>1, LineHas
    <3>3. /\ a \in 0..(n - 1) /\ b \in (n - 1)..(n + 1)
          /\ a > 0 => w[a] = LF
          /\ b < n + 1 => w[b + 1] = LF
          /\ \A j \in (a + 1)..b : w[j] # LF
      BY <1>2, <3>2 DEF LineFrom
    <3>4. b = n
      <4>1. b # n + 1
        BY <1>2, <3>3
      <4>2. b # n - 1
        <5>1. n - 1 < n + 1 /\ (n - 1) + 1 = n
          BY <1>2
        <5> QED BY <1>2, <2>2, <3>1, <3>3, <5>1
      <4> QED BY <1>2, <3>3, <4>1, <4>2
    <3>5. LineFrom(w, n + 1, a, b)
      <4>1. a \in 0..((n + 1) - 1) /\ b \in ((n + 1) - 1)..Len(w)
        BY <1>2, <3>3, <3>4
      <4> QED BY <3>2, <4>1 DEF LineFrom
    <3>6. LineAt(w, n + 1) = LineAt(w, n)
      <4>1. LineAt(w, n) = SubSeq(w, a + 1, b)
        BY <1>2, <3>1, <3>2, LineIs
      <4>2. LineAt(w, n + 1) = SubSeq(w, a + 1, b)
        BY <1>2, <3>1, <3>5, LineIs
      <4> QED BY <4>1, <4>2
    <3>7. LineAt(w, n) = LineAt(u, n)
      BY <1>4, <3>1
    <3> QED BY <3>1, <3>6, <3>7
  <2> QED BY <1>2, <2>1, <2>2
<1>6. ASSUME NEW i \in DOMAIN w
      PROVE  \/ Trimmed(LineAt(w, i)) = <<>>
             \/ \E j \in DOMAIN u : LineAt(w, i) = LineAt(u, j)
  <2>1. i \in 1..n \/ i = n + 1
    BY <1>2, <1>3
  <2> QED BY <1>3, <1>4, <1>5, <2>1
<1>7. \A j \in DOMAIN u : \E i \in DOMAIN w : LineAt(w, i) = LineAt(u, j)
  BY <1>2, <1>3, <1>4
<1>8. Lines(w) = Lines(u)
  BY <1>6, <1>7, Zenon DEF Lines
<1> QED BY <1>1, <1>8

(* A line end between two texts keeps their lines apart.                   *)
LEMMA LinesParted ==
  ASSUME NEW S, LF \in S, NEW u \in Seq(S), NEW v \in Seq(S)
  PROVE  /\ Lines((u \o <<LF>>) \o v) = Lines(u) \cup Lines(v)
         /\ Lines(<<LF>> \o v) = Lines(v)
<1>1. \A t \in Seq(S) : Lines((t \o <<LF>>) \o v) = Lines(t) \cup Lines(v)
  <2> TAKE t \in Seq(S)
  <2>1. PICK x, y : x = t \o y /\ y = <<LF>>
    OBVIOUS
  <2>2. y \in Seq(S) /\ Len(y) = 1 /\ y[1] = LF
    BY <2>1
  <2>3. x \in Seq(S) /\ Len(x) = Len(t) + 1 /\ x[Len(t) + 1] = LF
    <3>1. 1 \in 1..Len(y)
      BY <2>2
    <3> QED BY <2>1, <2>2, <3>1, ConcatAt
  <2>4. Lines(x \o v) = Lines(x) \cup Lines(v)
    BY <2>3, LinesConcat
  <2>5. Lines(x) = Lines(t)
    BY <2>1, LinesEnd
  <2> QED BY <2>1, <2>4, <2>5
<1>2. <<>> \in Seq(S) /\ <<>> \o <<LF>> = <<LF>>
  OBVIOUS
<1>3. Lines((<<>> \o <<LF>>) \o v) = Lines(<<>>) \cup Lines(v)
  BY <1>1, <1>2
<1>4. Lines(<<LF>> \o v) = Lines(v)
  BY <1>2, <1>3, LinesEmpty
<1> QED BY <1>1, <1>4

(* A block is data, or the end, by its lines.                              *)
LEMMA ByLines ==
  ASSUME NEW x, NEW a, NEW b, Lines(x) = Lines(a) \cup Lines(b)
  PROVE  /\ IsData(x) => IsData(a) \/ IsData(b)
         /\ IsStop(x) <=> IsStop(a) \/ IsStop(b)
<1>1. Fields(x) = Fields(a) \cup Fields(b)
  BY DEF Fields
<1> QED BY <1>1 DEF IsData, IsStop

LEMMA SameLines ==
  ASSUME NEW x, NEW a, Lines(x) = Lines(a)
  PROVE  (IsData(x) <=> IsData(a)) /\ (IsStop(x) <=> IsStop(a))
BY DEF IsData, IsStop, Fields

LEMMA NoLines ==
  ASSUME NEW x, Lines(x) = {}
  PROVE  ~IsData(x) /\ ~IsStop(x)
BY DEF IsData, IsStop, Fields

-----------------------------------------------------------------------------
(* A text without a blank line has no finished block.                      *)
LEMMA NoneFinished ==
  ASSUME NEW S, NEW T \in Seq(S), BlankLines(T) = {}
  PROVE  Blocks(T).blocks = {} /\ Blocks(T).carry = T
<1>1. PICK f, n, s :
        /\ CutRun(f, T, S) /\ n = Len(T) /\ n \in Nat
        /\ Blocks(T).blocks = f[n].blocks
        /\ Blocks(T).carry = From(T, f[n].pos)
        /\ s = f[0]
  BY CutLoop, LenProperties
<1>2. s.pos = 1 /\ s.blocks = {}
  BY <1>1 DEF CutRun
<1>3. CutOff(T, s) = s
  BY DEF CutOff, BlankFrom
<1> DEFINE K == {k \in 0..n : f[k] = s}
<1>4. 0 \in K
  BY <1>1
<1>5. ASSUME NEW k \in 1..n, k - 1 \in K PROVE k \in K
  <2>1. f[k - 1] = s /\ k \in 0..n
    BY <1>1, <1>5
  <2>2. f[k] = CutOff(T, f[k - 1])
    BY <1>1 DEF CutRun
  <2> QED BY <1>3, <2>1, <2>2
<1>6. \A k \in 0..n : k \in K
  <2> HIDE DEF K
  <2> QED BY <1>1, <1>4, <1>5, BoundedInduct
<1>7. f[n] = s
  BY <1>1, <1>6
<1>8. From(T, 1) = T
  BY <1>1, SubSeqFull DEF From
<1> QED BY <1>1, <1>2, <1>7, <1>8

(* A text that becomes a block when a blank line follows it.               *)
Closes(b) == BlankLines(b) = {} /\ (Len(b) > 0 => b[Len(b)] # LF)

BlankEnd == <<LF, LF>>

(* A text whose first block is b, and what comes after it.                 *)
IsCut(T, b, r) == Closes(b) /\ T = b \o (BlankEnd \o r)

(* The blocks of such a text are b and those of r.                         *)
LEMMA FirstCut ==
  ASSUME NEW S, LF \in S, NEW b \in Seq(S), NEW r \in Seq(S),
         NEW T, IsCut(T, b, r)
  PROVE  /\ T \in Seq(S) /\ Len(r) < Len(T) /\ BlankLines(T) # {}
         /\ Blocks(T).blocks = {b} \cup Blocks(r).blocks
         /\ Blocks(T).carry = Blocks(r).carry
<1>0. PICK E, q : E = BlankEnd /\ q = E \o r /\ T = b \o q
  BY DEF IsCut
<1>1. PICK m, n : m = Len(b) /\ n = Len(r)
  OBVIOUS
<1>2. E \in Seq(S) /\ Len(E) = 2 /\ E[1] = LF /\ E[2] = LF
  <2>1. E = <<LF, LF>>
    BY <1>0 DEF BlankEnd
  <2> QED BY <2>1
<1>3. /\ q \in Seq(S) /\ Len(q) = n + 2 /\ q[1] = LF /\ q[2] = LF
      /\ n \in Nat
  <2>1. 1 \in 1..Len(E) /\ 2 \in 1..Len(E)
    BY <1>2
  <2>2. /\ q \in Seq(S) /\ Len(q) = Len(E) + Len(r) /\ Len(r) \in Nat
        /\ \A i \in 1..Len(E) : q[i] = E[i]
    <3>1. q = E \o r /\ E \in Seq(S)
      BY <1>0, <1>2
    <3> QED BY <3>1, ConcatAt
  <2>3. q[1] = E[1] /\ q[2] = E[2]
    BY <2>1, <2>2
  <2>4. Len(q) = n + 2 /\ n \in Nat
    BY <1>1, <1>2, <2>2
  <2> QED BY <1>2, <2>2, <2>3, <2>4
<1>4. /\ T \in Seq(S) /\ Len(T) = m + (n + 2) /\ m \in Nat
      /\ \A i \in 1..m : T[i] = b[i]
      /\ T[m + 1] = LF /\ T[m + 2] = LF
  <2>1. T = b \o q
    BY <1>0
  <2>2. 1 \in 1..Len(q) /\ 2 \in 1..Len(q)
    BY <1>3
  <2>3. /\ T \in Seq(S) /\ Len(T) = Len(b) + Len(q) /\ Len(b) \in Nat
        /\ \A i \in 1..Len(b) : T[i] = b[i]
        /\ \A i \in 1..Len(q) : T[Len(b) + i] = q[i]
    <3>1. q \in Seq(S)
      BY <1>3
    <3> QED BY <2>1, <3>1, ConcatAt
  <2>4. T[m + 1] = q[1] /\ T[m + 2] = q[2]
    BY <1>1, <2>2, <2>3
  <2>5. Len(T) = m + (n + 2) /\ m \in Nat
    BY <1>1, <1>3, <2>3
  <2> QED BY <1>1, <1>3, <2>3, <2>4, <2>5
<1>5. m + 1 \in BlankLines(T)
  <2>1. m + 1 \in 1..(Len(T) - 1) /\ (m + 1) + 1 = m + 2
    BY <1>3, <1>4
  <2> QED BY <1>4, <2>1 DEF BlankLines
<1>6. ASSUME NEW i \in BlankLines(T) PROVE m + 1 <= i
  <2>0. /\ i \in 1..(Len(T) - 1) /\ T[i] = LF /\ T[i + 1] = LF
        /\ i \in Nat /\ i >= 1
    BY <1>6 DEF BlankLines
  <2> SUFFICES ASSUME i < m + 1 PROVE FALSE
    BY <1>4, <2>0
  <2>1. i \in 1..m /\ T[i] = LF /\ T[i + 1] = LF
    BY <1>4, <2>0
  <2>2. CASE i = m
    <3>1. b[m] # LF
      BY <1>1, <1>4, <2>1, <2>2 DEF Closes, IsCut
    <3> QED BY <1>4, <2>1, <2>2, <3>1
  <2>3. CASE i < m
    <3>1. i + 1 \in 1..m /\ i \in 1..(m - 1)
      BY <1>4, <2>1, <2>3
    <3>2. b[i] = LF /\ b[i + 1] = LF
      BY <1>4, <2>1, <3>1
    <3>3. i \in BlankLines(b)
      BY <1>1, <3>1, <3>2 DEF BlankLines
    <3> QED BY <3>3 DEF Closes, IsCut
  <2> QED BY <1>4, <2>1, <2>2, <2>3
<1>7. PICK e : e = Min(BlankLines(T))
  OBVIOUS
<1>8. e = m + 1
  <2>1. BlankLines(T) \subseteq Nat /\ BlankLines(T) # {}
    <3>1. \A i \in 1..(Len(T) - 1) : i \in Nat
      OBVIOUS
    <3>2. BlankLines(T) \subseteq Nat
      BY <3>1 DEF BlankLines
    <3> QED BY <1>5, <3>2
  <2>2. e \in BlankLines(T) /\ \A x \in BlankLines(T) : e <= x
    <3>1. PICK K : K = BlankLines(T)
      OBVIOUS
    <3>2. K \subseteq Nat /\ K # {}
      BY <2>1, <3>1
    <3>3. Min(K) \in K /\ \A x \in K : Min(K) <= x
      BY <3>2, MinIs
    <3> QED BY <1>7, <3>1, <3>3
  <2>3. e <= m + 1 /\ m + 1 <= e /\ e \in Nat
    BY <1>5, <1>6, <2>1, <2>2
  <2> QED BY <1>4, <2>3
<1>9. /\ Blocks(T).blocks = {SubSeq(T, 1, e - 1)}
                              \cup Blocks(From(T, e + 2)).blocks
      /\ Blocks(T).carry = Blocks(From(T, e + 2)).carry
  BY <1>4, <1>5, <1>7, BlocksCut
<1>10. SubSeq(T, 1, e - 1) = b
  <2>1. PICK x, y : x = SubSeq(T, 1, m) /\ y = SubSeq(T, m + 1, Len(T))
    OBVIOUS
  <2>2. m \in 0..Len(T) /\ e - 1 = m
    BY <1>3, <1>4, <1>8
  <2>3. x \in Seq(S) /\ y \in Seq(S) /\ x \o y = T /\ Len(x) = m
    BY <1>4, <2>1, <2>2, SplitAt
  <2>4. x = b
    <3>1. b \o q = x \o y /\ Len(b) = Len(x)
      BY <1>0, <1>1, <2>3
    <3> QED BY <1>3, <2>3, <3>1, SplitOnce
  <2> QED BY <2>1, <2>2, <2>4
<1>11. From(T, e + 2) = r
  <2>1. PICK z : z = b \o E
    OBVIOUS
  <2>2. z \in Seq(S) /\ Len(z) = m + 2
    <3>1. z \in Seq(S) /\ Len(z) = Len(b) + Len(E)
      BY <1>2, <2>1, ConcatAt
    <3> QED BY <1>1, <1>2, <3>1
  <2>3. \A x, y, w \in Seq(S) : (x \o y) \o w = x \o (y \o w)
    BY ONLY ConcatRegroups
  <2>4. z \o r = T
    BY <1>0, <1>2, <2>1, <2>3, Zenon
  <2>5. From(z \o r, Len(z) + 1) = r
    BY <2>2, FromConcat
  <2>6. Len(z) + 1 = e + 2
    BY <1>4, <1>8, <2>2
  <2> QED BY <2>4, <2>5, <2>6
<1>12. Len(r) < Len(T)
  BY <1>1, <1>3, <1>4
<1> QED BY <1>4, <1>5, <1>9, <1>10, <1>11, <1>12

(* Each text with a blank line is of that form.                            *)
LEMMA HasCut ==
  ASSUME NEW S, NEW T \in Seq(S), BlankLines(T) # {}
  PROVE  \E b, r \in Seq(S) : IsCut(T, b, r) /\ Len(r) < Len(T)
<1>1. PICK n, e : n = Len(T) /\ n \in Nat /\ e = Min(BlankLines(T))
  BY LenProperties
<1>2. /\ e \in 1..(n - 1) /\ T[e] = LF /\ T[e + 1] = LF
      /\ \A i \in BlankLines(T) : e <= i
  <2>1. BlankLines(T) \subseteq Nat
    BY <1>1 DEF BlankLines
  <2>2. e \in BlankLines(T) /\ \A x \in BlankLines(T) : e <= x
    BY <1>1, <2>1, MinIs
  <2> QED BY <1>1, <2>2 DEF BlankLines
<1>3. PICK m, b, q : /\ m = e - 1 /\ b = SubSeq(T, 1, m)
                     /\ q = SubSeq(T, m + 1, n)
  OBVIOUS
<1>4. m \in 0..n /\ m + 1 = e /\ m + 2 = e + 1 /\ m + 2 <= n
  BY <1>1, <1>2, <1>3
<1>5. /\ b \in Seq(S) /\ q \in Seq(S) /\ b \o q = T /\ Len(b) = m
      /\ Len(q) = n - m
  BY <1>1, <1>3, <1>4, SplitAt
<1>6. PICK E, r : E = SubSeq(q, 1, 2) /\ r = SubSeq(q, 2 + 1, Len(q))
  OBVIOUS
<1>7. /\ E \in Seq(S) /\ r \in Seq(S) /\ E \o r = q /\ Len(E) = 2
      /\ Len(r) = Len(q) - 2
  <2>1. 2 \in 0..Len(q)
    BY <1>1, <1>4, <1>5
  <2> QED BY <1>5, <1>6, <2>1, SplitAt
<1>8. q[1] = LF /\ q[2] = LF
  <2>1. 1 \in 1..Len(q) /\ 2 \in 1..Len(q)
    BY <1>1, <1>4, <1>5
  <2>2. T[m + 1] = q[1] /\ T[m + 2] = q[2]
    BY <1>5, <2>1, ConcatAt
  <2> QED BY <1>2, <1>4, <2>2
<1>9. E = BlankEnd
  <2>1. 1 \in 1..Len(E) /\ 2 \in 1..Len(E)
    BY <1>7
  <2>2. E[1] = LF /\ E[2] = LF
    BY <1>7, <1>8, <2>1, ConcatAt
  <2>3. LF \in S
    BY <1>7, <2>1, <2>2, ElementOfSeq
  <2>4. /\ BlankEnd \in Seq(S) /\ Len(BlankEnd) = 2
        /\ \A i \in 1..2 : BlankEnd[i] = LF
    BY <2>3 DEF BlankEnd
  <2>5. \A i \in 1..2 : E[i] = BlankEnd[i]
    BY <2>2, <2>4
  <2> QED BY <1>7, <2>4, <2>5, SameSeq
<1>10. Closes(b)
  <2>1. \A i \in 1..m : b[i] = T[i]
    BY <1>5, ConcatAt
  <2>2. ASSUME NEW i \in 1..(m - 1), b[i] = LF, b[i + 1] = LF PROVE FALSE
    <3>1. i \in 1..m /\ i + 1 \in 1..m /\ i \in 1..(n - 1) /\ i < e
      BY <1>1, <1>4
    <3>2. T[i] = LF /\ T[i + 1] = LF
      BY <2>1, <2>2, <3>1
    <3>3. i \in BlankLines(T)
      BY <1>1, <3>1, <3>2 DEF BlankLines
    <3> QED BY <1>2, <3>1, <3>3
  <2>3. ASSUME m > 0, b[m] = LF PROVE FALSE
    <3>1. m \in 1..m /\ m \in 1..(n - 1) /\ m + 1 = e /\ m < e
      BY <1>1, <1>4, <2>3
    <3>2. T[m] = LF /\ T[m + 1] = LF
      BY <1>2, <2>1, <2>3, <3>1
    <3>3. m \in BlankLines(T)
      BY <1>1, <3>1, <3>2 DEF BlankLines
    <3> QED BY <1>2, <1>4, <3>1, <3>3
  <2> QED BY <1>5, <2>2, <2>3 DEF Closes, BlankLines
<1>11. Len(r) < Len(T)
  BY <1>1, <1>4, <1>5, <1>7
<1>12. IsCut(T, b, r)
  <2>1. b \o (BlankEnd \o r) = T
    BY <1>5, <1>7, <1>9, Zenon
  <2> QED BY <1>10, <2>1 DEF IsCut
<1> QED BY <1>5, <1>7, <1>11, <1>12

-----------------------------------------------------------------------------
(* What the classifier finds in a text: in its finished blocks, and in all *)
(* of it.                                                                  *)
FinishedData(T) == \E b \in Blocks(T).blocks : IsData(b)
FinishedStop(T) == \E b \in Blocks(T).blocks : IsStop(b)

HasData(T) == FinishedData(T) \/ IsData(Blocks(T).carry)
HasStop(T) == FinishedStop(T) \/ IsStop(Blocks(T).carry)

LEMMA FoundUnblocked ==
  ASSUME NEW S, NEW T \in Seq(S), BlankLines(T) = {}
  PROVE  /\ ~FinishedData(T) /\ ~FinishedStop(T) /\ Blocks(T).carry = T
         /\ HasData(T) <=> IsData(T)
         /\ HasStop(T) <=> IsStop(T)
<1>1. Blocks(T).blocks = {} /\ Blocks(T).carry = T
  BY NoneFinished
<1> QED BY <1>1 DEF FinishedData, FinishedStop, HasData, HasStop

LEMMA FoundFirst ==
  ASSUME NEW S, LF \in S, NEW b \in Seq(S), NEW r \in Seq(S),
         NEW T, IsCut(T, b, r)
  PROVE  /\ FinishedData(T) <=> IsData(b) \/ FinishedData(r)
         /\ FinishedStop(T) <=> IsStop(b) \/ FinishedStop(r)
         /\ HasData(T) <=> IsData(b) \/ HasData(r)
         /\ HasStop(T) <=> IsStop(b) \/ HasStop(r)
         /\ Blocks(T).carry = Blocks(r).carry
<1>1. /\ Blocks(T).blocks = {b} \cup Blocks(r).blocks
      /\ Blocks(T).carry = Blocks(r).carry
  BY FirstCut
<1> QED BY <1>1 DEF FinishedData, FinishedStop, HasData, HasStop

LEMMA CutStays ==
  ASSUME NEW S, LF \in S, NEW b \in Seq(S), NEW r \in Seq(S),
         NEW T, IsCut(T, b, r), NEW y \in Seq(S)
  PROVE  IsCut(T \o y, b, r \o y) /\ r \o y \in Seq(S)
<1>1. PICK E, q : E = BlankEnd /\ q = E \o r /\ T = b \o q
  BY DEF IsCut
<1>2. E \in Seq(S)
  <2>1. E = <<LF, LF>>
    BY <1>1 DEF BlankEnd
  <2> QED BY <2>1
<1>3. q \in Seq(S) /\ r \o y \in Seq(S)
  <2>1. q = E \o r
    BY <1>1
  <2> QED BY <1>2, <2>1, ConcatProperties
<1>4. \A u, v, w \in Seq(S) : (u \o v) \o w = u \o (v \o w)
  BY ONLY ConcatRegroups
<1>5. T \o y = b \o (q \o y)
  BY <1>1, <1>3, <1>4, Zenon
<1>6. q \o y = E \o (r \o y)
  BY <1>1, <1>2, <1>4, Zenon
<1>7. T \o y = b \o (BlankEnd \o (r \o y))
  BY <1>1, <1>5, <1>6, Zenon
<1>8. Closes(b)
  BY DEF IsCut
<1> QED BY <1>3, <1>7, <1>8 DEF IsCut

(* What comes later is cut off from what was not finished.                 *)
CarriesOn(x, y) ==
  LET z == Blocks(x).carry \o y
  IN  /\ FinishedData(x \o y) <=> FinishedData(x) \/ FinishedData(z)
      /\ FinishedStop(x \o y) <=> FinishedStop(x) \/ FinishedStop(z)
      /\ HasData(x \o y) <=> FinishedData(x) \/ HasData(z)
      /\ HasStop(x \o y) <=> FinishedStop(x) \/ HasStop(z)
      /\ Blocks(x \o y).carry = Blocks(z).carry

(* To read x and then y behind what x left unfinished is to read both at   *)
(* once (analyzeSSEChunk keeps that rest in *carry, sseparse.go:38-80).    *)
LEMMA CarryGoesOn ==
  ASSUME NEW S, LF \in S, NEW x \in Seq(S), NEW y \in Seq(S)
  PROVE  CarriesOn(x, y)
<1> DEFINE P(k) == \A t \in Seq(S) : Len(t) <= k => CarriesOn(t, y)
           n == Len(x)
           K == {k \in 0..n : P(k)}
<1>1. n \in Nat
  BY LenProperties
<1>2. ASSUME NEW t \in Seq(S), BlankLines(t) = {} PROVE CarriesOn(t, y)
  <2>1. ~FinishedData(t) /\ ~FinishedStop(t) /\ Blocks(t).carry = t
    BY <1>2, FoundUnblocked
  <2> QED BY <2>1 DEF CarriesOn
<1>3. P(0)
  <2> SUFFICES ASSUME NEW t \in Seq(S), Len(t) <= 0 PROVE CarriesOn(t, y)
    OBVIOUS
  <2>1. Len(t) \in Nat
    BY LenProperties
  <2>2. BlankLines(t) = {}
    BY <2>1 DEF BlankLines
  <2> QED BY <1>2, <2>2
<1>4. ASSUME NEW k \in 1..n, P(k - 1) PROVE P(k)
  <2> SUFFICES ASSUME NEW t \in Seq(S), Len(t) <= k, BlankLines(t) # {}
               PROVE  CarriesOn(t, y)
    BY <1>2
  <2>1. PICK b, r \in Seq(S) : IsCut(t, b, r) /\ Len(r) < Len(t)
    BY HasCut
  <2>2. CarriesOn(r, y)
    <3>1. Len(r) \in Nat /\ Len(t) \in Nat
      BY LenProperties
    <3>2. Len(r) <= k - 1
      BY <1>1, <2>1, <3>1
    <3> QED BY <1>4, <3>2
  <2>3. PICK z, c, s : z = Blocks(r).carry \o y /\ c = t \o y /\ s = r \o y
    OBVIOUS
  <2>4. IsCut(c, b, s) /\ s \in Seq(S)
    BY <2>1, <2>3, CutStays
  <2>5. /\ FinishedData(c) <=> IsData(b) \/ FinishedData(s)
        /\ FinishedStop(c) <=> IsStop(b) \/ FinishedStop(s)
        /\ HasData(c) <=> IsData(b) \/ HasData(s)
        /\ HasStop(c) <=> IsStop(b) \/ HasStop(s)
        /\ Blocks(c).carry = Blocks(s).carry
    BY <2>4, FoundFirst
  <2>6. /\ FinishedData(t) <=> IsData(b) \/ FinishedData(r)
        /\ FinishedStop(t) <=> IsStop(b) \/ FinishedStop(r)
        /\ Blocks(t).carry = Blocks(r).carry
    BY <2>1, FoundFirst
  <2>7. /\ FinishedData(s) <=> FinishedData(r) \/ FinishedData(z)
        /\ FinishedStop(s) <=> FinishedStop(r) \/ FinishedStop(z)
        /\ HasData(s) <=> FinishedData(r) \/ HasData(z)
        /\ HasStop(s) <=> FinishedStop(r) \/ HasStop(z)
        /\ Blocks(s).carry = Blocks(z).carry
    BY <2>2, <2>3 DEF CarriesOn
  <2>8. z = Blocks(t).carry \o y
    BY <2>3, <2>6
  <2> QED BY <2>3, <2>5, <2>6, <2>7, <2>8 DEF CarriesOn
<1>5. 0 \in K
  BY <1>1, <1>3
<1>6. ASSUME NEW k \in 1..n, k - 1 \in K PROVE k \in K
  <2>1. k \in 0..n /\ P(k - 1)
    <3> HIDE DEF P
    <3> QED BY <1>1, <1>6
  <2>2. P(k)
    <3> HIDE DEF P
    <3> QED BY <1>4, <2>1
  <2> HIDE DEF P
  <2> QED BY <2>1, <2>2
<1>7. \A k \in 0..n : k \in K
  <2> HIDE DEF K
  <2> QED BY <1>1, <1>5, <1>6, BoundedInduct
<1>8. P(n)
  <2>1. n \in K
    <3> HIDE DEF K
    <3> QED BY <1>1, <1>7
  <2> HIDE DEF P
  <2> QED BY <2>1
<1> QED BY <1>1, <1>8

-----------------------------------------------------------------------------
(* One more line end, before a text or after a line end of it.             *)
Starts(w) == w # <<>> /\ w[1] = LF
StopsAtEnd(w) == w # <<>> /\ w[Len(w)] = LF

(* A text without its last line end.                                       *)
LEMMA EndsCut ==
  ASSUME NEW S, NEW c \in Seq(S), BlankLines(c) = {}, StopsAtEnd(c)
  PROVE  \E d \in Seq(S) : c = d \o <<LF>> /\ Closes(d)
<1>1. PICK n, d, e : n = Len(c) - 1 /\ d = SubSeq(c, 1, n)
                     /\ e = SubSeq(c, n + 1, Len(c))
  OBVIOUS
<1>2. Len(c) \in Nat /\ Len(c) > 0 /\ c[Len(c)] = LF
  BY LenProperties, EmptySeq DEF StopsAtEnd
<1>3. n \in 0..Len(c) /\ n + 1 = Len(c)
  BY <1>1, <1>2
<1>4. /\ d \in Seq(S) /\ e \in Seq(S) /\ d \o e = c /\ Len(d) = n
      /\ Len(e) = Len(c) - n
  BY <1>1, <1>3, SplitAt
<1>5. e = <<LF>>
  <2>1. Len(e) = 1 /\ 1 \in 1..Len(e)
    BY <1>2, <1>3, <1>4
  <2>2. e[1] = LF
    <3>1. c[n + 1] = e[1]
      BY <1>4, <2>1, ConcatAt
    <3> QED BY <1>2, <1>3, <3>1
  <2>3. LF \in S
    BY <1>4, <2>1, <2>2, ElementOfSeq
  <2>0. PICK x : x = <<LF>>
    OBVIOUS
  <2>4. x = <<LF>> /\ x \in Seq(S) /\ Len(x) = 1 /\ x[1] = LF
    BY <2>0, <2>3
  <2>5. \A i \in 1..Len(e) : e[i] = x[i]
    BY <2>1, <2>2, <2>4
  <2>6. e = x
    BY <1>4, <2>1, <2>4, <2>5, SameSeq
  <2> QED BY <2>4, <2>6
<1>6. \A i \in 1..n : d[i] = c[i]
  BY <1>4, ConcatAt
<1>7. \A i \in 1..(Len(c) - 1) : ~(c[i] = LF /\ c[i + 1] = LF)
  BY DEF BlankLines
<1>8. ASSUME NEW i \in 1..(n - 1), d[i] = LF, d[i + 1] = LF PROVE FALSE
  <2>1. i \in 1..n /\ i + 1 \in 1..n /\ i \in 1..(Len(c) - 1)
    BY <1>2, <1>3
  <2> QED BY <1>6, <1>7, <1>8, <2>1
<1>9. ASSUME n > 0, d[n] = LF PROVE FALSE
  <2>1. n \in 1..n /\ n \in 1..(Len(c) - 1)
    BY <1>2, <1>3, <1>9
  <2> QED BY <1>2, <1>3, <1>6, <1>7, <1>9, <2>1
<1>10. Closes(d)
  BY <1>4, <1>8, <1>9 DEF Closes, BlankLines
<1> QED BY <1>4, <1>5, <1>10

(* A text without its first line end.                                      *)
LEMMA StartCut ==
  ASSUME NEW S, NEW w \in Seq(S), Starts(w)
  PROVE  \E v \in Seq(S) : w = <<LF>> \o v /\ Len(v) < Len(w)
<1>1. PICK d, v : d = SubSeq(w, 1, 1) /\ v = SubSeq(w, 1 + 1, Len(w))
  OBVIOUS
<1>2. Len(w) \in Nat /\ Len(w) > 0 /\ w[1] = LF
  BY LenProperties, EmptySeq DEF Starts
<1>3. /\ d \in Seq(S) /\ v \in Seq(S) /\ d \o v = w /\ Len(d) = 1
      /\ Len(v) = Len(w) - 1
  <2>1. 1 \in 0..Len(w)
    BY <1>2
  <2> QED BY <1>1, <2>1, SplitAt
<1>4. d = <<LF>>
  <2>1. 1 \in 1..Len(d)
    BY <1>3
  <2>2. d[1] = LF
    <3>1. w[1] = d[1]
      BY <1>3, <2>1, ConcatAt
    <3> QED BY <1>2, <3>1
  <2>3. LF \in S
    BY <1>3, <2>1, <2>2, ElementOfSeq
  <2>0. PICK x : x = <<LF>>
    OBVIOUS
  <2>4. x = <<LF>> /\ x \in Seq(S) /\ Len(x) = 1 /\ x[1] = LF
    BY <2>0, <2>3
  <2>5. \A i \in 1..Len(d) : d[i] = x[i]
    BY <1>3, <2>2, <2>4
  <2>6. d = x
    BY <1>3, <2>4, <2>5, SameSeq
  <2> QED BY <2>4, <2>6
<1>5. Len(v) < Len(w)
  BY <1>2, <1>3
<1> QED BY <1>3, <1>4, <1>5

(* Two texts without a blank line make one, unless line ends meet.         *)
LEMMA JoinUnblocked ==
  ASSUME NEW S, NEW a \in Seq(S), NEW b \in Seq(S),
         BlankLines(a) = {}, BlankLines(b) = {},
         ~(StopsAtEnd(a) /\ Starts(b))
  PROVE  /\ BlankLines(a \o b) = {}
         /\ b # <<>> /\ Closes(b) => Closes(a \o b)
<1>1. PICK m, n, w : m = Len(a) /\ n = Len(b) /\ w = a \o b
  OBVIOUS
<1>2. /\ Len(w) = m + n /\ m \in Nat /\ n \in Nat
      /\ \A i \in 1..m : w[i] = a[i]
      /\ \A i \in 1..n : w[m + i] = b[i]
  BY <1>1, ConcatAt
<1>3. /\ \A i \in 1..(m - 1) : ~(a[i] = LF /\ a[i + 1] = LF)
      /\ \A i \in 1..(n - 1) : ~(b[i] = LF /\ b[i + 1] = LF)
  BY <1>1 DEF BlankLines
<1>4. ~(m > 0 /\ n > 0 /\ a[m] = LF /\ b[1] = LF)
  <2>1. (m > 0 => a # <<>>) /\ (n > 0 => b # <<>>)
    BY <1>1, EmptySeq
  <2> QED BY <1>1, <2>1 DEF StopsAtEnd, Starts
<1>5. ASSUME NEW i \in 1..(m + n - 1), w[i] = LF, w[i + 1] = LF PROVE FALSE
  <2>1. CASE i < m
    <3>1. i \in 1..m /\ i + 1 \in 1..m /\ i \in 1..(m - 1)
      BY <1>2, <2>1
    <3> QED BY <1>2, <1>3, <1>5, <3>1
  <2>2. CASE i = m
    <3>1. m \in 1..m /\ 1 \in 1..n /\ m > 0 /\ n > 0
      BY <1>2, <2>2
    <3>2. w[m] = a[m] /\ w[m + 1] = b[1]
      BY <1>2, <3>1
    <3> QED BY <1>4, <1>5, <2>2, <3>1, <3>2
  <2>3. CASE i > m
    <3>1. PICK j : j = i - m
      OBVIOUS
    <3>2. /\ j \in 1..n /\ j + 1 \in 1..n /\ j \in 1..(n - 1)
          /\ i = m + j /\ i + 1 = m + (j + 1)
      BY <1>2, <2>3, <3>1
    <3>3. w[m + j] = b[j] /\ w[m + (j + 1)] = b[j + 1]
      BY <1>2, <3>2
    <3> QED BY <1>3, <1>5, <3>2, <3>3
  <2> QED BY <1>2, <2>1, <2>2, <2>3
<1>6. BlankLines(w) = {}
  BY <1>2, <1>5 DEF BlankLines
<1>7. ASSUME b # <<>>, Closes(b) PROVE Closes(w)
  <2>1. n > 0 /\ n \in 1..n /\ m + n > 0
    BY <1>1, <1>2, <1>7, EmptySeq
  <2>2. w[m + n] = b[n] /\ b[n] # LF
    BY <1>1, <1>2, <1>7, <2>1 DEF Closes
  <2> QED BY <1>2, <1>6, <2>2 DEF Closes
<1> QED BY <1>1, <1>6, <1>7

LEMMA UnblockedEnd ==
  ASSUME NEW S, LF \in S
  PROVE  /\ <<LF>> \in Seq(S) /\ BlankLines(<<LF>>) = {} /\ <<LF>> # <<>>
         /\ <<>> \in Seq(S) /\ BlankLines(<<>>) = {} /\ Closes(<<>>)
<1>1. PICK x : x = <<LF>>
  OBVIOUS
<1>2. x \in Seq(S) /\ Len(x) = 1 /\ x # <<>> /\ 1..(1 - 1) = {}
  BY <1>1
<1>3. BlankLines(x) = {}
  BY <1>2 DEF BlankLines
<1>4. <<>> \in Seq(S) /\ Len(<<>>) = 0 /\ 1..(0 - 1) = {}
  OBVIOUS
<1>5. BlankLines(<<>>) = {} /\ Closes(<<>>)
  BY <1>4 DEF BlankLines, Closes
<1> QED BY <1>1, <1>2, <1>3, <1>4, <1>5

(* A text put before another one lengthens its first block.                *)
LEMMA CutJoin ==
  ASSUME NEW S, LF \in S, NEW a \in Seq(S), NEW b \in Seq(S), NEW r \in Seq(S),
         NEW w, IsCut(w, b, r), BlankLines(a) = {}, b # <<>>,
         ~(StopsAtEnd(a) /\ Starts(b))
  PROVE  IsCut(a \o w, a \o b, r) /\ a \o b \in Seq(S)
<1>1. PICK E, q : E = BlankEnd /\ q = E \o r /\ w = b \o q /\ Closes(b)
  BY DEF IsCut
<1>2. E \in Seq(S)
  <2>1. E = <<LF, LF>>
    BY <1>1 DEF BlankEnd
  <2> QED BY <2>1
<1>3. q \in Seq(S) /\ a \o b \in Seq(S)
  <2>1. q = E \o r
    BY <1>1
  <2> QED BY <1>2, <2>1, ConcatProperties
<1>4. \A x, y, z \in Seq(S) : (x \o y) \o z = x \o (y \o z)
  BY ONLY ConcatRegroups
<1>5. a \o w = (a \o b) \o q
  <2>1. (a \o b) \o q = a \o (b \o q)
    BY <1>3, <1>4
  <2> QED BY <1>1, <2>1, Zenon
<1>6. Closes(a \o b)
  <2>1. BlankLines(b) = {}
    BY <1>1 DEF Closes
  <2> QED BY <1>1, <2>1, JoinUnblocked
<1>7. a \o w = (a \o b) \o (BlankEnd \o r)
  BY <1>1, <1>5, Zenon
<1> QED BY <1>3, <1>6, <1>7 DEF IsCut

-----------------------------------------------------------------------------
(* A line end before a text changes nothing.                               *)
(* Two texts the classifier judges alike.                                  *)
Alike(x, y) == (HasData(x) <=> HasData(y)) /\ (HasStop(x) <=> HasStop(y))

LEMMA FirstStarts ==
  ASSUME NEW S, NEW b \in Seq(S), NEW r \in Seq(S), LF \in S,
         NEW w, IsCut(w, b, r), ~Starts(w)
  PROVE  b # <<>> /\ ~Starts(b)
<1>1. PICK q, E : E = BlankEnd /\ q = E \o r /\ w = b \o q
  BY DEF IsCut
<1>2. E \in Seq(S) /\ Len(E) = 2 /\ E[1] = LF
  <2>1. E = <<LF, LF>>
    BY <1>1 DEF BlankEnd
  <2> QED BY <2>1
<1>3. q \in Seq(S) /\ q[1] = LF /\ Len(q) > 0
  <2>1. q = E \o r
    BY <1>1
  <2>2. /\ q \in Seq(S) /\ Len(q) = Len(E) + Len(r) /\ Len(r) \in Nat
        /\ \A i \in 1..Len(E) : q[i] = E[i]
    BY <1>2, <2>1, ConcatAt
  <2>3. 1 \in 1..Len(E) /\ Len(q) > 0
    BY <1>2, <2>2
  <2> QED BY <1>2, <2>2, <2>3
<1>4. q # <<>>
  BY <1>3, EmptySeq
<1>5. ASSUME b = <<>> PROVE FALSE
  <2>1. <<>> \o q = q
    BY <1>3, ConcatEmptySeq
  <2>2. w = q
    BY <1>1, <1>5, <2>1
  <2> QED BY <1>3, <1>4, <2>2 DEF Starts
<1>6. ASSUME Starts(b) PROVE FALSE
  <2>1. Len(b) \in Nat /\ Len(b) > 0 /\ b[1] = LF
    BY <1>6, LenProperties, EmptySeq DEF Starts
  <2>2. /\ \A i \in 1..Len(b) : w[i] = b[i]
        /\ Len(w) = Len(b) + Len(q) /\ Len(q) \in Nat
    <3>1. w = b \o q /\ q \in Seq(S)
      BY <1>1, <1>3
    <3> QED BY <3>1, ConcatAt
  <2>3. w[1] = LF /\ Len(w) > 0
    BY <2>1, <2>2
  <2>4. w # <<>>
    BY <2>3, EmptySeq
  <2> QED BY <2>3, <2>4 DEF Starts
<1> QED BY <1>5, <1>6

LEMMA AfterLineEnd ==
  ASSUME NEW S, LF \in S, NEW w \in Seq(S), ~Starts(w)
  PROVE  Alike(<<LF>> \o w, w)
<1>1. PICK a : a = <<LF>>
  OBVIOUS
<1>2. a \in Seq(S) /\ BlankLines(a) = {} /\ a # <<>>
  BY <1>1, UnblockedEnd
<1>3. PICK x : x = a \o w
  OBVIOUS
<1>4. x \in Seq(S)
  BY <1>2, <1>3, ConcatProperties
<1>5. \A v \in Seq(S) : Lines(a \o v) = Lines(v)
  BY <1>1, LinesParted
<1>6. CASE BlankLines(w) = {}
  <2>1. BlankLines(x) = {}
    BY <1>2, <1>3, <1>6, JoinUnblocked
  <2>2. HasData(x) <=> IsData(x)
    BY <1>4, <2>1, FoundUnblocked
  <2>3. HasStop(x) <=> IsStop(x)
    BY <1>4, <2>1, FoundUnblocked
  <2>4. (HasData(w) <=> IsData(w)) /\ (HasStop(w) <=> IsStop(w))
    BY <1>6, FoundUnblocked
  <2>5. Lines(x) = Lines(w)
    BY <1>3, <1>5
  <2>6. (IsData(x) <=> IsData(w)) /\ (IsStop(x) <=> IsStop(w))
    BY <2>5, SameLines
  <2> QED BY <1>1, <1>3, <2>2, <2>3, <2>4, <2>6 DEF Alike
<1>7. CASE BlankLines(w) # {}
  <2>1. PICK b, r \in Seq(S) : IsCut(w, b, r)
    BY <1>7, HasCut
  <2>2. b # <<>> /\ ~Starts(b)
    BY <2>1, FirstStarts
  <2>3. PICK c : c = a \o b
    OBVIOUS
  <2>4. IsCut(x, c, r) /\ c \in Seq(S)
    BY <1>2, <1>3, <2>1, <2>2, <2>3, CutJoin
  <2>5. /\ HasData(x) <=> IsData(c) \/ HasData(r)
        /\ HasStop(x) <=> IsStop(c) \/ HasStop(r)
    BY <2>4, FoundFirst
  <2>6. /\ HasData(w) <=> IsData(b) \/ HasData(r)
        /\ HasStop(w) <=> IsStop(b) \/ HasStop(r)
    BY <2>1, FoundFirst
  <2>7. Lines(c) = Lines(b)
    BY <1>5, <2>3
  <2>8. (IsData(c) <=> IsData(b)) /\ (IsStop(c) <=> IsStop(b))
    BY <2>7, SameLines
  <2> QED BY <1>1, <1>3, <2>5, <2>6, <2>8 DEF Alike
<1> QED BY <1>6, <1>7

LEMMA BlankFirst ==
  ASSUME NEW S, LF \in S, NEW v \in Seq(S)
  PROVE  Alike(<<LF>> \o (<<LF>> \o v), v)
<1>1. PICK w : w = <<LF>> \o (<<LF>> \o v)
  OBVIOUS
<1>2. PICK e : e = <<>>
  OBVIOUS
<1>3. e \in Seq(S) /\ Closes(e) /\ Lines(e) = {}
  BY <1>2, UnblockedEnd, LinesEmpty
<1>4. IsCut(w, e, v)
  <2>1. PICK a, E, q : a = <<LF>> /\ E = BlankEnd /\ q = E \o v
    OBVIOUS
  <2>2. a \in Seq(S) /\ E \in Seq(S) /\ E = a \o a
    <3>1. <<LF, LF>> = <<LF>> \o <<LF>> /\ <<LF, LF>> \in Seq(S)
      OBVIOUS
    <3> QED BY <2>1, <3>1, UnblockedEnd DEF BlankEnd
  <2>3. \A x, y, z \in Seq(S) : (x \o y) \o z = x \o (y \o z)
    BY ONLY ConcatRegroups
  <2>4. (a \o a) \o v = a \o (a \o v)
    BY <2>2, <2>3
  <2>5. w = q
    BY <1>1, <2>1, <2>2, <2>4, Zenon
  <2>6. q \in Seq(S)
    BY <2>1, <2>2, ConcatProperties
  <2>7. e \o q = q
    BY <1>2, <2>6, ConcatEmptySeq
  <2> QED BY <1>3, <2>1, <2>5, <2>7 DEF IsCut
<1>5. /\ HasData(w) <=> IsData(e) \/ HasData(v)
      /\ HasStop(w) <=> IsStop(e) \/ HasStop(v)
  BY <1>3, <1>4, FoundFirst
<1>6. ~IsData(e) /\ ~IsStop(e)
  BY <1>3, NoLines
<1> QED BY <1>1, <1>5, <1>6 DEF Alike

LEMMA LineEndBefore ==
  ASSUME NEW S, LF \in S, NEW w \in Seq(S)
  PROVE  Alike(<<LF>> \o w, w)
<1> DEFINE P(k) == \A t \in Seq(S) : Len(t) <= k => Alike(<<LF>> \o t, t)
           n == Len(w)
           K == {k \in 0..n : P(k)}
<1>1. n \in Nat
  BY LenProperties
<1>2. P(0)
  <2> SUFFICES ASSUME NEW t \in Seq(S), Len(t) <= 0
               PROVE  Alike(<<LF>> \o t, t)
    OBVIOUS
  <2>1. t = <<>>
    BY LenProperties, EmptySeq
  <2> QED BY <2>1, AfterLineEnd DEF Starts
<1>3. ASSUME NEW k \in 1..n, P(k - 1) PROVE P(k)
  <2> SUFFICES ASSUME NEW t \in Seq(S), Len(t) <= k, Starts(t)
               PROVE  Alike(<<LF>> \o t, t)
    BY AfterLineEnd
  <2>1. PICK v \in Seq(S) : t = <<LF>> \o v /\ Len(v) < Len(t)
    BY StartCut
  <2>2. Alike(<<LF>> \o v, v)
    <3>1. Len(v) \in Nat /\ Len(t) \in Nat
      BY LenProperties
    <3>2. Len(v) <= k - 1
      BY <1>1, <2>1, <3>1
    <3> QED BY <1>3, <3>2
  <2>3. Alike(<<LF>> \o t, v)
    BY <2>1, BlankFirst
  <2> QED BY <2>1, <2>2, <2>3 DEF Alike
<1>4. 0 \in K
  BY <1>1, <1>2
<1>5. ASSUME NEW k \in 1..n, k - 1 \in K PROVE k \in K
  <2>1. k \in 0..n /\ P(k - 1)
    <3> HIDE DEF P
    <3> QED BY <1>1, <1>5
  <2>2. P(k)
    <3> HIDE DEF P
    <3> QED BY <1>3, <2>1
  <2> HIDE DEF P
  <2> QED BY <2>1, <2>2
<1>6. \A k \in 0..n : k \in K
  <2> HIDE DEF K
  <2> QED BY <1>1, <1>4, <1>5, BoundedInduct
<1>7. P(n)
  <2>1. n \in K
    <3> HIDE DEF K
    <3> QED BY <1>1, <1>6
  <2> HIDE DEF P
  <2> QED BY <2>1
<1> QED BY <1>1, <1>7

(* A line end after a line end hides nothing.                              *)
Finer(x, y) == (HasData(x) => HasData(y)) /\ (HasStop(x) <=> HasStop(y))

EndsWith(c, d) == c = d \o <<LF>>

(* So it is when the line end ends a block early.                          *)
LEMMA AfterCarry ==
  ASSUME NEW S, LF \in S, NEW d \in Seq(S), Closes(d),
         NEW c \in Seq(S), EndsWith(c, d), BlankLines(c) = {},
         NEW w \in Seq(S)
  PROVE  /\ Finer(c \o w, c \o (<<LF>> \o w))
         /\ w = <<>> => Alike(c \o w, c \o (<<LF>> \o w))
<1>1. PICK a, x, y : a = <<LF>> /\ x = c \o w /\ y = c \o (a \o w)
  OBVIOUS
<1>2. a \in Seq(S)
  BY <1>1, UnblockedEnd
<1>3. x \in Seq(S)
  BY <1>1, ConcatProperties
<1>4. \A u, v, z \in Seq(S) : (u \o v) \o z = u \o (v \o z)
  BY ONLY ConcatRegroups
<1>5. \A v \in Seq(S) : IsCut(c \o (a \o v), d, v)
  <2> TAKE v \in Seq(S)
  <2>1. PICK E, u : E = BlankEnd /\ u = a \o v
    OBVIOUS
  <2>2. E = a \o a /\ u \in Seq(S)
    <3>1. <<LF, LF>> = <<LF>> \o <<LF>>
      OBVIOUS
    <3>2. E = a \o a
      BY <1>1, <2>1, <3>1 DEF BlankEnd
    <3> QED BY <1>2, <2>1, <3>2, ConcatProperties
  <2>3. (a \o a) \o v = a \o (a \o v)
    <3>1. a \in Seq(S) /\ v \in Seq(S)
      BY <1>2
    <3> QED BY ONLY <1>4, <3>1
  <2>4. (d \o a) \o u = d \o (a \o u)
    <3>1. d \in Seq(S) /\ a \in Seq(S) /\ u \in Seq(S)
      BY <1>2, <2>2
    <3> QED BY ONLY <1>4, <3>1
  <2>5. E \o v = a \o u
    BY <2>1, <2>2, <2>3, Zenon
  <2>6. c \o u = d \o (E \o v)
    <3>1. c = d \o a
      BY <1>1 DEF EndsWith
    <3> QED BY <2>4, <2>5, <3>1, Zenon
  <2> QED BY <2>1, <2>6 DEF IsCut
<1>6. /\ HasData(y) <=> IsData(d) \/ HasData(w)
      /\ HasStop(y) <=> IsStop(d) \/ HasStop(w)
  <2>1. IsCut(y, d, w)
    BY <1>1, <1>5
  <2> QED BY <2>1, FoundFirst
<1>7. \A v \in Seq(S) : Lines(c \o v) = Lines(d) \cup Lines(v)
  <2> TAKE v \in Seq(S)
  <2>1. Lines((d \o <<LF>>) \o v) = Lines(d) \cup Lines(v)
    BY LinesParted
  <2> QED BY <2>1 DEF EndsWith
<1>8. CASE Starts(w)
  <2>1. PICK v \in Seq(S) : w = a \o v
    BY <1>1, <1>8, StartCut
  <2>2. /\ HasData(x) <=> IsData(d) \/ HasData(v)
        /\ HasStop(x) <=> IsStop(d) \/ HasStop(v)
    <3>1. IsCut(x, d, v)
      BY <1>1, <1>5, <2>1
    <3> QED BY <3>1, FoundFirst
  <2>3. Alike(w, v)
    BY <1>1, <2>1, LineEndBefore
  <2> QED BY <1>1, <1>6, <1>8, <2>2, <2>3 DEF Finer, Alike, Starts
<1>9. CASE ~Starts(w) /\ BlankLines(w) = {}
  <2>1. BlankLines(x) = {}
    BY <1>1, <1>9, JoinUnblocked
  <2>2. (HasData(x) <=> IsData(x)) /\ (HasStop(x) <=> IsStop(x))
    BY <1>3, <2>1, FoundUnblocked
  <2>3. (HasData(w) <=> IsData(w)) /\ (HasStop(w) <=> IsStop(w))
    BY <1>9, FoundUnblocked
  <2>4. Lines(x) = Lines(d) \cup Lines(w)
    BY <1>1, <1>7
  <2>5. /\ IsData(x) => IsData(d) \/ IsData(w)
        /\ IsStop(x) <=> IsStop(d) \/ IsStop(w)
    BY <2>4, ByLines
  <2>6. w = <<>> => (IsData(x) <=> IsData(d)) /\ ~IsData(w)
    <3> SUFFICES ASSUME w = <<>> PROVE (IsData(x) <=> IsData(d)) /\ ~IsData(w)
      OBVIOUS
    <3>1. Lines(w) = {}
      BY LinesEmpty
    <3>2. Lines(x) = Lines(d)
      BY <2>4, <3>1
    <3> QED BY <3>1, <3>2, NoLines, SameLines
  <2> QED BY <1>1, <1>6, <2>2, <2>3, <2>5, <2>6 DEF Finer, Alike
<1>10. CASE ~Starts(w) /\ BlankLines(w) # {}
  <2>1. PICK b, r \in Seq(S) : IsCut(w, b, r)
    BY <1>10, HasCut
  <2>2. b # <<>> /\ ~Starts(b)
    BY <1>10, <2>1, FirstStarts
  <2>3. PICK e : e = c \o b
    OBVIOUS
  <2>4. IsCut(x, e, r) /\ e \in Seq(S)
    BY <1>1, <2>1, <2>2, <2>3, CutJoin
  <2>5. /\ HasData(x) <=> IsData(e) \/ HasData(r)
        /\ HasStop(x) <=> IsStop(e) \/ HasStop(r)
    BY <2>4, FoundFirst
  <2>6. /\ HasData(w) <=> IsData(b) \/ HasData(r)
        /\ HasStop(w) <=> IsStop(b) \/ HasStop(r)
    BY <2>1, FoundFirst
  <2>7. Lines(e) = Lines(d) \cup Lines(b)
    BY <1>7, <2>3
  <2>8. /\ IsData(e) => IsData(d) \/ IsData(b)
        /\ IsStop(e) <=> IsStop(d) \/ IsStop(b)
    BY <2>7, ByLines
  <2>9. w # <<>>
    <3>1. BlankLines(<<>>) = {}
      BY UnblockedEnd
    <3> QED BY <1>10, <3>1
  <2> QED BY <1>1, <1>6, <2>5, <2>6, <2>8, <2>9 DEF Finer
<1> QED BY <1>8, <1>9, <1>10

-----------------------------------------------------------------------------
LEMMA CarryEnds ==
  ASSUME NEW S, NEW x \in Seq(S), StopsAtEnd(x)
  PROVE  Blocks(x).carry = <<>> \/ StopsAtEnd(Blocks(x).carry)
<1>1. PICK n, p, c : /\ n = Len(x) /\ n \in Nat /\ p \in 1..(n + 1)
                     /\ c = Blocks(x).carry /\ c = SubSeq(x, p, n)
  BY CarryIs, LenProperties DEF From
<1>2. x[n] = LF
  BY <1>1 DEF StopsAtEnd
<1>3. CASE p = n + 1
  <2>1. p \in Int /\ n \in Int /\ n < p
    BY <1>1, <1>3
  <2> QED BY <1>1, <2>1, SubSeqEmpty
<1>4. CASE p <= n
  <2>1. \A i \in p..n : x[i] \in S
    BY <1>1, ElementOfSeq
  <2>2. p \in Int /\ n \in Int
    BY <1>1
  <2>3. /\ c \in Seq(S) /\ Len(c) = n - p + 1
        /\ \A i \in 1..(n - p + 1) : c[i] = x[p + i - 1]
    BY <1>1, <1>4, <2>1, <2>2, SubSeqProperties
  <2>4. n - p + 1 \in 1..(n - p + 1) /\ p + (n - p + 1) - 1 = n
    BY <1>1, <1>4
  <2>5. c[Len(c)] = LF /\ Len(c) > 0
    <3>1. c[n - p + 1] = x[p + (n - p + 1) - 1]
      BY <2>3, <2>4
    <3> QED BY <1>2, <2>3, <2>4, <3>1
  <2>6. c # <<>>
    BY <2>5, EmptySeq
  <2> QED BY <1>1, <2>5, <2>6 DEF StopsAtEnd
<1> QED BY <1>1, <1>3, <1>4

(* A second line end behind a line end may end a block early: data that    *)
(* belonged to a ping block then counts as data; data that was seen stays  *)
(* seen, and so does the end.                                              *)
LEMMA LineEndFiner ==
  ASSUME NEW S, LF \in S, CR \notin S, NEW x \in Seq(S), StopsAtEnd(x),
         NEW w \in Seq(S)
  PROVE  /\ Finer(x \o w, x \o (<<LF>> \o w))
         /\ w = <<>> => Alike(x \o w, x \o (<<LF>> \o w))
<1>1. PICK a, v : a = <<LF>> /\ v = a \o w
  OBVIOUS
<1>2. a \in Seq(S) /\ v \in Seq(S)
  BY <1>1, UnblockedEnd, ConcatProperties
<1>3. PICK c : c = Blocks(x).carry
  OBVIOUS
<1>4. c \in Seq(S) /\ BlankLines(c) = {}
  BY <1>3, CarryUnfinished DEF Unfinished
<1>5. /\ HasData(x \o w) <=> FinishedData(x) \/ HasData(c \o w)
      /\ HasStop(x \o w) <=> FinishedStop(x) \/ HasStop(c \o w)
  BY <1>3, CarryGoesOn DEF CarriesOn
<1>6. /\ HasData(x \o v) <=> FinishedData(x) \/ HasData(c \o v)
      /\ HasStop(x \o v) <=> FinishedStop(x) \/ HasStop(c \o v)
  BY <1>2, <1>3, CarryGoesOn DEF CarriesOn
<1>7. /\ Finer(c \o w, c \o v)
      /\ w = <<>> => Alike(c \o w, c \o v)
  <2>1. CASE c = <<>>
    <3>1. c \o w = w /\ c \o v = v
      BY <1>2, <2>1, ConcatEmptySeq
    <3>2. Alike(v, w)
      BY <1>1, LineEndBefore
    <3> QED BY <3>1, <3>2 DEF Alike, Finer
  <2>2. CASE c # <<>>
    <3>1. StopsAtEnd(c)
      BY <1>3, <2>2, CarryEnds
    <3>2. PICK d \in Seq(S) : EndsWith(c, d) /\ Closes(d)
      BY <1>4, <3>1, EndsCut DEF EndsWith
    <3> QED BY <1>1, <1>4, <3>2, AfterCarry
  <2> QED BY <2>1, <2>2
<1> QED BY <1>1, <1>5, <1>6, <1>7 DEF Finer, Alike

-----------------------------------------------------------------------------
(* Normalized, of a text that is cut.                                      *)
LineEnded(text) == [i \in DOMAIN text |-> IF text[i] = CR THEN LF ELSE text[i]]

NotAfterCR(text) ==
  {i \in DOMAIN text : ~(text[i] = LF /\ i > 1 /\ text[i - 1] = CR)}

LEMMA LineEndedIs ==
  ASSUME NEW S, LF \in S, NEW x \in Seq(S)
  PROVE  /\ LineEnded(x) \in Seq(S \ {CR}) /\ LineEnded(x) \in Seq(S)
         /\ Len(LineEnded(x)) = Len(x)
         /\ \A i \in 1..Len(x) :
              LineEnded(x)[i] = IF x[i] = CR THEN LF ELSE x[i]
         /\ Normalized(x) = Only(LineEnded(x), NotAfterCR(x))
<1>1. PICK n : n = Len(x) /\ n \in Nat /\ DOMAIN x = 1..n
  BY LenProperties
<1>2. \A i \in 1..n : (IF x[i] = CR THEN LF ELSE x[i]) \in S \ {CR}
  <2>1. LF # CR
    BY DEF LF, CR
  <2>2. \A i \in 1..n : x[i] \in S
    BY <1>1, ElementOfSeq
  <2> QED BY <2>1, <2>2
<1>3. PICK s : s = LineEnded(x)
  OBVIOUS
<1>4. /\ s \in [1..n -> S \ {CR}]
      /\ \A i \in 1..n : s[i] = IF x[i] = CR THEN LF ELSE x[i]
  BY <1>1, <1>2, <1>3 DEF LineEnded
<1>5. s \in Seq(S \ {CR}) /\ s \in [1..n -> S]
  BY <1>1, <1>4
<1>6. s \in Seq(S) /\ Len(s) = n
  BY <1>1, <1>5, LenProperties
<1>7. Normalized(x) = Only(s, NotAfterCR(x))
  BY <1>3 DEF Normalized, LineEnded, NotAfterCR
<1> QED BY <1>1, <1>3, <1>4, <1>5, <1>6, <1>7

LEMMA NormalizedIs ==
  ASSUME NEW S, LF \in S, NEW x \in Seq(S)
  PROVE  Normalized(x) \in Seq(S \ {CR}) /\ Normalized(x) \in Seq(S)
<1>1. PICK s : s = LineEnded(x)
  OBVIOUS
<1>2. /\ s \in Seq(S \ {CR}) /\ s \in Seq(S)
      /\ Normalized(x) = Only(s, NotAfterCR(x))
  BY <1>1, LineEndedIs
<1> QED BY <1>2, OnlyType

LEMMA LineEndedConcat ==
  ASSUME NEW S, LF \in S, NEW x \in Seq(S), NEW y \in Seq(S)
  PROVE  LineEnded(x \o y) = LineEnded(x) \o LineEnded(y)
<1>1. PICK w, m, n : w = x \o y /\ m = Len(x) /\ n = Len(y)
  OBVIOUS
<1>2. /\ w \in Seq(S) /\ Len(w) = m + n /\ m \in Nat /\ n \in Nat
      /\ \A i \in 1..m : w[i] = x[i]
      /\ \A i \in 1..n : w[m + i] = y[i]
  BY <1>1, ConcatAt
<1>3. PICK s, t, r : s = LineEnded(x) /\ t = LineEnded(y) /\ r = LineEnded(w)
  OBVIOUS
<1>4. /\ s \in Seq(S) /\ Len(s) = m
      /\ \A i \in 1..m : s[i] = IF x[i] = CR THEN LF ELSE x[i]
  BY <1>1, <1>3, LineEndedIs
<1>5. /\ t \in Seq(S) /\ Len(t) = n
      /\ \A i \in 1..n : t[i] = IF y[i] = CR THEN LF ELSE y[i]
  BY <1>1, <1>3, LineEndedIs
<1>6. /\ r \in Seq(S) /\ Len(r) = m + n
      /\ \A i \in 1..(m + n) : r[i] = IF w[i] = CR THEN LF ELSE w[i]
  BY <1>2, <1>3, LineEndedIs
<1>7. PICK q : q = s \o t
  OBVIOUS
<1>8. /\ q \in Seq(S) /\ Len(q) = m + n
      /\ \A i \in 1..m : q[i] = s[i]
      /\ \A i \in 1..n : q[m + i] = t[i]
  <2>1. s \in Seq(S) /\ t \in Seq(S)
    BY <1>4, <1>5
  <2>2. /\ q \in Seq(S) /\ Len(q) = Len(s) + Len(t)
        /\ \A i \in 1..Len(s) : q[i] = s[i]
        /\ \A i \in 1..Len(t) : q[Len(s) + i] = t[i]
    BY <1>7, <2>1, ConcatAt
  <2> QED BY <1>4, <1>5, <2>2
<1>9. ASSUME NEW i \in 1..(m + n) PROVE r[i] = q[i]
  <2>1. CASE i <= m
    <3>1. i \in 1..m
      BY <1>2, <2>1
    <3> QED BY <1>2, <1>4, <1>6, <1>8, <3>1
  <2>2. CASE i > m
    <3>1. PICK j : j = i - m
      OBVIOUS
    <3>2. j \in 1..n /\ i = m + j
      BY <1>2, <2>2, <3>1
    <3>3. w[m + j] = y[j] /\ q[m + j] = t[j]
      BY <1>2, <1>8, <3>2
    <3> QED BY <1>5, <1>6, <3>2, <3>3
  <2> QED BY <1>2, <2>1, <2>2
<1>10. r = q
  BY <1>6, <1>8, <1>9, SameSeq
<1> QED BY <1>1, <1>3, <1>7, <1>10

StopsAtCR(x) == x # <<>> /\ x[Len(x)] = CR

(* A text that is cut elsewhere than in a CR LF is normalised in parts.    *)
LEMMA NormalizedConcat ==
  ASSUME NEW S, LF \in S, NEW x \in Seq(S), NEW y \in Seq(S),
         ~(StopsAtCR(x) /\ Starts(y))
  PROVE  Normalized(x \o y) = Normalized(x) \o Normalized(y)
<1>1. PICK w, m, n : w = x \o y /\ m = Len(x) /\ n = Len(y)
  OBVIOUS
<1>2. /\ w \in Seq(S) /\ Len(w) = m + n /\ m \in Nat /\ n \in Nat
      /\ \A i \in 1..m : w[i] = x[i]
      /\ \A i \in 1..n : w[m + i] = y[i]
  BY <1>1, ConcatAt
<1>3. PICK K, J, L : /\ K = NotAfterCR(w) /\ J = NotAfterCR(x)
                     /\ L = NotAfterCR(y)
  OBVIOUS
<1>4. DOMAIN w = 1..(m + n) /\ DOMAIN x = 1..m /\ DOMAIN y = 1..n
  BY <1>1, <1>2, LenProperties
<1>5. ASSUME NEW k \in 1..m PROVE k \in K <=> k \in J
  <2>1. k \in 1..(m + n) /\ w[k] = x[k] /\ (k > 1 => w[k - 1] = x[k - 1])
    <3>1. k > 1 => k - 1 \in 1..m
      BY <1>2
    <3>2. k \in 1..(m + n)
      BY <1>2
    <3> QED BY <1>2, <3>1, <3>2
  <2> QED BY <1>3, <1>4, <2>1 DEF NotAfterCR
<1>6. ASSUME NEW k \in 1..n PROVE m + k \in K <=> k \in L
  <2>1. m + k \in 1..(m + n) /\ w[m + k] = y[k]
    BY <1>2
  <2>2. CASE k > 1
    <3>1. k - 1 \in 1..n /\ (m + k) - 1 = m + (k - 1) /\ m + k > 1
      BY <1>2, <2>2
    <3>2. w[(m + k) - 1] = y[k - 1]
      BY <1>2, <3>1
    <3> QED BY <1>3, <1>4, <2>1, <2>2, <3>1, <3>2 DEF NotAfterCR
  <2>3. CASE k = 1
    <3>1. k \in L
      BY <1>3, <1>4, <2>3 DEF NotAfterCR
    <3>2. ASSUME m + k \notin K PROVE FALSE
      <4>1. w[m + 1] = LF /\ m + 1 > 1 /\ w[(m + 1) - 1] = CR
        BY <1>3, <1>4, <2>1, <2>3, <3>2 DEF NotAfterCR
      <4>2. m > 0 /\ m \in 1..m /\ (m + 1) - 1 = m /\ n > 0 /\ y[1] = LF
        BY <1>2, <2>1, <2>3, <4>1
      <4>3. x[m] = CR
        BY <1>2, <4>1, <4>2
      <4>4. x # <<>> /\ y # <<>>
        BY <1>1, <4>2, EmptySeq
      <4> QED BY <1>1, <4>2, <4>3, <4>4 DEF StopsAtCR, Starts
    <3> QED BY <3>1, <3>2
  <2> QED BY <1>2, <2>2, <2>3
<1>7. PICK s, t : s = LineEnded(x) /\ t = LineEnded(y)
  OBVIOUS
<1>8. /\ s \in Seq(S) /\ Len(s) = m /\ t \in Seq(S) /\ Len(t) = n
      /\ Normalized(x) = Only(s, J) /\ Normalized(y) = Only(t, L)
  BY <1>1, <1>3, <1>7, LineEndedIs
<1>9. Normalized(w) = Only(s \o t, K)
  <2>1. LineEnded(w) = s \o t
    BY <1>1, <1>7, LineEndedConcat
  <2>2. Normalized(w) = Only(LineEnded(w), NotAfterCR(w))
    BY <1>2, LineEndedIs
  <2> QED BY <1>3, <2>1, <2>2
<1>10. PlacesApart(s, t, K, J, L)
  BY <1>5, <1>6, <1>8 DEF PlacesApart
<1>11. Only(s \o t, K) = Only(s, J) \o Only(t, L)
  <2>1. s \in Seq(S) /\ t \in Seq(S)
    BY <1>8
  <2> QED BY <1>10, <2>1, OnlyConcat
<1> QED BY <1>1, <1>8, <1>9, <1>11

-----------------------------------------------------------------------------
LEMMA NormalizedOne ==
  ASSUME NEW S, LF \in S, NEW ch \in S
  PROVE  Normalized(<<ch>>) = <<IF ch = CR THEN LF ELSE ch>>
<1>1. PICK x : x = <<ch>>
  OBVIOUS
<1>2. x \in Seq(S) /\ Len(x) = 1 /\ x[1] = ch /\ DOMAIN x = 1..1
  BY <1>1
<1>3. PICK s, K : s = LineEnded(x) /\ K = NotAfterCR(x)
  OBVIOUS
<1>4. /\ s \in Seq(S) /\ Len(s) = 1 /\ s[1] = IF ch = CR THEN LF ELSE ch
      /\ Normalized(x) = Only(s, K)
  <2>1. /\ s \in Seq(S) /\ Len(s) = Len(x)
        /\ \A i \in 1..Len(x) : s[i] = IF x[i] = CR THEN LF ELSE x[i]
        /\ Normalized(x) = Only(s, K)
    BY <1>2, <1>3, LineEndedIs
  <2>2. 1 \in 1..Len(x)
    BY <1>2
  <2> QED BY <1>2, <2>1, <2>2
<1>5. DOMAIN s \subseteq K
  <2>1. DOMAIN s = 1..1
    BY <1>4, LenProperties
  <2>2. 1 \in K
    BY <1>2, <1>3 DEF NotAfterCR
  <2> QED BY <2>1, <2>2
<1>6. Only(s, K) = s
  BY <1>5 DEF Only
<1>7. PICK c : c = IF ch = CR THEN LF ELSE ch
  OBVIOUS
<1>8. s = <<c>>
  <2>1. c \in S
    BY <1>7
  <2>2. PICK z : z = <<c>>
    OBVIOUS
  <2>3. z \in Seq(S) /\ Len(z) = 1 /\ z[1] = c
    BY <2>1, <2>2
  <2>4. \A i \in 1..Len(s) : s[i] = z[i]
    BY <1>4, <1>7, <2>3
  <2>5. s = z
    BY <1>4, <2>3, <2>4, SameSeq
  <2> QED BY <2>2, <2>5
<1> QED BY <1>1, <1>4, <1>6, <1>7, <1>8

LEMMA NormalizedSkips ==
  ASSUME NEW S, LF \in S, NEW x \in Seq(S), StopsAtCR(x)
  PROVE  Normalized(x \o <<LF>>) = Normalized(x)
<1>1. PICK y, w, m : y = <<LF>> /\ w = x \o y /\ m = Len(x)
  OBVIOUS
<1>2. y \in Seq(S) /\ Len(y) = 1 /\ y[1] = LF
  BY <1>1
<1>3. /\ w \in Seq(S) /\ Len(w) = m + 1 /\ m \in Nat
      /\ \A i \in 1..m : w[i] = x[i]
      /\ w[m + 1] = LF
  <2>1. /\ w \in Seq(S) /\ Len(w) = Len(x) + Len(y) /\ Len(x) \in Nat
        /\ \A i \in 1..Len(x) : w[i] = x[i]
        /\ \A i \in 1..Len(y) : w[Len(x) + i] = y[i]
    <3>1. y \in Seq(S) /\ w = x \o y
      BY <1>1, <1>2
    <3> QED BY <3>1, ConcatAt
  <2>2. 1 \in 1..Len(y)
    BY <1>2
  <2> QED BY <1>1, <1>2, <2>1, <2>2
<1>4. x[m] = CR /\ m > 0 /\ m \in 1..m
  <2>1. x # <<>> /\ x[m] = CR
    BY <1>1 DEF StopsAtCR
  <2> QED BY <1>1, <1>3, <2>1, EmptySeq
<1>5. PICK K, J : K = NotAfterCR(w) /\ J = NotAfterCR(x)
  OBVIOUS
<1>6. DOMAIN w = 1..(m + 1) /\ DOMAIN x = 1..m
  BY <1>1, <1>3, LenProperties
<1>7. ASSUME NEW k \in 1..m PROVE k \in K <=> k \in J
  <2>1. k \in 1..(m + 1) /\ w[k] = x[k] /\ (k > 1 => w[k - 1] = x[k - 1])
    <3>1. k > 1 => k - 1 \in 1..m
      BY <1>3
    <3>2. k \in 1..(m + 1)
      BY <1>3
    <3> QED BY <1>3, <3>1, <3>2
  <2> QED BY <1>5, <1>6, <2>1 DEF NotAfterCR
<1>8. m + 1 \notin K
  <2>1. (m + 1) - 1 = m /\ m + 1 > 1
    BY <1>3, <1>4
  <2>2. w[(m + 1) - 1] = CR
    BY <1>3, <1>4, <2>1
  <2> QED BY <1>3, <1>5, <2>1, <2>2 DEF NotAfterCR
<1>9. PICK s, t : s = LineEnded(x) /\ t = LineEnded(y)
  OBVIOUS
<1>10. s \in Seq(S) /\ Len(s) = m /\ Normalized(x) = Only(s, J)
  BY <1>1, <1>5, <1>9, LineEndedIs
<1>11. t \in Seq(S) /\ Len(t) = 1
  BY <1>2, <1>9, LineEndedIs
<1>12. Normalized(w) = Only(s \o t, K)
  <2>1. LineEnded(w) = s \o t
    BY <1>1, <1>2, <1>9, LineEndedConcat
  <2>2. Normalized(w) = Only(LineEnded(w), NotAfterCR(w))
    BY <1>3, LineEndedIs
  <2> QED BY <1>5, <2>1, <2>2
<1>13. PlacesApart(s, t, K, J, {})
  <2>1. \A k \in 1..Len(t) : k = 1
    BY <1>11
  <2> QED BY <1>7, <1>8, <1>10, <2>1 DEF PlacesApart
<1>14. Only(t, {}) = <<>>
  <2>1. PICK f : Picks(f, t, {}, S) /\ Only(t, {}) = f[Len(t)]
    BY <1>11, OnlyPicks
  <2>2. f[0] = <<>> /\ f[1] = f[1 - 1] \o <<>>
    <3>1. 1 \in 1..Len(t)
      BY <1>11
    <3> QED BY <2>1, <3>1 DEF Picks
  <2>3. <<>> \o <<>> = <<>>
    OBVIOUS
  <2> QED BY <1>11, <2>1, <2>2, <2>3
<1>15. Only(s \o t, K) = Only(s, J) \o Only(t, {})
  <2>1. s \in Seq(S) /\ t \in Seq(S)
    BY <1>10, <1>11
  <2> QED BY <1>13, <2>1, OnlyConcat
<1>16. Only(s, J) \o <<>> = Only(s, J)
  <2>1. Only(s, J) \in Seq(S)
    BY <1>10, OnlyType
  <2> QED BY <2>1, ConcatEmptySeq
<1> QED BY <1>1, <1>10, <1>12, <1>14, <1>15, <1>16

LEMMA LastIs ==
  ASSUME NEW S, NEW z \in Seq(S), NEW p, p \in S
  PROVE  /\ z \o <<p>> # <<>> /\ (z \o <<p>>)[Len(z \o <<p>>)] = p
         /\ z \o <<p>> \in Seq(S)
<1>1. PICK y, w : y = <<p>> /\ w = z \o y
  OBVIOUS
<1>2. y \in Seq(S) /\ Len(y) = 1 /\ y[1] = p
  BY <1>1
<1>3. /\ w \in Seq(S) /\ Len(w) = Len(z) + Len(y) /\ Len(z) \in Nat
      /\ \A i \in 1..Len(y) : w[Len(z) + i] = y[i]
  <2>1. y \in Seq(S) /\ w = z \o y
    BY <1>1, <1>2
  <2> QED BY <2>1, ConcatAt
<1>4. w[Len(z) + 1] = p /\ Len(w) = Len(z) + 1 /\ Len(w) > 0
  <2>1. 1 \in 1..Len(y)
    BY <1>2
  <2> QED BY <1>2, <1>3, <2>1
<1>5. w # <<>>
  BY <1>4, EmptySeq
<1> QED BY <1>1, <1>3, <1>4, <1>5

LEMMA StopsLast ==
  ASSUME NEW S, LF \in S, NEW z \in Seq(S)
  PROVE  StopsAtEnd(z \o <<LF>>)
<1>1. PICK w : w = z \o <<LF>>
  OBVIOUS
<1>2. w # <<>> /\ w[Len(w)] = LF
  BY <1>1, LastIs
<1> QED BY <1>1, <1>2 DEF StopsAtEnd

LEMMA LastOf ==
  ASSUME NEW S, NEW x \in Seq(S), x # <<>>
  PROVE  \E d \in Seq(S), p \in S : x = d \o <<p>> /\ p = x[Len(x)]
<1>1. PICK n, d, e : n = Len(x) - 1 /\ d = SubSeq(x, 1, n)
                     /\ e = SubSeq(x, n + 1, Len(x))
  OBVIOUS
<1>2. Len(x) \in Nat /\ Len(x) > 0
  BY LenProperties, EmptySeq
<1>3. n \in 0..Len(x) /\ n + 1 = Len(x)
  BY <1>1, <1>2
<1>4. /\ d \in Seq(S) /\ e \in Seq(S) /\ d \o e = x /\ Len(d) = n
      /\ Len(e) = Len(x) - n
  BY <1>1, <1>3, SplitAt
<1>5. PICK p : p = e[1]
  OBVIOUS
<1>6. Len(e) = 1 /\ 1 \in 1..Len(e)
  BY <1>2, <1>3, <1>4
<1>7. p \in S
  BY <1>4, <1>5, <1>6, ElementOfSeq
<1>8. e = <<p>>
  <2>1. PICK z : z = <<p>>
    OBVIOUS
  <2>2. z \in Seq(S) /\ Len(z) = 1 /\ z[1] = p
    BY <1>7, <2>1
  <2>3. \A i \in 1..Len(e) : e[i] = z[i]
    BY <1>5, <1>6, <2>2
  <2>4. e = z
    BY <1>4, <1>6, <2>2, <2>3, SameSeq
  <2> QED BY <2>1, <2>4
<1>9. x[n + 1] = p
  BY <1>4, <1>5, <1>6, ConcatAt
<1> QED BY <1>3, <1>4, <1>7, <1>8, <1>9

LEMMA NormalizedEnds ==
  ASSUME NEW S, LF \in S, NEW x \in Seq(S), StopsAtEnd(x) \/ StopsAtCR(x)
  PROVE  StopsAtEnd(Normalized(x))
<1>1. \A z \in Seq(S) : StopsAtCR(z) => StopsAtEnd(Normalized(z))
  <2> SUFFICES ASSUME NEW z \in Seq(S), StopsAtCR(z)
               PROVE  StopsAtEnd(Normalized(z))
    OBVIOUS
  <2>1. PICK d \in Seq(S), p \in S : z = d \o <<p>> /\ p = z[Len(z)]
    BY LastOf DEF StopsAtCR
  <2>2. PICK y : y = <<p>>
    OBVIOUS
  <2>3. y \in Seq(S) /\ y[1] = CR
    BY <2>1, <2>2 DEF StopsAtCR
  <2>4. ~Starts(y)
    BY <2>3 DEF Starts, LF, CR
  <2>5. Normalized(z) = Normalized(d) \o Normalized(y)
    BY <2>1, <2>2, <2>3, <2>4, NormalizedConcat
  <2>6. Normalized(y) = <<LF>>
    <3>1. p = CR
      BY <2>1 DEF StopsAtCR
    <3>2. Normalized(<<p>>) = <<IF p = CR THEN LF ELSE p>>
      BY NormalizedOne
    <3> QED BY <2>2, <3>1, <3>2
  <2>7. Normalized(d) \in Seq(S)
    BY NormalizedIs
  <2>8. StopsAtEnd(Normalized(d) \o <<LF>>)
    BY <2>7, StopsLast
  <2> QED BY <2>5, <2>6, <2>8
<1>2. CASE StopsAtCR(x)
  BY <1>1, <1>2
<1>3. CASE StopsAtEnd(x)
  <2>1. PICK d \in Seq(S), p \in S : x = d \o <<p>> /\ p = x[Len(x)]
    BY <1>3, LastOf DEF StopsAtEnd
  <2>2. p = LF
    BY <1>3, <2>1 DEF StopsAtEnd
  <2>3. CASE StopsAtCR(d)
    <3>1. Normalized(x) = Normalized(d)
      BY <2>1, <2>2, <2>3, NormalizedSkips
    <3> QED BY <1>1, <2>3, <3>1
  <2>4. CASE ~StopsAtCR(d)
    <3>1. PICK y : y = <<LF>>
      OBVIOUS
    <3>2. y \in Seq(S)
      BY <3>1
    <3>3. Normalized(x) = Normalized(d) \o Normalized(y)
      BY <2>1, <2>2, <2>4, <3>1, <3>2, NormalizedConcat
    <3>4. Normalized(y) = <<LF>>
      <4>1. Normalized(<<LF>>) = <<IF LF = CR THEN LF ELSE LF>>
        BY NormalizedOne
      <4> QED BY <3>1, <4>1
    <3>5. Normalized(d) \in Seq(S)
      BY NormalizedIs
    <3>6. StopsAtEnd(Normalized(d) \o <<LF>>)
      BY <3>5, StopsLast
    <3> QED BY <3>3, <3>4, <3>6
  <2> QED BY <2>3, <2>4
<1> QED BY <1>2, <1>3

(* A line end that the cut took apart is counted twice, and no other.      *)
LEMMA NormalizedJoin ==
  ASSUME NEW S, LF \in S, NEW x \in Seq(S), NEW y \in Seq(S),
         StopsAtCR(x), Starts(y)
  PROVE  /\ StopsAtEnd(Normalized(x))
         /\ \E v \in Seq(S \ {CR}) :
              /\ Normalized(y) = <<LF>> \o v
              /\ Normalized(x \o y) = Normalized(x) \o v
<1>1. StopsAtEnd(Normalized(x))
  BY NormalizedEnds
<1>2. PICK u \in Seq(S) : y = <<LF>> \o u
  BY StartCut
<1>3. PICK e, z, v : e = <<LF>> /\ z = x \o e /\ v = Normalized(u)
  OBVIOUS
<1>4. e \in Seq(S) /\ ~StopsAtCR(e)
  <2>1. e \in Seq(S) /\ Len(e) = 1 /\ e[1] = LF
    BY <1>3
  <2> QED BY <2>1 DEF StopsAtCR, LF, CR
<1>5. z \in Seq(S) /\ ~StopsAtCR(z)
  <2>1. z \in Seq(S) /\ z[Len(z)] = LF
    BY <1>3, LastIs
  <2> QED BY <2>1 DEF StopsAtCR, LF, CR
<1>6. v \in Seq(S \ {CR})
  BY <1>3, NormalizedIs
<1>7. Normalized(y) = <<LF>> \o v
  <2>1. Normalized(<<LF>>) = <<IF LF = CR THEN LF ELSE LF>>
    BY NormalizedOne
  <2>2. Normalized(e \o u) = Normalized(e) \o Normalized(u)
    BY <1>4, NormalizedConcat
  <2> QED BY <1>2, <1>3, <2>1, <2>2
<1>8. Normalized(x \o y) = Normalized(x) \o v
  <2>1. (x \o e) \o u = x \o (e \o u)
    BY <1>4, ConcatAssociative
  <2>2. Normalized(z \o u) = Normalized(z) \o Normalized(u)
    BY <1>5, NormalizedConcat
  <2>3. Normalized(z) = Normalized(x)
    BY <1>3, NormalizedSkips
  <2>4. x \o y = z \o u
    BY <1>2, <1>3, <2>1, Zenon
  <2> QED BY <1>3, <2>2, <2>3, <2>4
<1> QED BY <1>1, <1>6, <1>7, <1>8

-----------------------------------------------------------------------------
(* What the classifier has read of the text x, as it read it, is y.        *)
Tells(x, y, A) ==
  /\ \A z \in Seq(A \ {CR}) : Finer(Normalized(x) \o z, y \o z)
  /\ CR \notin ToSet(x) => y = Normalized(x)
  /\ StopsAtCR(x) => StopsAtEnd(y)

LEMMA StopsConcat ==
  ASSUME NEW S, NEW x \in Seq(S), NEW y \in Seq(S), y # <<>>
  PROVE  /\ x \o y # <<>> /\ (x \o y)[Len(x \o y)] = y[Len(y)]
         /\ x \o y \in Seq(S)
<1>1. PICK w : w = x \o y
  OBVIOUS
<1>2. /\ w \in Seq(S) /\ Len(w) = Len(x) + Len(y)
      /\ Len(x) \in Nat /\ Len(y) \in Nat
      /\ \A i \in 1..Len(y) : w[Len(x) + i] = y[i]
  BY <1>1, ConcatAt
<1>3. Len(y) > 0 /\ Len(y) \in 1..Len(y) /\ Len(w) > 0
  BY <1>2, EmptySeq
<1>4. w[Len(x) + Len(y)] = y[Len(y)]
  BY <1>2, <1>3
<1>5. w # <<>>
  BY <1>3, EmptySeq
<1> QED BY <1>1, <1>2, <1>4, <1>5

LEMMA NormalizedEmpty == Normalized(<<>>) = <<>>
<1>1. PICK x : x = <<>>
  OBVIOUS
<1>2. x \in Seq({LF}) /\ Len(x) = 0
  BY <1>1
<1>3. PICK s : s = LineEnded(x)
  OBVIOUS
<1>4. /\ s \in Seq({LF}) /\ Len(s) = 0
      /\ Normalized(x) = Only(s, NotAfterCR(x))
  <2>1. /\ s \in Seq({LF}) /\ Len(s) = Len(x)
        /\ Normalized(x) = Only(s, NotAfterCR(x))
    BY <1>2, <1>3, LineEndedIs
  <2> QED BY <1>2, <2>1
<1>5. s = <<>>
  BY <1>4, EmptySeq
<1>6. Only(s, NotAfterCR(x)) = s
  <2>1. DOMAIN s = {}
    BY <1>5
  <2> QED BY <2>1 DEF Only
<1> QED BY <1>1, <1>4, <1>5, <1>6

(* The next chunk keeps it so, wherever the text is cut.                   *)
LEMMA TellsOn ==
  ASSUME NEW A, LF \in A, NEW x \in Seq(A), NEW y \in Seq(A \ {CR}),
         Tells(x, y, A), NEW u \in Seq(A)
  PROVE  Tells(x \o u, y \o Normalized(u), A)
<1>1. PICK C, m, r, t, q : /\ C = A \ {CR} /\ m = Normalized(u) /\ r = x \o u
                           /\ t = Normalized(x) /\ q = Normalized(r)
  OBVIOUS
<1>2. m \in Seq(C) /\ t \in Seq(C) /\ y \in Seq(C)
  BY <1>1, NormalizedIs
<1>3. r \in Seq(A)
  BY <1>1, ConcatProperties
<1>4. \A a, b, c \in Seq(C) : (a \o b) \o c = a \o (b \o c)
  BY ONLY ConcatRegroups
<1>5. LF \in C /\ CR \notin C
  BY <1>1 DEF LF, CR
<1>6. \A z \in Seq(C) : Finer(t \o z, y \o z)
  BY <1>1 DEF Tells
<1>7. ~(StopsAtCR(x) /\ Starts(u)) => q = t \o m
  BY <1>1, NormalizedConcat
<1>8. ASSUME NEW z \in Seq(C) PROVE Finer(q \o z, (y \o m) \o z)
  <2>1. (y \o m) \o z = y \o (m \o z) /\ m \o z \in Seq(C)
    BY <1>2, <1>4, ConcatProperties
  <2>2. CASE ~(StopsAtCR(x) /\ Starts(u))
    <3>1. (t \o m) \o z = t \o (m \o z)
      BY <1>2, <1>4
    <3>2. Finer(t \o (m \o z), y \o (m \o z))
      BY <1>6, <2>1
    <3> QED BY <1>7, <2>1, <2>2, <3>1, <3>2
  <2>3. CASE StopsAtCR(x) /\ Starts(u)
    <3>1. PICK v \in Seq(C) : m = <<LF>> \o v /\ q = t \o v
      <4>1. \E v \in Seq(A \ {CR}) :
               /\ Normalized(u) = <<LF>> \o v
               /\ Normalized(x \o u) = Normalized(x) \o v
        BY <2>3, NormalizedJoin
      <4> QED BY <1>1, <4>1, Zenon
    <3>2. PICK e, w : e = <<LF>> /\ w = v \o z
      OBVIOUS
    <3>3. e \in Seq(C) /\ w \in Seq(C)
      BY <1>5, <3>2, ConcatProperties
    <3>4. (t \o v) \o z = t \o w
      BY <1>2, <1>4, <3>2
    <3>5. (e \o v) \o z = e \o w
      BY <1>4, <3>2, <3>3
    <3>6. StopsAtEnd(y)
      BY <2>3 DEF Tells
    <3>7. Finer(y \o w, y \o (e \o w))
      BY <1>2, <1>5, <3>2, <3>3, <3>6, LineEndFiner
    <3>8. Finer(t \o w, y \o w)
      BY <1>6, <3>3
    <3>9. q \o z = t \o w /\ (y \o m) \o z = y \o (e \o w)
      BY <2>1, <3>1, <3>2, <3>4, <3>5, Zenon
    <3> QED BY <3>7, <3>8, <3>9 DEF Finer
  <2> QED BY <2>2, <2>3
<1>9. ASSUME CR \notin ToSet(r) PROVE y \o m = q
  <2>1. \A i \in 1..Len(x) : x[i] # CR
    <3>1. /\ Len(r) = Len(x) + Len(u) /\ Len(x) \in Nat /\ Len(u) \in Nat
          /\ \A i \in 1..Len(x) : r[i] = x[i]
      BY <1>1, ConcatAt
    <3>2. DOMAIN r = 1..Len(r)
      BY <1>3, LenProperties
    <3>3. \A i \in 1..Len(x) : i \in DOMAIN r
      BY <3>1, <3>2
    <3> QED BY <1>9, <3>1, <3>3 DEF ToSet
  <2>2. CR \notin ToSet(x)
    BY <2>1, LenProperties DEF ToSet
  <2>3. ~StopsAtCR(x)
    <3> SUFFICES ASSUME StopsAtCR(x) PROVE FALSE
      OBVIOUS
    <3>1. Len(x) \in 1..Len(x)
      BY LenProperties, EmptySeq DEF StopsAtCR
    <3> QED BY <2>1, <3>1 DEF StopsAtCR
  <2> QED BY <1>1, <1>7, <2>2, <2>3 DEF Tells
<1>10. ASSUME StopsAtCR(r) PROVE StopsAtEnd(y \o m)
  <2>1. CASE u = <<>>
    <3>1. r = x
      BY <1>1, <2>1, ConcatEmptySeq
    <3>2. y \o m = y
      BY <1>1, <1>2, <2>1, NormalizedEmpty, ConcatEmptySeq
    <3> QED BY <1>10, <3>1, <3>2 DEF Tells
  <2>2. CASE u # <<>>
    <3>1. StopsAtCR(u)
      BY <1>1, <1>10, <2>2, StopsConcat DEF StopsAtCR
    <3>2. StopsAtEnd(m)
      BY <1>1, <3>1, NormalizedEnds
    <3> QED BY <1>2, <3>2, StopsConcat DEF StopsAtEnd
  <2> QED BY <2>1, <2>2
<1> QED BY <1>1, <1>8, <1>9, <1>10 DEF Tells

(* The verdicts on a text.                                                 *)
Verdicts(text, data, stop) ==
  /\ stop <=> HasStop(Normalized(text))
  /\ HasData(Normalized(text)) => data
  /\ CR \notin ToSet(text) => (data => HasData(Normalized(text)))

(* When the text is over, the verdicts are right.                          *)
LEMMA TellsVerdicts ==
  ASSUME NEW A, LF \in A, NEW x \in Seq(A), NEW y \in Seq(A \ {CR}),
         Tells(x, y, A)
  PROVE  Verdicts(x, HasData(y), HasStop(y))
<1>1. PICK C, t : C = A \ {CR} /\ t = Normalized(x)
  OBVIOUS
<1>2. t \in Seq(C) /\ y \in Seq(C) /\ <<>> \in Seq(C)
  BY <1>1, NormalizedIs
<1>3. t \o <<>> = t /\ y \o <<>> = y
  BY <1>2, ConcatEmptySeq
<1>4. Finer(t \o <<>>, y \o <<>>)
  BY <1>1, <1>2 DEF Tells
<1>5. Finer(t, y)
  BY <1>3, <1>4
<1>6. CR \notin ToSet(x) => y = t
  BY <1>1 DEF Tells
<1> QED BY <1>1, <1>5, <1>6 DEF Verdicts, Finer

(* The blank line that ends the last event, if it lacks one, changes none. *)
LEMMA VerdictsEnd ==
  ASSUME NEW A, LF \in A, NEW x \in Seq(A), StopsAtEnd(x),
         NEW d, NEW s, Verdicts(x, d, s)
  PROVE  Verdicts(x \o <<LF>>, d, s)
<1>1. PICK C, t, e, w : /\ C = A \ {CR} /\ t = Normalized(x) /\ e = <<LF>>
                        /\ w = x \o e
  OBVIOUS
<1>2. LF \in C /\ CR \notin C
  BY <1>1 DEF LF, CR
<1>3. t \in Seq(C) /\ e \in Seq(C) /\ e \in Seq(A)
  BY <1>1, <1>2, NormalizedIs
<1>4. StopsAtEnd(t)
  BY <1>1, NormalizedEnds
<1>5. ~StopsAtCR(x)
  BY DEF StopsAtCR, StopsAtEnd, LF, CR
<1>6. Normalized(w) = t \o e
  <2>1. Normalized(x \o e) = Normalized(x) \o Normalized(e)
    BY <1>3, <1>5, NormalizedConcat
  <2>2. Normalized(<<LF>>) = <<IF LF = CR THEN LF ELSE LF>>
    BY NormalizedOne
  <2>3. Normalized(e) = e
    BY <1>1, <2>2
  <2> QED BY <1>1, <2>1, <2>3
<1>7. Alike(t, t \o e)
  <2>1. PICK z : z = <<>>
    OBVIOUS
  <2>2. z \in Seq(C) /\ t \o z = t /\ e \o z = e
    BY <1>3, <2>1, ConcatEmptySeq
  <2>3. Alike(t \o z, t \o (e \o z))
    BY <1>1, <1>2, <1>3, <1>4, <2>1, <2>2, LineEndFiner
  <2> QED BY <2>2, <2>3
<1>8. CR \notin ToSet(w) => CR \notin ToSet(x)
  <2>1. /\ Len(w) = Len(x) + Len(e) /\ Len(x) \in Nat /\ Len(e) \in Nat
        /\ \A i \in 1..Len(x) : w[i] = x[i] /\ w \in Seq(A)
    BY <1>1, <1>3, ConcatAt
  <2>2. DOMAIN x = 1..Len(x)
    BY LenProperties
  <2>3. \A i \in DOMAIN x : i \in DOMAIN w /\ w[i] = x[i]
    <3>1. w \in Seq(A)
      BY <1>1, <1>3, ConcatProperties
    <3>2. DOMAIN w = 1..Len(w)
      BY <3>1, LenProperties
    <3> QED BY <2>1, <2>2, <3>2
  <2> QED BY <2>3 DEF ToSet
<1> QED BY <1>1, <1>6, <1>7, <1>8 DEF Verdicts, Alike

-----------------------------------------------------------------------------
(* The text the classifier is to read, and what the client has of it.      *)
LEMMA CleanEnds ==
  ASSUME stream \in Streams, NEW u \in Seq(Places), Cutted(u), u # <<>>
  PROVE  StopsAtEnd(Bytes(Clean(u)))
<1>1. PICK d \in Seq(Places), p \in Places : u = d \o <<p>> /\ p = u[Len(u)]
  BY LastOf
<1>2. PICK q : q = <<p>>
  OBVIOUS
<1>3. q \in Seq(Places) /\ Len(q) = 1 /\ u = d \o q
  BY <1>1, <1>2
<1>4. /\ Len(u) = Len(d) + 1 /\ Len(d) \in Nat
      /\ \A i \in 1..Len(d) : u[i] = d[i]
  <2>1. d \in Seq(Places) /\ q \in Seq(Places)
    BY <1>1, <1>3
  <2>2. /\ Len(d \o q) = Len(d) + Len(q)
        /\ \A i \in 1..Len(d) : (d \o q)[i] = d[i]
    BY ONLY <2>1, ConcatAt
  <2>3. Len(u) = Len(d) + 1 /\ \A i \in 1..Len(d) : u[i] = d[i]
    BY ONLY <1>3, <2>2
  <2>4. Len(d) \in Nat
    BY ONLY <2>1, LenProperties
  <2> QED BY ONLY <2>3, <2>4
<1>5. /\ Len(u) >= 2 /\ stream[u[Len(u) - 1]] = LF /\ stream[p] = LF
  BY <1>1 DEF Cutted
<1>6. EndsLine(d)
  <2>1. Len(u) - 1 = Len(d) /\ Len(d) \in 1..Len(d)
    BY <1>4, <1>5
  <2> QED BY <1>4, <1>5, <2>1 DEF EndsLine
<1>7. Clean(u) = Clean(d) \o <<p>>
  <2>1. Clean(d \o q) = Clean(d) \o Clean(q)
    BY <1>3, <1>6, CleanConcat
  <2>2. Clean(<<p>>) = <<p>>
    BY <1>5, CleanLineEnd
  <2> QED BY <1>2, <1>3, <2>1, <2>2
<1>8. PICK w : w = Clean(u)
  OBVIOUS
<1>9. w # <<>> /\ w[Len(w)] = p /\ w \in Seq(Places)
  <2>1. Clean(d) \in Seq(Places)
    BY CleanType
  <2> QED BY <1>7, <1>8, <2>1, LastIs
<1>10. /\ Len(Bytes(w)) = Len(w) /\ Len(w) \in Nat
       /\ \A i \in 1..Len(w) : Bytes(w)[i] = stream[w[i]]
  BY <1>9, BytesFacts
<1>11. Len(w) > 0 /\ Len(w) \in 1..Len(w)
  BY <1>9, <1>10, EmptySeq
<1>12. Bytes(w)[Len(Bytes(w))] = LF
  BY <1>5, <1>9, <1>10, <1>11
<1>13. Bytes(w) # <<>>
  BY <1>10, <1>11, EmptySeq
<1> QED BY <1>8, <1>12, <1>13 DEF StopsAtEnd

OneLineEnd(x, y) == (x = y) \/ (StopsAtEnd(y) /\ x = y \o <<LF>>)

(* What the filter has let through is what the client has, but for a last  *)
(* line end that is still missing.                                         *)
LEMMA TextRead ==
  ASSUME stream \in Streams, NEW w, NEW u, NEW v, Splits(w, u, v)
  PROVE  OneLineEnd(Bytes(Ready(w)), Bytes(Clean(u)))
<1>1. u \in Seq(Places) /\ Cutted(u)
  BY DEF Splits
<1>2. CASE Ready(w) = Clean(u)
  <2>1. Bytes(Ready(w)) = Bytes(Clean(u))
    BY <1>2
  <2> QED BY ONLY <2>1 DEF OneLineEnd
<1>3. CASE OneMore(w, u, v)
  <2>1. PICK p \in Places : /\ stream[p] = LF /\ u # <<>>
                            /\ Ready(w) = Clean(u) \o <<p>>
    BY <1>3 DEF OneMore
  <2>2. PICK c, q : c = Clean(u) /\ q = <<p>>
    OBVIOUS
  <2>3. c \in Seq(Places) /\ q \in Seq(Places) /\ Len(q) = 1 /\ q[1] = p
    <3>1. c \in Seq(Places)
      BY <1>1, <2>2, CleanType
    <3>2. q \in Seq(Places) /\ Len(q) = 1 /\ q[1] = p
      BY <2>2
    <3> QED BY <3>1, <3>2
  <2>4. Bytes(c \o q) = Bytes(c) \o Bytes(q)
    BY <2>3, BytesConcat
  <2>5. Bytes(q) = <<LF>>
    <3>1. DOMAIN q = 1..1 /\ \A i \in DOMAIN q : stream[q[i]] = LF
      BY <2>1, <2>3, LenProperties
    <3>2. Bytes(q) = [i \in 1..1 |-> LF]
      BY <3>1 DEF Bytes
    <3> QED BY <3>2
  <2>6. StopsAtEnd(Bytes(c))
    BY <1>1, <2>1, <2>2, CleanEnds
  <2> QED BY <2>1, <2>2, <2>4, <2>5, <2>6 DEF OneLineEnd
<1> QED BY <1>2, <1>3, ReadyIs

Alphabet == ToSet(stream) \cup {LF}

LEMMA BytesIn ==
  ASSUME stream \in Streams, NEW buf \in Seq(Places)
  PROVE  Bytes(buf) \in Seq(Alphabet)
<1>1. Bytes(buf) \in Seq(ToSet(stream))
  BY BytesFacts
<1> QED BY <1>1, SeqMonotonic DEF Alphabet

TextOf(f) == Bytes(IF openai THEN Ready(f) ELSE f)

(* The classifier's invariant: its verdicts are those of a reading of what *)
(* the client has, as far as the blocks of that are finished.              *)
ReadInv ==
  end = "open" =>
    \E y \in Seq(NoCR) :
      /\ Tells(Bytes(delivered), y, Alphabet)
      /\ carry = Blocks(y).carry
      /\ sawData <=> FinishedData(y)
      /\ sawStop <=> FinishedStop(y)

VerdictInv == TypeInv /\ ReadInv /\ VerdictsOfTheWhole

LEMMA ReadKept ==
  ASSUME UNCHANGED stream, NEW y \in Seq(NoCR),
         Tells(Bytes(delivered'), y, Alphabet),
         carry' = Blocks(y).carry,
         sawData' <=> FinishedData(y), sawStop' <=> FinishedStop(y)
  PROVE  ReadInv'
<1>1. NoCR' = NoCR /\ Alphabet' = Alphabet
  BY DEF NoCR, Alphabet
<1>2. Bytes(delivered)' = Bytes(delivered')
  BY DEF Bytes
<1> QED BY <1>1, <1>2 DEF ReadInv

LEMMA WholeKept ==
  ASSUME UNCHANGED <<stream, mode>>,
         end' # "open" => Verdicts(TextOf(forwarded'), sawData', sawStop')
  PROVE  VerdictsOfTheWhole'
<1>1. TextOf(forwarded)' = TextOf(forwarded')
  BY DEF TextOf, openai, Ready, Clean, Bytes
<1>2. (end # "open" => Verdicts(TextOf(forwarded), sawData, sawStop))'
  BY <1>1
<1> QED BY <1>2 DEF VerdictsOfTheWhole, Verdicts, TextOf, HasData, HasStop,
                    FinishedData, FinishedStop

LEMMA AlphabetIs == /\ LF \in Alphabet /\ NoCR = Alphabet \ {CR}
                    /\ LF \in NoCR /\ CR \notin NoCR
BY DEF Alphabet, NoCR, LF, CR

LEMMA DeliveredPlaces ==
  ASSUME TypeInv, end = "open"
  PROVE  stream \in Streams /\ delivered \in Seq(Places)
<1>1. stream \in Streams /\ forwarded \in Seq(Places)
  BY OutPlaces DEF TypeInv, OrderInv
<1>2. CASE openai
  BY <1>1, <1>2, FilterPlaces DEF TypeInv, OrderInv
<1>3. CASE ~openai
  BY <1>1, <1>3 DEF TypeInv, OrderInv
<1> QED BY <1>1, <1>2, <1>3

(* Nothing has been read yet.                                              *)
LEMMA VerdictInit == PipelineInit => VerdictInv
<1> SUFFICES ASSUME PipelineInit PROVE VerdictInv
  OBVIOUS
<1>1. /\ carry = <<>> /\ end = "open" /\ TypeInv /\ delivered = <<>>
      /\ sawData = FALSE /\ sawStop = FALSE
  BY TypeInit DEF PipelineInit, Init
<1>2. PICK e : e = <<>>
  OBVIOUS
<1>3. e \in Seq(NoCR) /\ BlankLines(e) = {} /\ Bytes(delivered) = e
  <2>1. e \in Seq(NoCR) /\ BlankLines(e) = {}
    BY <1>2, UnblockedEnd, AlphabetIs
  <2>2. Bytes(<<>>) = <<>>
    BY DEF Bytes
  <2> QED BY <1>1, <1>2, <2>1, <2>2
<1>4. ~FinishedData(e) /\ ~FinishedStop(e) /\ Blocks(e).carry = e
  BY <1>3, FoundUnblocked
<1>5. Tells(e, e, Alphabet)
  BY <1>2, NormalizedEmpty DEF Tells, Finer, StopsAtCR
<1>6. ReadInv
  BY <1>1, <1>2, <1>3, <1>4, <1>5 DEF ReadInv
<1> QED BY <1>1, <1>6 DEF VerdictInv, VerdictsOfTheWhole

(* A chunk is normalised by itself and read behind the carry.              *)
LEMMA VerdictChunk ==
  ASSUME VerdictInv, NEW n \in 1..Len(stream), ReadChunk(n)
  PROVE  ReadInv' /\ VerdictsOfTheWhole'
<1>1. TypeInv /\ ReadInv /\ OrderInv
  BY DEF VerdictInv, TypeInv
<1>2. end = "open" /\ UNCHANGED <<stream, end, mode>>
  <2>1. Stripped(n) /\ UNCHANGED mode
    BY DEF ReadChunk
  <2> QED BY <1>1, <2>1, StrippedAdds DEF OrderInv
<1>3. PICK buf \in Seq(Places) : Analyze(buf) /\ delivered' = delivered \o buf
  BY <1>1, SentPlaces
<1>4. stream \in Streams /\ delivered \in Seq(Places)
  BY <1>1, <1>2, DeliveredPlaces
<1>5. PICK y \in Seq(NoCR) :
         /\ Tells(Bytes(delivered), y, Alphabet)
         /\ carry = Blocks(y).carry
         /\ sawData <=> FinishedData(y)
         /\ sawStop <=> FinishedStop(y)
  BY <1>1, <1>2 DEF ReadInv
<1>6. PICK x, u, m : x = Bytes(delivered) /\ u = Bytes(buf)
                     /\ m = Normalized(u)
  OBVIOUS
<1>7. x \in Seq(Alphabet) /\ u \in Seq(Alphabet)
  BY <1>4, <1>6, BytesIn
<1>8. m \in Seq(NoCR)
  BY <1>6, <1>7, AlphabetIs, NormalizedIs
<1>9. Bytes(delivered') = x \o u
  BY <1>3, <1>4, <1>6, BytesConcat
<1>10. Tells(x \o u, y \o m, Alphabet)
  BY <1>5, <1>6, <1>7, AlphabetIs, TellsOn
<1>11. PICK z : z = carry \o m
  OBVIOUS
<1>12. /\ carry' = Blocks(z).carry
       /\ sawData' = (sawData \/ FinishedData(z))
       /\ sawStop' = (sawStop \/ FinishedStop(z))
  BY <1>3, <1>6, <1>11 DEF Analyze, classifyBlocks, FinishedData, FinishedStop
<1>13. CarriesOn(y, m)
  BY <1>8, AlphabetIs, CarryGoesOn
<1>14. /\ FinishedData(y \o m) <=> FinishedData(y) \/ FinishedData(z)
       /\ FinishedStop(y \o m) <=> FinishedStop(y) \/ FinishedStop(z)
       /\ Blocks(y \o m).carry = Blocks(z).carry
  BY <1>5, <1>11, <1>13 DEF CarriesOn
<1>15. PICK q : q = y \o m
  OBVIOUS
<1>16. q \in Seq(NoCR)
  BY <1>8, <1>15, ConcatProperties
<1>17. /\ Tells(Bytes(delivered'), q, Alphabet)
       /\ carry' = Blocks(q).carry
       /\ sawData' <=> FinishedData(q)
       /\ sawStop' <=> FinishedStop(q)
  BY <1>5, <1>9, <1>10, <1>12, <1>14, <1>15
<1>18. ReadInv'
  BY <1>2, <1>16, <1>17, ReadKept
<1>19. VerdictsOfTheWhole'
  BY <1>2, WholeKept
<1> QED BY <1>18, <1>19

(* The carry is judged as a block when the stream is over                  *)
(* (sseparse.go:56-63).                                                    *)
LEMMA VerdictEnds ==
  ASSUME VerdictInv, end = "open", FlushCarry,
         NEW t \in Seq(Places), t # <<>> => strips /\ Begun(t),
         NEW f, f = forwarded \o t
  PROVE  Verdicts(TextOf(f), sawData', sawStop')
<1>1. TypeInv /\ ReadInv /\ OrderInv
  BY DEF VerdictInv, TypeInv
<1>2. /\ stream \in Streams /\ delivered \in Seq(Places)
      /\ forwarded \in Seq(Places)
  BY <1>1, DeliveredPlaces, OutPlaces DEF OrderInv
<1>3. PICK y \in Seq(NoCR) :
         /\ Tells(Bytes(delivered), y, Alphabet)
         /\ carry = Blocks(y).carry
         /\ sawData <=> FinishedData(y)
         /\ sawStop <=> FinishedStop(y)
  BY <1>1 DEF ReadInv
<1>4. (sawData' <=> HasData(y)) /\ (sawStop' <=> HasStop(y))
  <2>1. ~IsData(<<>>) /\ ~IsStop(<<>>)
    BY LinesEmpty, NoLines
  <2>2. /\ sawData' = (sawData \/ \E b \in {carry} \ {<<>>} : IsData(b))
        /\ sawStop' = (sawStop \/ \E b \in {carry} \ {<<>>} : IsStop(b))
    BY DEF FlushCarry, classifyBlocks
  <2>3. /\ sawData' <=> sawData \/ IsData(carry)
        /\ sawStop' <=> sawStop \/ IsStop(carry)
    BY <2>1, <2>2
  <2> QED BY <1>3, <2>3 DEF HasData, HasStop
<1>5. PICK x : x = Bytes(delivered)
  OBVIOUS
<1>6. x \in Seq(Alphabet)
  BY <1>2, <1>5, BytesIn
<1>7. Verdicts(x, sawData', sawStop')
  <2>1. Verdicts(x, HasData(y), HasStop(y))
    BY <1>3, <1>5, <1>6, AlphabetIs, TellsVerdicts
  <2> QED BY <1>4, <2>1 DEF Verdicts
<1>8. CASE openai
  <2>1. PICK u, v : Splits(forwarded, u, v) /\ delivered = Clean(u)
    BY <1>1, <1>8 DEF OrderInv, FilterInv
  <2>2. Splits(f, u, v \o t)
    BY <2>1, SplitsBegun
  <2>3. OneLineEnd(Bytes(Ready(f)), Bytes(Clean(u)))
    BY <1>2, <2>2, TextRead
  <2>4. OneLineEnd(TextOf(f), x)
    BY <1>5, <1>8, <2>1, <2>3 DEF TextOf
  <2> QED BY <1>6, <1>7, <2>4, AlphabetIs, VerdictsEnd DEF OneLineEnd
<1>9. CASE ~openai
  <2>1. ~strips
    BY <1>9 DEF openai, strips
  <2>2. f = forwarded
    BY <1>2, <2>1, ConcatEmptySeq
  <2>3. delivered = forwarded
    BY <1>1, <1>9 DEF OrderInv
  <2> QED BY <1>5, <1>7, <1>9, <2>2, <2>3 DEF TextOf
<1> QED BY <1>8, <1>9

(* The classifier's invariant is kept by each step.                        *)
LEMMA VerdictNext ==
  VerdictInv /\ [PipelineNext]_pipelineVars => VerdictInv'
<1> SUFFICES ASSUME VerdictInv, [PipelineNext]_pipelineVars
             PROVE  VerdictInv'
  OBVIOUS
<1>1. TypeInv /\ ReadInv /\ VerdictsOfTheWhole /\ TypeInv'
  BY TypeNext DEF VerdictInv
<1>2. /\ forwarded \in Seq(Places) /\ Begun(tagPrefixPending)
      /\ tagPrefixPending \in Seq(Places) /\ PipelineStripInv
  BY <1>1, OutPlaces DEF TypeInv, OrderInv
<1>3. PICK e : e = <<>>
  OBVIOUS
<1>4. e \in Seq(Places) /\ forwarded = forwarded \o e
  BY <1>2, <1>3, ConcatEmptySeq
<1>5. CASE UNCHANGED pipelineVars
  <2>1. /\ UNCHANGED <<stream, mode, end, delivered, carry, sawData, sawStop>>
        /\ UNCHANGED forwarded
    BY <1>5 DEF pipelineVars, lineVars, vars
  <2>2. ReadInv'
    <3> SUFFICES ASSUME end = "open" PROVE ReadInv'
      BY <2>1 DEF ReadInv
    <3>1. PICK y \in Seq(NoCR) :
             /\ Tells(Bytes(delivered), y, Alphabet)
             /\ carry = Blocks(y).carry
             /\ sawData <=> FinishedData(y)
             /\ sawStop <=> FinishedStop(y)
      BY <1>1 DEF ReadInv
    <3> QED BY <2>1, <3>1, ReadKept
  <2>3. VerdictsOfTheWhole'
    <3>1. end # "open" => Verdicts(TextOf(forwarded), sawData, sawStop)
      BY <1>1 DEF VerdictsOfTheWhole, Verdicts, TextOf, HasData, HasStop,
                  FinishedData, FinishedStop
    <3> QED BY <2>1, <3>1, WholeKept
  <2> QED BY <1>1, <2>2, <2>3 DEF VerdictInv
<1>6. CASE HandleStreamError
  <2>1. /\ end = "open" /\ end' = "broken" /\ FlushCarry
        /\ UNCHANGED <<stream, mode, forwarded>>
    BY <1>6 DEF HandleStreamError
  <2>2. Verdicts(TextOf(forwarded), sawData', sawStop')
    BY <1>3, <1>4, <2>1, VerdictEnds
  <2>3. VerdictsOfTheWhole'
    BY <2>1, <2>2, WholeKept
  <2>4. ReadInv'
    BY <2>1 DEF ReadInv
  <2> QED BY <1>1, <2>3, <2>4 DEF VerdictInv
<1>7. CASE HandleCleanEnd
  <2>1. /\ end = "open" /\ FlushCarry /\ UNCHANGED <<stream, mode>>
        /\ Flush
    BY <1>7 DEF HandleCleanEnd, Flush
  <2>2. end' \in {"clean", "unterminated"}
    BY <2>1 DEF Flush
  <2>3. PICK t \in Seq(Places) : /\ forwarded' = forwarded \o t
                                 /\ t # <<>> => strips /\ Begun(t)
    <3>1. CASE end' = "unterminated"
      <4>1. forwarded' = forwarded
        BY <2>1, <3>1 DEF Flush
      <4> QED BY <1>3, <1>4, <4>1
    <3>2. CASE end' = "clean"
      <4>1. forwarded' = forwarded \o tagPrefixPending
        BY <2>1, <3>2 DEF Flush
      <4>2. tagPrefixPending # <<>> => strips
        BY <1>2 DEF PipelineStripInv, PassInv
      <4> QED BY <1>2, <4>1, <4>2
    <3> QED BY <2>2, <3>1, <3>2
  <2>4. Verdicts(TextOf(forwarded'), sawData', sawStop')
    BY <2>1, <2>3, VerdictEnds
  <2>5. VerdictsOfTheWhole'
    BY <2>1, <2>4, WholeKept
  <2>6. ReadInv'
    BY <2>2 DEF ReadInv
  <2> QED BY <1>1, <2>5, <2>6 DEF VerdictInv
<1>8. ASSUME NEW n \in 1..Len(stream), ReadChunk(n) PROVE VerdictInv'
  BY <1>1, <1>8, VerdictChunk DEF VerdictInv
<1> QED BY <1>5, <1>6, <1>7, <1>8 DEF PipelineNext

(* Chunk boundaries are irrelevant (sseparse.go:36): when a stream is      *)
(* over, the classifier has found the terminal marker just when the whole  *)
(* text has a block that is one, and data whenever the text has some. Only *)
(* where a CR LF was cut may it have seen data the whole text has not.     *)
THEOREM VerdictsAreOfTheWhole == PipelineSpec => []VerdictsOfTheWhole
<1>1. VerdictInv => VerdictsOfTheWhole
  BY DEF VerdictInv
<1> QED BY <1>1, VerdictInit, VerdictNext, PTL DEF PipelineSpec
=============================================================================
