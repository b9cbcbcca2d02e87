----------------------------- MODULE MCPipeline -----------------------------
(* Next to the streams of MCThinkStrip: up to MaxLines lines the code knows*)
(* (none of them twice), beginnings of a tag (as good as any text) and line*)
(* ends.                                                                   *)
EXTENDS Pipeline, MCThinkStrip

CONSTANT MaxLines

KnownLines == {<<NullLine>>, <<DoneLine, LF>>, <<PingLine>>, <<CommentMark>>}
OtherPieces == {<<"<">>, <<LF>>, <<LF, LF>>, <<CR, LF>>}

LineStreams ==
  {pieces \in SeqOf(KnownLines \cup OtherPieces, MaxLines) :
     \A i, j \in DOMAIN pieces :
       pieces[i] = pieces[j] /\ pieces[i] \in KnownLines => i = j}

MCPipelineStreams ==
  MCStreams \cup {FlattenSeq(pieces) : pieces \in LineStreams}
=============================================================================
