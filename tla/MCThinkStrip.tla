---------------------------- MODULE MCThinkStrip ----------------------------
(* The tags are shortened to three and four bytes; a stream is made of up  *)
(* to MaxPieces tags, bytes of text and stray beginnings of a tag.         *)
EXTENDS ThinkStrip

CONSTANT MaxPieces

MCOpenTag  == <<"<", "t", ">">>
MCCloseTag == <<"<", "/", "t", ">">>

Pieces == {MCOpenTag, MCCloseTag, <<"a">>, <<"<">>}

MCStreams == {FlattenSeq(pieces) : pieces \in SeqOf(Pieces, MaxPieces)}
=============================================================================
