------------------------- MODULE MCStreamAccumulator -------------------------
(***************************************************************************)
(* Answers put together from the pieces that matter to the parser: whole   *)
(* tags, a lone "<", the rest of an opening tag, and plain text.           *)
(***************************************************************************)
EXTENDS StreamAccumulator

CONSTANT MaxPieces  \* the longest answer, in pieces

Pieces == {<<"a">>, <<"<">>, <<"t", ">">>, OpenTag, CloseTag}

MCTexts == {FlattenSeq(p) : p \in UNION {[1 .. n -> Pieces] : n \in 1 .. MaxPieces}}
=============================================================================
