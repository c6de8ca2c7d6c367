--------------------------- MODULE MCCatalogBytes ---------------------------
(* Texts put together from pieces, so that tokens, near misses and tokens    *)
(* behind a hyphen of another are frequent: a token has 5 or 6 characters.   *)
EXTENDS CatalogBytes

CONSTANT MaxPieces

LOCAL INSTANCE SequencesExt

Pieces == {<<"other">>, <<"-">>, <<"S", "M">>, <<"alnum">>, <<"alnum", "alnum">>}

MCTexts == UNION {{FlattenSeq(s) : s \in [1 .. n -> Pieces]} : n \in 0 .. MaxPieces}
=============================================================================
