----------------------------- MODULE MCScanner -----------------------------
(* Templates for the scanner: the interior of one action or comment built    *)
(* from single bytes, and whole templates built from tags and text.          *)
EXTENDS Sentinel

CONSTANTS MaxInterior, MaxPieces, MaxMentions

Interior == {"{", "}", "\"", "raw", "\\", "x"}

Interiors == {<<"{", "{">> \o w : w \in BoundedSeq(Interior, MaxInterior)}

CommentPiece ==
    {<<"/", "*">>, <<"*", "/">>, <<"}", "}">>, <<"-">>, <<" ">>, <<"'">>, <<"{">>}

Comments == {<<"{", "{">> \o FlattenSeq(w) : w \in BoundedSeq(CommentPiece, MaxInterior)}

Tag(w) == <<"{", "{", w, "}", "}">>

Piece ==
    {Tag("x"), Tag("if"), Tag("else"), Tag("end"), Tag("define"),
     <<"{", "{", "-", " ", "/", "*", "{", "{", "*", "/", " ", "-", "}", "}">>,
     <<"\n", " ">>, <<"{">>, <<"1">>}

Templates == {FlattenSeq(w) : w \in BoundedSeq(Piece, MaxPieces)}

\* Texts that look like sentinels, beside actions.
Base  == <<"_", "_", "gtmpl">>
Taken == Base \o <<"_", "hash", "_", "0">>

Mentioning ==
    {Tag("x"), Tag("if"), <<"{", "{", "/", "*">> \o Taken \o <<"*", "/", "}", "}">>,
     Taken, Base \o <<"_", "a", "0", "_">>, <<"/", "*">> \o Base \o <<"_", "b", "1", "*", "/">>,
     <<"_", "gtmpl", "_", "a", "1", "0", "_">>, <<"_", "gtmpl", "_", "a", "1", "0">>,
     <<"_">>, <<"\n">>}

Mentions == {FlattenSeq(w) : w \in BoundedSeq(Mentioning, MaxMentions)}

MCSources == Interiors \cup Comments \cup Templates \cup Mentions
=============================================================================
