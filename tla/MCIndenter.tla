----------------------------- MODULE MCIndenter -----------------------------
(* Texts of a few lines: every mix of up to MaxLines of the lines below, and  *)
(* of up to MaxPlain of those that only open and close brackets.              *)
EXTENDS IndenterInvariants

CONSTANTS MaxLines, MaxPlain

Go(syms) == [p \in DOMAIN syms |-> <<Literal, syms[p]>>]

Plain ==
    {Go(<<" ", "{">>), Go(<<"(", "{">>), Go(<<"}">>), Go(<<"}", ")">>),
     Go(<<"}", "x", "{">>), Go(<<"x", "}">>), Go(<<" ", "x">>)}

LineKinds ==
    Plain \cup
    {Go(<<"switch", "{">>), Go(<<"\t", "case", "x">>), Go(<<"case", "1">>), Go(<<>>),
     Go(<<"raw">>), Go(<<"\"", "{", "\\">>), Go(<<"'", "}", "'">>),
     Go(<<"/", "/", "{">>), Go(<<"/", "*", "}">>), Go(<<"*", "/", "{">>),
     <<<<Action, "{{">>, <<Action, "\n">>, <<Action, " ">>, <<Action, "}}">>>>,
     <<<<Define, "{{">>, <<Define, "\n">>, <<Define, " ">>, <<Define, "}}">>, <<Literal, "{">>>>,
     Go(<<" ", "'", "\\">>) \o <<<<Define, "{{">>, <<Define, "\n">>, <<Define, "}}">>>>}

LongLine == <<<<LongComment, "{{">>, <<LongComment, "\n">>, <<LongComment, " ">>, <<LongComment, "}}">>>>

Joined(ls) ==
    LET upTo[n \in 0 .. Len(ls)] ==
            IF n = 0 THEN <<>>
            ELSE upTo[n - 1] \o (IF n = 1 THEN <<>> ELSE Go(<<"\n">>)) \o ls[n]
    IN  upTo[Len(ls)]

TextsOf(lines, n) == {Joined(ls) : ls \in SeqOf(lines, n)}

MCTexts == TextsOf(LineKinds \cup {LongLine}, MaxLines) \cup TextsOf(Plain, MaxPlain)

\* Without the line that ends in the middle of a raw string or comment.
RawTexts == TextsOf({Go(<<"{">>), Go(<<"raw">>), Go(<<" ", "x">>)}, MaxLines)
=============================================================================
