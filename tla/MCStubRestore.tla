--------------------------- MODULE MCStubRestore ---------------------------
(* Tilings of up to MaxSlices slices as ScanTiling builds them: no two         *)
(* literals are neighbours, standalone is what standaloneOnLine says.          *)
EXTENDS StubRestoreInvariants, SequencesExt

CONSTANT MaxSlices

G == INSTANCE Gofumpt

Lit(t) == [type |-> Literal, text |-> [p \in DOMAIN t |-> Text(t[p])],
           cont |-> <<>>, standalone |-> FALSE]

NonLit(type, cont) ==
    [type |-> type, text |-> <<>>, cont |-> cont, standalone |-> FALSE]

\* A line behind a closed rune literal, and one behind an open raw string.
Moved  == [indent |-> 2, before |-> <<"{", "{", "'", "raw", "'">>]
String == [indent |-> 3, before |-> <<"x", "raw">>]

Literals == {Lit(<<"x">>), Lit(<<"{", " ">>), Lit(<<"\n", " ">>), Lit(<<",", "\n">>)}

NonLiterals ==
    {NonLit(Action, <<>>), NonLit(Action, <<Moved, String>>), NonLit(BlockOpen, <<Moved>>),
     NonLit(Define, <<Moved>>)}

\* A reference for stringLineMask.  A literal reaches from its quote to the next
\* one of its kind that does not stand behind an odd number of backslashes, which
\* count in a raw string for nothing.
Escaped(s, p, r) ==
    Cardinality({q \in p + 1 .. r - 1 : \A i \in q .. r - 1 : s[i] = "\\"}) % 2 = 1

Closers(s, p) ==
    {r \in p + 1 .. Len(s) : s[r] = s[p] /\ (s[p] = "raw" \/ ~Escaped(s, p, r))}

\* Whether the line behind s begins in a literal: one opens that none closes.
OpenBehind(s) ==
    LET inside[p \in 1 .. Len(s) + 1] ==
            \E q \in 1 .. p - 1 :
                s[q] \in Quote /\ ~inside[q] /\ \A r \in Closers(s, q) : p <= r
    IN  inside[Len(s) + 1]

ASSUME MaskIsRight ==
    \A s \in SeqOf(Quote \cup {"\\", "\n", "x"}, 5) :
        (StringState(s).open # "code") = OpenBehind(s)

Sequential(t) == \A j \in 2 .. Len(t) : t[j].type = Literal => t[j - 1].type # Literal

\* The neighbours of slice j leave it alone on its line.
Alone(t, j) ==
    LET s == SourceOf(t)
        p == CHOOSE q \in DOMAIN s : IsRaw(s[q]) /\ s[q][2] = j
    IN  /\ isAllSpaceOrTab(LinePrefix(s, p))
        /\ \A q \in p + 1 .. Len(s) :
              s[q] = Text(" ") \/ \E r \in p + 1 .. q : s[r] = Text("\n")

Marked(t) ==
    [j \in DOMAIN t |-> [t[j] EXCEPT !.standalone = t[j].type = Action /\ Alone(t, j)]]

MCTilings ==
    {Marked(t) : t \in {u \in SeqOf(Literals \cup NonLiterals, MaxSlices) : Sequential(u)}}

MCGofumpt(s) == G!Reflow(s) \cup G!Damaged(s) \cup G!Unchanged(s)

\* gofumpt that never damages a sentinel, for the runs about what is promised
\* even then.
Faithful(s) == G!Reflow(s)
=============================================================================
