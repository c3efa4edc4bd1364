------------------------------ MODULE Reindent ------------------------------
(***************************************************************************)
(* What the fallback indenter may do to a text, line by line, whatever the *)
(* bracket depths: the contract of tilingIndent (internal/format/indent.go *)
(* 61-67) that its callers rely on.  A text is a sequence of cells         *)
(* <<type, symbol>>, as in Indenter.                                       *)
(***************************************************************************)
EXTENDS Source, SequencesExt

LongComment == "long comment"
Opaque == {Define, LongComment}

Symbols(cells) == [p \in DOMAIN cells |-> cells[p][2]]

\* strings.Split at the newlines.
Lines(cells) ==
    LET ends == {p \in DOMAIN cells : cells[p][2] = "\n"} \cup {Len(cells) + 1}
        Before(p) == {q \in ends : q < p}
        End(m) == CHOOSE p \in ends : Cardinality(Before(p)) = m - 1
    IN  [m \in 1 .. Cardinality(ends) |->
            SubSeq(cells, 1 + Max({0} \cup Before(End(m))), End(m) - 1)]

\* Slip: the old indent stays.
NoTrim(text) == text

\* strings.TrimLeft(text, " \t").
TrimLeft(text) ==
    LET solid == {p \in DOMAIN text : text[p][2] \notin Blank}
    IN  IF solid = {} THEN <<>>
        ELSE SubSeq(text, CHOOSE p \in solid : \A q \in solid : p <= q, Len(text))

\* A backslash at the end of line m of ls may escape the newline.
Escapes(ls, m) == m \in DOMAIN ls /\ ls[m] # <<>> /\ Last(ls[m])[2] = "\\"

\* What may become of line m: nothing changes if it overlaps an opaque slice
\* or a string carries it over from the line before or into the next; else
\* its blanks give way to depth tabs, none on the first line.
Reindented(ls, m, depths) ==
    LET kept     == Symbols(ls[m])
        stripped == Symbols(TrimLeft(ls[m]))
        tabs(d)  == [t \in 1 .. d |-> "\t"]
        moved    == IF stripped = <<>> THEN {<<>>}
                    ELSE {tabs(d) \o stripped : d \in IF m = 1 THEN {0} ELSE depths}
    IN  IF \E p \in DOMAIN ls[m] : ls[m][p][1] \in Opaque THEN {kept}
        ELSE IF Escapes(ls, m) \/ Escapes(ls, m - 1) THEN {kept} \cup moved
        ELSE moved

\* after is before with some of its lines re-indented.
Reindents(before, after, depths) ==
    LET old == Lines(before)
        new == Lines(after)
    IN  /\ Len(old) = Len(new)
        /\ \A m \in DOMAIN old : Symbols(new[m]) \in Reindented(old, m, depths)

\* Every text before may be re-indented to.
AllReindented(before, depths) ==
    LET Results(ls) ==
            LET WithLine(texts, m) ==
                    {t \o (IF m = 1 THEN <<>> ELSE <<"\n">>) \o l :
                        t \in texts, l \in Reindented(ls, m, depths)}
            IN  FoldLeftDomain(WithLine, {<<>>}, ls)
    IN  UNION {Results(ls) : ls \in {Lines(before)}}
=============================================================================
