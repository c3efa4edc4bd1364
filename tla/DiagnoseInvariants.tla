------------------------- MODULE DiagnoseInvariants -------------------------
(* What a finding of Diagnose may be trusted with.                          *)
EXTENDS Diagnose

\* A change that unifiedHunks can tell: no line of it looks like a file header
\* once it is marked, and the last line has its newline.
Tellable ==
    /\ ~Unended
    /\ \A m \in DOMAIN regions :
          /\ \A p \in regions[m].from .. regions[m].to : ~Begins(Rendered[p], "--")
          /\ \A p \in DOMAIN regions[m].added : ~Begins(regions[m].added[p], "++")

\* The findings are gofumpt's changes, one for one: none is split at a range
\* line or joined over an unchanged line, each has all its lines, and its line
\* number is that of the rendered file ("1-based line in the rendered output
\* where the change starts", render.go:41-42; mapping.go:76-78).
HunksAreChanges ==
    (stage = "findings" /\ Tellable) =>
        /\ Len(hunks) = Len(regions)
        /\ \A m \in DOMAIN hunks :
              /\ hunks[m].line = regions[m].from
              /\ hunks[m].before = SubSeq(Rendered, regions[m].from, regions[m].to)
              /\ hunks[m].after = regions[m].added

\* The template line that a rendered line comes from, if it was copied from
\* there whole and the template line holds nothing else.
Origins(line) ==
    LET lines == SrcLines
    IN  {n \in DOMAIN lines :
            /\ line # <<>> /\ Len(lines[n]) = Len(line)
            /\ \A p \in DOMAIN line :
                  lines[n][p][1] = Literal /\ lines[n][p][3] = line[p][3]}

IsBlank(line) == TrimLeft(line) = <<>>

\* All that a change replaces was copied from the template, line by line.
Copied(h) == \A p \in DOMAIN h.before : IsBlank(h.before[p]) \/ Origins(h.before[p]) # {}

Twin(n) == \E k \in DOMAIN index \ {n} : index[k] = index[n]

\* A change to lines that were copied from the template is mapped to one of
\* those, and it is left unmapped only if each of them occurs twice ("claiming
\* only mappings it can prove", render.go:7-12; mapping.go:42-46).
MappedToOrigin ==
    \A f \in DOMAIN found : Copied(found[f].hunk) =>
        LET origins == UNION {Origins(l) : l \in {found[f].hunk.before[p] :
                                                     p \in DOMAIN found[f].hunk.before}}
        IN  IF found[f].line = 0
            THEN \A n \in origins : index[n] = <<>> \/ Twin(n)
            ELSE found[f].line \in origins

\* Every keyword stands on the line of its delimiter.
SpacedByBlanks ==
    \A m \in DOMAIN tpl : tpl[m].type = BlockOpen => controlKeyword(tpl[m].text) = Keyword(m)

\* A mapped line is said to be in a loop or under a condition exactly if the
\* body it was executed in is one, whatever blocks were opened, closed or passed
\* by before it (mapping.go:148-151; the notes tell the user that "the change
\* applies to every iteration" or that "the line renders only for some data").
EnclosedAsExecuted ==
    (tiles /\ SpacedByBlanks) =>
        \A f \in DOMAIN found :
            \A p \in DOMAIN found[f].hunk.before :
                LET line == found[f].hunk.before[p]
                IN  (found[f].line # 0 /\ Origins(line) = {found[f].line})
                        => found[f].enclosing = line[1][4]

\* "A Finding's TemplateLine is non-zero only when src's line at that number is
\* literal (contains no action)" (render.go:88-90).
MapsToLiteral ==
    \A f \in DOMAIN found : found[f].line # 0 =>
        \A p \in DOMAIN SrcLines[found[f].line] : SrcLines[found[f].line][p][1] = Literal
=============================================================================
