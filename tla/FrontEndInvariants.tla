------------------------- MODULE FrontEndInvariants -------------------------
(***************************************************************************)
(* What the parser, the scanner and the define path, each on its own, owe  *)
(* each other and the reader of their messages.                            *)
(***************************************************************************)
EXTENDS FrontEnd

Accepted == at = "accepted"

\* src is the text the nodes are made of.
SourceParsed == stage # "body"

Opened(m) ==
    Quantify(1 .. m, LAMBDA j : nodes[j].type \in {BlockOpen, Define})
    - Quantify(1 .. m, LAMBDA j : nodes[j].type = BlockClose)

\* Whatever the parser keeps is well bracketed: no {{end}} or {{else}} outside
\* of a block, and in an accepted template none is left open (parse.go
\* parse, itemList, branchControl).
BlocksBalanced ==
    /\ \A m \in DOMAIN nodes :
          /\ Opened(m) >= 0
          /\ nodes[m].type = BlockMid => Opened(m) > 0
    /\ Accepted => Opened(Len(nodes)) = 0

Control == Word \ {"nil", "x"}

\* No control keyword is the beginning of a longer identifier.
Unglued ==
    \A p \in 1 .. Len(src) - 1 : src[p] \in Control => src[p + 1] \notin {"1", "_"}

Visible == SelectSeq(nodes, LAMBDA m : ~m.hidden)

\* The scanner has read the text the parser has.
BothRead == Accepted /\ stage \in {"template", "tiling", "ready", "tileError"}

\* The cross-check of parsecheck_test.go for every template, before and after
\* its define bodies are formatted: it tiles ("a template that parse.Parse
\* accepted always tiles", format.go:45-48), and the slices are the parser's
\* nodes, one for one and of the same type, define bodies apart.
SameSlices ==
    (BothRead /\ Unglued) =>
        /\ pc \in {"scan", "done"}
        /\ pc = "done" =>
              /\ Len(Visible) = Len(slices)
              /\ \A m \in DOMAIN slices :
                    /\ slices[m].type = Visible[m].type
                    /\ Visible[m].pos \in slices[m].start .. slices[m].stop - 1

\* format.go:45-48 without the condition.
ParsedTiles == BothRead => pc \in {"scan", "done"}

\* "Reflowing keeps the delimiters, so this cannot fail in practice": the
\* second parse accepts what the first one did (format.go:36-37).
Reparses == stage = "reparse" => at # "rejected"

\* In a define body of the template first parsed, a "{" and another one have
\* only white space between them, as in []T{ {x} }: gofumpt joins them.
BracesMeet ==
    \E p, q \in DOMAIN first.src :
        /\ p + 1 < q /\ first.src[p] = "{" /\ first.src[q] = "{"
        /\ \A r \in p + 1 .. q - 1 : first.src[r] \in Space
        /\ \E m \in DOMAIN first.nodes :
              first.nodes[m].hidden /\ first.nodes[m].from <= p /\ q < first.nodes[m].to

Tag_(s, m) == SubSeq(s, m.from, m.to - 1)
Solid(s) == SelectSeq(s, LAMBDA c : c \notin Space)
IsTag(m) == m.type # Literal

\* The "}}" in the name of a define block is not taken for its tag's end.
PlainName(s, m) == \A p \in m.from .. m.to - 3 : ~RightDelim(s, p)

\* "Template structure is unchanged, only Go-code bodies are reflowed"
\* (define.go:25-26): the tags that are tiled are those that were parsed, white
\* space inside them apart, and the tags that name the define blocks are the
\* same bytes -- unless braces meet, or a name holds a "}}".
StructureKept ==
    (stage \in {"tiling", "ready", "tileError"} /\ ~BracesMeet) =>
        LET old == SelectSeq(first.nodes, IsTag)
            new == SelectSeq(nodes, IsTag)
        IN  /\ Accepted /\ Len(old) = Len(new)
            /\ \A m \in DOMAIN old :
                  /\ old[m].type = new[m].type
                  /\ Solid(Tag_(first.src, old[m])) = Solid(Tag_(src, new[m]))
                  /\ old[m].type = Define /\ PlainName(first.src, old[m]) =>
                        Tag_(first.src, old[m]) = Tag_(src, new[m])

SourceLine(p) == 1 + Newlines(1, p)

\* The comment whose node is m spans lines.
SpansLines(m) == m.type = Comment /\ Newlines(m.from, m.to) > 0

\* A line number is never too high, and it is right until the first comment
\* that spans lines: what a parse error tells the user (parse.go errorf).
LinesOnlyLag ==
    SourceParsed =>
        \A m \in DOMAIN nodes :
            /\ nodes[m].line <= SourceLine(nodes[m].pos)
            /\ nodes[m].line < SourceLine(nodes[m].pos) =>
                  \E j \in 1 .. m - 1 : SpansLines(nodes[j])

\* Format comes to an end on every template.
Ends == <>(stage \in {"ignored", "ready", "parseError", "tileError"})
=============================================================================
