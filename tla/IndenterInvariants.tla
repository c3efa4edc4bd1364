------------------------- MODULE IndenterInvariants -------------------------
(* What the fallback indenter promises.                                      *)
EXTENDS Indenter, FiniteSets

\* In pass 2 the source is the finished output of pass 1.
Output == IF pass = 1 THEN <<>> ELSE src

\* Indenting twice is indenting once (indent.go:8-9, format.go:6-7), for every
\* mix of brackets, literals, labels, actions and opaque slices.
Idempotent == pass = 3 => out = src

\* The contract the define path and the caller of Format rely on: lines that
\* overlap a define block or a comment over several lines come back byte for
\* byte, of any other only the blanks at its beginning change, and no line is
\* lost (indent.go:61-67).
OnlyIndents ==
    (pass = 2 /\ i = 1) => Reindents(original, src, 0 .. Len(original))

Raised == Cardinality({p \in DOMAIN stack : stack[p].incremented})

\* The depth is the number of open brackets that raised it, so that every
\* closer takes back what its opener gave (indent.go:191-192).
Balanced == depth + linePre + linePost = Raised

\* The same where no line is emitted verbatim.
BalancedWithoutOpaque ==
    (\A p \in DOMAIN src : src[p][1] \notin Opaque) =>
        Balanced /\ depth + linePre >= 0

\* Symbols of a text that belong to Go raw strings.
RawText(text) ==
    LET quotes(p) == Cardinality({q \in 1 .. p - 1 : text[q][2] = "raw"})
        inside == {p \in DOMAIN text : text[p][2] # "raw" /\ quotes(p) % 2 = 1}
        upTo[n \in 0 .. Len(text)] ==
            IF n = 0 THEN <<>>
            ELSE upTo[n - 1] \o (IF n \in inside THEN <<text[n]>> ELSE <<>>)
    IN  upTo[Len(text)]

\* "keeping every slice's bytes verbatim" (indent.go:61-62), for the bytes that
\* mean something to the generated program: those of a raw string.
RawStringsKept == pass > 1 => RawText(Output) = RawText(original)

\* Both passes end.
Ends == <>(pass = 3)
=============================================================================
