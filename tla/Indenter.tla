------------------------------ MODULE Indenter ------------------------------
(***************************************************************************)
(* tilingIndent (internal/format/indent.go): the fallback that re-indents  *)
(* a template by Go-bracket depth when gofumpt refuses its stub.           *)
(*                                                                         *)
(* A text is a sequence of cells <<type, symbol>>: a symbol and the type   *)
(* of the slice it belongs to.  A comment slice that spans lines has type  *)
(* LongComment.  The indenter is run on its own output too (pass 2), which *)
(* is what idempotence is about.                                           *)
(***************************************************************************)
EXTENDS Reindent

CONSTANT Texts      \* the texts to indent

Opener == {"{", "(", "["}
Closer == {"}", ")", "]"}

\* "case" stands for case and default, "switch" for switch and select.
Symbol == Byte \cup Opener \cup Closer \cup {"{{", "}}", "case", "switch"}
Cell == (SliceType \cup {LongComment}) \X Symbol

ASSUME TextsAssumption == Texts \subseteq Seq(Cell)

\* Every opaque slice begins with its delimiter.
ASSUME SlicesAssumption ==
    \A t \in Texts : \A p \in DOMAIN t :
        t[p][1] \in Opaque /\ t[p][2] # "{{" => p > 1 /\ t[p - 1][1] = t[p][1]

VARIABLES
    src, i,
    out,                \* the lines flushed so far
    depth,              \* indent depth at the start of the line
    stack,              \* open brackets, innermost last
    curLine, lineStart,
    linePre, linePost,  \* depth change before and after the line's indent
    leading,            \* still in the line's leading zone
    verbatim,           \* the line overlaps an opaque slice
    inSwitch,           \* the line starts directly inside a switch body
    go,                 \* the Go lexical state
    pass, original      \* 1, then 2; the text of the first pass

line == <<depth, stack, curLine, lineStart, linePre, linePost, leading, verbatim, inSwitch>>
vars == <<src, i, out, line, go, pass, original>>

Brace == [line : Nat, kind : Opener, incremented : BOOLEAN, isSwitch : BOOLEAN]
GoState == {"code", "raw", "block", "string", "rune", "line"}

Sym(p) == src[p][2]
peek(n) == IF i + n <= Len(src) THEN Sym(i + n) ELSE ""

Init ==
    /\ original \in Texts
    /\ src = original
    /\ i = 1 /\ out = <<>>
    /\ depth = 0 /\ stack = <<>> /\ curLine = 0 /\ lineStart = 1
    /\ linePre = 0 /\ linePost = 0 /\ leading = TRUE /\ verbatim = FALSE
    /\ inSwitch = FALSE /\ go = "code"
    /\ pass = 1

clampDepth(d) == IF d < 0 THEN 0 ELSE d

\* The whole word w, not the beginning of a longer identifier.
startsWithWord(text, w) ==
    /\ text # <<>> /\ text[1][2] = w
    /\ Len(text) > 1 => text[2][2] # "1"

isCaseLabel(text) == startsWithWord(text, "case")

enclosingSwitch(st) ==
    LET braces == {p \in DOMAIN st : st[p].kind = "{"}
    IN  braces # {} /\ st[CHOOSE p \in braces : \A q \in braces : q <= p].isSwitch

opensSwitchBody == startsWithWord(TrimLeft(SubSeq(src, lineStart, i - 1)), "switch")

\* The indent of a line belongs to the slice its newline belongs to.
Tabs(n) ==
    [p \in 1 .. n |-> <<IF lineStart = 1 THEN Literal ELSE src[lineStart - 1][1], "\t">>]

\* flush: the line that ends before the cursor, and the depth after it.
Flushed ==
    LET text == SubSeq(src, lineStart, i - 1)
        stripped == TrimLeft(text)
        outer == clampDepth(depth + linePre)
        display == IF inSwitch /\ isCaseLabel(stripped) THEN clampDepth(outer - 1) ELSE outer
    IN  IF verbatim THEN text
        ELSE IF stripped = <<>> THEN <<>>
        ELSE Tabs(display) \o stripped

DepthAfter ==
    IF verbatim \/ TrimLeft(SubSeq(src, lineStart, i - 1)) = <<>> THEN depth
    ELSE clampDepth(clampDepth(depth + linePre) + linePost)
----------------------------------------------------------------------------
\* Strings, runes and line comments end with the line; a raw string and a
\* block comment go on.
startLine ==
    /\ lineStart' = i + 1 /\ linePre' = 0 /\ linePost' = 0
    /\ leading' = TRUE /\ verbatim' = FALSE
    /\ inSwitch' = enclosingSwitch(stack)
    /\ go' = IF go \in {"string", "rune", "line"} THEN "code" ELSE go

NewLine ==
    /\ i <= Len(src) /\ Sym(i) = "\n"
    /\ out' = out \o Flushed \o <<src[i]>>
    /\ depth' = DepthAfter
    /\ i' = i + 1 /\ curLine' = curLine + 1
    /\ startLine
    /\ UNCHANGED <<src, stack, pass, original>>

At(types) == i <= Len(src) /\ Sym(i) # "\n" /\ src[i][1] \in types
AtGo(states) == At({Literal}) /\ go \in states

Advance(n) == i' = i + n /\ UNCHANGED <<src, out, pass, original>>

\* Slip: an opaque slice is passed over like an action.
OpaqueAsAction ==
    /\ At(Opaque)
    /\ Advance(1) /\ UNCHANGED <<line, go>>

OpaqueByte ==
    /\ At(Opaque)
    /\ verbatim' = TRUE /\ Advance(1)
    /\ UNCHANGED <<depth, stack, curLine, lineStart, linePre, linePost, leading, inSwitch, go>>

ActionByte ==
    /\ At({Action, BlockOpen, BlockMid, BlockClose, Comment})
    /\ Advance(1) /\ UNCHANGED <<line, go>>

RawByte ==
    /\ AtGo({"raw"})
    /\ go' = IF Sym(i) = "raw" THEN "code" ELSE "raw"
    /\ Advance(1) /\ UNCHANGED line

BlockCommentByte ==
    /\ AtGo({"block"})
    /\ IF Sym(i) = "*" /\ peek(1) = "/"
       THEN go' = "code" /\ Advance(2)
       ELSE go' = go /\ Advance(1)
    /\ UNCHANGED line

\* Slip: a line comment is left to the newline that ends it.
LineCommentWaits ==
    /\ AtGo({"line"})
    /\ Advance(0) /\ UNCHANGED <<line, go>>

LineCommentByte ==
    /\ AtGo({"line"})
    /\ Advance(1) /\ UNCHANGED <<line, go>>

\* consumeEscaped; the byte after a backslash may be a newline, or the first of
\* an opaque slice's "{{", and then the second one is an OpaqueByte.
QuotedByte ==
    /\ AtGo({"string", "rune"})
    /\ IF Sym(i) = "\\" /\ i < Len(src)
       THEN /\ verbatim' = (verbatim \/ src[i + 1][1] \in Opaque)
            /\ go' = go /\ Advance(2)
       ELSE /\ go' = IF Sym(i) = (IF go = "string" THEN "\"" ELSE "'") THEN "code" ELSE go
            /\ Advance(1) /\ UNCHANGED verbatim
    /\ UNCHANGED <<depth, stack, curLine, lineStart, linePre, linePost, leading, inSwitch>>

OpensComment == Sym(i) = "/" /\ peek(1) \in {"/", "*"}

openGoSubstate ==
    /\ AtGo({"code"}) /\ (Sym(i) \in Quote \/ OpensComment)
    /\ go' = CASE Sym(i) = "raw"  -> "raw"
               [] Sym(i) = "\""   -> "string"
               [] Sym(i) = "'"    -> "rune"
               [] peek(1) = "/"   -> "line"
               [] OTHER           -> "block"
    /\ Advance(IF OpensComment THEN 2 ELSE 1)
    /\ UNCHANGED line

\* Only the first bracket a line leaves open raises the indent.
Raises == stack = <<>> \/ stack[Len(stack)].line # curLine

OpenBracket ==
    /\ AtGo({"code"}) /\ Sym(i) \in Opener
    /\ stack' = Append(stack, [line |-> curLine, kind |-> Sym(i), incremented |-> Raises,
                               isSwitch |-> Sym(i) = "{" /\ opensSwitchBody])
    /\ linePost' = IF Raises THEN linePost + 1 ELSE linePost
    /\ leading' = FALSE
    /\ Advance(1)
    /\ UNCHANGED <<depth, curLine, lineStart, linePre, verbatim, inSwitch, go>>

\* addDelta of a closer: this line in its leading zone, else the next one.
Lower ==
    \/ leading /\ linePre' = linePre - 1 /\ UNCHANGED linePost
    \/ ~leading /\ linePost' = linePost - 1 /\ UNCHANGED linePre

\* Slip: every closer dedents, whether its opener had raised the indent or not.
CloseBracketAlways ==
    /\ AtGo({"code"}) /\ Sym(i) \in Closer /\ stack # <<>>
    /\ stack' = SubSeq(stack, 1, Len(stack) - 1)
    /\ Lower
    /\ Advance(1)
    /\ UNCHANGED <<depth, curLine, lineStart, leading, verbatim, inSwitch, go>>

CloseBracket ==
    /\ AtGo({"code"}) /\ Sym(i) \in Closer /\ stack # <<>>
    /\ stack' = SubSeq(stack, 1, Len(stack) - 1)
    /\ \/ ~stack[Len(stack)].incremented /\ UNCHANGED <<linePre, linePost>>
       \/ stack[Len(stack)].incremented /\ Lower
    /\ Advance(1)
    /\ UNCHANGED <<depth, curLine, lineStart, leading, verbatim, inSwitch, go>>

\* Any other byte, and a closer that nothing is open for.
OtherByte ==
    /\ AtGo({"code"})
    /\ Sym(i) \notin Quote /\ ~OpensComment /\ Sym(i) \notin Opener
    /\ Sym(i) \in Closer => stack = <<>>
    /\ Advance(1) /\ UNCHANGED <<line, go>>

AtEnd == i > Len(src)

\* run's last flush; then the second pass over what the first one wrote.
Finish ==
    /\ AtEnd /\ pass = 1
    /\ src' = out \o Flushed
    /\ i' = 1 /\ out' = <<>>
    /\ depth' = 0 /\ stack' = <<>> /\ curLine' = 0 /\ lineStart' = 1
    /\ linePre' = 0 /\ linePost' = 0 /\ leading' = TRUE /\ verbatim' = FALSE
    /\ inSwitch' = FALSE /\ go' = "code"
    /\ pass' = 2
    /\ UNCHANGED original

FinishAgain ==
    /\ AtEnd /\ pass = 2
    /\ out' = out \o Flushed
    /\ pass' = 3
    /\ UNCHANGED <<src, i, line, go, original>>

Next ==
    \/ NewLine \/ OpaqueByte \/ ActionByte
    \/ RawByte \/ BlockCommentByte \/ LineCommentByte \/ QuotedByte
    \/ openGoSubstate \/ OpenBracket \/ CloseBracket \/ OtherByte
    \/ Finish \/ FinishAgain

Spec == Init /\ [][Next]_vars

\* One loop in one goroutine: it takes its next step.
FairSpec == Spec /\ WF_vars(Next)
=============================================================================
