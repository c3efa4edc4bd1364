------------------------------ MODULE Diagnose ------------------------------
(***************************************************************************)
(* render.Diagnose: the template is executed, its output is formatted, the *)
(* two are compared, and every change of the unified diff is pointed back  *)
(* at a template line (render.go, mapping.go).  text/template, gofumpt and *)
(* the diff library are external.                                          *)
(*                                                                         *)
(* A template is its slices [type, text]; a text is made of cells          *)
(* <<type, symbol, origin, enclosing>>, where the symbol's origin is its   *)
(* position in the template (0 for data) and enclosing the control body    *)
(* that was being executed when it was written.                            *)
(***************************************************************************)
EXTENDS Reindent

CONSTANTS
    Templates,      \* the templates, each a sequence of slices
    Data,           \* the texts an action may print
    MaxRounds,      \* bound: iterations of one loop
    MaxRemoved,     \* bound: neighbouring lines gofumpt changes
    MaxRegions,     \* bound: places where it changes something,
    MaxLines,       \*   in an output of that many lines; one in a longer one
    Margin          \* lines of context in the diff

ASSUME BoundsAssumption ==
    /\ MaxRounds \in Nat \ {0} /\ MaxRemoved \in Nat /\ MaxRegions \in Nat
    /\ MaxLines \in Nat /\ Margin \in Nat \ {0}

VARIABLES
    tpl,            \* the template
    stage,
    at, frames,     \* the executor: the next slice, and the blocks it is in
    rendered,       \* what it has written
    regions, diff,  \* the changes, and the unified diff that shows them
    d, cur, oldLine, hunks,     \* unifiedHunks: next line, open hunk (or none)
    index, tiles,   \* findings: the template lines' keys, whether src tiles,
    found           \*   and what is found so far

execVars == <<at, frames, rendered>>
hunkVars == <<d, cur, oldLine, hunks>>
findVars == <<index, tiles, found>>
vars == <<tpl, stage, execVars, regions, diff, hunkVars, findVars>>

\* A slice is never empty: every cut of ScanTiling takes a byte.
Slice == [type : SliceType, text : Seq(STRING) \ {<<>>}]

ASSUME TextAssumption == Templates \subseteq Seq(Slice) /\ Data \subseteq Seq(STRING)

\* How many blocks are open behind slice p of t.
Depth(t, p) ==
    LET depth[q \in 0 .. Len(t)] ==
            IF q = 0 THEN 0
            ELSE depth[q - 1] + (CASE t[q].type = BlockOpen  -> 1
                                   [] t[q].type = BlockClose -> -1
                                   [] OTHER -> 0)
    IN  depth[p]

\* text/template parses it: blocks end, and an {{else}} is inside of one.
Bracketed(t) ==
    /\ Depth(t, Len(t)) = 0
    /\ \A p \in DOMAIN t :
          /\ Depth(t, p) >= 0
          /\ t[p].type = BlockMid => Depth(t, p) > 0

\* Diagnose returns before it executes any other.
ASSUME ParseAssumption == \A t \in Templates : Bracketed(t)

Opener == "{{"
TopLevel == "TopLevel"
InLoop == "InLoop"
InConditional == "InConditional"

enclosingFor(keyword) ==
    CASE keyword \in {"range", "with", "block"} -> InLoop
      [] keyword = "if" -> InConditional
      [] OTHER -> TopLevel

\* Where slice m starts.
StartOf(m) ==
    LET start[n \in DOMAIN tpl] ==
            IF n = 1 THEN 1 ELSE start[n - 1] + Len(tpl[n - 1].text)
    IN  start[m]

\* Slice m as cells.
CellsOf(m, enclosing) ==
    [p \in DOMAIN tpl[m].text |-> <<tpl[m].type, tpl[m].text[p], StartOf(m) + p - 1, enclosing>>]

Init ==
    /\ tpl \in Templates
    /\ stage = "execute"
    /\ at = 1 /\ frames = <<>> /\ rendered = <<>>
    /\ regions = <<>> /\ diff = <<>>
    /\ d = 1 /\ cur = <<>> /\ oldLine = 0 /\ hunks = <<>>
    /\ index = <<>> /\ tiles = TRUE /\ found = <<>>
----------------------------------------------------------------------------
(* execTemplate.                                                           *)

\* The keyword the parser sees, however it is spaced.
Keyword(m) == tpl[m].text[Min({p \in DOMAIN tpl[m].text : tpl[m].text[p] \in OpenWord})]

\* The end of the block that slice m opens, and its {{else}}s.
End(m)   == Min({p \in m .. Len(tpl) : Depth(tpl, p) = Depth(tpl, m - 1)})
Elses(m) == {p \in m .. End(m) : tpl[p].type = BlockMid /\ Depth(tpl, p) = Depth(tpl, m)}

Executing == stage = "execute" /\ at \in DOMAIN tpl

\* The enclosing body is that of the last block entered.
Running == IF frames = <<>> THEN TopLevel ELSE enclosingFor(Keyword(Last(frames).open))

Move(to, stack) ==
    /\ at' = to /\ frames' = stack
    /\ UNCHANGED <<tpl, stage, rendered, regions, diff, hunkVars, findVars>>

\* A literal or an action's data is written; the rest prints nothing.
Written(cells) ==
    /\ rendered' = rendered \o cells
    /\ at' = at + 1
    /\ UNCHANGED <<tpl, stage, frames, regions, diff, hunkVars, findVars>>

WriteText ==
    /\ Executing /\ tpl[at].type = Literal
    /\ Written(CellsOf(at, Running))

WriteData ==
    /\ Executing /\ tpl[at].type = Action
    /\ \E t \in Data : Written([p \in DOMAIN t |-> <<Action, t[p], 0, Running>>])

WriteNothing ==
    /\ Executing /\ tpl[at].type \in {Comment, Define}
    /\ Written(<<>>)

ExecuteFails ==
    /\ Executing /\ tpl[at].type = Action
    /\ stage' = "error"
    /\ UNCHANGED <<tpl, execVars, regions, diff, hunkVars, findVars>>

\* round 0 is the body behind {{else}}.
Enter ==
    /\ Executing /\ tpl[at].type = BlockOpen
    /\ Move(at + 1, Append(frames, [open |-> at, round |-> 1]))

PassBy ==
    /\ Executing /\ tpl[at].type = BlockOpen /\ Keyword(at) # "block"
    /\ IF Elses(at) = {} THEN Move(End(at) + 1, frames)
       ELSE Move(Min(Elses(at)) + 1, Append(frames, [open |-> at, round |-> 0]))

Else ==
    /\ Executing /\ tpl[at].type = BlockMid
    /\ Move(End(Last(frames).open), frames)

Leave ==
    /\ Executing /\ tpl[at].type = BlockClose
    /\ Move(at + 1, Front(frames))

Again ==
    /\ Executing /\ tpl[at].type = BlockClose
    /\ LET frame == Last(frames)
       IN  /\ Keyword(frame.open) = "range" /\ frame.round \in 1 .. MaxRounds - 1
           /\ Move(frame.open + 1, Append(Front(frames), [frame EXCEPT !.round = @ + 1]))

Execute ==
    WriteText \/ WriteData \/ WriteNothing \/ ExecuteFails
    \/ Enter \/ PassBy \/ Else \/ Leave \/ Again
----------------------------------------------------------------------------
(* gofumpt, and the diff of its work.                                      *)

\* The lines of the output; whether its last one lacks a newline.
Unended == Last(Lines(rendered)) # <<>>
Rendered == IF Unended THEN Lines(rendered) ELSE Front(Lines(rendered))

\* A line, re-indented.
Formatted(line) ==
    LET ink == TrimLeft(line)
    IN  IF Len(ink) < Len(line) THEN ink ELSE << <<Literal, "\t", 0, TopLevel>> >> \o line

\* Lines from .. to give way to others, none of them to a new one.
Rewrites(lines, from, to) ==
    LET new == [p \in 1 .. to - from + 1 |-> Formatted(lines[from + p - 1])]
        blank == << <<>> >>
    IN  {[from |-> from, to |-> to, added |-> a] :
            a \in IF new = <<>> THEN {blank} ELSE {new, blank \o new, Tail(new)}}

Changes(lines) ==
    UNION {UNION {Rewrites(lines, from, to) :
                     to \in from - 1 .. Min({Len(lines), from + MaxRemoved - 1})} :
              from \in 1 .. Len(lines) + 1}

\* Changes in order, an unchanged line between any two; a last line without a
\* newline is always changed.
Scripts(lines) ==
    {s \in BoundedSeq(Changes(lines), IF Len(lines) <= MaxLines THEN MaxRegions ELSE 1) :
        /\ \A m \in 1 .. Len(s) - 1 : s[m].to + 1 < s[m + 1].from
        /\ Unended => s # <<>> /\ Last(s).to = Len(lines) /\ Last(s).from <= Len(lines)}

DiffLine(mark, line, start) == [mark |-> mark, line |-> line, start |-> start]
Header(mark) == DiffLine(mark, <<>>, 0)

Marked(mark, lines, from, to) ==
    [p \in 1 .. to - from + 1 |-> DiffLine(mark, lines[from + p - 1], 0)]

\* Deletions before additions, Margin lines around them, and a range line
\* where lines are left out or could be.
Diff(lines, script) ==
    LET end(m) == IF m = 0 THEN 0 ELSE script[m].to
        joined(m) == m > 1 /\ script[m].from - 1 - end(m - 1) < 2 * Margin
        first(m) == IF joined(m) THEN end(m - 1) + 1
                    ELSE Max({end(m - 1) + 1, script[m].from - Margin})
        trail(m) == Marked(" ", lines, end(m) + 1, Min({Len(lines), end(m) + Margin}))
        note(m) == IF Unended /\ end(m) = Len(lines) THEN <<Header("\\")>> ELSE <<>>
        chunk(m) ==
            (IF joined(m) THEN <<>>
             ELSE (IF m = 1 THEN <<>> ELSE trail(m - 1)) \o <<DiffLine("@@", <<>>, first(m))>>)
            \o Marked(" ", lines, first(m), script[m].from - 1)
            \o Marked("-", lines, script[m].from, end(m)) \o note(m)
            \o Marked("+", script[m].added, 1, Len(script[m].added))
    IN  <<Header("diff"), Header("---"), Header("+++")>>
        \o FlattenSeq([m \in DOMAIN script |-> chunk(m)]) \o trail(Len(script))
        \o <<Header("")>>

FormatRejects ==
    /\ stage = "execute" /\ at > Len(tpl)
    /\ stage' = "error"
    /\ UNCHANGED <<tpl, execVars, regions, diff, hunkVars, findVars>>

\* An empty output is no Go.
Format ==
    /\ stage = "execute" /\ at > Len(tpl) /\ rendered # <<>>
    /\ \E script \in Scripts(Rendered) :
          /\ regions' = script
          /\ diff' = IF script = <<>> THEN <<>> ELSE Diff(Rendered, script)
          /\ stage' = IF script = <<>> THEN "clean" ELSE "hunks"
    /\ UNCHANGED <<tpl, execVars, hunkVars, findVars>>
----------------------------------------------------------------------------
(* unifiedHunks.                                                           *)

InDiff == stage = "hunks" /\ d <= Len(diff)

Begins(line, symbol) == line # <<>> /\ line[1][2] = symbol

\* The prefixes are tested on the line with its mark in front.
IsRange == diff[d].mark = "@@"
IsHeader ==
    \/ diff[d].mark \in {"---", "+++"}
    \/ diff[d].mark = "-" /\ Begins(diff[d].line, "--")
    \/ diff[d].mark = "+" /\ Begins(diff[d].line, "++")

\* Slip: the open hunk goes on.
KeepOpen == UNCHANGED <<hunks, cur>>

Flush == hunks' = hunks \o cur /\ cur' = <<>>

Opened == IF cur = <<>> THEN [line |-> oldLine, before |-> <<>>, after |-> <<>>] ELSE cur[1]

Step == d' = d + 1 /\ UNCHANGED <<tpl, stage, execVars, regions, diff, findVars>>

RangeLine ==
    /\ InDiff /\ IsRange
    /\ Flush /\ oldLine' = diff[d].start
    /\ Step

HeaderLine ==
    /\ InDiff /\ IsHeader
    /\ Step /\ UNCHANGED <<cur, oldLine, hunks>>

RemovedLine ==
    /\ InDiff /\ ~IsHeader /\ diff[d].mark = "-"
    /\ cur' = <<[Opened EXCEPT !.before = Append(@, diff[d].line)]>>
    /\ oldLine' = oldLine + 1
    /\ Step /\ UNCHANGED hunks

AddedLine ==
    /\ InDiff /\ ~IsHeader /\ diff[d].mark = "+"
    /\ cur' = <<[Opened EXCEPT !.after = Append(@, diff[d].line)]>>
    /\ Step /\ UNCHANGED <<oldLine, hunks>>

\* Context, the first line and the last, and "\ No newline at end of file".
OtherLine ==
    /\ InDiff /\ diff[d].mark \in {" ", "diff", "\\", ""}
    /\ Flush /\ oldLine' = oldLine + 1
    /\ Step
----------------------------------------------------------------------------
(* findings.                                                               *)

\* collapseWS: the fields of the line, one space between two of them.
collapseWS(line) ==
    LET s == Symbols(line)
        Ink(p) == p \in DOMAIN s /\ s[p] \notin Blank
        kept == {p \in DOMAIN s : Ink(p) \/ (Ink(p - 1) /\ \E q \in p .. Len(s) : Ink(q))}
        Kept(n) == CHOOSE p \in kept : Cardinality({q \in kept : q < p}) = n - 1
    IN  [n \in 1 .. Cardinality(kept) |-> IF Ink(Kept(n)) THEN s[Kept(n)] ELSE " "]

SrcLines == Lines(FlattenSeq([m \in DOMAIN tpl |-> CellsOf(m, TopLevel)]))

\* collapseIndex, as the key of each line; scanTiling may refuse the template.
HunksDone ==
    /\ stage = "hunks" /\ d > Len(diff)
    /\ Flush
    /\ index' = LET lines == SrcLines IN [n \in DOMAIN lines |-> collapseWS(lines[n])]
    /\ tiles' \in BOOLEAN
    /\ stage' = "findings"
    /\ UNCHANGED <<tpl, execVars, regions, diff, d, oldLine, found>>

LinesOf(key) == {n \in DOMAIN index : key # <<>> /\ index[n] = key}

\* Slip: of several lines with the key the first is taken.
MapsFirst(key) == LinesOf(key) # {}

Maps(key) == Cardinality(LinesOf(key)) = 1

\* mapHunk: the template line of the first line of before that has one, or 0.
mapHunk(h) ==
    LET mapped == {m \in DOMAIN h.before : Maps(collapseWS(h.before[m]))}
    IN  IF mapped = {} THEN 0 ELSE Min(LinesOf(collapseWS(h.before[Min(mapped)])))

\* What a tag names when only blanks are skipped before its keyword.
controlKeyword(text) ==
    LET after == IF text[2] = "-" THEN 3 ELSE 2
        rest == SelectSeq(SubSeq(text, after, Len(text)), LAMBDA c : c \notin Blank)
    IN  IF rest # <<>> /\ Head(rest) \in OpenWord THEN Head(rest) ELSE ""

\* Slip: an {{else}} is taken for the end of its block.
PopAtElse(stack, s) ==
    CASE s.type = BlockOpen -> Append(stack, controlKeyword(s.text))
      [] s.type \in {BlockMid, BlockClose} /\ stack # <<>> -> Front(stack)
      [] OTHER -> stack

PushOrPop(stack, s) ==
    CASE s.type = BlockOpen -> Append(stack, controlKeyword(s.text))
      [] s.type = BlockClose /\ stack # <<>> -> Front(stack)
      [] OTHER -> stack

lineStartOffset(n) ==
    LET lines == SrcLines
        start[m \in DOMAIN lines] == IF m = 1 THEN 1 ELSE start[m - 1] + Len(lines[m - 1]) + 1
    IN  start[n]

\* The keywords of the blocks that the slices before offset leave open.
openControlStack(offset) ==
    LET stack[m \in 0 .. Len(tpl)] ==
            IF m = 0 THEN <<>>
            ELSE IF StartOf(m) < offset THEN PushOrPop(stack[m - 1], tpl[m])
            ELSE stack[m - 1]
    IN  stack[Len(tpl)]

enclosingAt(n) ==
    LET stack == openControlStack(lineStartOffset(n))
    IN  IF ~tiles \/ stack = <<>> THEN TopLevel ELSE enclosingFor(Last(stack))

MapHunk ==
    /\ stage = "findings" /\ Len(found) < Len(hunks)
    /\ LET h == hunks[Len(found) + 1]
           n == mapHunk(h)
       IN  found' = Append(found, [hunk |-> h, line |-> n,
                       enclosing |-> IF n = 0 THEN TopLevel ELSE enclosingAt(n)])
    /\ UNCHANGED <<tpl, stage, execVars, regions, diff, hunkVars, index, tiles>>

Report ==
    /\ stage = "findings" /\ Len(found) = Len(hunks)
    /\ stage' = "done"
    /\ UNCHANGED <<tpl, execVars, regions, diff, hunkVars, findVars>>

Next ==
    \/ Execute \/ FormatRejects \/ Format
    \/ RangeLine \/ HeaderLine \/ RemovedLine \/ AddedLine \/ OtherLine \/ HunksDone
    \/ MapHunk \/ Report

Spec == Init /\ [][Next]_vars
=============================================================================
