------------------------------ MODULE FrontEnd ------------------------------
(***************************************************************************)
(* Format (internal/format/format.go) up to the tiling it hands to the     *)
(* stub and the indenter: the template is parsed and tiled, the bodies of  *)
(* its define blocks are formatted (define.go), the result is parsed again *)
(* if that changed it, and tiled.  Parser and scanner have no shared logic *)
(* and read the same text, src.                                            *)
(***************************************************************************)
EXTENDS Parser

CONSTANTS
    Sources,      \* the templates Format may be given
    Depths,       \* the indents the fallback indenter may choose from
    Gofumpt       \* the layouts gofumpt may give to each text it accepts

ASSUME SourcesAssumption == Sources \subseteq Seq(Byte)
ASSUME DepthsAssumption == Depths \subseteq Nat

VARIABLES
    i, litStart, block, slices, open, typ, mode, depth, pc,   \* the scanner's
    stage,      \* where Format is
    text, til,  \* formatDefineBodies: the template and its slices,
    n, b,       \*   the slice it is at, and what is built so far
    first       \* the nodes of the first parse, and the text they are of

scanVars == <<i, litStart, block, slices, open, typ, mode, depth, pc>>
bodyVars == <<text, til, n, b>>
vars == <<parseVars, scanVars, stage, bodyVars, first>>

Stage == {"parse", "template", "bodies", "body", "reparse", "tiling",
          "ignored", "ready", "parseError", "tileError"}

Scan    == INSTANCE Scanner
Indents == INSTANCE Reindent

\* strings.ReplaceAll(text, "\r\n", "\n").
Normalized(t) ==
    FoldLeftDomain(LAMBDA s, p : IF Pair(t, p, "\r", "\n") THEN s ELSE Append(s, t[p]), <<>>, t)

Init ==
    /\ \E t \in Sources : src = Normalized(t)
    /\ ParseStart
    /\ Scan!Start
    /\ stage = "parse"
    /\ text = <<>> /\ til = <<>> /\ n = 1 /\ b = <<>>
    /\ first = [src |-> <<>>, nodes |-> <<>>]

ScanAgain ==
    /\ i' = 1 /\ litStart' = 1 /\ block' = 0 /\ slices' = <<>>
    /\ open' = 1 /\ typ' = Literal /\ mode' = "text" /\ depth' = 0
    /\ pc' = "scan"

Goto(from, to) == stage = from /\ stage' = to
----------------------------------------------------------------------------
(* The two programs.                                                       *)

Parse ==
    /\ stage \in {"parse", "reparse"}
    /\ ParseNext
    /\ UNCHANGED <<scanVars, stage, bodyVars, first>>

ParseFails ==
    /\ Goto("parse", "parseError") \/ Goto("reparse", "parseError")
    /\ at = "rejected"
    /\ UNCHANGED <<parseVars, scanVars, bodyVars, first>>

\* The first comment, with nothing but text before it, says so.
HasIgnoreAll ==
    \E c \in DOMAIN nodes :
        /\ nodes[c].type = Comment
        /\ Contains(SubSeq(src, nodes[c].from, nodes[c].to - 1), "ignore-all")
        /\ \A m \in 1 .. c - 1 : nodes[m].type = Literal

IgnoreAll ==
    /\ Goto("parse", "ignored")
    /\ at = "accepted" /\ HasIgnoreAll
    /\ UNCHANGED <<parseVars, scanVars, bodyVars, first>>

Parsed ==
    /\ Goto("parse", "template")
    /\ at = "accepted" /\ ~HasIgnoreAll
    /\ first' = [src |-> src, nodes |-> nodes]
    /\ UNCHANGED <<parseVars, scanVars, bodyVars>>

Tile ==
    /\ stage \in {"template", "body", "tiling"}
    /\ Scan!Next
    /\ UNCHANGED <<parserVars, pos, line, parenDepth, insideAction, item,
                   stage, bodyVars, first>>

Tiled == pc = "done"
TilingFails == pc \in {"unterminated", "misTiled"}
----------------------------------------------------------------------------
(* formatDefineBodies.                                                     *)

\* A template that does not tile is handed on as it is.
BodiesSkipped ==
    /\ Goto("template", "tiling")
    /\ TilingFails
    /\ ScanAgain
    /\ UNCHANGED <<parseVars, bodyVars, first>>

BodiesBegin ==
    /\ Goto("template", "bodies")
    /\ Tiled
    /\ text' = src /\ til' = slices /\ n' = 1 /\ b' = <<>>
    /\ UNCHANGED <<parseVars, scanVars, first>>

InBodies == stage = "bodies" /\ n <= Len(til)

Slice == til[n].start .. til[n].stop - 1

\* The body lies between the first "}}" of the slice and its last "{{".
Opens  == {p \in Slice : p + 1 \in Slice /\ RightDelim(text, p)}
Closes == {p \in Slice : p + 1 \in Slice /\ LeftDelim(text, p)}
HasBody ==
    /\ til[n].type = Define
    /\ Opens # {} /\ Closes # {} /\ Max(Closes) >= Min(Opens) + 2
Body == Min(Opens) + 2 .. Max(Closes) - 1

\* splitSurroundingSpace: the core is the body without the space around it.
Inked == {p \in Body : text[p] \notin Space}
Core  == IF Inked = {} THEN {} ELSE Min(Inked) .. Max(Inked)

TextOf(range) == IF range = {} THEN <<>> ELSE SubSeq(text, Min(range), Max(range))

\* The slice is copied with new in the place of range.
Write(range, new) ==
    /\ b' = b \o SubSeq(text, til[n].start, Min(range) - 1) \o new
             \o SubSeq(text, Max(range) + 1, til[n].stop - 1)
    /\ n' = n + 1
    /\ UNCHANGED <<text, til>>

Copy == Write(Slice, TextOf(Slice))

CopySlice ==
    /\ InBodies /\ ~HasBody
    /\ Copy
    /\ UNCHANGED <<parseVars, scanVars, stage, first>>

\* Slip: a body with an action is given to gofumpt too.
AnyCore == TRUE

\* formatGoFragment refuses a core with an action in it.
PureGo == ~\E p \in Core : p + 1 \in Core /\ LeftDelim(text, p)

\* gofumpt takes the core; the white space around it is kept.
GoBody ==
    /\ InBodies /\ HasBody
    /\ Core # {} /\ PureGo
    /\ \E core \in {TextOf(Core)} :
          /\ core \in DOMAIN Gofumpt
          /\ \E go \in Gofumpt[core] : Write(Core, go)
    /\ UNCHANGED <<parseVars, scanVars, stage, first>>

\* It does not, or is not asked: the whole body is tiled by itself.
FragmentBody ==
    /\ InBodies /\ HasBody
    /\ stage' = "body"
    /\ src' = TextOf(Body) /\ ScanAgain
    /\ UNCHANGED <<pos, line, parenDepth, insideAction, item, parserVars, bodyVars, first>>

\* The cells of the indenter: every symbol with the type of its slice.
Cells ==
    LET Long(sl) == sl.type = Comment /\ Contains(SubSeq(src, sl.start, sl.stop - 1), "\n")
        TypeOf(sl) == IF Long(sl) THEN Indents!LongComment ELSE sl.type
    IN  FlattenSeq([m \in DOMAIN slices |->
            [p \in 1 .. slices[m].stop - slices[m].start |->
                <<TypeOf(slices[m]), src[slices[m].start + p - 1]>>]])

\* tilingIndent of the body, or the block as it is if its body does not tile.
IndentBody ==
    /\ Goto("body", "bodies")
    /\ \/ /\ Tiled
          /\ \E cells \in {Cells} :
                \E new \in Indents!AllReindented(cells, Depths) :
                    IF Body = {} THEN Copy ELSE Write(Body, new)
       \/ TilingFails /\ Copy
    /\ src' = text
    /\ UNCHANGED <<scanVars, pos, line, parenDepth, insideAction, item, parserVars, first>>

BodiesUnchanged ==
    /\ Goto("bodies", "tiling")
    /\ n > Len(til) /\ b = text
    /\ ScanAgain
    /\ UNCHANGED <<parseVars, bodyVars, first>>

BodiesChanged ==
    /\ Goto("bodies", "reparse")
    /\ n > Len(til) /\ b # text
    /\ ParseAgain(b)
    /\ UNCHANGED <<scanVars, bodyVars, first>>

Reparsed ==
    /\ Goto("reparse", "tiling")
    /\ at = "accepted"
    /\ ScanAgain
    /\ UNCHANGED <<parseVars, bodyVars, first>>

\* The tiling is handed on, or Format returns an error.
Done ==
    /\ \/ Tiled /\ Goto("tiling", "ready")
       \/ TilingFails /\ Goto("tiling", "tileError")
    /\ UNCHANGED <<parseVars, scanVars, bodyVars, first>>

Next ==
    \/ Parse \/ ParseFails \/ IgnoreAll \/ Parsed \/ Tile
    \/ BodiesSkipped \/ BodiesBegin \/ CopySlice \/ GoBody \/ FragmentBody \/ IndentBody
    \/ BodiesUnchanged \/ BodiesChanged \/ Reparsed \/ Done

Spec == Init /\ [][Next]_vars

\* One goroutine runs it all, one step after the other.
FairSpec == Spec /\ WF_vars(Next)
=============================================================================
