------------------------------ MODULE Scanner ------------------------------
(***************************************************************************)
(* ScanTiling (internal/tiling/scan.go): the scanner that partitions a     *)
(* template into typed slices.  The nested loops of ScanTiling,            *)
(* defineBlockEnd, actionEnd, skipQuoted and commentEnd are one machine    *)
(* that reads one symbol, or one delimiter, per step; mode says which of   *)
(* the loops the cursor is in and depth whether it is the define loop.     *)
(***************************************************************************)
EXTENDS Source

CONSTANT Sources      \* the templates the scanner may be given

ASSUME SourcesAssumption == Sources \subseteq Seq(Byte)

VARIABLES
    src,        \* the template
    i,          \* the cursor
    litStart,   \* where the literal run being skipped began
    block,      \* the block-region id, raised at every block boundary
    slices,     \* the slices emitted so far
    open,       \* where the non-literal slice being scanned began
    typ,        \* the type of the action being scanned
    mode,       \* the loop the cursor is in; in a literal, its quote
    depth,      \* nesting inside a define block, 0 outside of one
    pc          \* "scan", then "done", "unterminated" or "misTiled"

vars == <<src, i, litStart, block, slices, open, typ, mode, depth, pc>>

Mode == {"text", "lead", "code", "comment", "close"} \cup Quote

Slice == [type : SliceType, block : Nat, start : Nat \ {0}, stop : Nat \ {0},
          standalone : BOOLEAN]

TypeOK ==
    /\ src \in Seq(Byte)
    /\ i \in 1 .. Len(src) + 1
    /\ litStart \in 1 .. Len(src) + 1
    /\ block \in Nat
    /\ slices \in Seq(Slice)
    /\ open \in 1 .. Len(src) + 1
    /\ typ \in SliceType
    /\ mode \in Mode
    /\ depth \in Nat
    /\ pc \in {"scan", "done", "unterminated", "misTiled"}

Start ==
    /\ i = 1 /\ litStart = 1 /\ block = 0 /\ slices = <<>>
    /\ open = 1 /\ typ = Literal /\ mode = "text" /\ depth = 0
    /\ pc = "scan"

Init == src \in Sources /\ Start

Emit(ss, type, from, to) ==
    Append(ss, [type |-> type, block |-> block, start |-> from, stop |-> to,
                standalone |-> FALSE])

\* The cursor is on a symbol and in loop m.
At(m) == pc = "scan" /\ mode = m /\ i <= Len(src)

Advance(n) == i' = i + n
Keep == UNCHANGED <<src, pc>>
KeepSlices == UNCHANGED <<litStart, block, slices>>
----------------------------------------------------------------------------
(* The two loops that look for the next "{{": ScanTiling's and, inside a   *)
(* define block, defineBlockEnd's.                                         *)

\* Slip: two bytes at a time.
SkipTwo ==
    /\ At("text") /\ ~LeftDelim(src, i)
    /\ Advance(2)
    /\ Keep /\ KeepSlices /\ UNCHANGED <<open, typ, mode, depth>>

SkipText ==
    /\ At("text") /\ ~LeftDelim(src, i)
    /\ Advance(1)
    /\ Keep /\ KeepSlices /\ UNCHANGED <<open, typ, mode, depth>>

\* Slip: the dash of a left trim marker is left for the keyword.
PastBraces == 2

\* Past "{{" and past a left trim marker.
PastTrim == IF LeftTrim(src, i + 2) THEN 3 ELSE 2

\* Slip: an empty literal between adjacent actions.
OpenWithEmpty ==
    /\ At("text") /\ LeftDelim(src, i) /\ depth = 0
    /\ slices' = Emit(slices, Literal, litStart, i)
    /\ open' = i /\ mode' = "lead" /\ Advance(PastTrim)
    /\ Keep /\ UNCHANGED <<litStart, block, typ, depth>>

OpenSlice ==
    /\ At("text") /\ LeftDelim(src, i) /\ depth = 0
    /\ slices' = IF i > litStart THEN Emit(slices, Literal, litStart, i) ELSE slices
    /\ open' = i /\ mode' = "lead" /\ Advance(PastTrim)
    /\ Keep /\ UNCHANGED <<litStart, block, typ, depth>>

\* Slip: the literal before an action of a define block is emitted too.
OpenInDefineEmits ==
    /\ At("text") /\ LeftDelim(src, i) /\ depth > 0
    /\ slices' = IF i > litStart THEN Emit(slices, Literal, litStart, i) ELSE slices
    /\ mode' = "lead" /\ Advance(PastTrim)
    /\ Keep /\ UNCHANGED <<litStart, block, open, typ, depth>>

OpenInDefine ==
    /\ At("text") /\ LeftDelim(src, i) /\ depth > 0
    /\ mode' = "lead" /\ Advance(PastTrim)
    /\ Keep /\ KeepSlices /\ UNCHANGED <<open, typ, depth>>
----------------------------------------------------------------------------
(* scanAction: the keyword decides the type, then the close is searched.   *)

LeadSpace ==
    /\ At("lead") /\ src[i] \in Space
    /\ Advance(1)
    /\ Keep /\ KeepSlices /\ UNCHANGED <<open, typ, mode, depth>>

LeadComment ==
    /\ At("lead") /\ LeftComment(src, i)
    /\ typ' = Comment /\ mode' = "comment" /\ Advance(2)
    /\ Keep /\ KeepSlices /\ UNCHANGED <<open, depth>>

\* actionEnd starts over at the byte past "{{"; between it and the keyword
\* there are only a dash and spaces, so the cursor may as well stay.
LeadWord ==
    /\ At("lead") /\ src[i] \notin Space /\ ~LeftComment(src, i)
    /\ typ' = classify(src[i]) /\ mode' = "code"
    /\ Keep /\ KeepSlices /\ UNCHANGED <<i, open, depth>>

\* Slip: a lone "}" is looked at and not passed.
CodeByteStays ==
    /\ At("code") /\ src[i] \notin Quote /\ ~RightDelim(src, i)
    /\ Advance(IF src[i] = "}" THEN 0 ELSE 1)
    /\ Keep /\ KeepSlices /\ UNCHANGED <<open, typ, mode, depth>>

CodeByte ==
    /\ At("code") /\ src[i] \notin Quote /\ ~RightDelim(src, i)
    /\ Advance(1)
    /\ Keep /\ KeepSlices /\ UNCHANGED <<open, typ, mode, depth>>

CodeQuote ==
    /\ At("code") /\ src[i] \in Quote
    /\ mode' = src[i] /\ Advance(1)
    /\ Keep /\ KeepSlices /\ UNCHANGED <<open, typ, depth>>

Escape == mode # "raw" /\ src[i] = "\\" /\ i < Len(src)

QuotedByte ==
    \E q \in Quote :
        /\ At(q) /\ src[i] # q
        /\ IF Escape THEN Advance(2) ELSE Advance(1)
        /\ Keep /\ KeepSlices /\ UNCHANGED <<open, typ, mode, depth>>

QuotedEnd ==
    \E q \in Quote :
        /\ At(q) /\ src[i] = q
        /\ mode' = "code" /\ Advance(1)
        /\ Keep /\ KeepSlices /\ UNCHANGED <<open, typ, depth>>

CommentByte ==
    \/ /\ At("comment") /\ ~RightComment(src, i)
       /\ Advance(1)
       /\ Keep /\ KeepSlices /\ UNCHANGED <<open, typ, mode, depth>>
    \/ /\ At("close") /\ ~RightDelim(src, i)
       /\ Advance(1)
       /\ Keep /\ KeepSlices /\ UNCHANGED <<open, typ, mode, depth>>

CommentStar ==
    /\ At("comment") /\ RightComment(src, i)
    /\ mode' = "close" /\ Advance(2)
    /\ Keep /\ KeepSlices /\ UNCHANGED <<open, typ, depth>>
----------------------------------------------------------------------------
(* The closing "}}" of an action or comment.                               *)

Closing ==
    /\ At("code") \/ At("close")
    /\ RightDelim(src, i)
    /\ mode' = "text" /\ Advance(2)
    /\ Keep /\ UNCHANGED <<open, typ>>

\* Slip: {{else}} is a block boundary.
EndSliceElse ==
    /\ Closing /\ depth = 0 /\ typ # Define
    /\ slices' = Emit(slices, typ, open, i + 2)
    /\ block' = block + (IF typ \in {BlockOpen, BlockMid, BlockClose} THEN 1 ELSE 0)
    /\ litStart' = i + 2
    /\ UNCHANGED depth

EndSlice ==
    /\ Closing /\ depth = 0 /\ typ # Define
    /\ slices' = Emit(slices, typ, open, i + 2)
    /\ block' = block + (IF typ \in {BlockOpen, BlockClose} THEN 1 ELSE 0)
    /\ litStart' = i + 2
    /\ UNCHANGED depth

\* defineBlockEnd counts the define tag itself, then every opener inside.
EnterBlock ==
    /\ Closing
    /\ typ = Define \/ (typ = BlockOpen /\ depth > 0)
    /\ depth' = depth + 1
    /\ KeepSlices

\* Slip: the {{end}} of the define block itself is taken for an inner one.
LeaveAnyBlock ==
    /\ Closing /\ typ = BlockClose /\ depth > 0
    /\ depth' = depth - 1
    /\ KeepSlices

LeaveBlock ==
    /\ Closing /\ typ = BlockClose /\ depth > 1
    /\ depth' = depth - 1
    /\ KeepSlices

InsideBlock ==
    /\ Closing /\ typ \notin {Define, BlockOpen, BlockClose} /\ depth > 0
    /\ KeepSlices /\ UNCHANGED depth

EndDefine ==
    /\ Closing /\ typ = BlockClose /\ depth = 1
    /\ slices' = Emit(slices, Define, open, i + 2)
    /\ litStart' = i + 2 /\ depth' = 0
    /\ UNCHANGED block
----------------------------------------------------------------------------
(* The end of the source.                                                  *)

Inside == mode # "text" \/ depth > 0

Unterminated ==
    /\ pc = "scan" /\ i > Len(src) /\ Inside
    /\ pc' = "unterminated"
    /\ KeepSlices /\ UNCHANGED <<src, i, open, typ, mode, depth>>

markStandaloneActions(s, ss) ==
    [k \in DOMAIN ss |->
        [ss[k] EXCEPT !.standalone =
            ss[k].type = Action /\ standaloneOnLine(s, ss[k].start, ss[k].stop)]]

\* The tiling invariant: contiguous, from the first byte to the last.
Check(s, ss) ==
    /\ \A k \in DOMAIN ss :
          /\ ss[k].start <= ss[k].stop
          /\ ss[k].start = IF k = 1 THEN 1 ELSE ss[k - 1].stop
    /\ Len(s) + 1 = IF ss = <<>> THEN 1 ELSE ss[Len(ss)].stop

\* Slip: a source without an action is done at once.
FinishEarly ==
    /\ pc = "scan" /\ i > Len(src) /\ ~Inside
    /\ LET all == IF litStart <= Len(src) /\ slices # <<>>
                  THEN Emit(slices, Literal, litStart, Len(src) + 1)
                  ELSE slices
       IN  /\ slices' = markStandaloneActions(src, all)
           /\ pc' = IF slices = <<>> \/ Check(src, slices') THEN "done" ELSE "misTiled"
    /\ UNCHANGED <<src, i, litStart, block, open, typ, mode, depth>>

Finish ==
    /\ pc = "scan" /\ i > Len(src) /\ ~Inside
    /\ LET all == IF litStart <= Len(src)
                  THEN Emit(slices, Literal, litStart, Len(src) + 1)
                  ELSE slices
       IN  /\ slices' = markStandaloneActions(src, all)
           /\ pc' = IF Check(src, slices') THEN "done" ELSE "misTiled"
    /\ UNCHANGED <<src, i, litStart, block, open, typ, mode, depth>>

Next ==
    \/ SkipText \/ OpenSlice \/ OpenInDefine
    \/ LeadSpace \/ LeadComment \/ LeadWord
    \/ CodeByte \/ CodeQuote \/ QuotedByte \/ QuotedEnd
    \/ CommentByte \/ CommentStar
    \/ EndSlice \/ EnterBlock \/ LeaveBlock \/ InsideBlock \/ EndDefine
    \/ Unterminated \/ Finish

Spec == Init /\ [][Next]_vars

\* ScanTiling is one loop in one goroutine: it takes its next step.
FairSpec == Spec /\ WF_vars(Next)
=============================================================================
