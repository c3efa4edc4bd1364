------------------------- MODULE ScannerInvariants -------------------------
(***************************************************************************)
(* What must be true of the tilings ScanTiling builds.                     *)
(***************************************************************************)
EXTENDS Scanner

Within(p, k) == slices[k].start <= p /\ p < slices[k].stop

\* Every byte of the template belongs to exactly one slice of a finished
\* tiling, whatever quotes, comments and define blocks it holds
\* (tiling.go:68-71); stated per byte, not the way Check walks the slices.
TilesSource ==
    pc = "done" =>
        \A p \in 1 .. Len(src) :
            \E k \in DOMAIN slices :
                /\ Within(p, k)
                /\ \A l \in DOMAIN slices : Within(p, l) => l = k

\* The error branch of ScanTiling's own Check is dead: no path of the
\* scanner leaves a gap, an overlap or an uncovered tail behind.
NeverMisTiled == pc # "misTiled"

\* Literal runs are maximal: none is empty and no two are neighbours, so
\* Restore may read "no literal before this slice" as "adjacent in the
\* source" (stubrestore.go:79-85).
LiteralsMaximal ==
    \A k \in DOMAIN slices : slices[k].type = Literal =>
        /\ slices[k].start < slices[k].stop
        /\ k > 1 => slices[k - 1].type # Literal

\* No literal hides a delimiter: no "{{" begins in a literal slice, not even
\* across its last byte (scan.go:15-18), so a stub has no "{{" left in it.
NoHiddenDelimiter ==
    \A k \in DOMAIN slices : slices[k].type = Literal =>
        \A p \in slices[k].start .. slices[k].stop - 1 : ~LeftDelim(src, p)

\* Block ids number the regions between control tags: they start at 0 and
\* grow by one exactly after an opening or closing tag, so two slices share an
\* id iff no boundary lies between them (tiling.go:53-57).  A whole define
\* block is no boundary.
BlockRegions ==
    \A k \in DOMAIN slices :
        slices[k].block =
            IF k = 1 THEN 0
            ELSE slices[k - 1].block
                 + (IF slices[k - 1].type \in {BlockOpen, BlockClose} THEN 1 ELSE 0)

\* Byte p is outside slice k, on the source line k starts on or the one it
\* ends on: no newline stands between.
Beside(p, k) ==
    \/ p < slices[k].start /\ \A q \in p .. slices[k].start - 1 : src[q] # "\n"
    \/ slices[k].stop <= p /\ \A q \in slices[k].stop .. p : src[q] # "\n"

\* A slice marked standalone is a plain action, alone on its source lines: the
\* bytes beside it are blanks, none of them belongs to another action or to a
\* comment or define block that ends or begins there, and its neighbours are
\* literals.  So the comment form it gets on the second attempt never shares a
\* line of the stub with another sentinel (sentinel.go:40-47).
StandaloneAlone ==
    \A k \in DOMAIN slices : slices[k].standalone =>
        /\ slices[k].type = Action
        /\ \A p \in 1 .. Len(src) : Beside(p, k) =>
              /\ src[p] \in Blank
              /\ \A l \in DOMAIN slices : Within(p, l) => slices[l].type = Literal
        /\ k > 1 => slices[k - 1].type = Literal
        /\ k < Len(slices) => slices[k + 1].type = Literal

\* ScanTiling returns for every template: no loop of the scanner spins.
Returns == <>(pc # "scan")

\* The scanner implements the partition it promises.
Pieces(ss) == [k \in DOMAIN ss |-> <<ss[k].start, ss[k].stop>>]

Outcome == IF pc = "scan" THEN "cutting" ELSE IF pc = "done" THEN "tiled" ELSE "refused"

P == INSTANCE Partition WITH pieces <- Pieces(slices), outcome <- Outcome

Partitions == P!PSpec
----------------------------------------------------------------------------
(***************************************************************************)
(* The inductive invariant behind the properties above: a scan in progress *)
(* has emitted a good tiling of the text before the slice it is in.        *)
(***************************************************************************)

\* Where the slices ss end.
Covered(ss) == IF ss = <<>> THEN 1 ELSE ss[Len(ss)].stop

\* The block id of the slice after ss.
NextBlock(ss) ==
    IF ss = <<>> THEN 0
    ELSE ss[Len(ss)].block
         + (IF ss[Len(ss)].type \in {BlockOpen, BlockClose} THEN 1 ELSE 0)

Contiguous(ss) ==
    \A k \in 1 .. Len(ss) :
        /\ ss[k].start < ss[k].stop
        /\ ss[k].start = IF k = 1 THEN 1 ELSE ss[k - 1].stop

Owns(ss, p, k) == ss[k].start <= p /\ p < ss[k].stop

OneOwner(ss) ==
    /\ \A k \in 1 .. Len(ss) : ss[k].stop <= Covered(ss)
    /\ \A p \in 1 .. Covered(ss) - 1 :
          \E k \in 1 .. Len(ss) :
              Owns(ss, p, k) /\ \A l \in 1 .. Len(ss) : Owns(ss, p, l) => l = k

Alternating(ss) ==
    \A k \in 1 .. Len(ss) :
        k > 1 /\ ss[k].type = Literal => ss[k - 1].type # Literal

Clean(s, from, to) == \A p \in from .. to - 1 : ~LeftDelim(s, p)

CleanLiterals(s, ss) ==
    \A k \in 1 .. Len(ss) :
        ss[k].type = Literal => Clean(s, ss[k].start, ss[k].stop)

Regions(ss) ==
    \A k \in 1 .. Len(ss) :
        ss[k].block = IF k = 1 THEN 0
                      ELSE ss[k - 1].block
                           + (IF ss[k - 1].type \in {BlockOpen, BlockClose} THEN 1 ELSE 0)

GoodTiling(s, ss) ==
    Contiguous(ss) /\ OneOwner(ss) /\ Alternating(ss) /\ CleanLiterals(s, ss) /\ Regions(ss)

\* The text passed since the last slice holds no delimiter, and the last
\* slice is no literal that it would continue.
InText ==
    /\ litStart <= i
    /\ slices # <<>> => slices[Len(slices)].type # Literal
    /\ Clean(src, litStart, i)

Cursor ==
    /\ Covered(slices) = IF Inside THEN open ELSE litStart
    /\ Inside => open + 2 <= i
    /\ ~Inside => InText
    /\ block = NextBlock(slices)
    /\ mode \notin {"text", "lead"} => typ # Literal

\* What the scanner knows at every step.
IInv ==
    /\ TypeOK
    /\ GoodTiling(src, slices)
    /\ pc = "scan" => Cursor
    /\ pc = "done" => Covered(slices) = Len(src) + 1
    /\ pc # "misTiled"
=============================================================================
