----------------------------- MODULE Partition -----------------------------
(***************************************************************************)
(* What ScanTiling promises its callers (tiling.go:68-71, scan.go:22-23):  *)
(* a template is cut, left to right, into non-empty pieces; it ends either *)
(* with pieces that cover the template or with an error and nothing else.  *)
(***************************************************************************)
EXTENDS Source

VARIABLES src, pieces, outcome

pvars == <<src, pieces, outcome>>

Covered == IF pieces = <<>> THEN 1 ELSE pieces[Len(pieces)][2]

PInit ==
    /\ src \in Seq(Byte)
    /\ pieces = <<>>
    /\ outcome = "cutting"

\* Cut the next piece.
Cut ==
    /\ outcome = "cutting"
    /\ \E stop \in Covered + 1 .. Len(src) + 1 :
          pieces' = Append(pieces, <<Covered, stop>>)
    /\ UNCHANGED <<src, outcome>>

\* The rest of the template, if any, is the last piece.
Deliver ==
    /\ outcome = "cutting"
    /\ pieces' = IF Covered <= Len(src)
                 THEN Append(pieces, <<Covered, Len(src) + 1>>)
                 ELSE pieces
    /\ outcome' = "tiled"
    /\ UNCHANGED src

Refuse ==
    /\ outcome = "cutting"
    /\ outcome' = "refused"
    /\ UNCHANGED <<src, pieces>>

PNext == Cut \/ Deliver \/ Refuse

PSpec == PInit /\ [][PNext]_pvars
=============================================================================
