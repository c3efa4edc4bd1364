---------------------------- MODULE PrinterProof ----------------------------
(***************************************************************************)
(* For every set of templates: what a pending right trim may consume.      *)
(***************************************************************************)
EXTENDS PrinterInvariants, WellFoundedInduction, TLAPS

\* The trim is pending only while a tree is printed, and from an {{end -}} on
\* behind which only an {{else}}, an {{end}} or an ignore block was written.
TrimInv ==
    /\ k \in Nat \ {0}
    /\ rightTrimPending => at = "accepted" /\ \E c \in 1 .. k - 1 : TrimsFrom(c)

\* A set of node numbers has a least one.
LEMMA MinIs ==
    ASSUME NEW S, S \subseteq Nat, S # {}
    PROVE  Min(S) \in S /\ \A x \in S : Min(S) <= x
<1>1. \E x \in S : \A y \in S : x =< y
  <2>1. IsWellFoundedOn(OpToRel(<, Nat), Nat)
    BY NatLessThanWellFounded
  <2>2. PICK x \in S : \A y \in S : ~ (<<y, x>> \in OpToRel(<, Nat))
    BY <2>1, WFMin
  <2>3. ASSUME NEW y \in S PROVE x <= y
    <3>1. x \in Nat /\ y \in Nat /\ ~(y < x)
      BY <2>2 DEF OpToRel
    <3> QED
      BY <3>1
  <2> QED
    BY <2>2, <2>3
<1> QED
  BY <1>1 DEF Min

\* Two ranges that lie one behind the other.
LEMMA Within ==
    ASSUME NEW i \in Nat, NEW j \in Nat, i < j, NEW c \in 1 .. i - 1
    PROVE  /\ c \in 1 .. j - 1
           /\ \A q \in c + 1 .. j - 1 : q \in c + 1 .. i - 1 \/ q \in i .. j - 1
           /\ \A q \in i .. j - 1 : \A m \in i .. q : m \in c + 1 .. q
           /\ \A q \in c + 1 .. i - 1 : q .. i - 1 \subseteq q .. j - 1
  OBVIOUS

----------------------------------------------------------------------------

\* What is ahead of the node to write, as long as the tree is the same.
LEMMA SameEnds ==
    ASSUME UNCHANGED <<src, nodes>>, NEW m
    PROVE  IgnoreEnds(m)' = IgnoreEnds(m) /\ RightTrimmed(m)' = RightTrimmed(m)
<1>1. src' = src /\ nodes' = nodes
  OBVIOUS
<1> QED
  BY <1>1 DEF IgnoreEnds, Siblings, RightTrimmed, RightTrim

\* A node that TrimsFrom names stays one while such nodes are written.
LEMMA StaysInReach ==
    ASSUME UNCHANGED <<src, nodes>>, k \in Nat, k' \in Nat, k < k',
           NEW c \in 1 .. k - 1, TrimsFrom(c),
           \A q \in k .. k' - 1 :
              \/ nodes[q].type \in {BlockMid, BlockClose}
              \/ \E m \in k .. q : IgnoreEnds(m) # {} /\ Min(IgnoreEnds(m)) \in q .. k' - 1
    PROVE  c \in 1 .. k' - 1 /\ TrimsFrom(c)'
<1> DEFINE i == k
           j == k'
<1>0. i \in Nat /\ j \in Nat /\ i < j /\ c \in 1 .. i - 1
  OBVIOUS
<1> HIDE DEF i, j
<1>1. /\ c \in 1 .. j - 1
      /\ \A q \in c + 1 .. j - 1 : q \in c + 1 .. i - 1 \/ q \in i .. j - 1
      /\ \A q \in i .. j - 1 : \A m \in i .. q : m \in c + 1 .. q
      /\ \A q \in c + 1 .. i - 1 : q .. i - 1 \subseteq q .. j - 1
  BY <1>0, Within
<1> USE DEF i, j
<1>2. nodes'[c].type = BlockClose /\ RightTrimmed(nodes[c])'
  <2>1. nodes[c].type = BlockClose /\ RightTrimmed(nodes[c])
    BY DEF TrimsFrom
  <2>2. nodes' = nodes /\ src' = src
    OBVIOUS
  <2> QED
    BY <2>1, <2>2 DEF RightTrimmed, RightTrim
<1>3. ASSUME NEW q \in c + 1 .. k' - 1
      PROVE  nodes'[q].type \in {BlockMid, BlockClose} \/ Ignored(c, q)'
  <2>1. nodes' = nodes
    OBVIOUS
  <2>2. ASSUME NEW m \in c + 1 .. q, IgnoreEnds(m) # {}, Min(IgnoreEnds(m)) \in q .. k' - 1
        PROVE  Ignored(c, q)'
    BY <2>2, SameEnds DEF Ignored
  <2>3. CASE q \in c + 1 .. k - 1
    <3>1. CASE nodes[q].type \in {BlockMid, BlockClose}
      BY <2>1, <3>1
    <3>2. CASE Ignored(c, q)
      <4>1. PICK m \in c + 1 .. q : IgnoreEnds(m) # {} /\ Min(IgnoreEnds(m)) \in q .. k - 1
        BY <3>2 DEF Ignored
      <4> QED
        BY <1>1, <2>3, <4>1, <2>2
    <3> QED
      BY <2>3, <3>1, <3>2 DEF TrimsFrom
  <2>4. CASE q \in k .. k' - 1
    <3>1. CASE nodes[q].type \in {BlockMid, BlockClose}
      BY <2>1, <3>1
    <3>2. ASSUME NEW m \in k .. q, IgnoreEnds(m) # {}, Min(IgnoreEnds(m)) \in q .. k' - 1
          PROVE  Ignored(c, q)'
      BY <1>1, <2>2, <2>4, <3>2
    <3> QED
      BY <2>4, <3>1, <3>2
  <2> QED
    BY <1>1, <2>3, <2>4
<1> QED
  BY <1>1, <1>2, <1>3 DEF TrimsFrom

\* The parser stops where the printer begins.
LEMMA ParserIsDone == ParseNext => at # "accepted"
  BY DEF ParseNext, Read, Halted, In, ParseText, ParseLeftDelim, ParseEOF, ParseError,
         branchControl, commandAction, elsePipeline, elseOrEndControl, expectClose,
         maybeParseOneDecl, acceptSecondRangeDecl, endPipeline, beginCommand,
         term, parenTerm, operand, command

\* A text, a comment, an action and a branch's tag end what was pending.
LEMMA OthersForget ==
    TrimInv /\ (writeText \/ writeComment \/ writeActionNode \/ writeBranch) => TrimInv'
<1>1. writeText => Wrote /\ ~rightTrimPending'
  BY DEF writeText
<1>2. writeComment => Wrote /\ ~rightTrimPending'
  BY DEF writeComment
<1>3. writeActionNode => Wrote /\ ~rightTrimPending'
  BY DEF writeActionNode
<1>4. writeBranch => Wrote /\ ~rightTrimPending'
  BY DEF writeBranch
<1>5. k \in Nat \ {0} /\ k' = k + 1 => k' \in Nat \ {0}
  OBVIOUS
<1> QED
  BY <1>1, <1>2, <1>3, <1>4, <1>5 DEF TrimInv, Wrote

\* An {{else}} is passed.
LEMMA ElseIsPassed == TrimInv /\ writeElse => TrimInv'
<1> SUFFICES ASSUME TrimInv, writeElse PROVE TrimInv'
  OBVIOUS
<1>1. /\ UNCHANGED <<src, nodes, at, rightTrimPending>> /\ k' = k + 1
      /\ at = "accepted" /\ nodes[k].type = BlockMid
  BY DEF writeElse, Writing, Wrote, parseVars, lexVars, parserVars
<1>2. k \in Nat \ {0} /\ k' \in Nat \ {0} /\ k < k'
  BY <1>1 DEF TrimInv
<1>3. ASSUME rightTrimPending PROVE \E c \in 1 .. k' - 1 : TrimsFrom(c)'
  <2>1. PICK c \in 1 .. k - 1 : TrimsFrom(c)
    BY <1>3 DEF TrimInv
  <2>2. \A q \in k .. k' - 1 : q = k
    BY <1>1, <1>2
  <2>3. c \in 1 .. k' - 1 /\ TrimsFrom(c)'
    BY <1>1, <1>2, <2>1, <2>2, StaysInReach
  <2> QED
    BY <2>3
<1> QED
  BY <1>1, <1>2, <1>3 DEF TrimInv

\* So is an {{end}}, and one that trims begins anew.
LEMMA EndIsPassed == TrimInv /\ writeEnd => TrimInv'
<1> SUFFICES ASSUME TrimInv, writeEnd PROVE TrimInv'
  OBVIOUS
<1>1. /\ UNCHANGED <<src, nodes, at>> /\ k' = k + 1
      /\ at = "accepted" /\ nodes[k].type = BlockClose
      /\ rightTrimPending' = (rightTrimPending \/ RightTrimmed(nodes[k]))
  BY DEF writeEnd, Writing, Wrote, parseVars, lexVars, parserVars
<1>2. k \in Nat \ {0} /\ k' \in Nat \ {0} /\ k < k'
  BY <1>1 DEF TrimInv
<1>3. ASSUME rightTrimPending PROVE \E c \in 1 .. k' - 1 : TrimsFrom(c)'
  <2>1. PICK c \in 1 .. k - 1 : TrimsFrom(c)
    BY <1>3 DEF TrimInv
  <2>2. \A q \in k .. k' - 1 : q = k
    BY <1>1, <1>2
  <2>3. c \in 1 .. k' - 1 /\ TrimsFrom(c)'
    BY <1>1, <1>2, <2>1, <2>2, StaysInReach
  <2> QED
    BY <2>3
<1>4. ASSUME RightTrimmed(nodes[k]) PROVE \E c \in 1 .. k' - 1 : TrimsFrom(c)'
  <2> DEFINE c == k
  <2>1. PICK d \in 1 .. k' - 1 : d = k
    BY <1>1, <1>2
  <2>2. d + 1 .. k' - 1 = {}
    BY <1>1, <1>2, <2>1
  <2>3. nodes'[d].type = BlockClose
    BY <1>1, <2>1
  <2>4. RightTrimmed(nodes[d])'
    <3>1. nodes' = nodes /\ src' = src /\ d = k
      BY <1>1, <2>1
    <3> QED
      BY <1>4, <3>1 DEF RightTrimmed, RightTrim
  <2>5. TrimsFrom(d)'
    BY <2>2, <2>3, <2>4 DEF TrimsFrom
  <2> QED
    BY <2>5
<1> QED
  BY <1>1, <1>2, <1>3, <1>4 DEF TrimInv

\* So is an ignore block, with all that is in it.
LEMMA IgnoredIsPassed == TrimInv /\ writeIgnoreBlock => TrimInv'
<1> SUFFICES ASSUME TrimInv, writeIgnoreBlock PROVE TrimInv'
  OBVIOUS
<1> DEFINE e == Min(IgnoreEnds(k))
<1>1. /\ UNCHANGED <<src, nodes, at, rightTrimPending>> /\ k' = e + 1
      /\ at = "accepted" /\ k <= Len(nodes) /\ IgnoreEnds(k) # {}
  BY DEF writeIgnoreBlock, parseVars, lexVars, parserVars
<1>2. k \in Nat \ {0}
  BY DEF TrimInv
<1>3. IgnoreEnds(k) \subseteq {i \in Int : k + 1 <= i}
  BY <1>2 DEF IgnoreEnds
<1>4. e \in Nat /\ k < e
  <2>1. IgnoreEnds(k) \subseteq Nat
    BY <1>2, <1>3
  <2>2. e \in IgnoreEnds(k)
    BY <1>1, <2>1, MinIs
  <2> QED
    BY <1>2, <1>3, <2>2
<1>5. k' \in Nat \ {0} /\ k < k' /\ k' - 1 = e
  BY <1>1, <1>2, <1>4
<1> HIDE DEF e
<1>6. ASSUME NEW q, q \in k .. k' - 1
      PROVE  \E m \in k .. q : IgnoreEnds(m) # {} /\ Min(IgnoreEnds(m)) \in q .. k' - 1
  <2>1. k \in k .. q /\ e \in q .. k' - 1
    <3>1. k \in Int /\ e \in Int
      BY <1>2, <1>4
    <3>2. q \in k .. e
      BY <1>5, <1>6
    <3>3. q \in Int /\ k <= q /\ q <= e
      BY <3>1, <3>2
    <3>4. k \in k .. q /\ e \in q .. e
      BY <3>1, <3>3
    <3> QED
      BY <1>5, <3>4
  <2> QED
    BY <1>1, <2>1 DEF e
<1>7. ASSUME rightTrimPending PROVE \E c \in 1 .. k' - 1 : TrimsFrom(c)'
  <2>1. PICK c \in 1 .. k - 1 : TrimsFrom(c)
    BY <1>7 DEF TrimInv
  <2>2. c \in 1 .. k' - 1 /\ TrimsFrom(c)'
    BY <1>1, <1>2, <1>5, <1>6, <2>1, StaysInReach
  <2> QED
    BY <2>2
<1> QED
  BY <1>1, <1>5, <1>7 DEF TrimInv

\* TrimInv is inductive.
THEOREM TrimInductive == Spec => []TrimInv
<1>1. Init => TrimInv
  BY DEF Init, TrimInv
<1>2. TrimInv /\ [Next]_vars => TrimInv'
  <2> SUFFICES ASSUME TrimInv, [Next]_vars PROVE TrimInv'
    OBVIOUS
  <2>1. CASE Parse
    <3>1. at # "accepted"
      BY <2>1, ParserIsDone DEF Parse
    <3> QED
      BY <2>1, <3>1 DEF Parse, TrimInv, printerState
  <2>2. CASE writeText \/ writeComment \/ writeActionNode \/ writeBranch
    BY <2>2, OthersForget
  <2>3. CASE writeElse
    BY <2>3, ElseIsPassed
  <2>4. CASE writeEnd
    BY <2>4, EndIsPassed
  <2>5. CASE writeIgnoreBlock
    BY <2>5, IgnoredIsPassed
  <2>6. CASE Reparse
    BY <2>6 DEF Reparse, TrimInv
  <2>7. CASE UNCHANGED vars
    <3>1. UNCHANGED <<src, nodes, at, k, rightTrimPending>>
      BY <2>7 DEF vars, parseVars, lexVars, parserVars, printerState
    <3>2. ASSUME NEW c, TrimsFrom(c) PROVE TrimsFrom(c)'
      BY <3>1, <3>2 DEF TrimsFrom, Ignored, IgnoreEnds, Siblings, RightTrimmed, RightTrim
    <3> QED
      BY <3>1, <3>2 DEF TrimInv
  <2> QED
    BY <2>1, <2>2, <2>3, <2>4, <2>5, <2>6, <2>7 DEF Next
<1> QED
  BY <1>1, <1>2, PTL DEF Spec

\* A text loses its leading white space only to an {{end -}} behind which
\* nothing was written but {{else}}, {{end}} and whole ignore blocks, in every
\* template: the reach the code gives the flag, not the adjacency that
\* node.go:414-416 speaks of.
THEOREM TrimReaches == Spec => TrimReach
<1>1. TrimInv /\ [Next]_vars =>
        [(rightTrimPending /\ writeText) => \E c \in 1 .. k - 1 : TrimsFrom(c)]_vars
  BY DEF TrimInv
<1> QED
  BY <1>1, TrimInductive, PTL DEF Spec, TrimReach
=============================================================================
