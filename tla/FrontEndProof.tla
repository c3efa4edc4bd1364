--------------------------- MODULE FrontEndProof ---------------------------
(***************************************************************************)
(* For every set of templates and every gofumpt: the tree the parser keeps *)
(* is well bracketed, whenever it is asked.                                *)
(***************************************************************************)
EXTENDS FrontEndInvariants, FiniteSetTheorems, SequenceTheorems,
        WellFoundedInduction, TLAPS

\* s is a sequence, of whatever it is a sequence of.
IsSeq(s) == s \in Seq({s[p] : p \in DOMAIN s})

----------------------------------------------------------------------------
(* Sequences.                                                              *)

\* Every sequence is one.
LEMMA SeqIs ==
    ASSUME NEW S, NEW s \in Seq(S)
    PROVE  IsSeq(s)
<1>1. DOMAIN s = 1 .. Len(s) /\ Len(s) \in Nat /\ s \in [1 .. Len(s) -> S]
  BY LenProperties
<1>2. s \in [1 .. Len(s) -> {s[p] : p \in DOMAIN s}]
  BY <1>1
<1> QED
  BY <1>1, <1>2, SeqDef DEF IsSeq

\* What IsSeq says.
LEMMA SeqFacts ==
    ASSUME NEW s, IsSeq(s)
    PROVE  Len(s) \in Nat /\ DOMAIN s = 1 .. Len(s) /\ (s = <<>> <=> Len(s) = 0)
<1> DEFINE S == {s[p] : p \in DOMAIN s}
<1>1. s \in Seq(S)
  BY DEF IsSeq
<1> HIDE DEF S
<1>2. Len(s) \in Nat /\ DOMAIN s = 1 .. Len(s)
  BY <1>1, LenProperties
<1>3. s = <<>> <=> Len(s) = 0
  BY <1>1, <1>2, EmptySeq
<1> QED
  BY <1>2, <1>3

\* The empty sequence is one.
LEMMA EmptyIs == IsSeq(<<>>)
<1>1. <<>> \in Seq({})
  OBVIOUS
<1> QED
  BY <1>1, SeqIs

\* One element more.
LEMMA AppendIs ==
    ASSUME NEW s, NEW e, IsSeq(s)
    PROVE  /\ IsSeq(Append(s, e)) /\ Len(Append(s, e)) = Len(s) + 1
           /\ \A p \in 1 .. Len(s) : Append(s, e)[p] = s[p]
           /\ Append(s, e)[Len(s) + 1] = e
<1> DEFINE S == {s[p] : p \in DOMAIN s}
           T == S \cup {e}
<1>1. s \in Seq(S)
  BY DEF IsSeq
<1> HIDE DEF S
<1>2. s \in Seq(T)
  BY <1>1, SeqMonotonic
<1>3. e \in T
  OBVIOUS
<1> HIDE DEF T
<1>4. /\ Append(s, e) \in Seq(T) /\ Len(Append(s, e)) = Len(s) + 1
      /\ \A p \in 1 .. Len(s) : Append(s, e)[p] = s[p]
      /\ Append(s, e)[Len(s) + 1] = e
  BY <1>2, <1>3, AppendProperties
<1> QED
  BY <1>4, SeqIs

\* One element less.
LEMMA FrontIs ==
    ASSUME NEW s, IsSeq(s), s # <<>>
    PROVE  IsSeq(Front(s)) /\ Len(Front(s)) = Len(s) - 1
<1> DEFINE S == {s[p] : p \in DOMAIN s}
           last == Len(s) - 1
<1>1. s \in Seq(S)
  BY DEF IsSeq
<1>2. Len(s) \in Nat /\ Len(s) # 0 /\ DOMAIN s = 1 .. Len(s)
  BY SeqFacts
<1>3. \A p \in 1 .. last : s[p] \in S
  BY <1>2
<1>4. last \in Int /\ last >= 0
  BY <1>2
<1> HIDE DEF S, last
<1>5. /\ SubSeq(s, 1, last) \in Seq(S)
      /\ Len(SubSeq(s, 1, last)) = IF 1 <= last THEN last - 1 + 1 ELSE 0
  BY <1>3, <1>4, SubSeqProperties
<1>6. Front(s) = SubSeq(s, 1, last)
  BY DEF Front, last
<1>7. Len(Front(s)) = last
  BY <1>4, <1>5, <1>6
<1> QED
  BY <1>5, <1>6, <1>7, SeqIs DEF last
----------------------------------------------------------------------------
(* What an appended node does to the count.                                *)

Openers(ns, m) == {j \in 1 .. m : ns[j].type \in {BlockOpen, Define}}
Closers(ns, m) == {j \in 1 .. m : ns[j].type = BlockClose}

\* Opened, of any nodes.
Depth(ns, m) == Cardinality(Openers(ns, m)) - Cardinality(Closers(ns, m))

\* Opened counts what the two sets hold.
LEMMA OpenedIs ==
    ASSUME NEW m
    PROVE  Opened(m) = Depth(nodes, m)
  BY DEF Opened, Quantify, Openers, Closers, Depth

\* The two sets are finite.
LEMMA Finite ==
    ASSUME NEW ns, NEW m \in Nat
    PROVE  /\ IsFiniteSet(Openers(ns, m)) /\ IsFiniteSet(Closers(ns, m))
           /\ Cardinality(Openers(ns, m)) \in Nat /\ Cardinality(Closers(ns, m)) \in Nat
           /\ Depth(ns, m) \in Int
<1>1. IsFiniteSet(1 .. m)
  BY FS_Interval
<1>2. Openers(ns, m) \subseteq 1 .. m /\ Closers(ns, m) \subseteq 1 .. m
  BY DEF Openers, Closers
<1>3. IsFiniteSet(Openers(ns, m)) /\ IsFiniteSet(Closers(ns, m))
  BY <1>1, <1>2, FS_Subset
<1>4. Cardinality(Openers(ns, m)) \in Nat /\ Cardinality(Closers(ns, m)) \in Nat
  BY <1>3, FS_CardinalityType
<1> QED
  BY <1>3, <1>4 DEF Depth

\* An element that is not in the set makes it larger by one.
LEMMA OneMore ==
    ASSUME NEW S, NEW x, IsFiniteSet(S), x \notin S
    PROVE  Cardinality(S \cup {x}) = Cardinality(S) + 1
  BY FS_AddElement

\* Without a node nothing is open.
LEMMA DepthNone == ASSUME NEW ns PROVE Depth(ns, 0) = 0
<1>1. Openers(ns, 0) = {} /\ Closers(ns, 0) = {}
  BY DEF Openers, Closers
<1> QED
  BY <1>1, FS_EmptySet DEF Depth

\* Earlier counts stay, and the new one differs by what the node is.
LEMMA DepthAppend ==
    ASSUME NEW ns, NEW node, IsSeq(ns)
    PROVE  /\ \A m \in 0 .. Len(ns) : Depth(Append(ns, node), m) = Depth(ns, m)
           /\ Depth(Append(ns, node), Len(ns) + 1) = Depth(ns, Len(ns)) +
                 (IF node.type \in {BlockOpen, Define} THEN 1
                  ELSE IF node.type = BlockClose THEN -1 ELSE 0)
<1> DEFINE N == Len(ns)
           new == Append(ns, node)
<1>1. N \in Nat /\ \A p \in 1 .. N : new[p] = ns[p]
  BY AppendIs, SeqFacts
<1>2. new[N + 1] = node
  BY AppendIs
<1> HIDE DEF N, new
<1>3. \A m \in 0 .. N : Openers(new, m) = Openers(ns, m) /\ Closers(new, m) = Closers(ns, m)
  BY <1>1 DEF Openers, Closers
<1>4. \A m \in 0 .. N : Depth(new, m) = Depth(ns, m)
  BY <1>3 DEF Depth
<1>5. Cardinality(Openers(new, N + 1)) = Cardinality(Openers(ns, N)) +
         (IF node.type \in {BlockOpen, Define} THEN 1 ELSE 0)
  <2>1. Openers(new, N + 1) = Openers(ns, N) \cup
           (IF node.type \in {BlockOpen, Define} THEN {N + 1} ELSE {})
    BY <1>1, <1>2 DEF Openers
  <2>2. N + 1 \notin Openers(ns, N)
    BY <1>1 DEF Openers
  <2>3. Openers(ns, N) \cup {} = Openers(ns, N)
    OBVIOUS
  <2> QED
    <3>1. IsFiniteSet(Openers(ns, N)) /\ Cardinality(Openers(ns, N)) \in Nat
      BY <1>1, Finite
    <3>2. Cardinality(Openers(ns, N) \cup {N + 1}) = Cardinality(Openers(ns, N)) + 1
      BY <2>2, <3>1, OneMore
    <3> QED
      BY <2>1, <2>3, <3>1, <3>2
<1>6. Cardinality(Closers(new, N + 1)) = Cardinality(Closers(ns, N)) +
         (IF node.type = BlockClose THEN 1 ELSE 0)
  <2>1. Closers(new, N + 1) = Closers(ns, N) \cup
           (IF node.type = BlockClose THEN {N + 1} ELSE {})
    BY <1>1, <1>2 DEF Closers
  <2>2. N + 1 \notin Closers(ns, N)
    BY <1>1 DEF Closers
  <2>3. Closers(ns, N) \cup {} = Closers(ns, N)
    OBVIOUS
  <2> QED
    <3>1. IsFiniteSet(Closers(ns, N)) /\ Cardinality(Closers(ns, N)) \in Nat
      BY <1>1, Finite
    <3>2. Cardinality(Closers(ns, N) \cup {N + 1}) = Cardinality(Closers(ns, N)) + 1
      BY <2>2, <3>1, OneMore
    <3>3. CASE node.type = BlockClose
      BY <2>1, <3>2, <3>3
    <3>4. CASE node.type # BlockClose
      <4>1. Closers(new, N + 1) = Closers(ns, N)
        BY <2>1, <2>3, <3>4
      <4> QED
        BY <3>1, <3>4, <4>1
    <3> QED
      BY <3>3, <3>4
<1>7. BlockClose \notin {BlockOpen, Define}
  BY DEF BlockClose, BlockOpen, Define
<1>8. /\ Depth(new, N + 1) = Cardinality(Openers(new, N + 1)) - Cardinality(Closers(new, N + 1))
      /\ Depth(ns, N) = Cardinality(Openers(ns, N)) - Cardinality(Closers(ns, N))
      /\ Cardinality(Openers(ns, N)) \in Nat /\ Cardinality(Closers(ns, N)) \in Nat
  BY <1>1, Finite DEF Depth
<1>9. Depth(new, N + 1) = Depth(ns, N) +
                 (IF node.type \in {BlockOpen, Define} THEN 1
                  ELSE IF node.type = BlockClose THEN -1 ELSE 0)
  BY <1>5, <1>6, <1>7, <1>8
<1> QED
  BY <1>4, <1>9 DEF N, new
----------------------------------------------------------------------------
(* The inductive invariant.                                                *)

\* No {{end}} or {{else}} among ns is outside of a block.
WellFounded(ns) ==
    \A m \in DOMAIN ns :
        /\ Depth(ns, m) >= 0
        /\ ns[m].type = BlockMid => Depth(ns, m) > 0

\* The branchControl calls are the blocks open after the last node.
BalanceInv ==
    /\ IsSeq(nodes) /\ IsSeq(branches)
    /\ Len(branches) = Depth(nodes, Len(nodes))
    /\ WellFounded(nodes)
    /\ Accepted => branches = <<>>

\* The strengthening says what the property says.
LEMMA BalanceIsEnough == BalanceInv => BlocksBalanced
<1> SUFFICES ASSUME BalanceInv PROVE BlocksBalanced
  OBVIOUS
<1>1. \A m \in DOMAIN nodes : Opened(m) >= 0 /\ (nodes[m].type = BlockMid => Opened(m) > 0)
  BY OpenedIs DEF BalanceInv, WellFounded
<1>2. Accepted => Opened(Len(nodes)) = 0
  BY OpenedIs, SeqFacts DEF BalanceInv
<1> QED
  BY <1>1, <1>2 DEF BlocksBalanced

\* What a step may do to the tree.
Kept ==
    /\ UNCHANGED <<nodes, branches>>
    /\ at' = "accepted" => branches = <<>> \/ at = "accepted"

Grown(node) ==
    /\ nodes' = Append(nodes, node) /\ at' = "textOrAction"
    /\ node.type \in {BlockMid, BlockClose} => branches # <<>>
    /\ branches' =
          IF node.type \in {BlockOpen, Define} THEN Append(branches, tag.keyword)
          ELSE IF node.type = BlockClose THEN Front(branches) ELSE branches

Fresh == nodes' = <<>> /\ branches' = <<>>

LEMMA KeptBalances == BalanceInv /\ Kept => BalanceInv'
<1> SUFFICES ASSUME BalanceInv, Kept PROVE BalanceInv'
  OBVIOUS
<1>1. /\ IsSeq(nodes)' /\ IsSeq(branches)'
      /\ (Len(branches) = Depth(nodes, Len(nodes)))'
      /\ WellFounded(nodes)'
  BY DEF BalanceInv, Kept
<1>2. Accepted' => branches' = <<>>
  BY DEF BalanceInv, Kept, Accepted
<1> QED
  BY <1>1, <1>2 DEF BalanceInv

LEMMA FreshBalances == Fresh => BalanceInv'
<1> SUFFICES ASSUME Fresh PROVE BalanceInv'
  OBVIOUS
<1>1. IsSeq(nodes') /\ IsSeq(branches')
  BY EmptyIs DEF Fresh
<1>2. Len(nodes') = 0 /\ Len(branches') = 0 /\ DOMAIN nodes' = {}
  BY <1>1, SeqFacts DEF Fresh
<1>3. Len(branches') = Depth(nodes', Len(nodes'))
  BY <1>2, DepthNone
<1>4. WellFounded(nodes')
  BY <1>2 DEF WellFounded
<1> QED
  BY <1>1, <1>3, <1>4 DEF BalanceInv, Fresh

\* Only a node that no open block stands against would break it.
LEMMA GrownBalances ==
    ASSUME BalanceInv, NEW node, Grown(node)
    PROVE  BalanceInv'
<1> DEFINE N == Len(nodes)
<1>1. IsSeq(nodes) /\ IsSeq(branches) /\ N \in Nat /\ Len(branches) \in Nat
      /\ DOMAIN nodes = 1 .. N /\ (branches = <<>> <=> Len(branches) = 0)
      /\ Len(branches) = Depth(nodes, N)
  BY SeqFacts DEF BalanceInv
<1>2. nodes' = Append(nodes, node)
  BY DEF Grown
<1>3. IsSeq(nodes') /\ Len(nodes') = N + 1
      /\ (\A p \in 1 .. N : nodes'[p] = nodes[p]) /\ nodes'[N + 1] = node
  BY <1>1, <1>2, AppendIs
<1>4. DOMAIN nodes' = 1 .. N + 1
  BY <1>3, SeqFacts
<1> DEFINE step == IF node.type \in {BlockOpen, Define} THEN 1
                   ELSE IF node.type = BlockClose THEN -1 ELSE 0
<1>5. /\ \A m \in 0 .. N : Depth(nodes', m) = Depth(nodes, m)
      /\ Depth(nodes', N + 1) = Depth(nodes, N) + step
  BY <1>1, <1>2, DepthAppend
<1>6. IsSeq(branches') /\ Len(branches') = Len(branches) + step
  <2>1. CASE node.type \in {BlockOpen, Define}
    BY <1>1, <2>1, AppendIs DEF Grown
  <2>2. CASE node.type \notin {BlockOpen, Define} /\ node.type = BlockClose
    BY <1>1, <2>2, FrontIs DEF Grown
  <2>3. CASE node.type \notin {BlockOpen, Define} /\ node.type # BlockClose
    BY <1>1, <2>3 DEF Grown
  <2> QED
    BY <2>1, <2>2, <2>3
<1>7. Len(branches') = Depth(nodes', Len(nodes'))
  BY <1>1, <1>3, <1>5, <1>6
<1>8. WellFounded(nodes')
  <2> SUFFICES ASSUME NEW m \in 1 .. N + 1
               PROVE  /\ Depth(nodes', m) >= 0
                      /\ nodes'[m].type = BlockMid => Depth(nodes', m) > 0
    BY <1>4 DEF WellFounded
  <2>1. CASE m \in 1 .. N
    BY <1>1, <1>3, <1>5, <2>1 DEF BalanceInv, WellFounded
  <2>2. CASE m = N + 1
    <3>1. Depth(nodes', m) = Len(branches') /\ Len(branches') \in Nat
      BY <1>3, <1>6, <1>7, <2>2, SeqFacts
    <3>2. ASSUME node.type = BlockMid PROVE Depth(nodes', m) > 0
      <4>1. BlockMid \notin {BlockOpen, Define, BlockClose}
        BY DEF BlockMid, BlockOpen, Define, BlockClose
      <4>2. branches' = branches /\ branches # <<>>
        BY <3>2, <4>1 DEF Grown
      <4> QED
        BY <1>1, <3>1, <4>2
    <3> QED
      BY <1>3, <2>2, <3>1, <3>2
  <2> QED
    BY <2>1, <2>2
<1>9. ~Accepted'
  BY DEF Grown, Accepted
<1> QED
  BY <1>3, <1>6, <1>7, <1>8, <1>9 DEF BalanceInv
----------------------------------------------------------------------------
(* The parser's actions.                                                   *)

LEMMA ReadKeeps == Read => Kept
  BY DEF Read, Kept

\* Whatever an action moves to, "accepted" apart, the tree stays.
LEMMA MoveKeeps ==
    ASSUME NEW f, NEW its, f # "accepted", Move(f, its), KeepTree
    PROVE  Kept
  BY DEF Move, KeepTree, Kept

LEMMA RejectKeeps == Unexpected => Kept
<1>1. "rejected" # "accepted"
  OBVIOUS
<1> QED
  BY <1>1, MoveKeeps DEF Unexpected

LEMMA ParseTextGrows == ParseText => \E node : Grown(node)
<1> SUFFICES ASSUME ParseText PROVE \E node : Grown(node)
  OBVIOUS
<1> DEFINE type == IF token.typ = "itemText" THEN Literal ELSE Comment
           node == Node(type, "", token.from, token.line, token.from)
<1>1. nodes' = Append(nodes, node) /\ at' = "textOrAction" /\ branches' = branches
  BY DEF ParseText, Move
<1>2. node.type = type
  BY DEF Node
<1>3. type \notin {BlockOpen, Define, BlockMid, BlockClose}
  BY DEF Literal, Comment, BlockOpen, Define, BlockMid, BlockClose
<1> HIDE DEF node, type
<1>4. node.type \notin {BlockOpen, Define, BlockMid, BlockClose}
  BY <1>2, <1>3
<1>5. Grown(node)
  BY <1>1, <1>4 DEF Grown
<1> QED
  BY <1>5

\* textOrAction returns a node of the tag's type.
LEMMA ReturnGrows ==
    ASSUME NEW keyword, NEW p, NEW l, NEW from,
           Return(Node(tag.type, keyword, p, l, from))
    PROVE  Kept \/ \E node : Grown(node)
<1> DEFINE node == Node(tag.type, keyword, p, l, from)
<1>1. node.type = tag.type
  BY DEF Node
<1> HIDE DEF node
<1>2. CASE tag.type \in {BlockMid, BlockClose} /\ branches = <<>>
  BY <1>2, RejectKeeps DEF Return, node
<1>3. CASE ~(tag.type \in {BlockMid, BlockClose} /\ branches = <<>>)
  <2>1. Complete(node)
    BY <1>3 DEF Return, node
  <2>2. BlockClose \notin {BlockOpen, Define}
    BY DEF BlockClose, BlockOpen, Define
  <2>3. nodes' = Append(nodes, node) /\ at' = "textOrAction"
    BY <2>1 DEF Complete, Move
  <2>4. branches' =
          IF tag.type \in {BlockOpen, Define} THEN Append(branches, tag.keyword)
          ELSE IF tag.type = BlockClose THEN Front(branches) ELSE branches
    <3>1. branches' =
        CASE tag.type \in {BlockOpen, Define}         -> Append(branches, tag.keyword)
          [] tag.type = BlockClose /\ branches # <<>> -> Front(branches)
          [] OTHER                                    -> branches
      BY <2>1 DEF Complete
    <3>2. CASE tag.type \in {BlockOpen, Define}
      BY <2>2, <3>1, <3>2
    <3>3. CASE tag.type = BlockClose
      BY <1>3, <2>2, <3>1, <3>3
    <3>4. CASE tag.type \notin {BlockOpen, Define} /\ tag.type # BlockClose
      BY <3>1, <3>4
    <3> QED
      BY <3>2, <3>3, <3>4
  <2>5. Grown(node)
    BY <1>1, <1>3, <2>3, <2>4 DEF Grown
  <2> QED
    BY <2>5
<1> QED
  BY <1>2, <1>3

LEMMA ExpectCloseGrows == expectClose => Kept \/ \E node : Grown(node)
  BY ReturnGrows, RejectKeeps DEF expectClose

LEMMA EndPipelineGrows == endPipeline => Kept \/ \E node : Grown(node)
<1> SUFFICES ASSUME endPipeline PROVE Kept \/ \E node : Grown(node)
  OBVIOUS
<1>1. CASE pipe.misplaced
  <2>1. Unexpected
    BY <1>1 DEF endPipeline
  <2> QED
    BY <2>1, RejectKeeps
<1>2. CASE ~pipe.misplaced /\ outer = <<>>
  <2>1. Return(Node(tag.type, tag.keyword, tag.pos, tag.line, tag.from))
    BY <1>2 DEF endPipeline
  <2> QED
    BY <2>1, ReturnGrows
<1>3. CASE ~pipe.misplaced /\ outer # <<>>
  <2>1. Move("chain", rest) /\ KeepTree
    BY <1>3 DEF endPipeline
  <2> QED
    BY <2>1, MoveKeeps
<1> QED
  BY <1>1, <1>2, <1>3

\* Only the end of the text, with no branchControl call open, is accepted.
LEMMA ParseEOFKeeps == ParseEOF => Kept
<1> SUFFICES ASSUME ParseEOF PROVE Kept
  OBVIOUS
<1>1. CASE branches = <<>>
  BY <1>1 DEF ParseEOF, Kept, KeepTree
<1>2. CASE branches # <<>>
  BY <1>2, RejectKeeps DEF ParseEOF
<1> QED
  BY <1>1, <1>2

LEMMA BeginPipelineKeeps ==
    ASSUME NEW type, NEW keyword, NEW context, NEW it, NEW its,
           BeginPipeline(type, keyword, context, it, its)
    PROVE  Kept
  BY MoveKeeps DEF BeginPipeline

LEMMA TagKeeps ==
    \/ ParseLeftDelim \/ ParseError
    \/ branchControl \/ commandAction \/ elsePipeline \/ elseOrEndControl
    => Kept
<1>1. ParseLeftDelim => Kept
  BY MoveKeeps DEF ParseLeftDelim
<1>2. ParseError => Kept
  BY RejectKeeps DEF ParseError
<1>3. branchControl => Kept
  BY BeginPipelineKeeps DEF branchControl
<1>4. commandAction => Kept
  BY BeginPipelineKeeps DEF commandAction
<1>5. elsePipeline => Kept
  BY BeginPipelineKeeps DEF elsePipeline
<1>6. elseOrEndControl => Kept
  BY MoveKeeps DEF elseOrEndControl
<1> QED
  BY <1>1, <1>2, <1>3, <1>4, <1>5, <1>6

LEMMA PipelineKeeps ==
    \/ maybeParseOneDecl \/ acceptSecondRangeDecl \/ beginCommand
    \/ term \/ parenTerm \/ operand \/ command
    => Kept
<1>1. maybeParseOneDecl => Kept
  <2>1. KeepDecl => Kept
    BY MoveKeeps DEF KeepDecl
  <2>2. ASSUME NEW its, TakeDecl("pipeline", its) \/ TakeDecl("secondDecl", its) PROVE Kept
    BY <2>2, MoveKeeps DEF TakeDecl
  <2> QED
    BY <2>1, <2>2, RejectKeeps DEF maybeParseOneDecl
<1>2. acceptSecondRangeDecl => Kept
  BY MoveKeeps, RejectKeeps DEF acceptSecondRangeDecl
<1>3. beginCommand => Kept
  BY MoveKeeps, RejectKeeps DEF beginCommand
<1>4. term => Kept
  BY MoveKeeps DEF term
<1>5. parenTerm => Kept
  BY MoveKeeps DEF parenTerm
<1>6. operand => Kept
  BY MoveKeeps DEF operand
<1>7. command => Kept
  BY MoveKeeps DEF command
<1> QED
  BY <1>1, <1>2, <1>3, <1>4, <1>5, <1>6, <1>7

LEMMA ParseNextBalances == BalanceInv /\ ParseNext => BalanceInv'
<1>1. ParseNext => Kept \/ \E node : Grown(node)
  BY ReadKeeps, ParseTextGrows, ExpectCloseGrows, EndPipelineGrows, ParseEOFKeeps,
     TagKeeps, PipelineKeeps DEF ParseNext
<1> QED
  BY <1>1, KeptBalances, GrownBalances
----------------------------------------------------------------------------
(* Format's.                                                               *)

\* Every action that is no parser's leaves the tree or drops it.
LEMMA OthersKeep ==
    \/ ParseFails \/ IgnoreAll \/ Parsed \/ Tile
    \/ BodiesSkipped \/ BodiesBegin \/ CopySlice \/ GoBody \/ FragmentBody \/ IndentBody
    \/ BodiesUnchanged \/ BodiesChanged \/ Reparsed \/ Done
    => Kept \/ Fresh
<1> DEFINE Rest == UNCHANGED <<at, nodes, branches>>
<1>1. Rest => Kept
  BY DEF Kept
<1>2. ParseFails \/ IgnoreAll \/ Parsed \/ Tile => Rest
  BY DEF ParseFails, IgnoreAll, Parsed, Tile, parseVars, parserVars
<1>3. BodiesSkipped \/ BodiesBegin \/ CopySlice \/ GoBody \/ FragmentBody \/ IndentBody => Rest
  BY DEF BodiesSkipped, BodiesBegin, CopySlice, GoBody, FragmentBody, IndentBody,
         parseVars, parserVars
<1>4. BodiesUnchanged \/ Reparsed \/ Done => Rest
  BY DEF BodiesUnchanged, Reparsed, Done, parseVars, parserVars
<1>5. BodiesChanged => Fresh
  BY DEF BodiesChanged, ParseAgain, Fresh
<1> QED
  BY <1>1, <1>2, <1>3, <1>4, <1>5

\* BalanceInv is inductive.
THEOREM BalanceInductive == Spec => []BalanceInv
<1>1. Init => BalanceInv
  <2> SUFFICES ASSUME Init PROVE BalanceInv
    OBVIOUS
  <2>1. nodes = <<>> /\ branches = <<>>
    BY DEF Init, ParseStart
  <2>2. IsSeq(nodes) /\ IsSeq(branches)
    BY <2>1, EmptyIs
  <2>3. Len(nodes) = 0 /\ Len(branches) = 0 /\ DOMAIN nodes = {}
    BY <2>1, <2>2, SeqFacts
  <2> QED
    BY <2>1, <2>2, <2>3, DepthNone DEF BalanceInv, WellFounded
<1>2. BalanceInv /\ [Next]_vars => BalanceInv'
  <2> SUFFICES ASSUME BalanceInv, [Next]_vars PROVE BalanceInv'
    OBVIOUS
  <2>1. CASE Parse
    BY <2>1, ParseNextBalances DEF Parse
  <2>2. CASE Next /\ ~Parse
    BY <2>2, OthersKeep, KeptBalances, FreshBalances DEF Next
  <2>3. CASE UNCHANGED vars
    <3>1. UNCHANGED <<at, nodes, branches>>
      BY <2>3 DEF vars, parseVars, parserVars
    <3>2. Kept
      BY <3>1 DEF Kept
    <3> QED
      BY <3>2, KeptBalances
  <2> QED
    BY <2>1, <2>2, <2>3
<1> QED
  BY <1>1, <1>2, PTL DEF Spec

\* What the parser keeps is well bracketed, in every template, and so is an
\* accepted one to its end (parse.go parse, itemList, branchControl).
THEOREM TreeIsBalanced == Spec => []BlocksBalanced
<1> QED
  BY BalanceInductive, BalanceIsEnough, PTL

----------------------------------------------------------------------------
(* The lines.  For every text, and however often the parser is called: the *)
(* line number of a node is never too high, and it is the right one until  *)
(* a comment that spans lines has been read.                               *)

\* Tree.Parse, called with any text at all, again and again.
ParserSpec ==
    /\ src \in Seq(Byte) /\ ParseStart
    /\ [][ParseNext \/ \E t \in Seq(Byte) : ParseAgain(t)]_parseVars

\* Newlines and SourceLine, of any text.
Breaks(s, from, to) == Cardinality({q \in from .. to - 1 : s[q] = "\n"})
LineOf(s, p) == 1 + Breaks(s, 1, p)

\* A node at p with line l is not too low on the page, or a comment is to blame.
Spans(s, m) == m.type = Comment /\ Breaks(s, m.from, m.to) > 0
Blamed(s, ns, k) == \E j \in 1 .. k : Spans(s, ns[j])

OnPage(s, p, l) == p \in Nat /\ l \in Nat /\ l <= LineOf(s, p)
Late(s, p, l) == l < LineOf(s, p)

\* The first k items ahead hold a comment that spans lines.
SpansAhead(s, its, k) ==
    \E j \in 1 .. k : its[j].typ = "itemComment" /\ Breaks(s, its[j].from, its[j].to) > 0

LexerInv ==
    /\ IsSeq(src) /\ pos \in 1 .. Len(src) + 1
    /\ OnPage(src, pos, line)
    /\ Late(src, pos, line) =>
          Blamed(src, nodes, Len(nodes)) \/ SpansAhead(src, ahead, Len(ahead))

ItemInv(k) ==
    /\ OnPage(src, ahead[k].from, ahead[k].line)
    /\ Late(src, ahead[k].from, ahead[k].line) =>
          Blamed(src, nodes, Len(nodes)) \/ SpansAhead(src, ahead, k - 1)

NodeInv(m) ==
    /\ OnPage(src, nodes[m].pos, nodes[m].line)
    /\ Late(src, nodes[m].pos, nodes[m].line) => Blamed(src, nodes, m - 1)

\* Where the tag has the position of the node it will be.
InTag == {"decls", "secondDecl", "pipeline", "operand", "chain", "command"}

TagOn(p, l) ==
    /\ OnPage(src, p, l)
    /\ Late(src, p, l) => Blamed(src, nodes, Len(nodes))

LineInv ==
    /\ LexerInv
    /\ IsSeq(ahead) /\ \A k \in DOMAIN ahead : ItemInv(k)
    /\ IsSeq(nodes) /\ \A m \in DOMAIN nodes : NodeInv(m)
    /\ at \in InTag => TagOn(tag.pos, tag.line)
    /\ DOMAIN tag = DOMAIN NoTag
----------------------------------------------------------------------------
(* Counting lines.                                                         *)

\* The counts of the modules are these.
LEMMA NewlinesIs ==
    ASSUME NEW from, NEW to
    PROVE  Newlines(from, to) = Breaks(src, from, to)
  BY DEF Newlines, Quantify, Breaks

\* Breaks is a number, and none in an empty interval.
LEMMA BreaksNat ==
    ASSUME NEW s, NEW from \in Int, NEW to \in Int
    PROVE  Breaks(s, from, to) \in Nat /\ (to <= from => Breaks(s, from, to) = 0)
<1> DEFINE to1 == to - 1
           B == {q \in from .. to1 : s[q] = "\n"}
<1>1. to1 \in Int
  OBVIOUS
<1> HIDE DEF to1
<1>2. IsFiniteSet(from .. to1)
  BY <1>1, FS_Interval
<1>3. B \subseteq from .. to1
  OBVIOUS
<1>4. IsFiniteSet(B)
  BY <1>2, <1>3, FS_Subset
<1>5. Cardinality(B) \in Nat
  BY <1>4, FS_CardinalityType
<1>6. ASSUME to <= from PROVE Cardinality(B) = 0
  <2>1. B = {}
    BY <1>6 DEF to1
  <2> QED
    BY <2>1, FS_EmptySet
<1> QED
  BY <1>5, <1>6 DEF Breaks, to1

\* Lines add up.
LEMMA BreaksAdd ==
    ASSUME NEW s, NEW p \in Int, NEW q \in Int, NEW r \in Int, p <= q, q <= r
    PROVE  Breaks(s, p, r) = Breaks(s, p, q) + Breaks(s, q, r)
<1> DEFINE A == {x \in p .. q - 1 : s[x] = "\n"}
           B == {x \in q .. r - 1 : s[x] = "\n"}
           C == {x \in p .. r - 1 : s[x] = "\n"}
<1>1. p .. r - 1 = (p .. q - 1) \cup (q .. r - 1)
  OBVIOUS
<1>2. A \cap B = {}
  OBVIOUS
<1>3. C = A \cup B
  BY <1>1
<1>4. IsFiniteSet(A) /\ IsFiniteSet(B)
  <2>1. \A x, y \in Int : IsFiniteSet(x .. y)
    BY FS_Interval
  <2>2. IsFiniteSet(p .. q - 1) /\ IsFiniteSet(q .. r - 1)
    BY <2>1
  <2>3. A \subseteq p .. q - 1 /\ B \subseteq q .. r - 1
    OBVIOUS
  <2> QED
    BY <2>2, <2>3, FS_Subset
<1> HIDE DEF A, B, C
<1>5. Cardinality(C) = Cardinality(A) + Cardinality(B) - Cardinality(A \cap B)
  BY <1>3, <1>4, FS_Union
<1>6. Cardinality(A \cap B) = 0
  BY <1>2, FS_EmptySet
<1>7. Cardinality(A) \in Nat /\ Cardinality(B) \in Nat
  BY <1>4, FS_CardinalityType
<1>8. Cardinality(C) = Cardinality(A) + Cardinality(B)
  BY <1>5, <1>6, <1>7
<1> QED
  BY <1>8 DEF A, B, C, Breaks

\* The line of a position further on.
LEMMA LineOn ==
    ASSUME NEW s, NEW p \in Nat, NEW q \in Nat, 1 <= p, p <= q
    PROVE  LineOf(s, q) = LineOf(s, p) + Breaks(s, p, q) /\ LineOf(s, p) \in Nat
<1>1. Breaks(s, 1, q) = Breaks(s, 1, p) + Breaks(s, p, q)
  BY BreaksAdd
<1>2. Breaks(s, 1, p) \in Nat /\ Breaks(s, p, q) \in Nat
  BY BreaksNat
<1> QED
  BY <1>1, <1>2 DEF LineOf

\* The invariant says what the property says.
LEMMA LineIsEnough == LineInv => LinesOnlyLag
<1> SUFFICES ASSUME LineInv, NEW m \in DOMAIN nodes
             PROVE  /\ nodes[m].line <= SourceLine(nodes[m].pos)
                    /\ nodes[m].line < SourceLine(nodes[m].pos) =>
                          \E j \in 1 .. m - 1 : SpansLines(nodes[j])
  BY DEF LinesOnlyLag
<1>1. SourceLine(nodes[m].pos) = LineOf(src, nodes[m].pos)
  BY NewlinesIs DEF SourceLine, LineOf
<1>2. \A j \in 1 .. m - 1 : SpansLines(nodes[j]) <=> Spans(src, nodes[j])
  BY NewlinesIs DEF SpansLines, Spans
<1> QED
  BY <1>1, <1>2 DEF LineInv, NodeInv, OnPage, Late, Blamed
----------------------------------------------------------------------------
(* The lexer reads forward and counts what it passes, comments apart.      *)

LexReady == IsSeq(src) /\ pos \in 1 .. Len(src) + 1 /\ line \in Nat

Reads ==
    /\ src' = src /\ pos' \in 1 .. Len(src) + 1
    /\ item'.from \in Nat /\ item'.to \in Nat
    /\ pos <= item'.from /\ item'.from <= item'.to
    /\ item'.line = line + Breaks(src, pos, item'.from)
    /\ \/ pos' = pos /\ line' = line
       \/ pos' >= item'.to /\ line' = line + Breaks(src, pos, pos')
       \/ /\ item'.typ = "itemComment" /\ pos' >= item'.to
          /\ line' = item'.line + Breaks(src, item'.to, pos')

\* A set of positions has a least one.
LEMMA MinIs ==
    ASSUME NEW S, S \subseteq Nat, S # {}
    PROVE  Min(S) \in S /\ \A x \in S : Min(S) <= x
<1>1. \E x \in S : \A y \in S : x =< y
  <2>1. IsWellFoundedOn(OpToRel(<, Nat), Nat)
    BY NatLessThanWellFounded
  <2>2. PICK x \in S : \A y \in S : ~ (<<y, x>> \in OpToRel(<, Nat))
    BY <2>1, WFMin
  <2>3. ASSUME NEW y \in S PROVE x <= y
    <3>1. x \in Nat /\ y \in Nat /\ ~(y < x)
      BY <2>2 DEF OpToRel
    <3> QED
      BY <3>1
  <2> QED
    BY <2>2, <2>3
<1> QED
  BY <1>1 DEF Min

\* NextIn looks no further than the end of the text.
LEMMA NextInIs ==
    ASSUME LexReady, NEW S, S \subseteq Int, NEW p \in Nat, p <= Len(src) + 1
    PROVE  /\ NextIn(S, p) \in Nat /\ p <= NextIn(S, p)
           /\ NextIn(S, p) \in S \cup {Len(src) + 1}
<1> DEFINE N == Len(src) + 1
           T == {q \in S : q >= p} \cup {N}
<1>1. N \in Nat
  BY SeqFacts DEF LexReady
<1>2. T \subseteq Nat /\ T # {} /\ \A q \in T : q >= p /\ q \in S \cup {N}
  <2>1. N >= p
    OBVIOUS
  <2> HIDE DEF N
  <2>2. \A q \in T : q \in S \cup {N} /\ q \in Nat /\ q >= p
    BY <1>1, <2>1
  <2>3. N \in T
    OBVIOUS
  <2> QED
    BY <2>2, <2>3
<1>3. NextIn(S, p) = Min(T)
  BY DEF NextIn
<1> HIDE DEF T, N
<1>4. Min(T) \in T
  BY <1>2, MinIs
<1> QED
  BY <1>2, <1>3, <1>4 DEF N

\* A run ends in the text or with it, and one that begins is not empty.
LEMMA RunEndIs ==
    ASSUME LexReady, NEW cs, NEW p \in Nat, 1 <= p, p <= Len(src) + 1
    PROVE  /\ RunEnd(cs, p) \in Nat /\ p <= RunEnd(cs, p) /\ RunEnd(cs, p) <= Len(src) + 1
           /\ p <= Len(src) /\ src[p] \in cs => p < RunEnd(cs, p)
<1> DEFINE S == {q \in p .. Len(src) : src[q] \notin cs}
<1>1. Len(src) \in Nat
  BY SeqFacts DEF LexReady
<1>2. S \subseteq Int /\ \A q \in S : q <= Len(src) + 1
  BY <1>1
<1>3. RunEnd(cs, p) = NextIn(S, p)
  BY DEF RunEnd
<1>4. src[p] \in cs => p \notin S
  OBVIOUS
<1>5. \A q \in S : q >= p /\ q # Len(src) + 1
  BY <1>1
<1> HIDE DEF S
<1>6. RunEnd(cs, p) \in Nat /\ p <= RunEnd(cs, p) /\ RunEnd(cs, p) \in S \cup {Len(src) + 1}
  BY <1>2, <1>3, NextInIs
<1>7. RunEnd(cs, p) <= Len(src) + 1
  BY <1>1, <1>2, <1>6
<1>8. p <= Len(src) /\ src[p] \in cs => p # RunEnd(cs, p)
  BY <1>1, <1>4, <1>6
<1> QED
  BY <1>6, <1>7, <1>8

\* What Emit does, of an item that lies ahead.
LEMMA EmitReads ==
    ASSUME LexReady, src' = src, NEW type, NEW from \in Nat, NEW to \in Nat, NEW resume \in Nat,
           pos <= from, from <= to, to <= resume, resume <= Len(src) + 1,
           Emit(type, from, to, resume)
    PROVE  Reads
<1>1. /\ item'.from = from /\ item'.to = to
      /\ item'.line = line + Breaks(src, pos, from)
      /\ pos' = resume /\ line' = line + Breaks(src, pos, resume)
  BY NewlinesIs DEF Emit
<1>2. Len(src) \in Nat /\ pos \in Nat /\ 1 <= pos
  BY SeqFacts DEF LexReady
<1> QED
  BY <1>1, <1>2 DEF Reads

\* What errorf does.
LEMMA ErrorReads ==
    ASSUME LexReady, src' = src, NEW from \in Nat, pos <= from, ErrorFrom(from)
    PROVE  Reads
<1>1. /\ item'.from = from /\ item'.to = from
      /\ item'.line = line + Breaks(src, pos, from)
      /\ pos' = pos /\ line' = line
  BY NewlinesIs DEF ErrorFrom
<1> QED
  BY <1>1 DEF Reads, LexReady

\* A delimiter fits in the text.
LEMMA PairFits ==
    ASSUME NEW s, NEW p, NEW x, NEW y, Pair(s, p, x, y)
    PROVE  p + 1 <= Len(s)
  BY DEF Pair

\* Past a close there is still the text, or its end.
LEMMA CloseFits ==
    ASSUME LexReady, NEW p \in Nat
    PROVE  /\ TrimmedClose(p) => p + 3 <= Len(src)
           /\ RightDelim(src, p) => p + 1 <= Len(src)
<1>1. ASSUME TrimmedClose(p) PROVE p + 3 <= Len(src)
  <2>1. RightDelim(src, p + 2)
    BY <1>1 DEF TrimmedClose
  <2>2. (p + 2) + 1 <= Len(src)
    BY <2>1, PairFits DEF RightDelim
  <2>3. Len(src) \in Nat
    BY SeqFacts DEF LexReady
  <2> QED
    BY <2>2, <2>3
<1> QED
  BY <1>1, PairFits DEF RightDelim

LEMMA LexFacts ==
    ASSUME LexReady
    PROVE  Len(src) \in Nat /\ pos \in Nat /\ 1 <= pos /\ pos <= Len(src) + 1
  BY SeqFacts DEF LexReady

LEMMA TextReads == LexReady /\ (LexText \/ LexEOF) => Reads
<1> SUFFICES ASSUME LexReady, LexText \/ LexEOF PROVE Reads
  OBVIOUS
<1>1. CASE LexText
  <2> DEFINE S == {p \in pos .. Len(src) : LeftDelim(src, p)}
  <2>1. S \subseteq Int /\ \A q \in S : q <= Len(src) + 1
    BY LexFacts
  <2>2. NextLeft = NextIn(S, pos)
    BY DEF NextLeft
  <2> HIDE DEF S
  <2>3. NextLeft \in Nat /\ pos <= NextLeft /\ NextLeft \in S \cup {Len(src) + 1}
    BY <2>1, <2>2, NextInIs, LexFacts
  <2>5. NextLeft <= Len(src) + 1
    BY <2>1, <2>3, LexFacts
  <2>4. Emit("itemText", pos, NextLeft, NextLeft) /\ src' = src
    BY <1>1 DEF LexText, Same
  <2> QED
    BY <2>3, <2>4, <2>5, EmitReads, LexFacts
<1>2. CASE LexEOF
  <2>1. Emit("itemEOF", pos, pos, pos) /\ src' = src
    BY <1>2 DEF LexEOF, Same
  <2> QED
    BY <2>1, EmitReads, LexFacts
<1> QED
  BY <1>1, <1>2

LEMMA LeftReads ==
    ASSUME LexReady, LeftDelim(src, pos)
    PROVE  AfterMarker \in Nat /\ pos + 2 <= AfterMarker /\ AfterMarker <= Len(src) + 1
<1>1. pos + 1 <= Len(src)
  BY PairFits DEF LeftDelim
<1>2. LeftTrim(src, pos + 2) => (pos + 2) + 1 <= Len(src)
  BY DEF LeftTrim
<1> QED
  BY <1>1, <1>2, LexFacts DEF AfterMarker

LEMMA LeftDelimReads == LexReady /\ LexLeftDelim => Reads
<1> SUFFICES ASSUME LexReady, LexLeftDelim PROVE Reads
  OBVIOUS
<1>1. LeftDelim(src, pos) /\ Emit("itemLeftDelim", pos, pos + 2, AfterMarker) /\ src' = src
  BY DEF LexLeftDelim
<1>2. AfterMarker \in Nat /\ pos + 2 <= AfterMarker /\ AfterMarker <= Len(src) + 1
  BY <1>1, LeftReads
<1>3. pos + 2 \in Nat /\ pos <= pos + 2 /\ pos \in Nat /\ pos <= pos
  BY LexFacts
<1> QED
  BY <1>1, <1>2, <1>3, EmitReads

LEMMA CommentReads == LexReady /\ LexComment => Reads
<1> SUFFICES ASSUME LexReady, LexComment PROVE Reads
  OBVIOUS
<1> DEFINE stars == {p \in AfterMarker + 2 .. Len(src) : RightComment(src, p)}
           stop  == Min(stars) + 2
           close == IF TrimmedClose(stop) THEN stop + 4 ELSE stop + 2
<1>1. /\ src' = src /\ LeftDelim(src, pos)
      /\ IF stars = {} \/ ~atRightDelim(stop)
         THEN ErrorFrom(AfterMarker)
         ELSE /\ item' = [typ |-> "itemComment", from |-> AfterMarker, to |-> stop,
                          line |-> line + Newlines(pos, AfterMarker)]
              /\ pos' = close
              /\ line' = item'.line + Newlines(stop, close)
  BY DEF LexComment, Same, AtComment
<1>2. AfterMarker \in Nat /\ pos + 2 <= AfterMarker /\ AfterMarker <= Len(src) + 1
  BY <1>1, LeftReads
<1>3. CASE stars = {} \/ ~atRightDelim(stop)
  <2>1. ErrorFrom(AfterMarker) /\ pos <= AfterMarker
    BY <1>1, <1>2, <1>3, LexFacts
  <2> HIDE DEF stars, stop, close
  <2> QED
    BY <1>1, <1>2, <2>1, ErrorReads
<1>4. CASE stars # {} /\ atRightDelim(stop)
  <2>1. stars \subseteq Nat /\ \A q \in stars : q >= AfterMarker + 2
    BY <1>2, LexFacts
  <2>2. Min(stars) \in stars
    BY <1>4, <2>1, MinIs
  <2>3. stop \in Nat /\ stop >= AfterMarker + 4
    BY <1>2, <2>1, <2>2
  <2>4. /\ item' = [typ |-> "itemComment", from |-> AfterMarker, to |-> stop,
                    line |-> line + Newlines(pos, AfterMarker)]
        /\ pos' = close
        /\ line' = item'.line + Newlines(stop, close)
        /\ atRightDelim(stop)
    BY <1>1, <1>4
  <2> HIDE DEF stars, stop
  <2>5. close \in Nat /\ close >= stop /\ close <= Len(src) + 1
    BY <2>3, <2>4, CloseFits, LexFacts DEF atRightDelim
  <2> HIDE DEF close
  <2>6. /\ item'.typ = "itemComment" /\ item'.from = AfterMarker /\ item'.to = stop
        /\ item'.line = line + Breaks(src, pos, AfterMarker)
        /\ line' = item'.line + Breaks(src, stop, close)
    BY <2>4, NewlinesIs
  <2> QED
    BY <1>1, <1>2, <2>3, <2>4, <2>5, <2>6, LexFacts DEF Reads
<1> QED
  BY <1>3, <1>4

\* An item of n symbols, where the lexer stands.
LEMMA ShortReads ==
    ASSUME LexReady, src' = src, NEW type, NEW size \in {1, 2}, pos + size <= Len(src) + 1,
           Emit(type, pos, pos + size, pos + size)
    PROVE  Reads
<1>1. pos \in Nat /\ pos + size \in Nat /\ pos <= pos /\ pos <= pos + size /\ pos + size <= pos + size
  BY LexFacts
<1> QED
  BY <1>1, EmitReads

\* An item from where the lexer stands to a later position.
LEMMA LongReads ==
    ASSUME LexReady, src' = src, NEW type, NEW to \in Nat, pos <= to, to <= Len(src) + 1,
           Emit(type, pos, to, to)
    PROVE  Reads
<1>1. pos \in Nat /\ pos <= pos /\ to <= to
  BY LexFacts
<1> QED
  BY <1>1, EmitReads

LEMMA ErrorfReads == LexReady /\ src' = src /\ Errorf => Reads
<1>1. LexReady => pos \in Nat /\ pos <= pos
  BY LexFacts
<1> QED
  BY <1>1, ErrorReads DEF Errorf

LEMMA OnFacts ==
    ASSUME LexReady, NEW cs, On(cs)
    PROVE  pos <= Len(src) /\ src[pos] \in cs
  BY DEF On

LEMMA RightDelimReads == LexReady /\ LexRightDelim => Reads
<1> SUFFICES ASSUME LexReady, LexRightDelim PROVE Reads
  OBVIOUS
<1> DEFINE close == IF TrimmedClose(pos) THEN pos + 2 ELSE pos
<1>1. /\ atRightDelim(pos) /\ src' = src
      /\ Emit("itemRightDelim", close, close + 2, close + 2)
  BY DEF LexRightDelim
<1>2. close \in Nat /\ pos <= close /\ close + 2 <= Len(src) + 1
  BY <1>1, CloseFits, LexFacts DEF atRightDelim
<1> HIDE DEF close
<1>3. close + 2 \in Nat /\ close <= close + 2 /\ close + 2 <= close + 2
  BY <1>2
<1> QED
  BY <1>1, <1>2, <1>3, EmitReads

LEMMA SpaceReads == LexReady /\ LexSpace => Reads
<1> SUFFICES ASSUME LexReady, LexSpace PROVE Reads
  OBVIOUS
<1> DEFINE run == RunEnd(Space, pos)
           to  == IF TrimmedClose(run - 1) THEN run - 1 ELSE run
<1>1. On(Space) /\ Emit("itemSpace", pos, to, to) /\ src' = src
  BY DEF LexSpace, Same
<1>2. run \in Nat /\ pos < run /\ run <= Len(src) + 1
  BY <1>1, OnFacts, RunEndIs, LexFacts
<1> HIDE DEF run
<1>3. to \in Nat /\ pos <= to /\ to <= Len(src) + 1
  BY <1>2, LexFacts
<1> HIDE DEF to
<1> QED
  BY <1>1, <1>3, LongReads

LEMMA MarkReads == LexReady /\ (LexMark \/ LexDeclare \/ LexParen) => Reads
<1> SUFFICES ASSUME LexReady, LexMark \/ LexDeclare \/ LexParen PROVE Reads
  OBVIOUS
<1>1. CASE LexMark
  <2> DEFINE cs == {"=", "|", ",", "/", "*", "{", "}", "\\"}
             type == CASE src[pos] = "=" -> "itemAssign"
                       [] src[pos] = "|" -> "itemPipe"
                       [] OTHER          -> "itemChar"
  <2>1. On(cs) /\ Emit(type, pos, pos + 1, pos + 1) /\ src' = src
    BY <1>1, Zenon DEF LexMark, Same
  <2> HIDE DEF cs, type
  <2>2. pos + 1 <= Len(src) + 1
    BY <2>1, OnFacts, LexFacts
  <2> QED
    BY <2>1, <2>2, ShortReads
<1>2. CASE LexDeclare
  <2> DEFINE assign == Pair(src, pos, ":", "=")
  <2>1. src' = src /\ IF assign THEN Emit("itemDeclare", pos, pos + 2, pos + 2) ELSE Errorf
    BY <1>2 DEF LexDeclare, Same
  <2>2. assign => pos + 2 <= Len(src) + 1
    <3>1. assign => pos + 1 <= Len(src)
      BY PairFits
    <3> HIDE DEF assign
    <3> QED
      BY <3>1, LexFacts
  <2> HIDE DEF assign
  <2> QED
    BY <2>1, <2>2, ShortReads, ErrorfReads
<1>3. CASE LexParen
  <2> DEFINE cs == {"(", ")"}
             type == IF src[pos] = "(" THEN "itemLeftParen" ELSE "itemRightParen"
  <2>1. On(cs) /\ (Errorf \/ Emit(type, pos, pos + 1, pos + 1)) /\ src' = src
    BY <1>3, Zenon DEF LexParen
  <2> HIDE DEF cs, type
  <2>2. pos + 1 <= Len(src) + 1
    BY <2>1, OnFacts, LexFacts
  <2> QED
    BY <2>1, <2>2, ShortReads, ErrorfReads
<1> QED
  BY <1>1, <1>2, <1>3

LEMMA UnclosedReads == LexReady /\ LexUnclosed => Reads
  BY ErrorfReads DEF LexUnclosed, Same

\* The least of some positions behind pos: the item ends behind it.
LEMMA ClosesFit ==
    ASSUME LexReady, NEW S, S \subseteq pos + 1 .. Len(src), S # {}
    PROVE  Min(S) + 1 \in Nat /\ pos <= Min(S) + 1 /\ Min(S) + 1 <= Len(src) + 1
<1>1. S \subseteq Nat
  BY LexFacts
<1>2. Min(S) \in S
  BY <1>1, MinIs
<1>3. Min(S) \in pos + 1 .. Len(src)
  BY <1>2
<1> QED
  BY <1>3, LexFacts

LEMMA QuoteReads == LexReady /\ (LexQuote \/ LexRawQuote) => Reads
<1> SUFFICES ASSUME LexReady, LexQuote \/ LexRawQuote PROVE Reads
  OBVIOUS
<1>1. CASE LexQuote
  <2> DEFINE closes == {p \in pos + 1 .. Len(src) : src[p] = src[pos] /\ ~Escaped(p)}
             to == Min(closes) + 1
             type == IF src[pos] = "'" THEN "itemCharConstant" ELSE "itemString"
  <2>1. src' = src /\ IF closes = {} \/ Newlines(pos, to) > 0
                      THEN Errorf ELSE Emit(type, pos, to, to)
    BY <1>1, Zenon DEF LexQuote, Same
  <2>2. closes \subseteq pos + 1 .. Len(src)
    OBVIOUS
  <2> HIDE DEF closes, type
  <2>3. closes # {} => to \in Nat /\ pos <= to /\ to <= Len(src) + 1
    BY <2>2, ClosesFit
  <2> HIDE DEF to
  <2> QED
    BY <2>1, <2>3, LongReads, ErrorfReads
<1>2. CASE LexRawQuote
  <2> DEFINE closes == {p \in pos + 1 .. Len(src) : src[p] = "raw"}
             to == Min(closes) + 1
  <2>1. src' = src /\ IF closes = {} THEN Errorf ELSE Emit("itemRawString", pos, to, to)
    BY <1>2, Zenon DEF LexRawQuote, Same
  <2>2. closes \subseteq pos + 1 .. Len(src)
    OBVIOUS
  <2> HIDE DEF closes
  <2>3. closes # {} => to \in Nat /\ pos <= to /\ to <= Len(src) + 1
    BY <2>2, ClosesFit
  <2> HIDE DEF to
  <2> QED
    BY <2>1, <2>3, LongReads, ErrorfReads
<1> QED
  BY <1>1, <1>2

LEMMA NameReads == LexReady /\ (LexName \/ LexIdentifier) => Reads
<1> SUFFICES ASSUME LexReady, LexName \/ LexIdentifier PROVE Reads
  OBVIOUS
<1>1. CASE LexName
  <2> DEFINE cs == {"$", "."}
             to == RunEnd(Alnum, pos + 1)
             variable == src[pos] = "$"
             ended == atTerminator(to)
  <2>1. /\ On(cs) /\ src' = src
        /\ CASE ~ended       -> Errorf
             [] variable     -> Emit("itemVariable", pos, to, to)
             [] to = pos + 1 -> Emit("itemDot", pos, to, to)
             [] OTHER        -> Emit("itemField", pos, to, to)
    BY <1>1, Zenon DEF LexName, Same
  <2> HIDE DEF cs, variable, ended
  <2>2. to \in Nat /\ pos <= to /\ to <= Len(src) + 1
    <3>1. pos + 1 \in Nat /\ 1 <= pos + 1 /\ pos + 1 <= Len(src) + 1
      BY <2>1, OnFacts, LexFacts
    <3>2. to \in Nat /\ pos + 1 <= to /\ to <= Len(src) + 1
      BY <3>1, RunEndIs
    <3> HIDE DEF to
    <3> QED
      BY <3>2, LexFacts
  <2> HIDE DEF to
  <2>3. Errorf \/ \E type \in {"itemVariable", "itemDot", "itemField"} : Emit(type, pos, to, to)
    BY <2>1
  <2> QED
    BY <2>1, <2>2, <2>3, LongReads, ErrorfReads
<1>2. CASE LexIdentifier
  <2> DEFINE to == RunEnd(Alnum, pos)
             type == key(pos, to)
  <2>1. src' = src /\ (Errorf \/ Emit(type, pos, to, to))
    BY <1>2, Zenon DEF LexIdentifier, Same
  <2> HIDE DEF type
  <2>2. to \in Nat /\ pos <= to /\ to <= Len(src) + 1
    BY RunEndIs, LexFacts
  <2> HIDE DEF to
  <2> QED
    BY <2>1, <2>2, LongReads, ErrorfReads
<1> QED
  BY <1>1, <1>2

LEMMA NumberReads == LexReady /\ LexNumber => Reads
<1> SUFFICES ASSUME LexReady, LexNumber PROVE Reads
  OBVIOUS
<1> DEFINE digits == {"1", "_"}
           from == IF src[pos] = "-" THEN pos + 1 ELSE pos
           whole == RunEnd(digits, from)
           point == whole <= Len(src) /\ src[whole] = "."
           to == IF point THEN RunEnd(digits, whole + 1) ELSE whole
           cs == {"-", "1", "."}
<1>1. On(cs) /\ src' = src /\ (Errorf \/ Emit("itemNumber", pos, to, to))
  BY Zenon DEF LexNumber, Same
<1> HIDE DEF digits, cs
<1>2. from \in Nat /\ pos <= from /\ 1 <= from /\ from <= Len(src) + 1
  BY <1>1, OnFacts, LexFacts
<1> HIDE DEF from
<1>3. whole \in Nat /\ from <= whole /\ whole <= Len(src) + 1
  BY <1>2, RunEndIs
<1> HIDE DEF whole
<1>4. to \in Nat /\ whole <= to /\ to <= Len(src) + 1
  <2>1. CASE point
    <3>1. whole + 1 \in Nat /\ 1 <= whole + 1 /\ whole + 1 <= Len(src) + 1
      BY <1>3, <2>1, LexFacts
    <3>2. /\ RunEnd(digits, whole + 1) \in Nat /\ whole + 1 <= RunEnd(digits, whole + 1)
          /\ RunEnd(digits, whole + 1) <= Len(src) + 1
      BY <3>1, RunEndIs
    <3> QED
      BY <1>3, <2>1, <3>2
  <2>2. CASE ~point
    BY <1>3, <2>2
  <2> QED
    BY <2>1, <2>2
<1> HIDE DEF to
<1>5. pos <= to
  BY <1>2, <1>3, <1>4, LexFacts
<1> QED
  BY <1>1, <1>4, <1>5, LongReads, ErrorfReads

LEMMA NextItemReads == LexReady /\ nextItem => Reads
  BY TextReads, LeftDelimReads, CommentReads, RightDelimReads, UnclosedReads, SpaceReads,
     MarkReads, QuoteReads, NameReads, NumberReads DEF nextItem
----------------------------------------------------------------------------
(* Reading an item keeps the invariant.                                    *)

\* What is behind a comment that spans lines may be late; nothing else is.
LEMMA ReadsLine ==
    ASSUME LineInv, Reads
    PROVE  /\ OnPage(src, pos', line') /\ OnPage(src, item'.from, item'.line)
           /\ Late(src, item'.from, item'.line) => Late(src, pos, line)
           /\ Late(src, pos', line') =>
                 \/ Late(src, pos, line)
                 \/ item'.typ = "itemComment" /\ Breaks(src, item'.from, item'.to) > 0
<1> DEFINE from == item'.from
           to == item'.to
           l == item'.line
           p == pos'
<1>1. /\ pos \in Nat /\ 1 <= pos /\ line \in Nat /\ line <= LineOf(src, pos)
      /\ from \in Nat /\ to \in Nat /\ p \in Nat /\ 1 <= p
      /\ pos <= from /\ from <= to /\ 1 <= from /\ 1 <= to
  <2>1. pos \in 1 .. Len(src) + 1 /\ pos' \in 1 .. Len(src) + 1 /\ Len(src) \in Nat
        /\ line \in Nat /\ line <= LineOf(src, pos)
        /\ from \in Nat /\ to \in Nat /\ pos <= from /\ from <= to
    BY SeqFacts DEF LineInv, LexerInv, OnPage, Reads
  <2> HIDE DEF from, to
  <2> QED
    BY <2>1
<1>2. l = line + Breaks(src, pos, from)
  BY DEF Reads
<1>3. \/ p = pos /\ line' = line
      \/ p >= to /\ line' = line + Breaks(src, pos, p)
      \/ item'.typ = "itemComment" /\ p >= to /\ line' = l + Breaks(src, to, p)
  BY DEF Reads
<1> DEFINE comment == item'.typ = "itemComment"
           newline == line'
<1> HIDE DEF from, to, l, p, comment, newline
<1>4. /\ LineOf(src, from) = LineOf(src, pos) + Breaks(src, pos, from)
      /\ LineOf(src, pos) \in Nat /\ Breaks(src, pos, from) \in Nat
  BY <1>1, LineOn, BreaksNat
<1>5. l \in Nat /\ l <= LineOf(src, from) /\ (l < LineOf(src, from) => line < LineOf(src, pos))
  BY <1>1, <1>2, <1>4
<1>6. CASE p = pos /\ newline = line
  BY <1>1, <1>5, <1>6 DEF OnPage, Late, from, l, p, newline
<1>7. CASE p >= to /\ newline = line + Breaks(src, pos, p)
  <2>1. pos <= p
    BY <1>1, <1>7
  <2>2. LineOf(src, p) = LineOf(src, pos) + Breaks(src, pos, p) /\ Breaks(src, pos, p) \in Nat
    BY <1>1, <2>1, LineOn, BreaksNat
  <2>3. newline \in Nat /\ newline <= LineOf(src, p)
        /\ (newline < LineOf(src, p) => line < LineOf(src, pos))
    BY <1>1, <1>4, <1>7, <2>2
  <2> QED
    BY <1>1, <1>5, <2>3 DEF OnPage, Late, from, l, p, newline
<1>8. CASE comment /\ p >= to /\ newline = l + Breaks(src, to, p)
  <2>1. /\ LineOf(src, to) = LineOf(src, from) + Breaks(src, from, to)
        /\ LineOf(src, p) = LineOf(src, to) + Breaks(src, to, p)
        /\ Breaks(src, from, to) \in Nat /\ Breaks(src, to, p) \in Nat
        /\ LineOf(src, from) \in Nat
    BY <1>1, <1>8, LineOn, BreaksNat
  <2>2. newline \in Nat /\ newline <= LineOf(src, p)
        /\ (newline < LineOf(src, p) =>
               l < LineOf(src, from) \/ Breaks(src, from, to) > 0)
    BY <1>5, <1>8, <2>1
  <2>3. newline < LineOf(src, p) =>
           line < LineOf(src, pos) \/ Breaks(src, from, to) > 0
    BY <1>5, <2>2
  <2> QED
    BY <1>1, <1>5, <1>8, <2>2, <2>3 DEF OnPage, Late, from, to, l, p, newline, comment
<1> QED
  BY <1>3, <1>6, <1>7, <1>8 DEF comment, newline

LEMMA ReadLines == LineInv /\ Read => LineInv'
<1> SUFFICES ASSUME LineInv, Read PROVE LineInv'
  OBVIOUS
<1>1. LexReady
  BY DEF LineInv, LexerInv, OnPage, LexReady
<1>2. Reads /\ ahead' = Append(ahead, item') /\ UNCHANGED <<at, tag, nodes>> /\ src' = src
  BY <1>1, NextItemReads DEF Read, Reads
<1> DEFINE K == Len(ahead)
<1>3. IsSeq(ahead) /\ K \in Nat /\ DOMAIN ahead = 1 .. K
  BY SeqFacts DEF LineInv
<1>4. /\ IsSeq(ahead') /\ Len(ahead') = K + 1
      /\ (\A k \in 1 .. K : ahead'[k] = ahead[k]) /\ ahead'[K + 1] = item'
  BY <1>2, <1>3, AppendIs
<1>5. DOMAIN ahead' = 1 .. K + 1
  BY <1>4, SeqFacts
<1>6. Late(src, pos, line) =>
         Blamed(src, nodes, Len(nodes)) \/ SpansAhead(src, ahead, K)
  BY DEF LineInv, LexerInv
<1> HIDE DEF K
<1>7. \A k \in 0 .. K : SpansAhead(src, ahead, k) => SpansAhead(src, ahead', k)
  BY <1>3, <1>4 DEF SpansAhead
<1>8. SpansAhead(src, ahead', K) => SpansAhead(src, ahead', K + 1)
  BY <1>3 DEF SpansAhead
<1>9. item'.typ = "itemComment" /\ Breaks(src, item'.from, item'.to) > 0 =>
         SpansAhead(src, ahead', K + 1)
  BY <1>3, <1>4 DEF SpansAhead
<1>10. K \in 0 .. K
  BY <1>3
<1>11. LexerInv'
  <2>1. IsSeq(src') /\ pos' \in 1 .. Len(src') + 1
    BY <1>1, <1>2 DEF Reads, LexReady
  <2>2. OnPage(src', pos', line')
    BY <1>2, ReadsLine
  <2>3. Late(src', pos', line') =>
           Blamed(src', nodes', Len(nodes')) \/ SpansAhead(src', ahead', Len(ahead'))
    BY <1>2, <1>4, <1>6, <1>7, <1>8, <1>9, <1>10, ReadsLine
  <2> QED
    BY <2>1, <2>2, <2>3 DEF LexerInv
<1>12. ASSUME NEW k \in 1 .. K + 1 PROVE ItemInv(k)'
  <2>1. CASE k \in 1 .. K
    <3>1. ItemInv(k)
      BY <1>3, <2>1 DEF LineInv
    <3>2. k - 1 \in 0 .. K
      BY <1>3, <2>1
    <3> QED
      BY <1>2, <1>4, <1>7, <2>1, <3>1, <3>2 DEF ItemInv
  <2>2. CASE k = K + 1
    <3>1. ahead'[k] = item' /\ k - 1 = K
      BY <1>3, <1>4, <2>2
    <3> QED
      BY <1>2, <1>6, <1>7, <1>10, <3>1, ReadsLine DEF ItemInv
  <2> QED
    BY <1>3, <2>1, <2>2
<1>13. IsSeq(nodes') /\ \A m \in DOMAIN nodes' : NodeInv(m)'
  BY <1>2 DEF LineInv, NodeInv
<1>14. DOMAIN tag' = DOMAIN NoTag
  BY <1>2 DEF LineInv
<1>15. (at \in InTag => TagOn(tag.pos, tag.line))'
  BY <1>2 DEF LineInv, TagOn
<1> QED
  BY <1>4, <1>5, <1>11, <1>12, <1>13, <1>14, <1>15 DEF LineInv, NoTag
----------------------------------------------------------------------------
(* The items the parser consumes.                                          *)

\* its is ahead without its first k items; none of them is a comment.
Behind(its, k) ==
    /\ IsSeq(its) /\ k \in 0 .. Len(ahead) /\ Len(its) = Len(ahead) - k
    /\ \A j \in 1 .. Len(its) : its[j] = ahead[j + k]

Dropped(its, k) == Behind(its, k) /\ \A j \in 1 .. k : ahead[j].typ # "itemComment"

Drops(its) == \E k \in Nat : Dropped(its, k)

\* There are n items, or the last there will be.
Final == {"itemEOF", "itemError"}
Enough(its, size) == Len(its) >= size \/ \E k \in DOMAIN its : its[k].typ \in Final

\* The rest of a sequence.
LEMMA TailIs ==
    ASSUME NEW s, IsSeq(s), s # <<>>
    PROVE  /\ IsSeq(Tail(s)) /\ Len(Tail(s)) = Len(s) - 1 /\ Head(s) = s[1]
           /\ \A p \in 1 .. Len(s) - 1 : Tail(s)[p] = s[p + 1]
<1> DEFINE S == {s[p] : p \in DOMAIN s}
<1>1. s \in Seq(S)
  BY DEF IsSeq
<1> HIDE DEF S
<1>2. /\ Tail(s) \in Seq(S) /\ Len(Tail(s)) = Len(s) - 1
      /\ \A p \in 1 .. Len(Tail(s)) : Tail(s)[p] = s[p + 1]
  BY <1>1, HeadTailProperties
<1>3. Head(s) = s[1]
  BY <1>1
<1> QED
  BY <1>2, <1>3, SeqIs

\* ahead itself drops nothing.
LEMMA DropsNone == ASSUME LineInv PROVE Drops(ahead)
<1>1. IsSeq(ahead) /\ Len(ahead) \in Nat
  BY SeqFacts DEF LineInv
<1>2. Dropped(ahead, 0)
  BY <1>1 DEF Dropped, Behind
<1> QED
  BY <1>2 DEF Drops

\* One more item, if it is no comment.
LEMMA DropsHead ==
    ASSUME NEW its, LineInv, Drops(its), its # <<>>, Head(its).typ # "itemComment"
    PROVE  Drops(Tail(its))
<1>1. PICK k \in Nat : Dropped(its, k)
  BY DEF Drops
<1>2. /\ IsSeq(its) /\ k \in 0 .. Len(ahead) /\ Len(its) = Len(ahead) - k
      /\ \A j \in 1 .. Len(its) : its[j] = ahead[j + k]
      /\ \A j \in 1 .. k : ahead[j].typ # "itemComment"
  BY <1>1 DEF Dropped, Behind
<1>3. Len(its) \in Nat /\ Len(its) # 0 /\ Len(ahead) \in Nat
  BY <1>2, SeqFacts DEF LineInv
<1>4. /\ IsSeq(Tail(its)) /\ Len(Tail(its)) = Len(its) - 1 /\ Head(its) = its[1]
      /\ \A p \in 1 .. Len(its) - 1 : Tail(its)[p] = its[p + 1]
  BY <1>2, TailIs
<1>5. Head(its) = ahead[k + 1]
  BY <1>2, <1>3, <1>4
<1>6. \A j \in 1 .. k + 1 : ahead[j].typ # "itemComment"
  <2> SUFFICES ASSUME NEW j \in 1 .. k + 1 PROVE ahead[j].typ # "itemComment"
    OBVIOUS
  <2>1. CASE j \in 1 .. k
    BY <1>2, <2>1
  <2>2. CASE j = k + 1
    BY <1>5, <2>2
  <2> QED
    BY <1>1, <2>1, <2>2
<1>7. k + 1 \in 0 .. Len(ahead) /\ Len(Tail(its)) = Len(ahead) - (k + 1)
  BY <1>2, <1>3, <1>4
<1>8. \A j \in 1 .. Len(Tail(its)) : Tail(its)[j] = ahead[j + (k + 1)]
  <2> SUFFICES ASSUME NEW j \in 1 .. Len(its) - 1 PROVE Tail(its)[j] = ahead[j + (k + 1)]
    BY <1>4
  <2>1. j + 1 \in 1 .. Len(its) /\ (j + 1) + k = j + (k + 1)
    BY <1>3
  <2> QED
    BY <1>2, <1>4, <2>1
<1>9. Dropped(Tail(its), k + 1)
  BY <1>4, <1>6, <1>7, <1>8 DEF Dropped, Behind
<1> QED
  BY <1>9 DEF Drops

LEMMA DropsSpace ==
    ASSUME NEW its, LineInv, Drops(its)
    PROVE  Drops(NonSpace(its))
<1>1. CASE its # <<>> /\ Head(its).typ = "itemSpace"
  <2>1. "itemSpace" # "itemComment"
    OBVIOUS
  <2> QED
    BY <1>1, <2>1, DropsHead DEF NonSpace
<1>2. CASE ~(its # <<>> /\ Head(its).typ = "itemSpace")
  BY <1>2 DEF NonSpace
<1> QED
  BY <1>1, <1>2

\* The next item is on its page, and late only if the tree knows why.
LEMMA DropsOn ==
    ASSUME NEW its, LineInv, Drops(its), its # <<>>
    PROVE  /\ TagOn(Head(its).from, Head(its).line)
           /\ IsSeq(its)
<1>1. PICK k \in Nat : Dropped(its, k)
  BY DEF Drops
<1>2. /\ IsSeq(its) /\ k \in 0 .. Len(ahead) /\ Len(its) = Len(ahead) - k
      /\ \A j \in 1 .. Len(its) : its[j] = ahead[j + k]
      /\ \A j \in 1 .. k : ahead[j].typ # "itemComment"
  BY <1>1 DEF Dropped, Behind
<1>3. Len(its) \in Nat /\ Len(its) # 0 /\ Len(ahead) \in Nat /\ DOMAIN ahead = 1 .. Len(ahead)
  BY <1>2, SeqFacts DEF LineInv
<1>4. Head(its) = its[1]
  BY <1>2, TailIs
<1>5. Head(its) = ahead[k + 1] /\ k + 1 \in DOMAIN ahead
  BY <1>2, <1>3, <1>4
<1>6. ItemInv(k + 1)
  BY <1>5 DEF LineInv
<1>7. ~SpansAhead(src, ahead, (k + 1) - 1)
  BY <1>2 DEF SpansAhead
<1> QED
  BY <1>2, <1>5, <1>6, <1>7 DEF ItemInv, TagOn

\* A space is no last item.
LEMMA EnoughSpace ==
    ASSUME NEW its, NEW size \in Nat, IsSeq(its), Enough(its, size + 1)
    PROVE  IsSeq(NonSpace(its)) /\ Enough(NonSpace(its), size)
<1>1. CASE its # <<>> /\ Head(its).typ = "itemSpace"
  <2>1. NonSpace(its) = Tail(its)
    BY <1>1 DEF NonSpace
  <2>2. /\ IsSeq(Tail(its)) /\ Len(Tail(its)) = Len(its) - 1 /\ Head(its) = its[1]
        /\ \A p \in 1 .. Len(its) - 1 : Tail(its)[p] = its[p + 1]
    BY <1>1, TailIs
  <2>3. Len(its) \in Nat /\ DOMAIN its = 1 .. Len(its)
        /\ DOMAIN Tail(its) = 1 .. Len(its) - 1
    BY <2>2, SeqFacts
  <2>4. "itemSpace" \notin Final
    BY DEF Final
  <2>5. ASSUME NEW k \in DOMAIN its, its[k].typ \in Final
        PROVE  \E j \in DOMAIN Tail(its) : Tail(its)[j].typ \in Final
    <3>1. k # 1
      BY <1>1, <2>2, <2>4, <2>5
    <3>2. k - 1 \in 1 .. Len(its) - 1 /\ (k - 1) + 1 = k
      BY <2>3, <3>1
    <3> QED
      BY <2>2, <2>3, <2>5, <3>2
  <2>6. Len(its) >= size + 1 => Len(Tail(its)) >= size
    BY <2>2, <2>3
  <2> QED
    BY <2>1, <2>2, <2>5, <2>6 DEF Enough
<1>2. CASE ~(its # <<>> /\ Head(its).typ = "itemSpace")
  <2>1. NonSpace(its) = its
    BY <1>2 DEF NonSpace
  <2>2. Len(its) \in Nat
    BY SeqFacts
  <2>3. Len(its) >= size + 1 => Len(its) >= size
    BY <2>2
  <2> QED
    BY <2>1, <2>3 DEF Enough
<1> QED
  BY <1>1, <1>2

\* Nor is an item of another type.
LEMMA EnoughTail ==
    ASSUME NEW its, NEW size \in Nat, IsSeq(its), Enough(its, size + 1), Head(its).typ \notin Final
    PROVE  its # <<>> /\ IsSeq(Tail(its)) /\ Enough(Tail(its), size)
<1>1. Len(its) \in Nat /\ DOMAIN its = 1 .. Len(its) /\ (its = <<>> <=> Len(its) = 0)
  BY SeqFacts
<1>2. its # <<>>
  BY <1>1 DEF Enough
<1>3. /\ IsSeq(Tail(its)) /\ Len(Tail(its)) = Len(its) - 1 /\ Head(its) = its[1]
      /\ \A p \in 1 .. Len(its) - 1 : Tail(its)[p] = its[p + 1]
  BY <1>2, TailIs
<1>4. DOMAIN Tail(its) = 1 .. Len(its) - 1
  BY <1>3, SeqFacts
<1>5. ASSUME NEW k \in DOMAIN its, its[k].typ \in Final
      PROVE  \E j \in DOMAIN Tail(its) : Tail(its)[j].typ \in Final
  <2>1. k # 1
    BY <1>3, <1>5
  <2>2. k - 1 \in 1 .. Len(its) - 1 /\ (k - 1) + 1 = k
    BY <1>1, <2>1
  <2> QED
    BY <1>3, <1>4, <1>5, <2>2
<1>6. Len(its) >= size + 1 => Len(Tail(its)) >= size
  BY <1>1, <1>3
<1> QED
  BY <1>2, <1>3, <1>5, <1>6 DEF Enough

LEMMA EnoughIs ==
    ASSUME NEW its, NEW size \in Nat, size # 0, IsSeq(its), Enough(its, size)
    PROVE  its # <<>>
<1>1. Len(its) \in Nat /\ DOMAIN its = 1 .. Len(its) /\ (its = <<>> <=> Len(its) = 0)
  BY SeqFacts
<1> QED
  BY <1>1 DEF Enough

\* What a function of the parser finds when it is called: the next item, and
\* behind one that is not the last another.
LEMMA ReadyIs ==
    ASSUME LineInv, Ready
    PROVE  /\ ahead # <<>> /\ NonSpace(ahead) # <<>> /\ Drops(NonSpace(ahead))
           /\ TagOn(token.from, token.line)
           /\ token.typ \notin Final \cup {"itemComment"} =>
                 /\ Drops(rest) /\ NonSpace(rest) # <<>> /\ Drops(NonSpace(rest))
                 /\ TagOn(Head(NonSpace(rest)).from, Head(NonSpace(rest)).line)
                 /\ Head(NonSpace(rest)).typ # "itemComment" => Drops(Tail(NonSpace(rest)))
<1> DEFINE its == NonSpace(ahead)
<1>1. IsSeq(ahead) /\ Len(ahead) \in Nat
  BY SeqFacts DEF LineInv
<1>2. Enough(ahead, 3 + 1)
  BY <1>1 DEF Ready, Enough, Final
<1>3. IsSeq(its) /\ Enough(its, 2 + 1) /\ ahead # <<>>
  <2>1. 3 \in Nat /\ 3 + 1 \in Nat /\ 3 + 1 # 0 /\ 2 + 1 = 3
    OBVIOUS
  <2> QED
    BY <1>1, <1>2, <2>1, EnoughSpace, EnoughIs
<1>4. its # <<>>
  <2>1. 2 + 1 \in Nat /\ 2 + 1 # 0
    OBVIOUS
  <2> QED
    BY <1>3, <2>1, EnoughIs
<1>5. Drops(its)
  BY DropsNone, DropsSpace
<1>6. TagOn(token.from, token.line)
  BY <1>4, <1>5, DropsOn DEF token
<1>7. ASSUME token.typ \notin Final \cup {"itemComment"}
      PROVE  /\ Drops(rest) /\ NonSpace(rest) # <<>> /\ Drops(NonSpace(rest))
             /\ TagOn(Head(NonSpace(rest)).from, Head(NonSpace(rest)).line)
             /\ Head(NonSpace(rest)).typ # "itemComment" => Drops(Tail(NonSpace(rest)))
  <2>1. Drops(rest)
    BY <1>4, <1>5, <1>7, DropsHead DEF token, rest
  <2>2. IsSeq(rest) /\ Enough(rest, 1 + 1)
    <3>1. 2 \in Nat /\ 1 + 1 = 2
      OBVIOUS
    <3> QED
      BY <1>3, <1>7, <3>1, EnoughTail DEF token, rest
  <2>3. NonSpace(rest) # <<>>
    <3>1. 1 \in Nat /\ 1 # 0
      OBVIOUS
    <3> QED
      BY <2>2, <3>1, EnoughSpace, EnoughIs
  <2>4. Drops(NonSpace(rest))
    BY <2>1, DropsSpace
  <2> QED
    BY <2>1, <2>3, <2>4, DropsOn, DropsHead
<1> QED
  BY <1>3, <1>4, <1>5, <1>6, <1>7
----------------------------------------------------------------------------
(* The parser's steps.                                                     *)

\* A step that reads nothing, drops no comment and keeps the nodes.
Moved ==
    /\ UNCHANGED <<src, pos, line, nodes>> /\ Drops(ahead')
    /\ DOMAIN tag' = DOMAIN tag
    /\ at' \in InTag => TagOn(tag'.pos, tag'.line)

\* One that puts a node.
Put(node) ==
    /\ UNCHANGED <<src, pos, line, tag>> /\ nodes' = Append(nodes, node)
    /\ at' \notin InTag /\ TagOn(node.pos, node.line)
    /\ \E k \in Nat :
          Behind(ahead', k) /\ (SpansAhead(src, ahead, k) => Spans(src, node))

\* The items left ahead keep their lines, if the blame does not get lost.
LEMMA BehindLines ==
    ASSUME LineInv, UNCHANGED <<src, pos, line>>, NEW k \in Nat, Behind(ahead', k),
           Blamed(src, nodes, Len(nodes)) => Blamed(src, nodes', Len(nodes')),
           SpansAhead(src, ahead, k) => Blamed(src, nodes', Len(nodes'))
    PROVE  LexerInv' /\ IsSeq(ahead') /\ \A j \in DOMAIN ahead' : ItemInv(j)'
<1> DEFINE blamed == Blamed(src, nodes', Len(nodes'))
<1>1. /\ IsSeq(ahead') /\ k \in 0 .. Len(ahead) /\ Len(ahead') = Len(ahead) - k
      /\ \A j \in 1 .. Len(ahead') : ahead'[j] = ahead[j + k]
  BY DEF Behind
<1>2. Len(ahead) \in Nat /\ DOMAIN ahead = 1 .. Len(ahead)
      /\ Len(ahead') \in Nat /\ DOMAIN ahead' = 1 .. Len(ahead')
  BY <1>1, SeqFacts DEF LineInv
<1>3. ASSUME NEW j \in 0 .. Len(ahead'), SpansAhead(src, ahead, j + k)
      PROVE  blamed \/ SpansAhead(src, ahead', j)
  <2>1. PICK q \in 1 .. j + k :
           ahead[q].typ = "itemComment" /\ Breaks(src, ahead[q].from, ahead[q].to) > 0
    BY <1>3 DEF SpansAhead
  <2>2. CASE q <= k
    <3>1. q \in 1 .. k
      BY <1>2, <1>3, <2>1, <2>2
    <3>2. SpansAhead(src, ahead, k)
      BY <2>1, <3>1 DEF SpansAhead
    <3> QED
      BY <3>2
  <2>3. CASE q > k
    <3>1. q - k \in 1 .. j /\ q - k \in 1 .. Len(ahead') /\ (q - k) + k = q
      BY <1>2, <1>3, <2>1, <2>3
    <3>2. ahead'[q - k] = ahead[q]
      BY <1>1, <3>1
    <3> QED
      BY <2>1, <3>1, <3>2 DEF SpansAhead
  <2> QED
    BY <1>2, <1>3, <2>1, <2>2, <2>3
<1>4. LexerInv'
  <2>1. Late(src, pos, line) =>
           Blamed(src, nodes, Len(nodes)) \/ SpansAhead(src, ahead, Len(ahead))
    BY DEF LineInv, LexerInv
  <2>2. Len(ahead') \in 0 .. Len(ahead') /\ Len(ahead') + k = Len(ahead)
    BY <1>1, <1>2
  <2>3. Late(src, pos, line) => blamed \/ SpansAhead(src, ahead', Len(ahead'))
    BY <1>3, <2>1, <2>2
  <2> QED
    BY <2>3 DEF LineInv, LexerInv
<1>5. ASSUME NEW j \in DOMAIN ahead' PROVE ItemInv(j)'
  <2>1. j + k \in DOMAIN ahead /\ j - 1 \in 0 .. Len(ahead') /\ (j + k) - 1 = (j - 1) + k
        /\ j \in 1 .. Len(ahead')
    BY <1>1, <1>2
  <2>2. ItemInv(j + k) /\ ahead'[j] = ahead[j + k]
    BY <1>1, <2>1 DEF LineInv
  <2>3. Late(src, ahead[j + k].from, ahead[j + k].line) =>
           blamed \/ SpansAhead(src, ahead', j - 1)
    BY <1>3, <2>1, <2>2 DEF ItemInv
  <2> QED
    BY <2>2, <2>3 DEF ItemInv
<1> QED
  BY <1>1, <1>4, <1>5

LEMMA MovedLines == LineInv /\ Moved => LineInv'
<1> SUFFICES ASSUME LineInv, Moved PROVE LineInv'
  OBVIOUS
<1>1. UNCHANGED <<src, pos, line, nodes>>
  BY DEF Moved
<1>2. PICK k \in Nat : Dropped(ahead', k)
  BY DEF Moved, Drops
<1>3. Behind(ahead', k) /\ ~SpansAhead(src, ahead, k)
  BY <1>2 DEF Dropped, SpansAhead
<1>4. LexerInv' /\ IsSeq(ahead') /\ \A j \in DOMAIN ahead' : ItemInv(j)'
  BY <1>1, <1>3, BehindLines
<1>5. IsSeq(nodes') /\ \A m \in DOMAIN nodes' : NodeInv(m)'
  BY <1>1 DEF LineInv, NodeInv
<1>6. (at \in InTag => TagOn(tag.pos, tag.line))'
  BY <1>1 DEF Moved, TagOn
<1>7. DOMAIN tag' = DOMAIN NoTag
  BY DEF Moved, LineInv
<1> QED
  BY <1>4, <1>5, <1>6, <1>7 DEF LineInv, NoTag

LEMMA PutLines ==
    ASSUME LineInv, NEW node, Put(node)
    PROVE  LineInv'
<1> DEFINE N == Len(nodes)
<1>1. UNCHANGED <<src, pos, line>> /\ nodes' = Append(nodes, node) /\ at' \notin InTag
      /\ TagOn(node.pos, node.line) /\ DOMAIN tag' = DOMAIN NoTag
  BY DEF Put, LineInv
<1>2. IsSeq(nodes) /\ N \in Nat /\ DOMAIN nodes = 1 .. N
  BY SeqFacts DEF LineInv
<1>3. /\ IsSeq(nodes') /\ Len(nodes') = N + 1
      /\ (\A m \in 1 .. N : nodes'[m] = nodes[m]) /\ nodes'[N + 1] = node
  BY <1>1, <1>2, AppendIs
<1>4. DOMAIN nodes' = 1 .. N + 1
  BY <1>3, SeqFacts
<1>5. TagOn(node.pos, node.line) =>
         OnPage(src, node.pos, node.line) /\
         (Late(src, node.pos, node.line) => Blamed(src, nodes, N))
  BY DEF TagOn
<1> HIDE DEF N
<1>6. \A m \in 0 .. N : Blamed(src, nodes, m) => Blamed(src, nodes', m)
  BY <1>2, <1>3 DEF Blamed
<1>7. Blamed(src, nodes, N) => Blamed(src, nodes', N + 1)
  BY <1>2, <1>3 DEF Blamed
<1>8. Spans(src, node) => Blamed(src, nodes', N + 1)
  BY <1>2, <1>3 DEF Blamed
<1>9. LexerInv' /\ IsSeq(ahead') /\ \A j \in DOMAIN ahead' : ItemInv(j)'
  <2>1. PICK k \in Nat : Behind(ahead', k) /\ (SpansAhead(src, ahead, k) => Spans(src, node))
    BY DEF Put
  <2>2. Blamed(src, nodes, Len(nodes)) => Blamed(src, nodes', Len(nodes'))
    BY <1>3, <1>7 DEF N
  <2>3. SpansAhead(src, ahead, k) => Blamed(src, nodes', Len(nodes'))
    BY <1>3, <1>8, <2>1
  <2> QED
    BY <1>1, <2>1, <2>2, <2>3, BehindLines
<1>10. ASSUME NEW m \in 1 .. N + 1 PROVE NodeInv(m)'
  <2>1. CASE m \in 1 .. N
    <3>1. NodeInv(m) /\ m - 1 \in 0 .. N
      BY <1>2, <2>1 DEF LineInv
    <3> QED
      BY <1>1, <1>3, <1>6, <2>1, <3>1 DEF NodeInv
  <2>2. CASE m = N + 1
    <3>1. nodes'[m] = node /\ m - 1 = N /\ N \in 0 .. N
      BY <1>2, <1>3, <2>2
    <3> QED
      BY <1>1, <1>5, <1>6, <3>1 DEF NodeInv
  <2> QED
    BY <1>2, <2>1, <2>2
<1> QED
  BY <1>1, <1>3, <1>4, <1>9, <1>10 DEF LineInv, NoTag
----------------------------------------------------------------------------
(* The parser's actions.                                                   *)

\* Moving on outside of a tag, and inside of one with the tag as it is.
LEMMA MoveMoves ==
    ASSUME NEW f, NEW its, Drops(its), Move(f, its), KeepTree, LineInv,
           DOMAIN tag' = DOMAIN tag, f \in InTag => at \in InTag /\ tag' = tag
    PROVE  Moved
<1>1. at' = f /\ ahead' = its /\ UNCHANGED <<src, pos, line, nodes>>
  BY DEF Move, KeepTree, lexVars
<1>2. at' \in InTag => TagOn(tag'.pos, tag'.line)
  BY <1>1 DEF LineInv
<1> QED
  BY <1>1, <1>2 DEF Moved

LEMMA StatesApart ==
    /\ "textOrAction" \notin InTag /\ "action" \notin InTag /\ "close" \notin InTag
    /\ "accepted" \notin InTag /\ "rejected" \notin InTag
    /\ "decls" \in InTag /\ "secondDecl" \in InTag /\ "pipeline" \in InTag
    /\ "operand" \in InTag /\ "chain" \in InTag /\ "command" \in InTag
  BY DEF InTag

LEMMA RejectMoves == LineInv /\ Unexpected => Moved
<1> SUFFICES ASSUME LineInv, Unexpected PROVE Moved
  OBVIOUS
<1>1. Move("rejected", ahead) /\ KeepTree /\ tag' = tag
  BY DEF Unexpected
<1> QED
  BY <1>1, MoveMoves, DropsNone, StatesApart

\* The position of a tag's node is the one of an item that is still ahead.
LEMMA BeginMoves ==
    ASSUME LineInv, NEW type, NEW keyword, NEW context, NEW it, NEW its,
           BeginPipeline(type, keyword, context, it, its), Drops(its), TagOn(it.from, it.line)
    PROVE  Moved
<1>1. tag' = [tag EXCEPT !.type = type, !.keyword = keyword, !.pos = it.from, !.line = it.line]
  BY DEF BeginPipeline
<1>2. DOMAIN tag = {"type", "keyword", "from", "pos", "line"}
  BY DEF LineInv, NoTag
<1>3. tag'.pos = it.from /\ tag'.line = it.line /\ DOMAIN tag' = DOMAIN tag
  BY <1>1, <1>2
<1> QED
  BY <1>3 DEF BeginPipeline, Move, KeepTree, lexVars, Moved

LEMMA ParseTextPuts == LineInv /\ ParseText => \E node : Put(node)
<1> SUFFICES ASSUME LineInv, ParseText PROVE \E node : Put(node)
  OBVIOUS
<1> DEFINE type == IF token.typ = "itemText" THEN Literal ELSE Comment
           node == Node(type, "", token.from, token.line, token.from)
           its == NonSpace(ahead)
<1>1. /\ Ready /\ token.typ \in {"itemText", "itemComment"}
      /\ nodes' = Append(nodes, node) /\ at' = "textOrAction" /\ ahead' = rest
      /\ UNCHANGED <<src, pos, line, tag>>
  BY DEF ParseText, Move, In, lexVars
<1>2. /\ node.pos = token.from /\ node.line = token.line /\ node.type = type
      /\ node.from = token.from /\ node.to = token.to
  BY DEF Node
<1>3. token.typ = "itemComment" => node.type = Comment
  BY <1>2
<1>4. its # <<>> /\ Drops(its) /\ TagOn(token.from, token.line)
  BY <1>1, ReadyIs
<1>5. PICK k \in Nat : Dropped(its, k)
  BY <1>4 DEF Drops
<1>6. /\ IsSeq(its) /\ k \in 0 .. Len(ahead) /\ Len(its) = Len(ahead) - k
      /\ \A j \in 1 .. Len(its) : its[j] = ahead[j + k]
      /\ \A j \in 1 .. k : ahead[j].typ # "itemComment"
  BY <1>5 DEF Dropped, Behind
<1>7. Len(its) \in Nat /\ Len(its) # 0 /\ Len(ahead) \in Nat
  BY <1>4, <1>6, SeqFacts DEF LineInv
<1>8. /\ IsSeq(rest) /\ Len(rest) = Len(its) - 1 /\ token = its[1]
      /\ \A p \in 1 .. Len(its) - 1 : rest[p] = its[p + 1]
  BY <1>4, <1>6, TailIs DEF token, rest
<1>9. Behind(rest, k + 1)
  <2>1. k + 1 \in 0 .. Len(ahead) /\ Len(rest) = Len(ahead) - (k + 1)
    BY <1>6, <1>7, <1>8
  <2>2. ASSUME NEW j \in 1 .. Len(rest) PROVE rest[j] = ahead[j + (k + 1)]
    <3>1. j \in 1 .. Len(its) - 1 /\ j + 1 \in 1 .. Len(its) /\ (j + 1) + k = j + (k + 1)
      BY <1>7, <1>8
    <3> QED
      BY <1>6, <1>8, <3>1
  <2> QED
    BY <1>8, <2>1, <2>2 DEF Behind
<1>10. SpansAhead(src, ahead, k + 1) => Spans(src, node)
  <2> SUFFICES ASSUME NEW j \in 1 .. k + 1, ahead[j].typ = "itemComment",
                      Breaks(src, ahead[j].from, ahead[j].to) > 0
               PROVE  Spans(src, node)
    BY DEF SpansAhead
  <2>1. j = k + 1
    BY <1>5, <1>6
  <2>2. ahead[j] = token
    BY <1>6, <1>7, <1>8, <2>1
  <2> QED
    BY <1>2, <1>3, <2>2 DEF Spans
<1> HIDE DEF node, type, its
<1>11. k + 1 \in Nat
  BY <1>5
<1>12. Put(node)
  BY <1>1, <1>2, <1>4, <1>9, <1>10, <1>11, StatesApart DEF Put
<1> QED
  BY <1>12

\* textOrAction returns its node.
LEMMA ReturnPuts ==
    ASSUME LineInv, NEW keyword, NEW p, NEW l, NEW from, TagOn(p, l), Drops(rest),
           Return(Node(tag.type, keyword, p, l, from))
    PROVE  Moved \/ \E node : Put(node)
<1> DEFINE node == Node(tag.type, keyword, p, l, from)
<1>1. node.pos = p /\ node.line = l
  BY DEF Node
<1> HIDE DEF node
<1>2. CASE Unexpected
  BY <1>2, RejectMoves
<1>3. CASE Complete(node)
  <2>1. /\ at' = "textOrAction" /\ ahead' = rest /\ UNCHANGED <<src, pos, line, tag>>
        /\ nodes' = Append(nodes, node)
    BY <1>3 DEF Complete, Move, lexVars
  <2>2. PICK k \in Nat : Dropped(rest, k)
    BY DEF Drops
  <2>3. Behind(ahead', k) /\ ~SpansAhead(src, ahead, k)
    BY <2>1, <2>2 DEF Dropped, SpansAhead
  <2>4. Put(node)
    BY <1>1, <2>1, <2>3, StatesApart DEF Put
  <2> QED
    BY <2>4
<1> QED
  BY <1>2, <1>3 DEF Return, node

\* What the parser asks of an item's type before it consumes it.
LEMMA TypesApart ==
    /\ \A x \in Keyword \cup {"itemElse", "itemEnd"} : x \notin Final \cup {"itemComment"}
    /\ \A x \in isPipelineOperand : x \notin Final \cup {"itemComment"}
    /\ \A x \in {"itemLeftDelim", "itemRightDelim", "itemRightParen", "itemVariable",
                 "itemLeftParen", "itemField", "itemSpace", "itemPipe", "itemAssign",
                 "itemDeclare", "itemChar"} : x \notin Final \cup {"itemComment"}
  BY DEF Keyword, isPipelineOperand, Constant, Final

\* In a state of a function the next item is there.
LEMMA InIs ==
    ASSUME LineInv, NEW f, In(f)
    PROVE  at = f /\ Ready
  BY DEF In

LEMMA ParseLeftDelimMoves == LineInv /\ ParseLeftDelim => Moved
<1> SUFFICES ASSUME LineInv, ParseLeftDelim PROVE Moved
  OBVIOUS
<1>1. /\ Ready /\ token.typ = "itemLeftDelim" /\ Move("action", rest) /\ KeepTree
      /\ tag' = [NoTag EXCEPT !.from = token.from]
  BY DEF ParseLeftDelim, In
<1>2. Drops(rest)
  BY <1>1, ReadyIs, TypesApart
<1>3. DOMAIN tag' = DOMAIN tag
  BY <1>1 DEF LineInv, NoTag
<1> QED
  BY <1>1, <1>2, <1>3, MoveMoves, StatesApart

LEMMA ParseEOFMoves == LineInv /\ (ParseEOF \/ ParseError) => Moved
<1> SUFFICES ASSUME LineInv, ParseEOF \/ ParseError PROVE Moved
  OBVIOUS
<1>1. CASE Unexpected
  BY <1>1, RejectMoves
<1>2. CASE Move("accepted", ahead) /\ KeepTree /\ UNCHANGED tag
  BY <1>2, MoveMoves, DropsNone, StatesApart
<1> QED
  BY <1>1, <1>2 DEF ParseEOF, ParseError

LEMMA TagBegins == LineInv /\ (branchControl \/ commandAction \/ elsePipeline) => Moved
<1> SUFFICES ASSUME LineInv, branchControl \/ commandAction \/ elsePipeline PROVE Moved
  OBVIOUS
<1>1. CASE branchControl
  <2>1. /\ Ready /\ token.typ \in Keyword
        /\ BeginPipeline(classify(Val(token)), Val(token), Val(token), Head(NonSpace(rest)), rest)
    BY <1>1 DEF branchControl, In
  <2>2. Drops(rest) /\ TagOn(Head(NonSpace(rest)).from, Head(NonSpace(rest)).line)
    BY <2>1, ReadyIs, TypesApart
  <2> QED
    BY <2>1, <2>2, BeginMoves
<1>2. CASE commandAction
  <2>1. Ready /\ BeginPipeline(Action, "", "command", token, ahead)
    BY <1>2 DEF commandAction, In
  <2>2. Drops(ahead) /\ TagOn(token.from, token.line)
    BY <2>1, ReadyIs, DropsNone
  <2> QED
    BY <2>1, <2>2, BeginMoves
<1>3. CASE elsePipeline
  <2>1. /\ Ready /\ token.typ = "itemElse" /\ Head(NonSpace(rest)).typ \in Keyword
        /\ BeginPipeline(BlockMid, "", "else", Head(NonSpace(rest)), Tail(NonSpace(rest)))
    BY <1>3 DEF elsePipeline, In
  <2>2. /\ Drops(Tail(NonSpace(rest)))
        /\ TagOn(Head(NonSpace(rest)).from, Head(NonSpace(rest)).line)
    BY <2>1, ReadyIs, TypesApart
  <2> QED
    BY <2>1, <2>2, BeginMoves
<1> QED
  BY <1>1, <1>2, <1>3

LEMMA ElseOrEndMoves == LineInv /\ elseOrEndControl => Moved
<1> SUFFICES ASSUME LineInv, elseOrEndControl PROVE Moved
  OBVIOUS
<1>1. /\ Ready /\ token.typ \in {"itemElse", "itemEnd"} /\ Move("close", rest) /\ KeepTree
      /\ tag' = [tag EXCEPT !.type = classify(Val(token))]
  BY DEF elseOrEndControl, In
<1>2. Drops(rest)
  BY <1>1, ReadyIs, TypesApart
<1>3. DOMAIN tag' = DOMAIN tag
  BY <1>1
<1> QED
  BY <1>1, <1>2, <1>3, MoveMoves, StatesApart

LEMMA ExpectClosePuts == LineInv /\ expectClose => Moved \/ \E node : Put(node)
<1> SUFFICES ASSUME LineInv, expectClose PROVE Moved \/ \E node : Put(node)
  OBVIOUS
<1>1. CASE token.typ = "itemRightDelim"
  <2>1. Ready /\ Return(Node(tag.type, "", token.from, token.line, tag.from))
    BY <1>1 DEF expectClose, In
  <2>2. Drops(rest) /\ TagOn(token.from, token.line)
    BY <1>1, <2>1, ReadyIs, TypesApart
  <2> QED
    BY <2>1, <2>2, ReturnPuts
<1>2. CASE token.typ # "itemRightDelim"
  BY <1>2, RejectMoves DEF expectClose
<1> QED
  BY <1>1, <1>2

LEMMA EndPipelinePuts == LineInv /\ endPipeline => Moved \/ \E node : Put(node)
<1> SUFFICES ASSUME LineInv, endPipeline PROVE Moved \/ \E node : Put(node)
  OBVIOUS
<1>1. Ready /\ at = "pipeline" /\ token.typ \in {"itemRightDelim", "itemRightParen"}
  BY DEF endPipeline, In, End
<1>2. Drops(rest) /\ TagOn(tag.pos, tag.line)
  BY <1>1, ReadyIs, TypesApart, StatesApart DEF LineInv
<1>3. CASE pipe.misplaced
  BY <1>3, RejectMoves DEF endPipeline
<1>4. CASE ~pipe.misplaced /\ outer = <<>>
  <2>1. Return(Node(tag.type, tag.keyword, tag.pos, tag.line, tag.from))
    BY <1>4 DEF endPipeline
  <2> QED
    BY <1>2, <2>1, ReturnPuts
<1>5. CASE ~pipe.misplaced /\ outer # <<>>
  <2>1. Move("chain", rest) /\ KeepTree /\ UNCHANGED tag
    BY <1>5 DEF endPipeline
  <2> QED
    BY <1>1, <1>2, <2>1, MoveMoves, StatesApart
<1> QED
  BY <1>3, <1>4, <1>5

LEMMA DeclMoves == LineInv /\ (maybeParseOneDecl \/ acceptSecondRangeDecl) => Moved
<1> SUFFICES ASSUME LineInv, maybeParseOneDecl \/ acceptSecondRangeDecl PROVE Moved
  OBVIOUS
<1>1. CASE maybeParseOneDecl
  <2> DEFINE next  == Head(NonSpace(rest))
             after == Tail(NonSpace(rest))
  <2>1. Ready /\ at = "decls"
    BY <1>1 DEF maybeParseOneDecl, In
  <2>2. CASE KeepDecl
    BY <2>1, <2>2, MoveMoves, DropsNone, StatesApart DEF KeepDecl
  <2>3. CASE Unexpected
    BY <2>3, RejectMoves
  <2>4. ASSUME token.typ = "itemVariable",
               next.typ \in {"itemAssign", "itemDeclare", "itemChar"},
               NEW f \in {"pipeline", "secondDecl"}, TakeDecl(f, after)
        PROVE  Moved
    <3>1. Drops(after)
      BY <2>1, <2>4, ReadyIs, TypesApart
    <3>2. Move(f, after) /\ KeepTree /\ UNCHANGED tag
      BY <2>4 DEF TakeDecl
    <3> QED
      BY <2>1, <3>1, <3>2, MoveMoves, StatesApart
  <2>5. \/ KeepDecl
        \/ Unexpected
        \/ /\ token.typ = "itemVariable" /\ next.typ \in {"itemAssign", "itemDeclare", "itemChar"}
           /\ TakeDecl("pipeline", after) \/ TakeDecl("secondDecl", after)
    BY <1>1 DEF maybeParseOneDecl
  <2> HIDE DEF next, after
  <2> QED
    BY <2>2, <2>3, <2>4, <2>5
<1>2. CASE acceptSecondRangeDecl
  <2>1. at = "secondDecl"
    BY <1>2 DEF acceptSecondRangeDecl, In
  <2>2. CASE Unexpected
    BY <2>2, RejectMoves
  <2>3. CASE Move("decls", ahead) /\ KeepTree /\ UNCHANGED tag
    BY <2>1, <2>3, MoveMoves, DropsNone, StatesApart
  <2> QED
    BY <1>2, <2>2, <2>3 DEF acceptSecondRangeDecl
<1> QED
  BY <1>1, <1>2

LEMMA BeginCommandMoves == LineInv /\ beginCommand => Moved
<1> SUFFICES ASSUME LineInv, beginCommand PROVE Moved
  OBVIOUS
<1>1. at = "pipeline"
  BY DEF beginCommand, In
<1>2. CASE Unexpected
  BY <1>2, RejectMoves
<1>3. CASE Move("operand", ahead) /\ KeepTree /\ UNCHANGED tag
  BY <1>1, <1>3, MoveMoves, DropsNone, StatesApart
<1> QED
  BY <1>2, <1>3 DEF beginCommand

LEMMA TermMoves == LineInv /\ (term \/ parenTerm) => Moved
<1> SUFFICES ASSUME LineInv, term \/ parenTerm PROVE Moved
  OBVIOUS
<1>1. CASE term
  <2>1. Ready /\ at = "operand" /\ KeepTree /\ UNCHANGED tag
    BY <1>1 DEF term, In
  <2>2. CASE Move("command", NonSpace(ahead))
    BY <2>1, <2>2, ReadyIs, MoveMoves, StatesApart
  <2>3. CASE token.typ \in isPipelineOperand /\ Move("chain", rest)
    <3>1. Drops(rest)
      BY <2>1, <2>3, ReadyIs, TypesApart
    <3> QED
      BY <2>1, <2>3, <3>1, MoveMoves, StatesApart
  <2>4. CASE Move("rejected", ahead)
    BY <2>1, <2>4, DropsNone, MoveMoves, StatesApart
  <2> QED
    BY <1>1, <2>2, <2>3, <2>4 DEF term
<1>2. CASE parenTerm
  <2>1. Ready /\ at = "operand" /\ token.typ = "itemLeftParen"
        /\ Move("decls", rest) /\ KeepTree /\ UNCHANGED tag
    BY <1>2 DEF parenTerm, In
  <2>2. Drops(rest)
    BY <2>1, ReadyIs, TypesApart
  <2> QED
    BY <2>1, <2>2, MoveMoves, StatesApart
<1> QED
  BY <1>1, <1>2

LEMMA OperandMoves == LineInv /\ (operand \/ command) => Moved
<1> SUFFICES ASSUME LineInv, operand \/ command PROVE Moved
  OBVIOUS
<1> DEFINE type == Head(ahead).typ
<1>1. Ready /\ at \in InTag /\ KeepTree /\ UNCHANGED tag
  <2>1. CASE operand
    BY <2>1, StatesApart DEF operand, In
  <2>2. CASE command
    BY <2>2, StatesApart DEF command, In
  <2> QED
    BY <2>1, <2>2
<1>2. \E f \in {"command", "chain", "operand", "pipeline", "rejected"} :
         \/ Move(f, ahead)
         \/ type \in {"itemField", "itemSpace", "itemPipe"} /\ Move(f, Tail(ahead))
  <2>1. CASE operand
    BY <2>1 DEF operand
  <2>2. CASE command
    BY <2>2 DEF command
  <2> QED
    BY <2>1, <2>2
<1>3. type \in {"itemField", "itemSpace", "itemPipe"} => Drops(Tail(ahead))
  BY <1>1, ReadyIs, DropsNone, DropsHead, TypesApart
<1> HIDE DEF type
<1> QED
  BY <1>1, <1>2, <1>3, DropsNone, MoveMoves

LEMMA ParseNextLines == LineInv /\ ParseNext => LineInv'
<1>1. LineInv /\ ParseNext /\ ~Read => Moved \/ \E node : Put(node)
  BY ParseTextPuts, ParseLeftDelimMoves, ParseEOFMoves, TagBegins, ElseOrEndMoves,
     ExpectClosePuts, EndPipelinePuts, DeclMoves, BeginCommandMoves, TermMoves, OperandMoves
     DEF ParseNext
<1> QED
  BY <1>1, ReadLines, MovedLines, PutLines
----------------------------------------------------------------------------
(* The parser starts on line 1, of any text.                               *)

LEMMA FreshLines ==
    ASSUME NEW t \in Seq(Byte), ParseAgain(t)
    PROVE  LineInv'
<1>1. IsSeq(t) /\ Len(t) \in Nat
  BY SeqIs
<1>2. IsSeq(<<>>) /\ Len(<<>>) = 0 /\ DOMAIN <<>> = {}
  <2>1. IsSeq(<<>>)
    BY EmptyIs
  <2> QED
    BY <2>1, SeqFacts
<1>3. LineOf(t, 1) = 1
  BY BreaksNat DEF LineOf
<1>4. /\ src' = t /\ pos' = 1 /\ line' = 1 /\ ahead' = <<>> /\ nodes' = <<>>
      /\ at' = "textOrAction" /\ tag' = NoTag
  BY DEF ParseAgain
<1>5. LexerInv'
  BY <1>1, <1>3, <1>4 DEF LexerInv, OnPage, Late
<1> QED
  BY <1>2, <1>4, <1>5, StatesApart DEF LineInv, NoTag

LEMMA StartLines == src \in Seq(Byte) /\ ParseStart => LineInv
<1> SUFFICES ASSUME src \in Seq(Byte), ParseStart PROVE LineInv
  OBVIOUS
<1>1. IsSeq(src) /\ Len(src) \in Nat
  BY SeqIs
<1>2. IsSeq(<<>>) /\ Len(<<>>) = 0 /\ DOMAIN <<>> = {}
  <2>1. IsSeq(<<>>)
    BY EmptyIs
  <2> QED
    BY <2>1, SeqFacts
<1>3. LineOf(src, 1) = 1
  BY BreaksNat DEF LineOf
<1>4. /\ pos = 1 /\ line = 1 /\ ahead = <<>> /\ nodes = <<>>
      /\ at = "textOrAction" /\ tag = NoTag
  BY DEF ParseStart, LexStart
<1>5. LexerInv
  BY <1>1, <1>3, <1>4 DEF LexerInv, OnPage, Late
<1> QED
  BY <1>2, <1>4, <1>5, StatesApart DEF LineInv

\* LineInv is inductive.
THEOREM LinesInductive == ParserSpec => []LineInv
<1>1. LineInv /\ UNCHANGED parseVars => LineInv'
  BY DEF parseVars, lexVars, parserVars, LineInv, LexerInv, ItemInv, NodeInv, TagOn, NoTag
<1>2. LineInv /\ [ParseNext \/ \E t \in Seq(Byte) : ParseAgain(t)]_parseVars => LineInv'
  BY <1>1, ParseNextLines, FreshLines
<1> QED
  BY <1>2, StartLines, PTL DEF ParserSpec

\* The line an error message names is never behind the error, and it is the
\* error's own until a comment that spans lines has been read (lex.go
\* lexComment counts none of the lines inside; parse.go errorf).
THEOREM LinesAreRight == ParserSpec => []LinesOnlyLag
<1> QED
  BY LinesInductive, LineIsEnough, PTL
=============================================================================
