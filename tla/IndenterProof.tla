--------------------------- MODULE IndenterProof ---------------------------
(***************************************************************************)
(* For every set of texts: the fallback indenter's depth is the number of  *)
(* open brackets that raised it, so no closer takes back more than its     *)
(* opener gave, in the first pass and in the second; and what the first    *)
(* pass makes of a text is the text with some of its lines re-indented.    *)
(***************************************************************************)
EXTENDS IndenterInvariants, TextLemmas

Transparent == \A p \in DOMAIN src : src[p][1] \notin Opaque

TypeOK ==
    /\ original \in Seq(Cell) /\ src \in Seq(Cell) /\ out \in Seq(Cell)
    /\ i \in 1 .. Len(src) + 1
    /\ lineStart \in 1 .. i
    /\ depth \in Nat /\ linePre \in Int /\ linePost \in Int
    /\ stack \in Seq(Brace) /\ curLine \in Nat
    /\ leading \in BOOLEAN /\ verbatim \in BOOLEAN /\ inSwitch \in BOOLEAN
    /\ go \in GoState /\ pass \in 1 .. 3

\* A line that changes the depth is not blank: its indent is applied.
Solid == \E p \in lineStart .. i - 1 : src[p][2] \notin Blank

\* Closers in the leading zone come before any opener of their line, so what
\* they take back was given on earlier lines.
DepthInv ==
    /\ ~verbatim
    /\ Balanced /\ depth + linePre >= 0
    /\ leading => linePost = 0
    /\ linePre # 0 \/ linePost # 0 => Solid

IInv == TypeOK /\ (Transparent => DepthInv)

LEMMA TypeFacts ==
    ASSUME TypeOK
    PROVE  /\ src \in Seq(Cell) /\ Len(src) \in Nat /\ DOMAIN src = 1 .. Len(src)
           /\ out \in Seq(Cell)
           /\ i \in Nat \ {0} /\ i <= Len(src) + 1
           /\ lineStart \in Nat \ {0} /\ lineStart <= i
           /\ depth \in Nat /\ linePre \in Int /\ linePost \in Int
           /\ stack \in Seq(Brace) /\ Len(stack) \in Nat /\ DOMAIN stack = 1 .. Len(stack)
  BY DEF TypeOK

LEMMA ClampIs ==
    ASSUME NEW d \in Int
    PROVE  clampDepth(d) \in Nat /\ (d >= 0 => clampDepth(d) = d)
  BY DEF clampDepth

\* The line before the cursor.
LineText == SubSeq(src, lineStart, i - 1)

LEMMA LineTextIs ==
    ASSUME TypeOK
    PROVE  LineText \in Seq(Cell) /\ (Solid => TrimLeft(LineText) # <<>>)
<1>1. /\ LineText \in Seq(Cell) /\ DOMAIN LineText = 1 .. i - lineStart
      /\ \A n \in 1 .. i - lineStart : LineText[n] = src[lineStart + n - 1]
  <2> DEFINE to == i - 1
  <2>1. to \in Nat /\ to <= Len(src) /\ lineStart <= to + 1 /\ lineStart \in Nat \ {0}
        /\ i - lineStart = to - lineStart + 1
    BY TypeFacts
  <2>2. LineText = SubSeq(src, lineStart, to)
    BY DEF LineText
  <2> HIDE DEF to
  <2>3. \A n \in lineStart .. to : src[n] \in Cell
    BY <2>1, TypeFacts
  <2>4. /\ LineText \in Seq(Cell)
        /\ Len(LineText) = IF lineStart <= to THEN to - lineStart + 1 ELSE 0
        /\ \A n \in 1 .. to - lineStart + 1 : LineText[n] = src[lineStart + n - 1]
    BY <2>1, <2>2, <2>3, SubSeqProperties
  <2> QED
    BY <2>1, <2>4
<1>2. ASSUME Solid PROVE \E n \in DOMAIN LineText : LineText[n][2] \notin Blank
  <2>1. PICK p \in lineStart .. i - 1 : src[p][2] \notin Blank
    BY <1>2 DEF Solid
  <2> DEFINE n == p - lineStart + 1
  <2>2. n \in 1 .. i - lineStart /\ lineStart + n - 1 = p
    BY TypeFacts
  <2> QED
    BY <1>1, <2>1, <2>2
<1>3. Solid => ~AllBlank(LineText)
  BY <1>2 DEF AllBlank
<1> QED
  BY <1>1, <1>3, TrimLeftIs

\* The tabs of a line's indent.
LEMMA TabsAre ==
    ASSUME TypeOK, NEW n \in Nat
    PROVE  Tabs(n) \in Seq(Cell)
<1> DEFINE type == IF lineStart = 1 THEN Literal ELSE src[lineStart - 1][1]
           cell == <<type, "\t">>
<1>1. type \in SliceType \cup {LongComment}
  <2>1. CASE lineStart = 1
    BY <2>1, Zenon DEF SliceType
  <2>2. CASE lineStart # 1
    <3>1. lineStart - 1 \in 1 .. Len(src)
      BY <2>2, TypeFacts
    <3>2. src[lineStart - 1] \in Cell
      BY <3>1, TypeFacts
    <3> QED
      BY <2>2, <3>2 DEF Cell
  <2> QED
    BY <2>1, <2>2
<1>2. "\t" \in Symbol
  BY Zenon DEF Symbol, Byte, Space, Blank
<1> HIDE DEF type
<1>3. cell \in Cell
  BY <1>1, <1>2, Zenon DEF Cell
<1>4. Tabs(n) = [p \in 1 .. n |-> cell]
  BY DEF Tabs, type
<1> HIDE DEF cell
<1> QED
  BY <1>3, <1>4

\* A flushed line is a text.
LEMMA FlushedIs ==
    ASSUME TypeOK
    PROVE  Flushed \in Seq(Cell)
<1> DEFINE stripped == TrimLeft(LineText)
           outer == clampDepth(depth + linePre)
           display == IF inSwitch /\ isCaseLabel(stripped) THEN clampDepth(outer - 1) ELSE outer
<1>1. Flushed = IF verbatim THEN LineText
                ELSE IF stripped = <<>> THEN <<>> ELSE Tabs(display) \o stripped
  BY DEF Flushed, LineText
<1>2. stripped \in Seq(Cell) /\ LineText \in Seq(Cell)
  BY LineTextIs, TrimLeftIs
<1>3. display \in Nat
  <2>1. outer \in Nat
    BY ClampIs, TypeFacts
  <2>2. clampDepth(outer - 1) \in Nat
    BY ClampIs, <2>1
  <2> QED
    BY <2>1, <2>2
<1> HIDE DEF display, stripped
<1>4. Tabs(display) \in Seq(Cell)
  BY <1>3, TabsAre
<1> QED
  BY <1>1, <1>2, <1>4

----------------------------------------------------------------------------
(* Bytes of a line, and those that change neither depth nor brackets.       *)

\* Every cell of an opaque slice but the "{{" it begins with follows another.
IsDelim(cell) == cell[2] = "{{"
Sliced(text) ==
    \A p \in DOMAIN text :
        text[p][1] \in Opaque /\ ~IsDelim(text[p]) => p > 1 /\ text[p - 1][1] = text[p][1]

OpaqueIn(from, to) == \E p \in from .. to : src[p][1] \in Opaque

IsBackslash(cell) == cell[2] = "\\"

\* The cursor moves over n bytes.  A newline among them was escaped; the line is
\* verbatim if one of them is opaque; they raise the depth by one at most.
Passes(n) ==
    /\ n \in {1, 2} /\ i' = i + n /\ i + n <= Len(src) + 1
    /\ ~IsNewline(src[i])
    /\ n = 2 /\ IsNewline(src[i + 1]) => IsBackslash(src[i])
    /\ verbatim' \in BOOLEAN
    /\ verbatim => verbatim'
    /\ verbatim' => verbatim \/ OpaqueIn(i, i + n - 1)
    /\ Sliced(src) /\ OpaqueIn(i, i + n - 1) => verbatim'
    /\ depth' = depth /\ linePre' \in Int /\ linePost' \in Int
    /\ linePre' <= linePre /\ linePost' <= linePost + 1
    /\ UNCHANGED <<src, out, pass, original, lineStart>>

Quiet(n) ==
    /\ Passes(n)
    /\ go' \in GoState
    /\ UNCHANGED <<stack, curLine, linePre, linePost, leading, inSwitch>>

LEMMA SolidStays ==
    ASSUME TypeOK, NEW n \in Nat, i' = i + n, lineStart' = lineStart, src' = src, Solid
    PROVE  Solid'
<1>1. PICK p \in lineStart .. i - 1 : src[p][2] \notin Blank
  BY DEF Solid
<1>2. p \in lineStart .. (i + n) - 1
  BY TypeFacts
<1> QED
  BY <1>1, <1>2 DEF Solid

LEMMA QuietInductive ==
    ASSUME IInv, NEW n, Quiet(n)
    PROVE  IInv'
<1>1. /\ n \in Nat /\ i' = i + n /\ i + n <= Len(src) + 1 /\ go' \in GoState
      /\ verbatim' \in BOOLEAN
      /\ verbatim' => verbatim \/ OpaqueIn(i, i + n - 1)
      /\ UNCHANGED <<src, out, pass, original, depth, stack, curLine, lineStart,
                     linePre, linePost, leading, inSwitch>>
  BY DEF Quiet, Passes
<1>2. TypeOK
  BY DEF IInv
<1>3. TypeOK'
  <2>1. i' \in 1 .. Len(src') + 1 /\ lineStart' \in 1 .. i'
    BY <1>1, <1>2, TypeFacts
  <2> QED
    BY <1>1, <1>2, <2>1 DEF TypeOK
<1>4. Transparent' => Transparent
  BY <1>1 DEF Transparent
<1>5. Raised' = Raised
  BY <1>1 DEF Raised
<1>6. Transparent => ~OpaqueIn(i, i + n - 1)
  <2>1. \A p \in i .. i + n - 1 : p \in DOMAIN src
    BY <1>1, <1>2, TypeFacts
  <2> QED
    BY <2>1 DEF Transparent, OpaqueIn
<1>7. Transparent /\ DepthInv => DepthInv'
  <2> SUFFICES ASSUME Transparent, DepthInv PROVE DepthInv'
    OBVIOUS
  <2>1. Solid => Solid'
    BY <1>1, <1>2, SolidStays
  <2>2. ~verbatim'
    BY <1>1, <1>6 DEF DepthInv
  <2>3. Balanced'
    BY <1>1, <1>5 DEF DepthInv, Balanced
  <2> QED
    BY <1>1, <2>1, <2>2, <2>3 DEF DepthInv
<1> QED
  BY <1>3, <1>4, <1>7 DEF IInv

\* peek sees a byte only inside the text.
LEMMA PeekInside ==
    ASSUME TypeOK, peek(1) \in {"/", "*"}
    PROVE  /\ i + 2 <= Len(src) + 1
           /\ ~IsNewline(src[i + 1]) /\ ~IsDelim(src[i + 1])
<1>1. "" \notin {"/", "*"} /\ "\n" \notin {"/", "*"} /\ "{{" \notin {"/", "*"}
  BY Zenon
<1>2. peek(1) # ""
  BY <1>1, Zenon
<1>3. i + 1 <= Len(src) /\ peek(1) = src[i + 1][2]
  BY <1>2, Zenon DEF peek, Sym
<1>4. ~IsNewline(src[i + 1]) /\ ~IsDelim(src[i + 1])
  BY <1>1, <1>3, Zenon DEF IsNewline, IsDelim
<1> QED
  BY <1>3, <1>4, TypeFacts

LEMMA InsideText ==
    ASSUME TypeOK, i <= Len(src)
    PROVE  i \in Nat /\ i + 1 <= Len(src) + 1 /\ i \in DOMAIN src
  BY TypeFacts

LEMMA GoStates ==
    /\ "code" \in GoState /\ "raw" \in GoState /\ "block" \in GoState
    /\ "string" \in GoState /\ "rune" \in GoState /\ "line" \in GoState
  BY DEF GoState

LEMMA NotOpaque ==
    {Literal, Action, BlockOpen, BlockMid, BlockClose, Comment} \cap Opaque = {}
  BY Zenon DEF Opaque, Literal, Action, BlockOpen, BlockMid, BlockClose, Comment,
               Define, LongComment

\* A byte of a slice that is not opaque.
Plain == i <= Len(src) /\ ~IsNewline(src[i]) /\ src[i][1] \notin Opaque

LEMMA GoPlain ==
    ASSUME NEW states, AtGo(states)
    PROVE  Plain
  BY NotOpaque, Zenon DEF AtGo, At, Plain, Sym, IsNewline

LEMMA OneByte ==
    ASSUME TypeOK, Plain, Advance(1), UNCHANGED line, go' \in GoState
    PROVE  Quiet(1)
<1>1. /\ i' = i + 1 /\ i + 1 <= Len(src) + 1 /\ i \in Nat
      /\ ~IsNewline(src[i]) /\ src[i][1] \notin Opaque
      /\ linePre \in Int /\ linePost \in Int /\ verbatim \in BOOLEAN
      /\ UNCHANGED <<src, out, pass, original, depth, stack, curLine, lineStart,
                     linePre, linePost, leading, verbatim, inSwitch>>
  BY TypeFacts DEF Plain, Advance, line, TypeOK
<1>2. ~OpaqueIn(i, i + 1 - 1)
  <2>1. \A p \in i .. i + 1 - 1 : p = i
    BY <1>1
  <2> QED
    BY <1>1, <2>1 DEF OpaqueIn
<1>3. linePre' <= linePre /\ linePost' <= linePost + 1
  BY <1>1
<1>4. Passes(1)
  BY <1>1, <1>2, <1>3 DEF Passes
<1> QED
  BY <1>1, <1>4 DEF Quiet

LEMMA TwoBytes ==
    ASSUME TypeOK, Plain, i + 2 <= Len(src) + 1,
           ~IsNewline(src[i + 1]), ~IsDelim(src[i + 1]),
           Advance(2), UNCHANGED line, go' \in GoState
    PROVE  Quiet(2)
<1>1. /\ i' = i + 2 /\ i + 2 <= Len(src) + 1 /\ i \in Nat
      /\ ~IsNewline(src[i]) /\ src[i][1] \notin Opaque
      /\ linePre \in Int /\ linePost \in Int /\ verbatim \in BOOLEAN
      /\ UNCHANGED <<src, out, pass, original, depth, stack, curLine, lineStart,
                     linePre, linePost, leading, verbatim, inSwitch>>
  BY TypeFacts DEF Plain, Advance, line, TypeOK
<1>2. Sliced(src) => ~OpaqueIn(i, i + 2 - 1)
  <2> SUFFICES ASSUME Sliced(src), NEW p \in i .. i + 2 - 1, src[p][1] \in Opaque PROVE FALSE
    BY DEF OpaqueIn
  <2>1. p = i \/ p = i + 1
    BY <1>1
  <2>2. p = i + 1 /\ p \in DOMAIN src /\ p - 1 = i
    BY <1>1, <2>1, TypeFacts
  <2>3. src[p - 1][1] = src[p][1]
    BY <2>2 DEF Sliced
  <2> QED
    BY <1>1, <2>2, <2>3
<1>3. linePre' <= linePre /\ linePost' <= linePost + 1
  BY <1>1
<1>4. Passes(2)
  BY <1>1, <1>2, <1>3 DEF Passes
<1> QED
  BY <1>1, <1>4 DEF Quiet

LEMMA ActionByteQuiet == TypeOK /\ ActionByte => Quiet(1)
<1> SUFFICES ASSUME TypeOK, ActionByte PROVE Quiet(1)
  OBVIOUS
<1>1. Plain /\ Advance(1) /\ UNCHANGED line /\ go' = go
  BY NotOpaque, Zenon DEF ActionByte, At, Plain, Sym, IsNewline
<1> QED
  BY <1>1, OneByte DEF TypeOK

LEMMA RawByteQuiet == TypeOK /\ RawByte => Quiet(1)
<1> SUFFICES ASSUME TypeOK, RawByte PROVE Quiet(1)
  OBVIOUS
<1>1. Plain /\ Advance(1) /\ UNCHANGED line /\ go' \in GoState
  BY Zenon, GoStates, GoPlain DEF RawByte
<1> QED
  BY <1>1, OneByte

LEMMA LineCommentByteQuiet == TypeOK /\ LineCommentByte => Quiet(1)
<1> SUFFICES ASSUME TypeOK, LineCommentByte PROVE Quiet(1)
  OBVIOUS
<1>1. Plain /\ Advance(1) /\ UNCHANGED line /\ go' = go
  BY Zenon, GoPlain DEF LineCommentByte
<1> QED
  BY <1>1, OneByte DEF TypeOK

LEMMA OtherByteQuiet == TypeOK /\ OtherByte => Quiet(1)
<1> SUFFICES ASSUME TypeOK, OtherByte PROVE Quiet(1)
  OBVIOUS
<1>1. Plain /\ Advance(1) /\ UNCHANGED line /\ go' = go
  BY Zenon, GoPlain DEF OtherByte
<1> QED
  BY <1>1, OneByte DEF TypeOK

LEMMA BlockCommentByteQuiet == TypeOK /\ BlockCommentByte => Quiet(1) \/ Quiet(2)
<1> SUFFICES ASSUME TypeOK, BlockCommentByte PROVE Quiet(1) \/ Quiet(2)
  OBVIOUS
<1>1. Plain /\ UNCHANGED line
      /\ \/ peek(1) = "/" /\ go' = "code" /\ Advance(2)
         \/ go' = go /\ Advance(1)
  BY Zenon, GoPlain DEF BlockCommentByte
<1>2. CASE peek(1) = "/" /\ go' = "code" /\ Advance(2)
  <2>1. peek(1) \in {"/", "*"}
    BY <1>2, Zenon
  <2>2. go' \in GoState /\ Advance(2)
    BY <1>2, GoStates, Zenon
  <2> QED
    BY <1>1, <2>1, <2>2, PeekInside, TwoBytes
<1>3. CASE go' = go /\ Advance(1)
  BY <1>1, <1>3, OneByte DEF TypeOK
<1> QED
  BY <1>1, <1>2, <1>3

\* The byte after a backslash is passed over with it, whatever it is.
LEMMA QuotedByteQuiet == TypeOK /\ QuotedByte => Quiet(1) \/ Quiet(2)
<1> SUFFICES ASSUME TypeOK, QuotedByte PROVE Quiet(1) \/ Quiet(2)
  OBVIOUS
<1>1. /\ Plain
      /\ UNCHANGED <<depth, stack, curLine, lineStart, linePre, linePost, leading, inSwitch>>
      /\ \/ /\ IsBackslash(src[i]) /\ i < Len(src)
            /\ verbatim' = (verbatim \/ src[i + 1][1] \in Opaque)
            /\ go' = go /\ Advance(2)
         \/ go' \in {"code", go} /\ Advance(1) /\ verbatim' = verbatim
  BY Zenon, GoPlain DEF QuotedByte, IsBackslash, Sym
<1>2. CASE /\ IsBackslash(src[i]) /\ i < Len(src)
           /\ verbatim' = (verbatim \/ src[i + 1][1] \in Opaque)
           /\ go' = go /\ Advance(2)
  <2>1. /\ i' = i + 2 /\ i + 2 <= Len(src) + 1 /\ i \in Nat /\ i + 2 - 1 = i + 1
        /\ linePre' \in Int /\ linePost' \in Int
        /\ linePre' <= linePre /\ linePost' <= linePost + 1
        /\ UNCHANGED <<src, out, pass, original>>
    BY <1>1, <1>2, TypeFacts DEF Advance
  <2>2. verbatim' \in BOOLEAN /\ go' \in GoState
    BY <1>2 DEF TypeOK
  <2>3. verbatim' => verbatim \/ OpaqueIn(i, i + 1)
    <3>1. i + 1 \in i .. i + 1
      BY <2>1
    <3> QED
      BY <1>2, <3>1 DEF OpaqueIn
  <2>4. OpaqueIn(i, i + 1) => verbatim'
    <3>1. \A p \in i .. i + 1 : p = i \/ p = i + 1
      BY <2>1
    <3> QED
      BY <1>1, <1>2, <3>1 DEF OpaqueIn, Plain
  <2>5. Passes(2)
    BY <1>1, <1>2, <2>1, <2>2, <2>3, <2>4 DEF Passes, Plain
  <2> QED
    BY <1>1, <2>2, <2>5 DEF Quiet
<1>3. CASE go' \in {"code", go} /\ Advance(1) /\ verbatim' = verbatim
  <2>1. UNCHANGED line
    BY <1>1, <1>3 DEF line
  <2>2. go' \in GoState
    BY <1>3, GoStates DEF TypeOK
  <2> QED
    BY <1>1, <1>3, <2>1, <2>2, OneByte
<1> QED
  BY <1>1, <1>2, <1>3

LEMMA OpenGoSubstateQuiet == TypeOK /\ openGoSubstate => Quiet(1) \/ Quiet(2)
<1> SUFFICES ASSUME TypeOK, openGoSubstate PROVE Quiet(1) \/ Quiet(2)
  OBVIOUS
<1>1. Plain /\ UNCHANGED line
      /\ Advance(IF OpensComment THEN 2 ELSE 1)
  BY Zenon, GoPlain DEF openGoSubstate
<1>2. go' \in GoState
  <2> DEFINE backquote == Sym(i) = "raw"
             double == Sym(i) = "\""
             single == Sym(i) = "'"
             slash == peek(1) = "/"
  <2>1. go' = CASE backquote -> "raw" [] double -> "string" [] single -> "rune"
                [] slash -> "line" [] OTHER -> "block"
    BY Zenon DEF openGoSubstate
  <2> HIDE DEF backquote, double, single, slash
  <2> QED
    BY <2>1 DEF GoState
<1>3. CASE OpensComment
  <2>1. Advance(2) /\ peek(1) \in {"/", "*"}
    BY <1>1, <1>3, Zenon DEF OpensComment
  <2> QED
    BY <1>1, <1>2, <2>1, PeekInside, TwoBytes
<1>4. CASE ~OpensComment
  <2>1. Advance(1)
    BY <1>1, <1>4, Zenon
  <2> QED
    BY <1>1, <1>2, <2>1, OneByte
<1> QED
  BY <1>3, <1>4

----------------------------------------------------------------------------
(* How many of the open brackets raised the indent.                         *)

Incremented(st) == {p \in DOMAIN st : st[p].incremented}
Count(st) == Cardinality(Incremented(st))

LEMMA CountIs ==
    ASSUME NEW st \in Seq(Brace)
    PROVE  IsFiniteSet(Incremented(st)) /\ Count(st) \in Nat
<1>1. Len(st) \in Nat /\ Incremented(st) \subseteq 1 .. Len(st)
  BY DEF Incremented
<1>2. IsFiniteSet(1 .. Len(st))
  BY <1>1, FS_Interval
<1>3. IsFiniteSet(Incremented(st))
  BY <1>1, <1>2, FS_Subset
<1> QED
  BY <1>3, FS_CardinalityType DEF Count

LEMMA CountAppend ==
    ASSUME NEW st \in Seq(Brace), NEW e \in Brace
    PROVE  /\ e.incremented => Count(Append(st, e)) = Count(st) + 1
           /\ ~e.incremented => Count(Append(st, e)) = Count(st)
<1> DEFINE n == Len(st)
           tt == Append(st, e)
<1>1. /\ n \in Nat /\ DOMAIN st = 1 .. n /\ DOMAIN tt = 1 .. n + 1
      /\ \A p \in 1 .. n : tt[p] = st[p]
      /\ tt[n + 1] = e
  BY AppendProperties
<1> HIDE DEF n, tt
<1>2. CASE e.incremented
  <2>1. Incremented(tt) = Incremented(st) \cup {n + 1}
    BY <1>1, <1>2 DEF Incremented
  <2>2. n + 1 \notin Incremented(st)
    BY <1>1 DEF Incremented
  <2>3. Cardinality(Incremented(st) \cup {n + 1}) = Cardinality(Incremented(st)) + 1
    BY <2>2, CountIs, FS_AddElement
  <2> QED
    BY <1>2, <2>1, <2>3 DEF Count, tt
<1>3. CASE ~e.incremented
  <2>1. Incremented(tt) = Incremented(st)
    BY <1>1, <1>3 DEF Incremented
  <2> QED
    BY <1>3, <2>1 DEF Count, tt
<1> QED
  BY <1>2, <1>3

LEMMA CountButLast ==
    ASSUME NEW st \in Seq(Brace), st # <<>>
    PROVE  LET rest == SubSeq(st, 1, Len(st) - 1)
           IN  /\ rest \in Seq(Brace) /\ Count(rest) \in Nat
               /\ st[Len(st)].incremented => Count(st) = Count(rest) + 1
               /\ ~st[Len(st)].incremented => Count(st) = Count(rest)
<1> DEFINE n == Len(st)
           rest == SubSeq(st, 1, n - 1)
<1>1. n \in Nat /\ n >= 1
  BY EmptySeq
<1>2. /\ rest \in Seq(Brace) /\ st[n] \in Brace
      /\ Len(rest) = n - 1 /\ \A p \in 1 .. n - 1 : rest[p] = st[p]
  BY <1>1
<1>3. st = Append(rest, st[n])
  <2> DEFINE tt == Append(rest, st[n])
  <2>1. /\ tt \in Seq(Brace) /\ Len(tt) = n
        /\ \A p \in 1 .. n - 1 : tt[p] = st[p]
        /\ tt[n] = st[n]
    BY <1>1, <1>2, AppendProperties
  <2> HIDE DEF tt
  <2>2. \A p \in 1 .. Len(st) : st[p] = tt[p]
    BY <1>1, <2>1
  <2> QED
    BY <1>1, <2>1, <2>2, SeqEqual DEF tt
<1> HIDE DEF rest, n
<1>4. Count(rest) \in Nat
  BY <1>2, CountIs
<1> QED
  BY <1>2, <1>3, <1>4, CountAppend DEF rest, n

LEMMA RaisedIs == Raised = Count(stack)
  BY DEF Raised, Count, Incremented

----------------------------------------------------------------------------
(* Brackets, lines and passes.                                              *)

\* A bracket is no blank.
LEMMA BracketIsSolid ==
    ASSUME TypeOK, i <= Len(src), Sym(i) \in Opener \cup Closer,
           i' = i + 1, lineStart' = lineStart, src' = src
    PROVE  Solid'
<1>1. Sym(i) \notin Blank
  BY Zenon DEF Opener, Closer, Blank
<1>2. src[i][2] \notin Blank /\ i \in lineStart .. (i + 1) - 1
  BY <1>1, TypeFacts DEF Sym
<1> QED
  BY <1>2 DEF Solid

LEMMA OpaqueByteInductive == IInv /\ OpaqueByte => IInv'
<1> SUFFICES ASSUME IInv, OpaqueByte PROVE IInv'
  OBVIOUS
<1>1. /\ TypeOK /\ i <= Len(src) /\ src[i][1] \in Opaque
      /\ verbatim' = TRUE /\ i' = i + 1
      /\ UNCHANGED <<src, out, pass, original, depth, stack, curLine, lineStart,
                     linePre, linePost, leading, inSwitch, go>>
  BY Zenon DEF OpaqueByte, At, Advance, IInv
<1>2. i' \in 1 .. Len(src') + 1 /\ lineStart' \in 1 .. i'
  BY <1>1, TypeFacts
<1>3. TypeOK'
  BY <1>1, <1>2 DEF TypeOK
<1>4. ~Transparent'
  BY <1>1, InsideText DEF Transparent
<1> QED
  BY <1>3, <1>4 DEF IInv

LEMMA OpenBracketIs ==
    ASSUME TypeOK, OpenBracket
    PROVE  \E e \in Brace :
              /\ stack' = Append(stack, e)
              /\ \/ e.incremented /\ linePost' = linePost + 1
                 \/ ~e.incremented /\ linePost' = linePost
              /\ i <= Len(src) /\ Sym(i) \in Opener
              /\ leading' = FALSE /\ i' = i + 1
              /\ UNCHANGED <<src, out, pass, original, depth, curLine, lineStart,
                             linePre, verbatim, inSwitch, go>>
<1> DEFINE switch == Sym(i) = "{" /\ opensSwitchBody
           e == [line |-> curLine, kind |-> Sym(i), incremented |-> Raises, isSwitch |-> switch]
<1>1. /\ stack' = Append(stack, e)
      /\ linePost' = IF Raises THEN linePost + 1 ELSE linePost
      /\ i <= Len(src) /\ Sym(i) \in Opener
      /\ leading' = FALSE /\ i' = i + 1
      /\ UNCHANGED <<src, out, pass, original, depth, curLine, lineStart,
                     linePre, verbatim, inSwitch, go>>
  BY Zenon DEF OpenBracket, AtGo, At, Advance
<1>2. switch \in BOOLEAN
  BY Zenon
<1>3. Raises \in BOOLEAN
  BY DEF Raises
<1> HIDE DEF switch
<1>4. e \in Brace
  BY <1>1, <1>2, <1>3 DEF Brace, TypeOK
<1>5. e.incremented = Raises
  OBVIOUS
<1> HIDE DEF e
<1>6. \/ e.incremented /\ linePost' = linePost + 1
      \/ ~e.incremented /\ linePost' = linePost
  <2>1. CASE Raises
    BY <1>1, <1>5, <2>1
  <2>2. CASE ~Raises
    BY <1>1, <1>5, <2>2
  <2> QED
    BY <2>1, <2>2
<1> QED
  BY <1>1, <1>4, <1>6

LEMMA OpenBracketInductive == IInv /\ OpenBracket => IInv'
<1> SUFFICES ASSUME IInv, OpenBracket PROVE IInv'
  OBVIOUS
<1>1. TypeOK
  BY DEF IInv
<1>2. PICK e \in Brace :
              /\ stack' = Append(stack, e)
              /\ \/ e.incremented /\ linePost' = linePost + 1
                 \/ ~e.incremented /\ linePost' = linePost
              /\ i <= Len(src) /\ Sym(i) \in Opener
              /\ leading' = FALSE /\ i' = i + 1
              /\ UNCHANGED <<src, out, pass, original, depth, curLine, lineStart,
                             linePre, verbatim, inSwitch, go>>
  BY <1>1, OpenBracketIs
<1>3. TypeOK'
  <2>1. i' \in 1 .. Len(src') + 1 /\ lineStart' \in 1 .. i'
    BY <1>1, <1>2, TypeFacts
  <2>2. stack' \in Seq(Brace) /\ linePost' \in Int
    BY <1>1, <1>2, TypeFacts
  <2> QED
    BY <1>1, <1>2, <2>1, <2>2 DEF TypeOK
<1>4. DepthInv => DepthInv'
  <2> SUFFICES ASSUME DepthInv PROVE DepthInv'
    OBVIOUS
  <2>1. Count(stack) \in Nat /\ stack \in Seq(Brace)
    BY <1>1, CountIs, TypeFacts
  <2>2. /\ e.incremented => Raised' = Raised + 1
        /\ ~e.incremented => Raised' = Raised
    <3>1. Raised = Count(stack) /\ Raised' = Count(stack')
      BY RaisedIs DEF Raised, Count, Incremented
    <3> QED
      BY <1>2, <2>1, <3>1, CountAppend
  <2>3. Balanced'
    BY <1>1, <1>2, <2>2, TypeFacts DEF Balanced, DepthInv
  <2>4. Solid'
    BY <1>1, <1>2, BracketIsSolid
  <2> QED
    BY <1>2, <2>3, <2>4 DEF DepthInv
<1>5. Transparent' => Transparent
  BY <1>2 DEF Transparent
<1> QED
  BY <1>3, <1>4, <1>5 DEF IInv

LEMMA CloseBracketInductive == IInv /\ CloseBracket => IInv'
<1> SUFFICES ASSUME IInv, CloseBracket PROVE IInv'
  OBVIOUS
<1> DEFINE rest == SubSeq(stack, 1, Len(stack) - 1)
           top == stack[Len(stack)]
<1>1. TypeOK /\ Sym(i) \in Closer
  BY Zenon DEF IInv, CloseBracket
<1>2. /\ i <= Len(src) /\ stack # <<>> /\ stack' = rest /\ i' = i + 1
      /\ \/ ~top.incremented /\ linePre' = linePre /\ linePost' = linePost
         \/ top.incremented /\ leading /\ linePre' = linePre - 1 /\ linePost' = linePost
         \/ top.incremented /\ ~leading /\ linePost' = linePost - 1 /\ linePre' = linePre
      /\ UNCHANGED <<src, out, pass, original, depth, curLine, lineStart, leading,
                     verbatim, inSwitch, go>>
  BY Zenon DEF CloseBracket, AtGo, At, Advance, Lower
<1>3. /\ rest \in Seq(Brace) /\ Count(rest) \in Nat
      /\ top.incremented => Count(stack) = Count(rest) + 1
      /\ ~top.incremented => Count(stack) = Count(rest)
  BY <1>1, <1>2, CountButLast, TypeFacts
<1> HIDE DEF rest, top
<1>4. TypeOK'
  <2>1. i' \in 1 .. Len(src') + 1 /\ lineStart' \in 1 .. i'
    BY <1>1, <1>2, TypeFacts
  <2>2. linePre' \in Int /\ linePost' \in Int
    BY <1>1, <1>2, TypeFacts
  <2> QED
    BY <1>1, <1>2, <1>3, <2>1, <2>2 DEF TypeOK
<1>5. DepthInv => DepthInv'
  <2> SUFFICES ASSUME DepthInv PROVE DepthInv'
    OBVIOUS
  <2>1. Raised = Count(stack) /\ Raised' = Count(rest)
    BY <1>2, RaisedIs DEF Raised, Count, Incremented
  <2>2. depth + linePre + linePost = Count(stack) /\ depth + linePre >= 0
        /\ (leading => linePost = 0)
    BY <2>1 DEF DepthInv, Balanced
  <2>3. /\ depth' + linePre' + linePost' = Count(rest) /\ depth' + linePre' >= 0
        /\ (leading' => linePost' = 0)
    <3>1. depth \in Int /\ linePre \in Int /\ linePost \in Int /\ depth' = depth
      BY <1>1, <1>2, TypeFacts
    <3>2. CASE ~top.incremented
      BY <1>2, <1>3, <2>2, <3>1, <3>2
    <3>3. CASE top.incremented /\ leading
      BY <1>2, <1>3, <2>2, <3>1, <3>3
    <3>4. CASE top.incremented /\ ~leading
      BY <1>2, <1>3, <2>2, <3>1, <3>4
    <3> QED
      BY <3>2, <3>3, <3>4
  <2>4. Solid'
    BY <1>1, <1>2, BracketIsSolid
  <2> QED
    BY <1>2, <2>1, <2>3, <2>4 DEF DepthInv, Balanced
<1>6. Transparent' => Transparent
  BY <1>2 DEF Transparent
<1> QED
  BY <1>4, <1>5, <1>6 DEF IInv

LEMMA NewLineInductive == IInv /\ NewLine => IInv'
<1> SUFFICES ASSUME IInv, NewLine PROVE IInv'
  OBVIOUS
<1> DEFINE blank == TrimLeft(LineText) = <<>>
<1>1. /\ i <= Len(src)
      /\ out' = out \o Flushed \o <<src[i]>>
      /\ depth' = DepthAfter
      /\ i' = i + 1 /\ curLine' = curLine + 1
      /\ lineStart' = i + 1 /\ linePre' = 0 /\ linePost' = 0
      /\ leading' = TRUE /\ verbatim' = FALSE
      /\ inSwitch' = enclosingSwitch(stack)
      /\ go' \in {"code", go}
      /\ UNCHANGED <<src, stack, pass, original>>
  BY Zenon DEF NewLine, startLine
<1>2. TypeOK
  BY DEF IInv
<1>3. out' \in Seq(Cell)
  <2>1. Flushed \in Seq(Cell) /\ out \in Seq(Cell) /\ src[i] \in Cell
    BY <1>1, <1>2, FlushedIs, TypeFacts
  <2>2. out \o Flushed \in Seq(Cell) /\ <<src[i]>> \in Seq(Cell)
    BY <2>1
  <2> QED
    BY <1>1, <2>2, ConcatProperties
<1>4. DepthAfter = IF verbatim \/ blank THEN depth
                   ELSE clampDepth(clampDepth(depth + linePre) + linePost)
  BY DEF DepthAfter, LineText
<1> HIDE DEF blank
<1>5. /\ clampDepth(depth + linePre) \in Nat
      /\ depth + linePre >= 0 => clampDepth(depth + linePre) = depth + linePre
      /\ clampDepth(clampDepth(depth + linePre) + linePost) \in Nat
  <2>1. clampDepth(depth + linePre) \in Nat
        /\ (depth + linePre >= 0 => clampDepth(depth + linePre) = depth + linePre)
    BY <1>2, ClampIs, TypeFacts
  <2>2. clampDepth(depth + linePre) + linePost \in Int
    BY <1>2, <2>1, TypeFacts
  <2> QED
    BY <2>1, <2>2, ClampIs
<1>6. depth' \in Nat
  BY <1>1, <1>2, <1>4, <1>5, TypeFacts
<1>7. TypeOK'
  <2>1. i' \in 1 .. Len(src') + 1 /\ lineStart' \in 1 .. i'
    BY <1>1, <1>2, TypeFacts
  <2>2. inSwitch' \in BOOLEAN
    <3>1. enclosingSwitch(stack) \in BOOLEAN
      BY Zenon DEF enclosingSwitch
    <3> QED
      BY <1>1, <3>1, Zenon
  <2>3. go' \in GoState /\ curLine' \in Nat
    BY <1>1, <1>2, GoStates DEF TypeOK
  <2>4. linePre' \in Int /\ linePost' \in Int
    BY <1>1
  <2>5. leading' \in BOOLEAN /\ verbatim' \in BOOLEAN
    BY <1>1, Zenon
  <2> QED
    BY <1>1, <1>2, <1>3, <1>6, <2>1, <2>2, <2>3, <2>4, <2>5 DEF TypeOK
<1>8. DepthInv => DepthInv'
  <2> SUFFICES ASSUME DepthInv PROVE DepthInv'
    OBVIOUS
  <2>1. Raised = depth + linePre + linePost /\ depth + linePre >= 0 /\ ~verbatim
    BY DEF DepthInv, Balanced
  <2>2. Raised' = Raised /\ Raised \in Nat
    BY <1>1, <1>2, RaisedIs, CountIs, TypeFacts DEF Raised
  <2>3. depth' = Raised
    <3>1. CASE blank
      <4>1. ~Solid
        BY <1>2, <3>1, LineTextIs DEF blank
      <4>2. linePre = 0 /\ linePost = 0
        BY <4>1 DEF DepthInv
      <4> QED
        BY <1>1, <1>2, <1>4, <2>1, <3>1, <4>2, TypeFacts
    <3>2. CASE ~blank
      <4>1. depth' = clampDepth(clampDepth(depth + linePre) + linePost)
        BY <1>1, <1>4, <2>1, <3>2
      <4>2. clampDepth(depth + linePre) + linePost = Raised
        BY <1>2, <1>5, <2>1, TypeFacts
      <4> QED
        BY <2>2, <4>1, <4>2, ClampIs
    <3> QED
      BY <3>1, <3>2
  <2>4. Balanced'
    BY <1>1, <2>2, <2>3 DEF Balanced
  <2>5. depth' + linePre' >= 0
    BY <1>1, <2>2, <2>3
  <2> QED
    BY <1>1, <2>4, <2>5 DEF DepthInv
<1>9. Transparent' => Transparent
  BY <1>1 DEF Transparent
<1> QED
  BY <1>7, <1>8, <1>9 DEF IInv

\* At the beginning of a pass nothing is open.
Begins ==
    /\ i = 1 /\ out = <<>>
    /\ depth = 0 /\ stack = <<>> /\ curLine = 0 /\ lineStart = 1
    /\ linePre = 0 /\ linePost = 0 /\ leading = TRUE /\ verbatim = FALSE
    /\ inSwitch = FALSE /\ go = "code"

LEMMA BeginsIs ==
    ASSUME Begins, src \in Seq(Cell), original \in Seq(Cell), pass \in 1 .. 3
    PROVE  IInv
<1>1. Len(src) \in Nat /\ <<>> \in Seq(Cell) /\ <<>> \in Seq(Brace)
  OBVIOUS
<1>2. TypeOK
  <2>1. leading \in BOOLEAN /\ verbatim \in BOOLEAN /\ inSwitch \in BOOLEAN
    BY Zenon DEF Begins
  <2> QED
    BY <1>1, <2>1, GoStates DEF Begins, TypeOK
<1>3. Raised = 0
  <2>1. Incremented(<<>>) = {}
    BY DEF Incremented
  <2> QED
    BY <2>1, RaisedIs, FS_EmptySet DEF Begins, Count
<1>4. DepthInv
  BY <1>3 DEF Begins, DepthInv, Balanced
<1> QED
  BY <1>2, <1>4 DEF IInv

LEMMA FinishInductive == IInv /\ Finish => IInv'
<1> SUFFICES ASSUME IInv, Finish PROVE IInv'
  OBVIOUS
<1>1. src' = out \o Flushed /\ pass' = 2 /\ original' = original
  BY DEF Finish
<1>2. /\ i' = 1 /\ out' = <<>>
      /\ depth' = 0 /\ stack' = <<>> /\ curLine' = 0 /\ lineStart' = 1
      /\ linePre' = 0 /\ linePost' = 0 /\ leading' = TRUE /\ verbatim' = FALSE
      /\ inSwitch' = FALSE /\ go' = "code"
  BY DEF Finish
<1>3. src' \in Seq(Cell)
  <2>1. out \in Seq(Cell) /\ Flushed \in Seq(Cell)
    BY FlushedIs, TypeFacts DEF IInv
  <2> QED
    BY <1>1, <2>1, ConcatProperties
<1>4. original' \in Seq(Cell) /\ pass' \in 1 .. 3
  BY <1>1 DEF IInv, TypeOK
<1>5. Len(src') \in Nat /\ <<>> \in Seq(Cell) /\ <<>> \in Seq(Brace)
  BY <1>3
<1>6. TypeOK'
  <2>1. leading' \in BOOLEAN /\ verbatim' \in BOOLEAN /\ inSwitch' \in BOOLEAN
    BY <1>2, Zenon
  <2> QED
    BY <1>2, <1>3, <1>4, <1>5, <2>1, GoStates DEF TypeOK
<1>7. Raised' = 0
  <2>1. Incremented(<<>>) = {}
    BY DEF Incremented
  <2>2. Raised' = Count(stack')
    BY DEF Raised, Count, Incremented
  <2> QED
    BY <1>2, <2>1, <2>2, FS_EmptySet DEF Count
<1>8. DepthInv'
  BY <1>2, <1>7 DEF DepthInv, Balanced
<1> QED
  BY <1>6, <1>8 DEF IInv

LEMMA FinishAgainInductive == IInv /\ FinishAgain => IInv'
<1> SUFFICES ASSUME IInv, FinishAgain PROVE IInv'
  OBVIOUS
<1>1. /\ out' = out \o Flushed /\ pass' = 3
      /\ UNCHANGED <<src, i, depth, stack, curLine, lineStart, linePre, linePost,
                     leading, verbatim, inSwitch, go, original>>
  BY DEF FinishAgain, line
<1>2. out' \in Seq(Cell)
  <2>1. out \in Seq(Cell) /\ Flushed \in Seq(Cell)
    BY FlushedIs, TypeFacts DEF IInv
  <2> QED
    BY <1>1, <2>1, ConcatProperties
<1>3. TypeOK'
  BY <1>1, <1>2 DEF IInv, TypeOK
<1>4. DepthInv => DepthInv'
  BY <1>1 DEF DepthInv, Balanced, Raised, Solid
<1>5. Transparent' => Transparent
  BY <1>1 DEF Transparent
<1> QED
  BY <1>3, <1>4, <1>5 DEF IInv

LEMMA StutterInductive == IInv /\ UNCHANGED vars => IInv'
<1> SUFFICES ASSUME IInv, UNCHANGED vars PROVE IInv'
  OBVIOUS
<1>1. UNCHANGED <<src, i, out, depth, stack, curLine, lineStart, linePre, linePost,
                  leading, verbatim, inSwitch, go, pass, original>>
  BY DEF vars, line
<1> QED
  BY <1>1 DEF IInv, TypeOK, Transparent, DepthInv, Balanced, Raised, Solid

LEMMA NextInductive == IInv /\ [Next]_vars => IInv'
<1> SUFFICES ASSUME IInv, [Next]_vars PROVE IInv'
  OBVIOUS
<1>1. TypeOK
  BY DEF IInv
<1>2. CASE ActionByte \/ RawByte \/ LineCommentByte \/ OtherByte
  BY <1>1, <1>2, ActionByteQuiet, RawByteQuiet, LineCommentByteQuiet, OtherByteQuiet,
     QuietInductive
<1>3. CASE BlockCommentByte \/ QuotedByte \/ openGoSubstate
  BY <1>1, <1>3, BlockCommentByteQuiet, QuotedByteQuiet, OpenGoSubstateQuiet,
     QuietInductive
<1> QED
  BY <1>2, <1>3, NewLineInductive, OpaqueByteInductive, OpenBracketInductive,
     CloseBracketInductive, FinishInductive, FinishAgainInductive, StutterInductive
  DEF Next

\* The depth is what the open brackets account for, in both passes.
THEOREM Inductive == Spec => []IInv
<1>1. Init => IInv
  <2> SUFFICES ASSUME Init PROVE IInv
    OBVIOUS
  <2>1. Begins /\ src \in Seq(Cell) /\ original \in Seq(Cell) /\ pass \in 1 .. 3
    BY TextsAssumption DEF Init, Begins
  <2> QED
    BY <2>1, BeginsIs
<1> QED
  BY <1>1, NextInductive, PTL DEF Spec

\* A text whose lines are all re-indented: at every byte the depth is the number
\* of open brackets that raised it, and no closer takes it below zero, so the
\* clamping at zero never hides an imbalance.
THEOREM DepthIsBalanced == Spec => []BalancedWithoutOpaque
<1>1. IInv => BalancedWithoutOpaque
  BY DEF IInv, Transparent, DepthInv, BalancedWithoutOpaque
<1> QED
  BY <1>1, Inductive, PTL

----------------------------------------------------------------------------
(* Lines: what a flush writes is the line, or the line re-indented.         *)

HasOpaque(text) == \E p \in DOMAIN text : text[p][1] \in Opaque

\* A text in which every newline is escaped.
AllEscaped(text) ==
    \A p \in 1 .. Len(text) : IsNewline(text[p]) => p > 1 /\ IsBackslash(text[p - 1])

\* What becomes of a line that moves to one of the depths.
MovedTo(text, depths) ==
    LET stripped == Symbols(TrimLeft(text))
    IN  IF stripped = <<>> THEN {<<>>}
        ELSE {[t \in 1 .. d |-> "\t"] \o stripped : d \in depths}

LEMMA ReindentedIs ==
    ASSUME NEW ls, NEW m, NEW depths
    PROVE  Reindented(ls, m, depths) =
              LET kept  == Symbols(ls[m])
                  moved == MovedTo(ls[m], IF m = 1 THEN {0} ELSE depths)
              IN  IF HasOpaque(ls[m]) THEN {kept}
                  ELSE IF Escapes(ls, m) \/ Escapes(ls, m - 1) THEN {kept} \cup moved
                  ELSE moved
  BY Zenon DEF Reindented, MovedTo, HasOpaque

\* Line k of f is line k of t: nothing else may become of it, or nothing need.
Carried(t, f, k) ==
    /\ Lines(f)[k] = Lines(t)[k]
    /\ \/ HasOpaque(Lines(t)[k])
       \/ Escapes(Lines(t), k)
       \/ k > 1 /\ Escapes(Lines(t), k - 1)

\* Its first line moves.
Moved(t, f, depths) ==
    /\ ~HasOpaque(Lines(t)[1])
    /\ Symbols(Lines(f)[1]) \in MovedTo(Lines(t)[1], depths)

\* f may be flushed for t.
Follows(t, f, depths) ==
    /\ Len(Lines(f)) = Len(Lines(t))
    /\ \A k \in 1 .. Len(Lines(t)) :
          Carried(t, f, k) \/ (k = 1 /\ Moved(t, f, depths))

LEMMA EscapedLines ==
    ASSUME NEW t \in Seq(Cell), AllEscaped(t),
           NEW k \in 1 .. Len(Lines(t)), k < Len(Lines(t))
    PROVE  Escapes(Lines(t), k)
<1>1. \A p \in 1 .. Len(t) : IsNewline(t[p]) => p > 1 /\ t[p - 1][2] = "\\"
  BY Zenon DEF AllEscaped, IsBackslash
<1> QED
  BY <1>1, LinesEscape

\* A line that is flushed as it is.
LEMMA KeptFollows ==
    ASSUME NEW t \in Seq(Cell), AllEscaped(t), HasOpaque(t), NEW depths
    PROVE  Follows(t, t, depths)
<1>1. Len(Lines(t)) \in Nat \ {0}
  BY LineCells
<1>2. ASSUME NEW k \in 1 .. Len(Lines(t)) PROVE Carried(t, t, k)
  <2>1. CASE k < Len(Lines(t))
    BY <2>1, EscapedLines DEF Carried
  <2>2. CASE k > 1
    <3>1. k - 1 \in 1 .. Len(Lines(t)) /\ k - 1 < Len(Lines(t))
      BY <1>1, <2>2
    <3>2. Escapes(Lines(t), k - 1)
      BY <3>1, EscapedLines
    <3> QED
      BY <2>2, <3>2 DEF Carried
  <2>3. CASE k = 1 /\ Len(Lines(t)) = 1
    <3>1. NoNewline(t)
      <4> SUFFICES ASSUME ~NoNewline(t) PROVE FALSE
        OBVIOUS
      <4>1. PICK u \in Seq(Cell), x \in Cell, v \in Seq(Cell) :
                  Broken(t, u, x, v)
        BY FirstNewline
      <4>2. Lines(t) = <<u>> \o Lines(v)
        BY <4>1, LinesCons DEF Broken
      <4> DEFINE w == Lines(v)
      <4>3. w \in Seq(Seq(Cell)) /\ Len(w) \in Nat \ {0}
        BY LineCells, LinesType
      <4> HIDE DEF w
      <4>4. Len(<<u>> \o w) = 1 + Len(w)
        BY <4>3
      <4> QED
        BY <2>3, <4>2, <4>3, <4>4 DEF w
    <3>2. Lines(t) = <<t>>
      BY <3>1, LinesNone
    <3>3. Lines(t)[1] = t
      BY <3>2
    <3> QED
      BY <2>3, <3>3 DEF Carried
  <2>4. k < Len(Lines(t)) \/ k > 1 \/ (k = 1 /\ Len(Lines(t)) = 1)
    <3> DEFINE size == Len(Lines(t))
    <3>1. k \in 1 .. size /\ size \in Nat \ {0}
      BY <1>1
    <3> HIDE DEF size
    <3>2. k < size \/ k > 1 \/ (k = 1 /\ size = 1)
      BY <3>1
    <3> QED
      BY <3>2 DEF size
  <2> QED
    BY <2>1, <2>2, <2>3, <2>4
<1> QED
  BY <1>2 DEF Follows

\* A blank line is flushed empty.
LEMMA BlankFollows ==
    ASSUME NEW t \in Seq(Cell), AllBlank(t), ~HasOpaque(t), NEW depths
    PROVE  Follows(t, <<>>, depths)
<1>1. NoNewline(t)
  <2>1. "\n" \notin Blank
    BY Zenon DEF Blank
  <2> QED
    BY <2>1, Zenon DEF NoNewline, AllBlank, IsNewline
<1>2. Lines(t) = <<t>>
  BY <1>1, LinesNone
<1>3. Lines(<<>>) = <<<<>>>>
  <2>1. <<>> \in Seq(Cell) /\ NoNewline(<<>>)
    BY DEF NoNewline
  <2> QED
    BY <2>1, LinesNone
<1>4. TrimLeft(t) = <<>>
  BY TrimLeftIs
<1>5. Symbols(<<>>) = <<>>
  BY DEF Symbols
<1>6. Symbols(<<>>) \in MovedTo(t, depths)
  BY <1>4, <1>5 DEF MovedTo
<1>7. /\ Lines(t)[1] = t /\ Lines(<<>>)[1] = <<>>
      /\ Len(Lines(t)) = 1 /\ Len(Lines(<<>>)) = 1
  BY <1>2, <1>3
<1> QED
  BY <1>6, <1>7 DEF Follows, Moved

LEMMA SymbolsIs ==
    ASSUME NEW a \in Seq(Cell)
    PROVE  /\ Symbols(a) \in Seq(Symbol) /\ Len(Symbols(a)) = Len(a)
           /\ \A p \in 1 .. Len(a) : Symbols(a)[p] = a[p][2]
<1>1. /\ Len(a) \in Nat /\ DOMAIN a = 1 .. Len(a) /\ \A p \in 1 .. Len(a) : a[p] \in Cell
  OBVIOUS
<1>2. \A p \in 1 .. Len(a) : a[p][2] \in Symbol
  BY <1>1 DEF Cell
<1>3. Symbols(a) = [p \in 1 .. Len(a) |-> a[p][2]]
  BY <1>1 DEF Symbols
<1> QED
  BY <1>1, <1>2, <1>3

LEMMA SymbolsJoin ==
    ASSUME NEW a \in Seq(Cell), NEW b \in Seq(Cell)
    PROVE  Symbols(a \o b) = Symbols(a) \o Symbols(b)
<1> DEFINE c == a \o b
           sc == Symbols(c)
           sa == Symbols(a)
           sb == Symbols(b)
           d == sa \o sb
<1>1. /\ c \in Seq(Cell) /\ Len(c) = Len(a) + Len(b) /\ Len(a) \in Nat /\ Len(b) \in Nat
      /\ \A p \in 1 .. Len(a) + Len(b) : c[p] = IF p <= Len(a) THEN a[p] ELSE b[p - Len(a)]
  BY ConcatProperties
<1> HIDE DEF c
<1>2. /\ sa \in Seq(Symbol) /\ Len(sa) = Len(a) /\ \A p \in 1 .. Len(a) : sa[p] = a[p][2]
      /\ sb \in Seq(Symbol) /\ Len(sb) = Len(b) /\ \A p \in 1 .. Len(b) : sb[p] = b[p][2]
  BY SymbolsIs
<1>3. sc \in Seq(Symbol) /\ Len(sc) = Len(c) /\ \A p \in 1 .. Len(c) : sc[p] = c[p][2]
  BY <1>1, SymbolsIs
<1> HIDE DEF sa, sb, sc
<1>4. /\ d \in Seq(Symbol) /\ Len(d) = Len(a) + Len(b)
      /\ \A p \in 1 .. Len(a) + Len(b) : d[p] = IF p <= Len(a) THEN sa[p] ELSE sb[p - Len(a)]
  <2>1. /\ d \in Seq(Symbol) /\ Len(d) = Len(sa) + Len(sb)
        /\ \A p \in 1 .. Len(sa) + Len(sb) : d[p] = IF p <= Len(sa) THEN sa[p] ELSE sb[p - Len(sa)]
    <3>1. sa \in Seq(Symbol) /\ sb \in Seq(Symbol)
      BY <1>2
    <3> QED
      BY <3>1, ConcatProperties
  <2> HIDE DEF d
  <2> QED
    BY <1>2, <2>1
<1> HIDE DEF d
<1>5. ASSUME NEW p \in 1 .. Len(sc) PROVE sc[p] = d[p]
  <2>1. p \in 1 .. Len(a) + Len(b) /\ sc[p] = c[p][2]
    BY <1>1, <1>3
  <2>2. CASE p <= Len(a)
    <3>1. p \in 1 .. Len(a)
      BY <1>1, <2>1, <2>2
    <3> QED
      BY <1>1, <1>2, <1>4, <2>1, <2>2, <3>1
  <2>3. CASE ~(p <= Len(a))
    <3>1. p - Len(a) \in 1 .. Len(b)
      BY <1>1, <2>1, <2>3
    <3> QED
      BY <1>1, <1>2, <1>4, <2>1, <2>3, <3>1
  <2> QED
    BY <2>2, <2>3
<1>6. sc = d
  BY <1>1, <1>3, <1>4, <1>5, SeqEqual
<1> QED
  BY <1>6 DEF c, d, sa, sb, sc

\* A line's blanks give way to tabs.
LEMMA TabsFollow ==
    ASSUME NEW u \in Seq(Cell), ~AllBlank(u), NEW tabs \in Seq(Cell),
           NEW depths, NEW d \in depths, Symbols(tabs) = [t \in 1 .. d |-> "\t"]
    PROVE  Symbols(tabs \o TrimLeft(u)) \in MovedTo(u, depths)
<1> DEFINE rest == TrimLeft(u)
<1>1. rest \in Seq(Cell) /\ rest # <<>>
  BY TrimLeftIs
<1>2. Symbols(rest) # <<>>
  <2> HIDE DEF rest
  <2>1. Len(rest) # 0 /\ Len(Symbols(rest)) = Len(rest)
    BY <1>1, SymbolsIs, EmptySeq
  <2>2. Len(<<>>) = 0
    OBVIOUS
  <2> QED
    BY <2>1, <2>2, Zenon
<1>3. Symbols(tabs \o rest) = Symbols(tabs) \o Symbols(rest)
  <2> HIDE DEF rest
  <2> QED
    BY <1>1, SymbolsJoin
<1> HIDE DEF rest
<1>4. MovedTo(u, depths) = {[t \in 1 .. n |-> "\t"] \o Symbols(rest) : n \in depths}
  BY <1>2, Zenon DEF MovedTo, rest
<1>5. Symbols(tabs \o rest) = [t \in 1 .. d |-> "\t"] \o Symbols(rest)
  BY <1>3
<1> QED
  BY <1>4, <1>5, Zenon DEF rest

\* A line of one or, where newlines are escaped, of several lines, indented.
LEMMA IndentedFollows ==
    ASSUME NEW t \in Seq(Cell), AllEscaped(t), ~AllBlank(t), ~HasOpaque(t),
           NEW tabs \in Seq(Cell), NoNewline(tabs),
           NEW depths, NEW d \in depths, Symbols(tabs) = [n \in 1 .. d |-> "\t"]
    PROVE  Follows(t, tabs \o TrimLeft(t), depths)
<1> DEFINE rest == TrimLeft(t)
           f == tabs \o rest
<1>1. /\ rest \in Seq(Cell)
      /\ \A p \in DOMAIN rest : \E q \in DOMAIN t : rest[p] = t[q]
  BY TrimLeftIs
<1>2. CASE NoNewline(t)
  <2>1. NoNewline(rest)
    BY <1>1, <1>2 DEF NoNewline
  <2>2. f \in Seq(Cell) /\ NoNewline(f)
    <3> HIDE DEF rest
    <3> QED
      BY <1>1, <2>1, NoNewlineJoin
  <2>3. Lines(t) = <<t>>
    BY <1>2, LinesNone
  <2>4. Lines(f) = <<f>>
    <3> HIDE DEF f
    <3> QED
      BY <2>2, LinesNone
  <2>5. Symbols(f) \in MovedTo(t, depths)
    BY TabsFollow
  <2> HIDE DEF f
  <2>6. /\ Len(Lines(t)) = 1 /\ Len(Lines(f)) = 1
        /\ Lines(t)[1] = t /\ Lines(f)[1] = f
    BY <2>3, <2>4
  <2>7. Follows(t, f, depths)
    BY <2>5, <2>6 DEF Follows, Moved
  <2> QED
    BY <2>7 DEF f
<1>3. CASE ~NoNewline(t)
  <2>1. PICK u \in Seq(Cell), x \in Cell, v \in Seq(Cell) :
              Broken(t, u, x, v)
    BY <1>3, FirstNewline
  <2>2. Len(u) \in Nat /\ DOMAIN u = 1 .. Len(u) /\ Len(t) \in Nat
    OBVIOUS
  <2>3. Len(u) \in 1 .. Len(u) /\ IsBackslash(u[Len(u)])
    <3>1. Len(u) + 1 \in 1 .. Len(t) /\ IsNewline(t[Len(u) + 1])
      BY <2>1, <2>2 DEF Broken
    <3>2. Len(u) + 1 > 1 /\ IsBackslash(t[Len(u) + 1 - 1])
      BY <3>1 DEF AllEscaped
    <3>3. Len(u) \in 1 .. Len(u) /\ Len(u) + 1 - 1 = Len(u)
      BY <2>2, <3>2
    <3> QED
      BY <2>1, <3>2, <3>3 DEF Broken
  <2>4. ~AllBlank(u)
    <3>1. u[Len(u)][2] \notin Blank
      BY <2>3, Zenon DEF IsBackslash, Blank
    <3> QED
      BY <2>2, <2>3, <3>1 DEF AllBlank
  <2> DEFINE tu == TrimLeft(u)
             head == tabs \o tu
             rows == Lines(v)
             T == Seq(Cell)
  <2>5. tu \in Seq(Cell)
    BY TrimLeftIs
  <2>6. rest = tu \o <<x>> \o v
    <3>1. TrimLeft(u \o <<x>> \o v) = TrimLeft(u) \o <<x>> \o v
      BY <2>4, TrimLeftJoin
    <3> QED
      BY <2>1, <3>1 DEF Broken
  <2>7. f = head \o <<x>> \o v
    <3>1. <<x>> \in Seq(Cell)
      OBVIOUS
    <3> HIDE DEF tu
    <3>2. JoinedAlike(tabs, tu, <<x>>, v)
      BY <2>5, <3>1, JoinsFour, Zenon
    <3> QED
      BY <2>6, <3>2 DEF JoinedAlike
  <2>8. head \in Seq(Cell) /\ NoNewline(head)
    <3>1. NoNewline(tu)
      <4>1. \A p \in DOMAIN tu : \E q \in DOMAIN u : tu[p] = u[q]
        BY TrimLeftIs
      <4> QED
        BY <2>1, <4>1 DEF NoNewline, Broken
    <3> HIDE DEF tu
    <3> QED
      BY <2>5, <3>1, NoNewlineJoin
  <2>9. Symbols(head) \in MovedTo(u, depths)
    BY <2>4, TabsFollow
  <2>10. Lines(t) = <<u>> \o rows
    BY <2>1, LinesCons DEF Broken
  <2> HIDE DEF head
  <2>11. Lines(f) = <<head>> \o rows
    <3>1. IsNewline(x)
      BY <2>1 DEF Broken
    <3>2. Lines(head \o <<x>> \o v) = <<head>> \o Lines(v)
      BY <2>8, <3>1, LinesCons
    <3> QED
      BY <2>7, <3>2
  <2>12. rows \in Seq(T) /\ Len(rows) \in Nat
    BY LinesType, LineCells
  <2>13. u \in T /\ head \in T
    BY <2>8
  <2> HIDE DEF rows, T, f
  <2>14. /\ Len(Lines(t)) = 1 + Len(rows) /\ Lines(t)[1] = u
         /\ Len(Lines(f)) = 1 + Len(rows) /\ Lines(f)[1] = head
         /\ \A k \in 1 .. Len(rows) : Lines(t)[1 + k] = rows[k] /\ Lines(f)[1 + k] = rows[k]
    BY <2>10, <2>11, <2>12, <2>13, ConsIs
  <2>15. ~HasOpaque(u)
    <3>1. \A p \in DOMAIN u : p \in DOMAIN t /\ u[p] = t[p]
      BY <2>1, <2>2 DEF Broken
    <3> QED
      BY <3>1 DEF HasOpaque
  <2>16. Moved(t, f, depths)
    BY <2>9, <2>14, <2>15 DEF Moved
  <2>17. ASSUME NEW k \in 1 .. Len(Lines(t)), k # 1 PROVE Carried(t, f, k)
    <3> DEFINE size == Len(Lines(t))
               later == Len(rows)
    <3>1. later \in Nat /\ size = 1 + later /\ k \in 1 .. size /\ k # 1
      BY <2>12, <2>14, <2>17
    <3> HIDE DEF size, later
    <3>2. k > 1 /\ k - 1 \in 1 .. later /\ 1 + (k - 1) = k
          /\ k - 1 \in 1 .. size /\ k - 1 < size
      BY <3>1
    <3>3. Lines(f)[k] = Lines(t)[k]
      BY <2>14, <3>2 DEF later
    <3>4. Escapes(Lines(t), k - 1)
      BY <3>2, EscapedLines DEF size
    <3> QED
      BY <3>2, <3>3, <3>4 DEF Carried
  <2>18. Follows(t, f, depths)
    BY <2>14, <2>16, <2>17 DEF Follows
  <2> QED
    BY <2>18 DEF f
<1> QED
  BY <1>2, <1>3 DEF f, rest

----------------------------------------------------------------------------
(* Texts: flushing after what has been written.                             *)

LEMMA CarriedIn ==
    ASSUME NEW ls, NEW m, NEW depths,
           HasOpaque(ls[m]) \/ Escapes(ls, m) \/ Escapes(ls, m - 1)
    PROVE  Symbols(ls[m]) \in Reindented(ls, m, depths)
<1> DEFINE kept  == Symbols(ls[m])
           moved == MovedTo(ls[m], IF m = 1 THEN {0} ELSE depths)
<1>1. Reindented(ls, m, depths) =
         IF HasOpaque(ls[m]) THEN {kept}
         ELSE IF Escapes(ls, m) \/ Escapes(ls, m - 1) THEN {kept} \cup moved
         ELSE moved
  BY ReindentedIs
<1> HIDE DEF kept, moved
<1>2. kept \in Reindented(ls, m, depths)
  BY <1>1, Zenon
<1> QED
  BY <1>2 DEF kept

LEMMA MovedIn ==
    ASSUME NEW ls, NEW m, NEW depths, ~HasOpaque(ls[m]),
           NEW y \in MovedTo(ls[m], IF m = 1 THEN {0} ELSE depths)
    PROVE  y \in Reindented(ls, m, depths)
<1> DEFINE kept  == Symbols(ls[m])
           moved == MovedTo(ls[m], IF m = 1 THEN {0} ELSE depths)
<1>1. Reindented(ls, m, depths) =
         IF HasOpaque(ls[m]) THEN {kept}
         ELSE IF Escapes(ls, m) \/ Escapes(ls, m - 1) THEN {kept} \cup moved
         ELSE moved
  BY ReindentedIs
<1>2. y \in moved
  OBVIOUS
<1> HIDE DEF kept, moved
<1> QED
  BY <1>1, <1>2, Zenon

LEMMA SameReindented ==
    ASSUME NEW ls, NEW kk, NEW m, NEW depths, ls[m] = kk[m],
           Escapes(ls, m) <=> Escapes(kk, m), Escapes(ls, m - 1) <=> Escapes(kk, m - 1)
    PROVE  Reindented(ls, m, depths) = Reindented(kk, m, depths)
<1> DEFINE kept  == Symbols(ls[m])
           moved == MovedTo(ls[m], IF m = 1 THEN {0} ELSE depths)
           opaque == HasOpaque(ls[m])
           escaped == Escapes(ls, m) \/ Escapes(ls, m - 1)
           becomes == IF opaque THEN {kept} ELSE IF escaped THEN {kept} \cup moved ELSE moved
<1>1. Reindented(ls, m, depths) = becomes
  BY ReindentedIs
<1>2. Reindented(kk, m, depths) = becomes
  <2> DEFINE kept2  == Symbols(kk[m])
             moved2 == MovedTo(kk[m], IF m = 1 THEN {0} ELSE depths)
             opaque2 == HasOpaque(kk[m])
             escaped2 == Escapes(kk, m) \/ Escapes(kk, m - 1)
  <2>1. Reindented(kk, m, depths) =
           IF opaque2 THEN {kept2} ELSE IF escaped2 THEN {kept2} \cup moved2 ELSE moved2
    BY ReindentedIs
  <2>2. kept2 = kept /\ moved2 = moved /\ (opaque2 <=> opaque) /\ (escaped2 <=> escaped)
    OBVIOUS
  <2> HIDE DEF kept, moved, opaque, escaped, kept2, moved2, opaque2, escaped2
  <2> QED
    BY <2>1, <2>2
<1> QED
  BY <1>1, <1>2

\* The lines of a text whose first line was flushed.
LEMMA FirstFollows ==
    ASSUME NEW t \in Seq(Cell), NEW f \in Seq(Cell), Follows(t, f, {0}), NEW depths
    PROVE  Reindents(t, f, depths)
<1> DEFINE old == Lines(t)
           new == Lines(f)
<1>1. Len(new) = Len(old) /\ DOMAIN old = 1 .. Len(old)
  BY LineCells DEF Follows
<1>2. ASSUME NEW m \in 1 .. Len(old) PROVE Symbols(new[m]) \in Reindented(old, m, depths)
  <2>1. CASE Carried(t, f, m)
    <3>1. new[m] = old[m] /\ (HasOpaque(old[m]) \/ Escapes(old, m) \/ Escapes(old, m - 1))
      BY <2>1 DEF Carried
    <3> HIDE DEF old, new
    <3>2. Symbols(old[m]) \in Reindented(old, m, depths)
      BY <3>1, CarriedIn, Zenon
    <3> QED
      BY <3>1, <3>2
  <2>2. CASE m = 1 /\ Moved(t, f, {0})
    <3> DEFINE y == Symbols(new[m])
    <3>1. ~HasOpaque(old[m]) /\ y \in MovedTo(old[m], IF m = 1 THEN {0} ELSE depths)
      BY <2>2 DEF Moved
    <3> HIDE DEF old, y
    <3>2. y \in Reindented(old, m, depths)
      BY <3>1, MovedIn, Zenon
    <3> QED
      BY <3>2 DEF y
  <2> QED
    BY <2>1, <2>2 DEF Follows
<1> QED
  BY <1>1, <1>2 DEF Reindents

\* The same after a newline.
LEMMA JoinFollows ==
    ASSUME NEW s \in Seq(Cell), NEW o \in Seq(Cell), NEW x \in Cell, IsNewline(x),
           NEW t \in Seq(Cell), NEW f \in Seq(Cell), NEW depths,
           Reindents(s, o, depths), Follows(t, f, depths)
    PROVE  Reindents(s \o <<x>> \o t, o \o <<x>> \o f, depths)
<1> DEFINE T == Seq(Cell)
           ls == Lines(s)
           lo == Lines(o)
           lt == Lines(t)
           lf == Lines(f)
           old == ls \o lt
           new == lo \o lf
<1>1. /\ ls \in Seq(T) /\ Len(ls) \in Nat \ {0} /\ DOMAIN ls = 1 .. Len(ls)
      /\ lo \in Seq(T) /\ Len(lo) \in Nat \ {0} /\ DOMAIN lo = 1 .. Len(lo)
      /\ lt \in Seq(T) /\ Len(lt) \in Nat \ {0}
      /\ lf \in Seq(T) /\ Len(lf) \in Nat \ {0}
  BY LinesType, LineCells
<1>2. Lines(s \o <<x>> \o t) = old /\ Lines(o \o <<x>> \o f) = new
  BY LinesJoin
<1>3. /\ Len(ls) = Len(lo)
      /\ \A m \in 1 .. Len(ls) : Symbols(lo[m]) \in Reindented(ls, m, depths)
  BY <1>1 DEF Reindents
<1>4. /\ Len(lf) = Len(lt)
      /\ \A k \in 1 .. Len(lt) : Carried(t, f, k) \/ (k = 1 /\ Moved(t, f, depths))
  BY DEF Follows
<1> HIDE DEF T, ls, lo, lt, lf
<1>5. /\ Len(old) = Len(ls) + Len(lt) /\ old \in Seq(T)
      /\ \A p \in 1 .. Len(ls) + Len(lt) : old[p] = IF p <= Len(ls) THEN ls[p] ELSE lt[p - Len(ls)]
  BY <1>1, ConcatProperties
<1>6. /\ Len(new) = Len(lo) + Len(lf)
      /\ \A p \in 1 .. Len(lo) + Len(lf) : new[p] = IF p <= Len(lo) THEN lo[p] ELSE lf[p - Len(lo)]
  BY <1>1, ConcatProperties
<1> HIDE DEF old, new
<1>7. DOMAIN old = 1 .. Len(ls) + Len(lt) /\ Len(new) = Len(old)
  BY <1>3, <1>4, <1>5, <1>6
<1>8. ASSUME NEW m \in 1 .. Len(ls) PROVE Symbols(new[m]) \in Reindented(old, m, depths)
  <2>1. old[m] = ls[m] /\ new[m] = lo[m]
    BY <1>1, <1>3, <1>4, <1>5, <1>6
  <2>2. Escapes(ls, m) <=> Escapes(old, m)
    <3>1. m \in DOMAIN ls /\ m \in DOMAIN old
      BY <1>1, <1>7
    <3> QED
      BY <2>1, <3>1, Zenon DEF Escapes
  <2>3. Escapes(ls, m - 1) <=> Escapes(old, m - 1)
    <3>1. CASE m = 1
      <4>1. m - 1 \notin DOMAIN ls /\ m - 1 \notin DOMAIN old
        BY <1>1, <1>7, <3>1
      <4> QED
        BY <4>1, Zenon DEF Escapes
    <3>2. CASE m # 1
      <4>1. m - 1 \in DOMAIN ls /\ m - 1 \in DOMAIN old /\ old[m - 1] = ls[m - 1]
        BY <1>1, <1>5, <1>7, <3>2
      <4> QED
        BY <4>1, Zenon DEF Escapes
    <3> QED
      BY <3>1, <3>2
  <2>4. Reindented(ls, m, depths) = Reindented(old, m, depths)
    BY <2>1, <2>2, <2>3, SameReindented
  <2> QED
    BY <1>3, <2>1, <2>4
<1>9. ASSUME NEW k \in 1 .. Len(lt), NEW m, m = Len(ls) + k
      PROVE  Symbols(new[m]) \in Reindented(old, m, depths)
  <2>1. /\ m \in 1 .. Len(ls) + Len(lt) /\ ~(m <= Len(ls)) /\ m - Len(ls) = k /\ m # 1
        /\ m \in DOMAIN old
    BY <1>1, <1>7, <1>9
  <2>2. old[m] = lt[k] /\ new[m] = lf[k]
    BY <1>3, <1>4, <1>5, <1>6, <2>1
  <2>3. CASE Carried(t, f, k)
    <3>1. /\ lf[k] = lt[k]
          /\ HasOpaque(lt[k]) \/ Escapes(lt, k) \/ (k > 1 /\ Escapes(lt, k - 1))
      BY <2>3 DEF Carried, lf, lt
    <3>2. Escapes(lt, k) => Escapes(old, m)
      BY <2>1, <2>2, Zenon DEF Escapes
    <3>3. k > 1 /\ Escapes(lt, k - 1) => Escapes(old, m - 1)
      <4> SUFFICES ASSUME k > 1, Escapes(lt, k - 1) PROVE Escapes(old, m - 1)
        OBVIOUS
      <4>1. m - 1 \in DOMAIN old /\ old[m - 1] = lt[k - 1]
        <5>1. /\ m - 1 \in 1 .. Len(ls) + Len(lt) /\ ~(m - 1 <= Len(ls))
              /\ m - 1 - Len(ls) = k - 1
          BY <1>1, <1>9, <2>1
        <5> QED
          BY <1>5, <1>7, <5>1
      <4> QED
        BY <4>1, Zenon DEF Escapes
    <3>4. HasOpaque(old[m]) \/ Escapes(old, m) \/ Escapes(old, m - 1)
      BY <2>2, <3>1, <3>2, <3>3
    <3>5. Symbols(old[m]) \in Reindented(old, m, depths)
      BY <3>4, CarriedIn, Zenon
    <3> QED
      BY <2>2, <3>1, <3>5
  <2>4. CASE k = 1 /\ Moved(t, f, depths)
    <3> DEFINE y == Symbols(new[m])
    <3>1. ~HasOpaque(old[m]) /\ y \in MovedTo(old[m], depths)
      BY <2>2, <2>4 DEF Moved, lt, lf
    <3>2. y \in MovedTo(old[m], IF m = 1 THEN {0} ELSE depths)
      BY <2>1, <3>1
    <3> HIDE DEF y
    <3>3. y \in Reindented(old, m, depths)
      BY <3>1, <3>2, MovedIn, Zenon
    <3> QED
      BY <3>3 DEF y
  <2> QED
    BY <1>4, <2>3, <2>4
<1>10. ASSUME NEW m \in DOMAIN old PROVE Symbols(new[m]) \in Reindented(old, m, depths)
  <2>1. CASE m <= Len(ls)
    <3>1. m \in 1 .. Len(ls)
      BY <1>1, <1>7, <2>1
    <3> QED
      BY <1>8, <3>1
  <2>2. CASE ~(m <= Len(ls))
    <3>1. m - Len(ls) \in 1 .. Len(lt) /\ m = Len(ls) + (m - Len(ls))
      BY <1>1, <1>7, <2>2
    <3> QED
      BY <1>9, <3>1
  <2> QED
    BY <2>1, <2>2
<1> QED
  BY <1>2, <1>7, <1>10 DEF Reindents

----------------------------------------------------------------------------
(* The first pass: what is written is the text before the line, re-indented. *)

Depths == 0 .. Len(src)

WrittenAs(o) ==
    /\ out = o \o <<src[lineStart - 1]>>
    /\ Reindents(SubSeq(src, 1, lineStart - 2), o, Depths)

Written ==
    \/ lineStart = 1 /\ out = <<>>
    \/ /\ lineStart > 1 /\ IsNewline(src[lineStart - 1])
       /\ \E o \in Seq(Cell) : WrittenAs(o)

\* Within the line a newline was escaped; the line is verbatim from its first
\* opaque byte on; no line raises the depth by more than its bytes.
InLine ==
    /\ \A p \in lineStart .. i - 1 :
          IsNewline(src[p]) => p > lineStart /\ IsBackslash(src[p - 1])
    /\ verbatim <=> OpaqueIn(lineStart, i - 1)
    /\ depth <= lineStart - 1 /\ linePre <= 0 /\ linePost <= i - lineStart

FirstPass == src = original /\ Sliced(src) /\ Written /\ InLine

LineInv ==
    /\ pass = 1 => FirstPass
    /\ pass = 2 => Reindents(original, src, 0 .. Len(original))

LEMMA LineTextFacts ==
    ASSUME TypeOK
    PROVE  /\ LineText \in Seq(Cell) /\ Len(LineText) = i - lineStart
           /\ \A n \in 1 .. i - lineStart : LineText[n] = src[lineStart + n - 1]
<1> DEFINE to == i - 1
<1>1. to \in Nat /\ to <= Len(src) /\ lineStart <= to + 1 /\ lineStart \in Nat \ {0}
      /\ i - lineStart = to - lineStart + 1
  BY TypeFacts
<1>2. LineText = SubSeq(src, lineStart, to)
  BY DEF LineText
<1> HIDE DEF to
<1>3. \A n \in lineStart .. to : src[n] \in Cell
  BY <1>1, TypeFacts
<1>4. /\ LineText \in Seq(Cell)
      /\ Len(LineText) = IF lineStart <= to THEN to - lineStart + 1 ELSE 0
      /\ \A n \in 1 .. to - lineStart + 1 : LineText[n] = src[lineStart + n - 1]
  BY <1>1, <1>2, <1>3, SubSeqProperties
<1> QED
  BY <1>1, <1>4

\* Where the first line is still being read, its indent is none.
LineDepths == IF lineStart = 1 THEN {0} ELSE Depths

LEMMA FlushedFollows ==
    ASSUME TypeOK, InLine
    PROVE  Follows(LineText, Flushed, LineDepths)
<1> DEFINE t == LineText
           stripped == TrimLeft(t)
           outer == clampDepth(depth + linePre)
           display == IF inSwitch /\ isCaseLabel(stripped) THEN clampDepth(outer - 1) ELSE outer
<1>1. Flushed = IF verbatim THEN t
                ELSE IF stripped = <<>> THEN <<>> ELSE Tabs(display) \o stripped
  BY DEF Flushed, LineText
<1>2. /\ t \in Seq(Cell) /\ Len(t) = i - lineStart
      /\ \A n \in 1 .. i - lineStart : t[n] = src[lineStart + n - 1]
      /\ i \in Nat \ {0} /\ lineStart \in Nat \ {0} /\ lineStart <= i
      /\ DOMAIN t = 1 .. i - lineStart
  BY LineTextFacts, TypeFacts
<1>3. AllEscaped(t)
  <2> SUFFICES ASSUME NEW p \in 1 .. Len(t), IsNewline(t[p])
               PROVE  p > 1 /\ IsBackslash(t[p - 1])
    BY DEF AllEscaped
  <2> DEFINE q == lineStart + p - 1
  <2>1. q \in lineStart .. i - 1 /\ t[p] = src[q]
    BY <1>2
  <2>2. q > lineStart /\ IsBackslash(src[q - 1])
    BY <2>1 DEF InLine
  <2>3. p > 1 /\ p - 1 \in 1 .. i - lineStart /\ lineStart + (p - 1) - 1 = q - 1
    BY <1>2, <2>2
  <2> QED
    BY <1>2, <2>2, <2>3
<1>4. verbatim <=> HasOpaque(t)
  <2>1. ASSUME OpaqueIn(lineStart, i - 1) PROVE HasOpaque(t)
    <3>1. PICK q \in lineStart .. i - 1 : src[q][1] \in Opaque
      BY <2>1 DEF OpaqueIn
    <3> DEFINE p == q - lineStart + 1
    <3>2. p \in 1 .. i - lineStart /\ lineStart + p - 1 = q
      BY <1>2
    <3>3. p \in DOMAIN t /\ t[p] = src[q]
      BY <1>2, <3>2
    <3> HIDE DEF p
    <3> QED
      BY <3>1, <3>3 DEF HasOpaque
  <2>2. ASSUME HasOpaque(t) PROVE OpaqueIn(lineStart, i - 1)
    <3>1. PICK p \in DOMAIN t : t[p][1] \in Opaque
      BY <2>2 DEF HasOpaque
    <3>2. lineStart + p - 1 \in lineStart .. i - 1 /\ t[p] = src[lineStart + p - 1]
      BY <1>2
    <3> QED
      BY <3>1, <3>2 DEF OpaqueIn
  <2> QED
    BY <2>1, <2>2 DEF InLine
<1>5. CASE verbatim
  BY <1>1, <1>2, <1>3, <1>4, <1>5, KeptFollows
<1>6. CASE ~verbatim /\ stripped = <<>>
  <2>1. AllBlank(t)
    BY <1>2, <1>6, TrimLeftIs
  <2>2. Flushed = <<>>
    BY <1>1, <1>6
  <2> QED
    BY <1>2, <1>4, <1>6, <2>1, <2>2, BlankFollows
<1>7. CASE ~verbatim /\ stripped # <<>>
  <2>1. ~AllBlank(t)
    BY <1>2, <1>7, TrimLeftIs
  <2>2. display \in Nat /\ display <= depth
    <3>1. depth \in Nat /\ depth + linePre \in Int /\ depth + linePre <= depth
      BY TypeFacts DEF InLine
    <3>2. outer \in Nat /\ outer <= depth
      BY <3>1 DEF clampDepth
    <3> HIDE DEF outer
    <3>3. clampDepth(outer - 1) \in Nat /\ clampDepth(outer - 1) <= depth
      BY <3>1, <3>2 DEF clampDepth
    <3> QED
      BY <3>2, <3>3
  <2> HIDE DEF display
  <2>3. display \in LineDepths
    <3>1. depth <= lineStart - 1 /\ depth \in Nat /\ lineStart - 1 <= Len(src) /\ Len(src) \in Nat
      BY TypeFacts DEF InLine
    <3> QED
      BY <1>2, <2>2, <3>1 DEF LineDepths, Depths
  <2> DEFINE type == IF lineStart = 1 THEN Literal ELSE src[lineStart - 1][1]
             cell == <<type, "\t">>
             tabs == Tabs(display)
  <2>4. tabs = [p \in 1 .. display |-> cell]
    BY DEF Tabs
  <2>5. tabs \in Seq(Cell)
    BY <2>2, TabsAre
  <2>6. Symbols(tabs) = [p \in 1 .. display |-> "\t"] /\ NoNewline(tabs)
    <3>1. cell[2] = "\t"
      OBVIOUS
    <3>2. ~IsNewline(cell)
      BY <3>1, Zenon DEF IsNewline
    <3> HIDE DEF cell, tabs
    <3> QED
      BY <2>4, <3>1, <3>2 DEF Symbols, NoNewline
  <2> HIDE DEF tabs
  <2>7. Follows(t, tabs \o TrimLeft(t), LineDepths)
    BY <1>2, <1>3, <1>4, <1>7, <2>1, <2>3, <2>5, <2>6, IndentedFollows
  <2> QED
    BY <1>1, <1>7, <2>7 DEF tabs
<1> QED
  BY <1>5, <1>6, <1>7

\* What the first pass has written once the line is flushed.
LEMMA FlushReindents ==
    ASSUME TypeOK, FirstPass
    PROVE  Reindents(SubSeq(src, 1, i - 1), out \o Flushed, Depths)
<1> DEFINE f == Flushed
<1>1. InLine /\ Written
  BY DEF FirstPass
<1>2. Follows(LineText, f, LineDepths) /\ LineText \in Seq(Cell) /\ f \in Seq(Cell)
  BY <1>1, FlushedFollows, FlushedIs, LineTextFacts
<1> HIDE DEF f
<1>3. CASE lineStart = 1 /\ out = <<>>
  <2>1. Reindents(LineText, f, Depths)
    BY <1>2, <1>3, FirstFollows DEF LineDepths
  <2>2. out \o f = f
    BY <1>2, <1>3
  <2> QED
    BY <1>3, <2>1, <2>2 DEF LineText, f
<1>4. CASE lineStart > 1
  <2> DEFINE x == src[lineStart - 1]
             s == SubSeq(src, 1, lineStart - 2)
  <2>1. PICK o \in Seq(Cell) : WrittenAs(o)
    BY <1>1, <1>4, TypeFacts DEF Written
  <2>2. IsNewline(x)
    BY <1>1, <1>4, TypeFacts DEF Written
  <2> DEFINE t == LineText
             b == SubSeq(src, 1, i - 1)
  <2>3. x \in Cell /\ s \in Seq(Cell) /\ b = s \o <<x>> \o t
    <3> DEFINE to == i - 1
               l == lineStart - 1
    <3>1. /\ to \in Nat /\ to <= Len(src) /\ l \in 1 .. to /\ l \in Nat /\ l - 1 \in Nat
          /\ l + 1 = lineStart /\ l - 1 = lineStart - 2 /\ l - 1 <= to
          /\ l + 1 \in Nat \ {0} /\ src \in Seq(Cell)
      BY <1>4, TypeFacts
    <3>2. b \in Seq(Cell) /\ Len(b) = to /\ \A p \in 1 .. to : b[p] = src[p]
      <4> HIDE DEF to
      <4>1. SubSeq(src, 1, to) \in Seq(Cell) /\ Len(SubSeq(src, 1, to)) = to
            /\ \A p \in 1 .. to : SubSeq(src, 1, to)[p] = src[p]
        BY <3>1, PrefixIs
      <4> QED
        BY <4>1 DEF to
    <3> HIDE DEF b
    <3>3. /\ b[l] \in Cell /\ SubSeq(b, 1, l - 1) \in Seq(Cell)
          /\ b = SubSeq(b, 1, l - 1) \o <<b[l]>> \o SubSeq(b, l + 1, Len(b))
      <4> HIDE DEF l
      <4> QED
        BY <3>1, <3>2, SplitAt
    <3>4. b[l] = x
      BY <3>1, <3>2
    <3>5. SubSeq(b, 1, l - 1) = s
      <4> DEFINE m == l - 1
      <4>1. m \in Nat /\ m <= Len(b) /\ m <= Len(src) /\ \A p \in 1 .. m : b[p] = src[p]
        BY <3>1, <3>2
      <4>2. s = SubSeq(src, 1, m)
        BY <3>1
      <4> HIDE DEF m, s
      <4>3. SubSeq(b, 1, m) = SubSeq(src, 1, m)
        BY <3>1, <3>2, <4>1, SamePart
      <4> QED
        BY <4>2, <4>3 DEF m
    <3>6. SubSeq(b, l + 1, Len(b)) = t
      <4> DEFINE from == l + 1
      <4>1. t = SubSeq(src, from, to)
        BY <3>1 DEF LineText
      <4>2. from \in Nat \ {0} /\ to <= Len(b) /\ to \in Nat /\ to <= Len(src)
        BY <3>1, <3>2
      <4> HIDE DEF from, to, t
      <4>3. SubSeq(b, from, to) = SubSeq(src, from, to)
        BY <3>1, <3>2, <4>2, SamePart
      <4> QED
        BY <3>2, <4>1, <4>3 DEF from
    <3> QED
      BY <3>3, <3>4, <3>5, <3>6
  <2>4. Follows(t, f, Depths)
    BY <1>2, <1>4, TypeFacts DEF LineDepths
  <2> HIDE DEF x, s, t, b
  <2>5. Reindents(s \o <<x>> \o t, o \o <<x>> \o f, Depths)
    <3>1. Reindents(s, o, Depths)
      BY <2>1 DEF WrittenAs, s
    <3>2. t \in Seq(Cell)
      BY <1>2 DEF t
    <3> QED
      BY <1>2, <2>2, <2>3, <2>4, <3>1, <3>2, JoinFollows
  <2>6. out = o \o <<x>>
    BY <2>1 DEF WrittenAs, x
  <2> QED
    BY <2>3, <2>5, <2>6 DEF b, f
<1> QED
  BY <1>1, <1>3, <1>4 DEF Written

LEMMA OpaqueBytePasses == TypeOK /\ OpaqueByte => Passes(1)
<1> SUFFICES ASSUME TypeOK, OpaqueByte PROVE Passes(1)
  OBVIOUS
<1>1. /\ i <= Len(src) /\ ~IsNewline(src[i]) /\ src[i][1] \in Opaque
      /\ verbatim' = TRUE /\ i' = i + 1
      /\ UNCHANGED <<src, out, pass, original, depth, lineStart, linePre, linePost>>
  BY Zenon DEF OpaqueByte, At, Advance, Sym, IsNewline
<1>2. /\ i + 1 <= Len(src) + 1 /\ i \in i .. i + 1 - 1
      /\ linePre' \in Int /\ linePost' \in Int
      /\ linePre' <= linePre /\ linePost' <= linePost + 1
  BY <1>1, TypeFacts
<1>3. OpaqueIn(i, i + 1 - 1)
  BY <1>1, <1>2 DEF OpaqueIn
<1>4. verbatim' \in BOOLEAN
  BY <1>1, Zenon
<1> QED
  BY <1>1, <1>2, <1>3, <1>4 DEF Passes

\* A bracket.
LEMMA BracketPasses ==
    ASSUME TypeOK, AtGo({"code"}), i' = i + 1, linePre' \in Int, linePost' \in Int,
           linePre' <= linePre, linePost' <= linePost + 1,
           UNCHANGED <<src, out, pass, original, depth, lineStart, verbatim>>
    PROVE  Passes(1)
<1>1. Plain
  BY GoPlain
<1>2. /\ i \in Nat /\ i + 1 <= Len(src) + 1 /\ ~IsNewline(src[i]) /\ src[i][1] \notin Opaque
  BY <1>1, TypeFacts DEF Plain
<1>3. ~OpaqueIn(i, i + 1 - 1)
  <2>1. \A p \in i .. i + 1 - 1 : p = i
    BY <1>2
  <2> QED
    BY <1>2, <2>1 DEF OpaqueIn
<1> QED
  BY <1>2, <1>3 DEF Passes, TypeOK

LEMMA OpenBracketPasses == TypeOK /\ OpenBracket => Passes(1)
<1> SUFFICES ASSUME TypeOK, OpenBracket PROVE Passes(1)
  OBVIOUS
<1>1. AtGo({"code"})
  BY Zenon DEF OpenBracket
<1>2. /\ linePost' \in {linePost, linePost + 1} /\ i' = i + 1
      /\ UNCHANGED <<src, out, pass, original, depth, lineStart, linePre, verbatim>>
  BY OpenBracketIs
<1>3. /\ linePre' \in Int /\ linePost' \in Int
      /\ linePre' <= linePre /\ linePost' <= linePost + 1
  BY <1>2, TypeFacts
<1> QED
  BY <1>1, <1>2, <1>3, BracketPasses

LEMMA CloseBracketPasses == TypeOK /\ CloseBracket => Passes(1)
<1> SUFFICES ASSUME TypeOK, CloseBracket PROVE Passes(1)
  OBVIOUS
<1>1. /\ AtGo({"code"}) /\ i' = i + 1
      /\ \/ linePre' = linePre /\ linePost' = linePost
         \/ linePre' = linePre - 1 /\ linePost' = linePost
         \/ linePost' = linePost - 1 /\ linePre' = linePre
      /\ UNCHANGED <<src, out, pass, original, depth, lineStart, verbatim>>
  BY Zenon DEF CloseBracket, Advance, Lower
<1>2. /\ linePre' \in Int /\ linePost' \in Int
      /\ linePre' <= linePre /\ linePost' <= linePost + 1
  BY <1>1, TypeFacts
<1> QED
  BY <1>1, <1>2, BracketPasses

LEMMA PassesKeeps ==
    ASSUME TypeOK, FirstPass, NEW n, Passes(n)
    PROVE  FirstPass'
<1>1. /\ n \in {1, 2} /\ i' = i + n /\ i + n <= Len(src) + 1
      /\ depth' = depth /\ linePre' <= linePre /\ linePost' <= linePost + 1
      /\ src' = src /\ out' = out /\ original' = original /\ lineStart' = lineStart
      /\ verbatim' \in BOOLEAN
  BY DEF Passes
<1>2. src' = original' /\ Sliced(src)' /\ Written'
  BY <1>1 DEF FirstPass, Written, WrittenAs, Depths, Sliced
<1>3. /\ i \in Nat \ {0} /\ lineStart \in Nat \ {0} /\ lineStart <= i
      /\ depth \in Nat /\ linePre \in Int /\ linePost \in Int
  BY TypeFacts
<1>4. ASSUME NEW p \in lineStart .. i + n - 1, IsNewline(src[p])
      PROVE  p > lineStart /\ IsBackslash(src[p - 1])
  <2>1. CASE p <= i - 1
    <3>1. p \in lineStart .. i - 1
      BY <1>1, <1>3, <2>1
    <3> QED
      BY <1>4, <3>1 DEF FirstPass, InLine
  <2>2. CASE p = i
    BY <1>4, <2>2 DEF Passes
  <2>3. CASE p = i + 1 /\ n = 2
    <3>1. IsBackslash(src[i]) /\ p - 1 = i /\ p > lineStart
      BY <1>3, <1>4, <2>3 DEF Passes
    <3> QED
      BY <3>1
  <2> QED
    BY <1>1, <1>3, <2>1, <2>2, <2>3
<1>5. verbatim' <=> OpaqueIn(lineStart, i + n - 1)
  <2>1. OpaqueIn(lineStart, i + n - 1) <=> OpaqueIn(lineStart, i - 1) \/ OpaqueIn(i, i + n - 1)
    <3>1. \A p : p \in lineStart .. i + n - 1 <=> p \in lineStart .. i - 1 \/ p \in i .. i + n - 1
      BY <1>1, <1>3
    <3> QED
      BY <3>1 DEF OpaqueIn
  <2>2. verbatim <=> OpaqueIn(lineStart, i - 1)
    BY DEF FirstPass, InLine
  <2>3. /\ verbatim => verbatim'
        /\ verbatim' => verbatim \/ OpaqueIn(i, i + n - 1)
        /\ OpaqueIn(i, i + n - 1) => verbatim'
    BY DEF Passes, FirstPass
  <2> QED
    BY <2>1, <2>2, <2>3
<1>6. verbatim' <=> \E p \in lineStart' .. i' - 1 : src'[p][1] \in Opaque
  <2> DEFINE opaque == \E p \in lineStart .. i + n - 1 : src[p][1] \in Opaque
  <2>1. OpaqueIn(lineStart, i + n - 1) <=> opaque
    BY DEF OpaqueIn
  <2>2. opaque <=> \E p \in lineStart' .. i' - 1 : src'[p][1] \in Opaque
    BY <1>1, <1>3
  <2> QED
    BY <1>5, <2>1, <2>2, Zenon
<1>7. depth' <= lineStart' - 1 /\ linePre' <= 0 /\ linePost' <= i' - lineStart'
  <2>1. depth <= lineStart - 1 /\ linePre <= 0 /\ linePost <= i - lineStart
    BY DEF FirstPass, InLine
  <2>2. linePre' \in Int /\ linePost' \in Int
    BY DEF Passes
  <2> QED
    BY <1>1, <1>3, <2>1, <2>2
<1>8. InLine'
  <2>1. \A p \in lineStart' .. i' - 1 :
            IsNewline(src'[p]) => p > lineStart' /\ IsBackslash(src'[p - 1])
    BY <1>1, <1>3, <1>4
  <2> QED
    BY <1>6, <1>7, <2>1, Zenon DEF InLine, OpaqueIn
<1> QED
  BY <1>2, <1>8 DEF FirstPass

LEMMA NewLineKeeps ==
    ASSUME TypeOK, FirstPass, NewLine
    PROVE  FirstPass'
<1>1. /\ i <= Len(src) /\ IsNewline(src[i])
      /\ out' = out \o Flushed \o <<src[i]>>
      /\ depth' = DepthAfter
      /\ i' = i + 1
      /\ lineStart' = i + 1 /\ linePre' = 0 /\ linePost' = 0
      /\ verbatim' = FALSE
      /\ src' = src /\ original' = original
  BY Zenon DEF NewLine, startLine, Sym, IsNewline
<1>2. i \in Nat \ {0} /\ lineStart \in Nat \ {0} /\ lineStart <= i /\ i + 1 - 2 = i - 1
      /\ depth \in Nat /\ linePre \in Int /\ linePost \in Int
  BY TypeFacts
<1>3. Written'
  <2>1. out \in Seq(Cell) /\ Flushed \in Seq(Cell)
    BY FlushedIs, TypeFacts
  <2>2. PICK o \in Seq(Cell) : o = out \o Flushed
    BY <2>1, ConcatProperties
  <2>3. Reindents(SubSeq(src, 1, i - 1), o, 0 .. Len(src))
    BY <2>2, FlushReindents DEF Depths
  <2>4. lineStart' - 1 = i /\ lineStart' - 2 = i - 1 /\ lineStart' > 1
    BY <1>1, <1>2
  <2>5. out' = o \o <<src[i]>>
    BY <1>1, <2>2
  <2>6. WrittenAs(o)'
    BY <1>1, <2>3, <2>4, <2>5 DEF WrittenAs, Depths
  <2>7. IsNewline(src'[lineStart' - 1])
    BY <1>1, <2>4
  <2> QED
    BY <2>4, <2>6, <2>7 DEF Written
<1>4. depth' <= i
  <2> DEFINE blank == TrimLeft(SubSeq(src, lineStart, i - 1)) = <<>>
             outer == clampDepth(depth + linePre)
  <2>1. depth' = IF verbatim \/ blank THEN depth ELSE clampDepth(outer + linePost)
    BY <1>1 DEF DepthAfter
  <2>2. depth <= lineStart - 1 /\ linePre <= 0 /\ linePost <= i - lineStart
    BY DEF FirstPass, InLine
  <2>3. outer \in Nat /\ outer <= depth
    BY <1>2, <2>2 DEF clampDepth
  <2> HIDE DEF blank, outer
  <2>4. outer + linePost \in Int /\ outer + linePost <= i
    BY <1>2, <2>2, <2>3
  <2>5. clampDepth(outer + linePost) <= i
    BY <1>2, <2>4 DEF clampDepth
  <2> QED
    BY <1>2, <2>1, <2>2, <2>5
<1>5. InLine'
  <2>1. \A p : p \notin lineStart' .. i' - 1
    BY <1>1, <1>2
  <2>2. ~OpaqueIn(lineStart, i - 1)'
    BY <2>1 DEF OpaqueIn
  <2>3. depth' <= lineStart' - 1 /\ linePre' <= 0 /\ linePost' <= i' - lineStart'
    BY <1>1, <1>2, <1>4
  <2> QED
    BY <1>1, <2>1, <2>2, <2>3 DEF InLine
<1> QED
  BY <1>1, <1>3, <1>5 DEF FirstPass, Sliced

LEMMA FinishKeeps ==
    ASSUME TypeOK, FirstPass, Finish
    PROVE  Reindents(original', src', 0 .. Len(original'))
<1>1. i = Len(src) + 1 /\ src' = out \o Flushed /\ original' = original
  BY TypeFacts DEF Finish, AtEnd
<1>2. Reindents(SubSeq(src, 1, i - 1), out \o Flushed, 0 .. Len(src))
  BY FlushReindents DEF Depths
<1>3. SubSeq(src, 1, i - 1) = src
  <2>1. src \in Seq(Cell) /\ Len(src) \in Nat
    BY TypeFacts
  <2>2. i - 1 = Len(src)
    BY <1>1, <2>1
  <2> QED
    BY <2>1, <2>2, SubSeqFull
<1> QED
  BY <1>1, <1>2, <1>3 DEF FirstPass

LEMMA LineInvStep == TypeOK /\ LineInv /\ [Next]_vars => LineInv'
<1> SUFFICES ASSUME TypeOK, LineInv, [Next]_vars PROVE LineInv'
  OBVIOUS
<1>1. ASSUME NEW n, Passes(n) PROVE LineInv'
  <2>1. UNCHANGED <<src, original, pass>>
    BY <1>1 DEF Passes
  <2>2. FirstPass => FirstPass'
    BY <1>1, PassesKeeps
  <2> QED
    BY <2>1, <2>2 DEF LineInv
<1>2. CASE NewLine
  <2>1. UNCHANGED <<src, original, pass>>
    BY <1>2 DEF NewLine
  <2>2. FirstPass => FirstPass'
    BY <1>2, NewLineKeeps
  <2> QED
    BY <2>1, <2>2 DEF LineInv
<1>3. CASE ActionByte \/ RawByte \/ LineCommentByte \/ OtherByte
  <2>1. Passes(1)
    BY <1>3, ActionByteQuiet, RawByteQuiet, LineCommentByteQuiet, OtherByteQuiet DEF Quiet
  <2> QED
    BY <1>1, <2>1
<1>4. CASE BlockCommentByte \/ QuotedByte \/ openGoSubstate
  <2>1. Passes(1) \/ Passes(2)
    BY <1>4, BlockCommentByteQuiet, QuotedByteQuiet, OpenGoSubstateQuiet DEF Quiet
  <2> QED
    BY <1>1, <2>1
<1>5. CASE OpaqueByte \/ OpenBracket \/ CloseBracket
  <2>1. Passes(1)
    BY <1>5, OpaqueBytePasses, OpenBracketPasses, CloseBracketPasses
  <2> QED
    BY <1>1, <2>1
<1>6. CASE Finish
  <2>1. pass = 1 /\ pass' = 2
    BY <1>6 DEF Finish
  <2>2. Reindents(original', src', 0 .. Len(original'))
    BY <1>6, <2>1, FinishKeeps DEF LineInv
  <2> QED
    BY <2>1, <2>2 DEF LineInv
<1>7. CASE FinishAgain
  <2>1. pass' = 3
    BY <1>7 DEF FinishAgain
  <2> QED
    BY <2>1 DEF LineInv
<1>8. CASE UNCHANGED vars
  BY <1>8 DEF vars, line, LineInv, FirstPass, Sliced, Written, WrittenAs, InLine, OpaqueIn, Depths
<1> QED
  BY <1>2, <1>3, <1>4, <1>5, <1>6, <1>7, <1>8 DEF Next

\* What one pass makes of any text is the text with lines re-indented: a line that
\* overlaps a define block or a comment over several lines comes back as it was,
\* of any other only the blanks at its beginning change, no line is lost, and no
\* line moves deeper than the text is long.
THEOREM LinesAreReindented == Spec => []OnlyIndents
<1>1. Init => LineInv
  <2> SUFFICES ASSUME Init PROVE LineInv
    OBVIOUS
  <2>1. /\ src = original /\ i = 1 /\ out = <<>> /\ depth = 0 /\ lineStart = 1
        /\ linePre = 0 /\ linePost = 0 /\ verbatim = FALSE /\ pass = 1
    BY DEF Init
  <2>2. Sliced(src)
    BY <2>1, SlicesAssumption, Zenon DEF Init, Sliced, IsDelim
  <2>3. Written
    BY <2>1 DEF Written
  <2>4. InLine
    <3>1. \A p : p \notin lineStart .. i - 1
      BY <2>1
    <3>2. ~OpaqueIn(lineStart, i - 1)
      BY <3>1 DEF OpaqueIn
    <3> QED
      BY <2>1, <3>1, <3>2 DEF InLine
  <2> QED
    BY <2>1, <2>2, <2>3, <2>4 DEF LineInv, FirstPass
<1>2. IInv /\ LineInv /\ [Next]_vars => LineInv'
  BY LineInvStep DEF IInv
<1>3. LineInv => OnlyIndents
  BY DEF LineInv, OnlyIndents
<1> QED
  BY <1>1, <1>2, <1>3, Inductive, PTL DEF Spec
=============================================================================
