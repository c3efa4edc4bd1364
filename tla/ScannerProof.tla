---------------------------- MODULE ScannerProof ----------------------------
(***************************************************************************)
(* For every set of templates: the scanner's tilings are partitions, its   *)
(* own consistency check never fails, no literal hides a delimiter, the    *)
(* scanner implements Partition, and a sentinel is found in its own place. *)
(***************************************************************************)
EXTENDS Sentinel, TextLemmas

\* The slice Emit appends.
NewSlice(b, type, from, to) ==
    [type |-> type, block |-> b, start |-> from, stop |-> to, standalone |-> FALSE]

\* Appending one element keeps the others and puts it last.
LEMMA AppendedSlice ==
    ASSUME NEW S, NEW ss \in Seq(S), NEW e \in S
    PROVE  /\ Append(ss, e) \in Seq(S)
           /\ Append(ss, e) # <<>>
           /\ Len(Append(ss, e)) = Len(ss) + 1
           /\ Append(ss, e)[Len(ss) + 1] = e
           /\ \A k \in 1 .. Len(ss) : Append(ss, e)[k] = ss[k]
    OBVIOUS

\* A slice that starts where a good tiling ends, is not empty, carries the
\* next block id and does not extend a literal gives a good tiling.
LEMMA AppendGood ==
    ASSUME NEW s \in Seq(Byte), NEW ss \in Seq(Slice), NEW e \in Slice,
           GoodTiling(s, ss),
           e.start = Covered(ss), e.start < e.stop, e.block = NextBlock(ss),
           e.type = Literal => Clean(s, e.start, e.stop),
           e.type = Literal /\ ss # <<>> => ss[Len(ss)].type # Literal
    PROVE  /\ GoodTiling(s, Append(ss, e))
           /\ Covered(Append(ss, e)) = e.stop
           /\ NextBlock(Append(ss, e))
                = e.block + (IF e.type \in {BlockOpen, BlockClose} THEN 1 ELSE 0)
<1> DEFINE tt == Append(ss, e)
           n == Len(ss)
<1>1. /\ tt \in Seq(Slice) /\ tt # <<>> /\ Len(tt) = n + 1 /\ tt[n + 1] = e
      /\ \A k \in 1 .. n : tt[k] = ss[k]
      /\ n \in Nat
  BY AppendedSlice
<1>2. /\ e.start \in Nat \ {0} /\ e.stop \in Nat \ {0} /\ e.block \in Nat
      /\ \A k \in 1 .. n : ss[k].start \in Nat \ {0} /\ ss[k].stop \in Nat \ {0}
  <2>1. \A x \in Slice : x.start \in Nat \ {0} /\ x.stop \in Nat \ {0} /\ x.block \in Nat
    BY DEF Slice
  <2>2. \A k \in 1 .. n : ss[k] \in Slice
    OBVIOUS
  <2> QED
    BY <2>1, <2>2
<1>3. n = 0 <=> ss = <<>>
  OBVIOUS
<1>4. Covered(tt) = e.stop
  BY <1>1 DEF Covered
<1>5. NextBlock(tt) = e.block + (IF e.type \in {BlockOpen, BlockClose} THEN 1 ELSE 0)
  BY <1>1 DEF NextBlock
<1> HIDE DEF tt
<1>6. Contiguous(tt)
  <2>1. ASSUME NEW k \in 1 .. n
        PROVE  /\ tt[k].start < tt[k].stop
               /\ tt[k].start = IF k = 1 THEN 1 ELSE tt[k - 1].stop
    <3>1. tt[k] = ss[k] /\ (k > 1 => k - 1 \in 1 .. n /\ tt[k - 1] = ss[k - 1])
      BY <1>1
    <3>2. ss[k].start < ss[k].stop /\ ss[k].start = IF k = 1 THEN 1 ELSE ss[k - 1].stop
      BY DEF GoodTiling, Contiguous
    <3> QED
      BY <3>1, <3>2
  <2>2. tt[n + 1].start = IF n + 1 = 1 THEN 1 ELSE tt[n].stop
    <3>1. CASE n = 0
      BY <3>1, <1>1, <1>3 DEF Covered
    <3>2. CASE n > 0
      BY <3>2, <1>1, <1>3 DEF Covered
    <3> QED
      BY <3>1, <3>2, <1>1
  <2> QED
    BY <2>1, <2>2, <1>1 DEF Contiguous
<1>7. OneOwner(tt)
  <2>0. \A k \in 1 .. n : ss[k].stop <= e.start
    BY DEF GoodTiling, OneOwner
  <2>1. ASSUME NEW k \in 1 .. n + 1
        PROVE  tt[k].stop <= e.stop
    <3>1. CASE k = n + 1
      BY <3>1, <1>1, <1>2
    <3>2. CASE k \in 1 .. n
      <4>1. tt[k].stop = ss[k].stop /\ ss[k].stop <= e.start /\ ss[k].stop \in Nat
        BY <3>2, <1>1, <1>2, <2>0
      <4> QED
        BY <4>1, <1>2
    <3> QED
      BY <3>1, <3>2, <1>1
  <2>2. ASSUME NEW p \in 1 .. e.stop - 1
        PROVE  \E k \in 1 .. n + 1 :
                  Owns(tt, p, k) /\ \A l \in 1 .. n + 1 : Owns(tt, p, l) => l = k
    <3>1. CASE p < e.start
      <4>1. PICK k \in 1 .. n :
                Owns(ss, p, k) /\ \A l \in 1 .. n : Owns(ss, p, l) => l = k
        BY <3>1, <1>2 DEF GoodTiling, OneOwner
      <4>2. Owns(tt, p, k)
        BY <4>1, <1>1 DEF Owns
      <4>3. \A l \in 1 .. n + 1 : Owns(tt, p, l) => l = k
        <5>1. \A l \in 1 .. n : Owns(tt, p, l) => l = k
          BY <4>1, <1>1 DEF Owns
        <5>2. ~Owns(tt, p, n + 1)
          BY <3>1, <1>1, <1>2 DEF Owns
        <5> QED
          BY <5>1, <5>2, <1>1
      <4> QED
        BY <4>2, <4>3, <1>1
    <3>2. CASE p >= e.start
      <4>1. Owns(tt, p, n + 1)
        BY <3>2, <1>1, <1>2 DEF Owns
      <4>2. \A l \in 1 .. n : ~Owns(tt, p, l)
        BY <3>2, <1>1, <1>2, <2>0 DEF Owns
      <4> QED
        BY <4>1, <4>2, <1>1
    <3> QED
      BY <3>1, <3>2, <1>2
  <2> QED
    BY <2>1, <2>2, <1>1, <1>4 DEF OneOwner
<1>8. Alternating(tt)
  BY <1>1, <1>3 DEF GoodTiling, Alternating
<1>9. CleanLiterals(s, tt)
  BY <1>1 DEF GoodTiling, CleanLiterals
<1>10. Regions(tt)
  <2> DEFINE After(x) == x.block + (IF x.type \in {BlockOpen, BlockClose} THEN 1 ELSE 0)
  <2>1. ASSUME NEW k \in 1 .. n
        PROVE  tt[k].block = IF k = 1 THEN 0 ELSE After(tt[k - 1])
    <3>1. tt[k] = ss[k] /\ (k > 1 => k - 1 \in 1 .. n /\ tt[k - 1] = ss[k - 1])
      BY <1>1
    <3>2. ss[k].block = IF k = 1 THEN 0 ELSE After(ss[k - 1])
      BY DEF GoodTiling, Regions
    <3> QED
      BY <3>1, <3>2
  <2>2. tt[n + 1].block = IF n + 1 = 1 THEN 0 ELSE After(tt[n])
    <3>1. CASE n = 0
      BY <3>1, <1>1, <1>3 DEF NextBlock
    <3>2. CASE n > 0
      BY <3>2, <1>1, <1>3 DEF NextBlock
    <3> QED
      BY <3>1, <3>2, <1>1
  <2> QED
    BY <2>1, <2>2, <1>1 DEF Regions
<1> QED
  BY <1>4, <1>5, <1>6, <1>7, <1>8, <1>9, <1>10 DEF GoodTiling, tt

\* The initial states satisfy the invariant.
LEMMA InitIInv == Init => IInv
<1> SUFFICES ASSUME Init PROVE IInv
  OBVIOUS
<1>1. src \in Seq(Byte) /\ Len(src) \in Nat
  BY SourcesAssumption DEF Init, Start
<1>2. TypeOK
  BY <1>1 DEF Init, Start, TypeOK, Mode, SliceType, Literal, Slice
<1>3. GoodTiling(src, slices)
  BY DEF Init, Start, GoodTiling, Contiguous, OneOwner, Covered, Alternating, CleanLiterals, Regions
<1>4. Cursor
  BY DEF Init, Start, Cursor, Covered, Inside, InText, Clean, NextBlock
<1> QED
  BY <1>2, <1>3, <1>4 DEF Init, Start, IInv

\* The numbers the scanner computes with.
LEMMA TypeFacts ==
    ASSUME TypeOK
    PROVE  /\ src \in Seq(Byte) /\ Len(src) \in Nat
           /\ i \in Nat \ {0} /\ i <= Len(src) + 1
           /\ litStart \in Nat \ {0} /\ litStart <= Len(src) + 1
           /\ open \in Nat \ {0} /\ open <= Len(src) + 1
           /\ depth \in Nat /\ block \in Nat
           /\ slices \in Seq(Slice)
  BY DEF TypeOK

LEMMA ModeFacts ==
    /\ Quote \subseteq Mode
    /\ {"text", "lead", "code", "comment", "close"} \subseteq Mode
    /\ \A q \in Quote : q \notin {"text", "lead", "code", "comment", "close"}
  BY DEF Quote, Mode

LEMMA classifyType == \A w : classify(w) \in SliceType /\ classify(w) # Literal
  BY DEF classify, SliceType, Literal, Action, BlockOpen, BlockMid, BlockClose, Comment, Define

LEMMA TypeNames ==
    /\ Literal \in SliceType /\ Comment \in SliceType /\ Define \in SliceType
    /\ Comment # Literal /\ Define # Literal /\ Action # Literal
    /\ Literal \notin {BlockOpen, BlockClose} /\ Define \notin {BlockOpen, BlockClose}
  BY DEF SliceType, Literal, Action, BlockOpen, BlockMid, BlockClose, Comment, Define

\* A step inside the slice being scanned that emits nothing.
LEMMA InnerStep ==
    ASSUME IInv, pc = "scan", Keep, KeepSlices, UNCHANGED open,
           Inside, Inside',
           i' \in Nat, i <= i', i' <= Len(src) + 1,
           typ' \in SliceType, mode' \in Mode, depth' \in Nat,
           mode' \notin {"text", "lead"} => typ' # Literal
    PROVE  IInv'
<1>1. TypeOK
  BY DEF IInv
<1>2. TypeOK'
  BY <1>1, TypeFacts DEF TypeOK, Keep, KeepSlices
<1>3. GoodTiling(src, slices)'
  BY DEF IInv, Keep, KeepSlices
<1>4. Cursor'
  <2>1. Covered(slices') = open'
    BY DEF IInv, Cursor, KeepSlices
  <2>2. open' + 2 <= i'
    BY <1>1, TypeFacts DEF IInv, Cursor
  <2>3. block' = NextBlock(slices')
    BY DEF IInv, Cursor, KeepSlices
  <2> QED
    BY <2>1, <2>2, <2>3 DEF Cursor
<1> QED
  BY <1>2, <1>3, <1>4 DEF IInv, Keep

\* A step that appends one slice to a good tiling, ending at stop.
LEMMA EmitStep ==
    ASSUME IInv, pc = "scan", NEW type \in SliceType, NEW from, NEW stop \in Nat,
           from = Covered(slices), from < stop, from \in Nat \ {0},
           type = Literal => Clean(src, from, stop),
           type = Literal /\ slices # <<>> => slices[Len(slices)].type # Literal
    PROVE  LET tt == Emit(slices, type, from, stop)
           IN  /\ tt \in Seq(Slice) /\ tt # <<>>
               /\ tt[Len(tt)].type = type
               /\ GoodTiling(src, tt)
               /\ Covered(tt) = stop
               /\ NextBlock(tt)
                    = block + (IF type \in {BlockOpen, BlockClose} THEN 1 ELSE 0)
<1> DEFINE e == NewSlice(block, type, from, stop)
<1>1. TypeOK
  BY DEF IInv
<1>2. e \in Slice
  BY <1>1, TypeFacts DEF NewSlice, Slice
<1>3. e.type = type /\ e.start = from /\ e.stop = stop /\ e.block = block
  BY DEF NewSlice
<1>4. Emit(slices, type, from, stop) = Append(slices, e)
  BY DEF Emit, NewSlice
<1>5. e.block = NextBlock(slices) /\ GoodTiling(src, slices)
  BY <1>3 DEF IInv, Cursor
<1> HIDE DEF e
<1>6. /\ GoodTiling(src, Append(slices, e))
      /\ Covered(Append(slices, e)) = stop
      /\ NextBlock(Append(slices, e))
            = block + (IF type \in {BlockOpen, BlockClose} THEN 1 ELSE 0)
  BY <1>1, <1>2, <1>3, <1>5, TypeFacts, AppendGood
<1> QED
  BY <1>1, <1>2, <1>3, <1>4, <1>6, TypeFacts, AppendedSlice
----------------------------------------------------------------------------
(* One lemma per action: it keeps the invariant.                           *)

LEMMA SkipTextInductive == IInv /\ SkipText => IInv'
<1> SUFFICES ASSUME IInv, SkipText PROVE IInv'
  OBVIOUS
<1>1. TypeOK
  BY DEF IInv
<1>2. pc = "scan" /\ mode = "text" /\ i <= Len(src) /\ i' = i + 1 /\ Keep /\ KeepSlices
      /\ UNCHANGED <<open, typ, mode, depth>>
  BY DEF SkipText, At, Advance
<1>5. ~LeftDelim(src, i)
  BY DEF SkipText
<1>3. CASE depth > 0
  <2>1. Inside /\ Inside'
    BY <1>2, <1>3 DEF Inside
  <2> QED
    BY <1>1, <1>2, <2>1, InnerStep, TypeFacts DEF TypeOK
<1>4. CASE ~(depth > 0)
  <2>1. TypeOK'
    BY <1>1, <1>2, TypeFacts DEF TypeOK, Keep, KeepSlices
  <2>2. GoodTiling(src, slices)'
    BY <1>2 DEF IInv, Keep, KeepSlices
  <2>3. ~Inside /\ ~Inside'
    BY <1>2, <1>4 DEF Inside
  <2>4. InText'
    <3>1. InText
      BY <1>2, <2>3 DEF IInv, Cursor
    <3>2. Clean(src, litStart, i + 1)
      BY <3>1, <1>1, <1>2, <1>5, TypeFacts DEF InText, Clean
    <3> QED
      <4>1. src' = src /\ litStart' = litStart /\ slices' = slices /\ i' = i + 1
        BY <1>2 DEF Keep, KeepSlices
      <4>2. Clean(src', litStart', i')
        BY <3>2, <4>1
      <4>3. litStart' <= i'
        BY <3>1, <4>1, <1>1, TypeFacts DEF InText
      <4> QED
        BY <3>1, <4>1, <4>2, <4>3 DEF InText
  <2>5. Cursor'
    BY <1>2, <2>3, <2>4 DEF IInv, Cursor, KeepSlices
  <2> QED
    BY <1>2, <2>1, <2>2, <2>5 DEF IInv, Keep
<1> QED
  BY <1>3, <1>4

LEMMA PastTrimBound ==
    ASSUME TypeOK, LeftDelim(src, i)
    PROVE  PastTrim \in {2, 3} /\ i + PastTrim <= Len(src) + 1
<1>1. i + 1 <= Len(src)
  BY DEF LeftDelim, Pair
<1>2. CASE PastTrim = 2
  BY <1>1, <1>2, TypeFacts
<1>3. CASE PastTrim # 2
  <2>1. PastTrim = 3 /\ i + 3 <= Len(src)
    BY <1>3, TypeFacts DEF PastTrim, LeftTrim
  <2> QED
    BY <2>1, TypeFacts
<1> QED
  BY <1>2, <1>3

LEMMA OpenSliceInductive == IInv /\ OpenSlice => IInv'
<1> SUFFICES ASSUME IInv, OpenSlice PROVE IInv'
  OBVIOUS
<1>1. TypeOK
  BY DEF IInv
<1>2. /\ pc = "scan" /\ pc' = "scan" /\ src' = src /\ mode = "text" /\ mode' = "lead"
      /\ depth = 0 /\ i' = i + PastTrim /\ open' = i
      /\ UNCHANGED <<litStart, block, typ, depth>>
      /\ slices' = IF i > litStart THEN Emit(slices, Literal, litStart, i) ELSE slices
  BY DEF OpenSlice, At, Advance, Keep
<1>3. PastTrim \in {2, 3} /\ i + PastTrim <= Len(src) + 1
  BY <1>1, PastTrimBound DEF OpenSlice
<1>4. ~Inside /\ Inside'
  BY <1>2 DEF Inside
<1>5. InText /\ Covered(slices) = litStart /\ block = NextBlock(slices)
  BY <1>2, <1>4 DEF IInv, Cursor
<1>6. /\ slices' \in Seq(Slice)
      /\ GoodTiling(src, slices')
      /\ Covered(slices') = i
      /\ NextBlock(slices') = block
  <2>1. CASE i > litStart
    BY <2>1, <1>1, <1>2, <1>5, EmitStep, TypeFacts, TypeNames DEF InText
  <2>2. CASE ~(i > litStart)
    <3>1. i = litStart
      BY <2>2, <1>1, <1>5, TypeFacts DEF InText
    <3> QED
      BY <2>2, <3>1, <1>1, <1>2, <1>5, TypeFacts DEF IInv
  <2> QED
    BY <2>1, <2>2
<1>7. TypeOK'
  BY <1>1, <1>2, <1>3, <1>6, TypeFacts, ModeFacts DEF TypeOK
<1>8. Cursor'
  BY <1>1, <1>2, <1>3, <1>4, <1>6, TypeFacts DEF Cursor
<1> QED
  BY <1>2, <1>6, <1>7, <1>8 DEF IInv

LEMMA OpenInDefineInductive == IInv /\ OpenInDefine => IInv'
<1> SUFFICES ASSUME IInv, OpenInDefine PROVE IInv'
  OBVIOUS
<1>1. TypeOK
  BY DEF IInv
<1>2. /\ pc = "scan" /\ Keep /\ KeepSlices /\ mode' = "lead" /\ depth > 0
      /\ i' = i + PastTrim /\ UNCHANGED <<open, typ, depth>>
  BY DEF OpenInDefine, At, Advance
<1>3. PastTrim \in {2, 3} /\ i + PastTrim <= Len(src) + 1
  BY <1>1, PastTrimBound DEF OpenInDefine
<1>4. Inside /\ Inside'
  BY <1>2 DEF Inside
<1> QED
  BY <1>1, <1>2, <1>3, <1>4, InnerStep, TypeFacts, ModeFacts DEF TypeOK

LEMMA LeadSpaceInductive == IInv /\ LeadSpace => IInv'
<1> SUFFICES ASSUME IInv, LeadSpace PROVE IInv'
  OBVIOUS
<1>1. TypeOK
  BY DEF IInv
<1>2. /\ pc = "scan" /\ Keep /\ KeepSlices /\ UNCHANGED open /\ i <= Len(src)
      /\ mode = "lead" /\ i' = i + 1 /\ UNCHANGED <<typ, mode, depth>>
  BY <1>1, TypeFacts DEF LeadSpace, At, LeftComment, RightComment, Pair, Advance
<1>3. Inside /\ Inside'
  BY <1>2, ModeFacts DEF Inside
<1> QED
  BY <1>1, <1>2, <1>3, InnerStep, TypeFacts, ModeFacts DEF TypeOK, IInv, Cursor

LEMMA LeadCommentInductive == IInv /\ LeadComment => IInv'
<1> SUFFICES ASSUME IInv, LeadComment PROVE IInv'
  OBVIOUS
<1>1. TypeOK
  BY DEF IInv
<1>2. /\ pc = "scan" /\ Keep /\ KeepSlices /\ UNCHANGED open /\ i <= Len(src)
      /\ mode = "lead" /\ mode' = "comment" /\ typ' = Comment
      /\ i' = i + 2 /\ i + 1 <= Len(src) /\ UNCHANGED depth
  BY <1>1, TypeFacts DEF LeadComment, At, LeftComment, RightComment, Pair, Advance
<1>3. Inside /\ Inside'
  BY <1>2, ModeFacts DEF Inside
<1> QED
  BY <1>1, <1>2, <1>3, InnerStep, TypeFacts, ModeFacts, TypeNames DEF TypeOK, IInv, Cursor

LEMMA LeadWordInductive == IInv /\ LeadWord => IInv'
<1> SUFFICES ASSUME IInv, LeadWord PROVE IInv'
  OBVIOUS
<1>1. TypeOK
  BY DEF IInv
<1>2. /\ pc = "scan" /\ Keep /\ KeepSlices /\ UNCHANGED open /\ i <= Len(src)
      /\ mode = "lead" /\ mode' = "code" /\ typ' = classify(src[i])
      /\ UNCHANGED <<i, depth>>
  BY <1>1, TypeFacts DEF LeadWord, At, LeftComment, RightComment, Pair, Advance
<1>3. Inside /\ Inside'
  BY <1>2, ModeFacts DEF Inside
<1> QED
  BY <1>1, <1>2, <1>3, InnerStep, TypeFacts, ModeFacts, classifyType DEF TypeOK, IInv, Cursor

LEMMA CodeByteInductive == IInv /\ CodeByte => IInv'
<1> SUFFICES ASSUME IInv, CodeByte PROVE IInv'
  OBVIOUS
<1>1. TypeOK
  BY DEF IInv
<1>2. /\ pc = "scan" /\ Keep /\ KeepSlices /\ UNCHANGED open /\ i <= Len(src)
      /\ mode = "code" /\ i' = i + 1 /\ UNCHANGED <<typ, mode, depth>>
  BY <1>1, TypeFacts DEF CodeByte, At, LeftComment, RightComment, Pair, Advance
<1>3. Inside /\ Inside'
  BY <1>2, ModeFacts DEF Inside
<1> QED
  BY <1>1, <1>2, <1>3, InnerStep, TypeFacts, ModeFacts DEF TypeOK, IInv, Cursor

LEMMA CodeQuoteInductive == IInv /\ CodeQuote => IInv'
<1> SUFFICES ASSUME IInv, CodeQuote PROVE IInv'
  OBVIOUS
<1>1. TypeOK
  BY DEF IInv
<1>2. /\ pc = "scan" /\ Keep /\ KeepSlices /\ UNCHANGED open /\ i <= Len(src)
      /\ mode = "code" /\ mode' \in Quote /\ i' = i + 1 /\ UNCHANGED <<typ, depth>>
  BY <1>1, TypeFacts DEF CodeQuote, At, LeftComment, RightComment, Pair, Advance
<1>3. Inside /\ Inside'
  BY <1>2, ModeFacts DEF Inside
<1> QED
  BY <1>1, <1>2, <1>3, InnerStep, TypeFacts, ModeFacts DEF TypeOK, IInv, Cursor

LEMMA QuotedByteInductive == IInv /\ QuotedByte => IInv'
<1> SUFFICES ASSUME IInv, QuotedByte PROVE IInv'
  OBVIOUS
<1>1. TypeOK
  BY DEF IInv
<1>2. /\ pc = "scan" /\ Keep /\ KeepSlices /\ UNCHANGED open /\ i <= Len(src)
      /\ mode \in Quote /\ (i' = i + 1 \/ (i' = i + 2 /\ i < Len(src)))
      /\ UNCHANGED <<typ, mode, depth>>
  BY <1>1, TypeFacts DEF QuotedByte, At, LeftComment, RightComment, Pair, Advance, Escape
<1>3. Inside /\ Inside'
  BY <1>2, ModeFacts DEF Inside
<1> QED
  BY <1>1, <1>2, <1>3, InnerStep, TypeFacts, ModeFacts DEF TypeOK, IInv, Cursor

LEMMA QuotedEndInductive == IInv /\ QuotedEnd => IInv'
<1> SUFFICES ASSUME IInv, QuotedEnd PROVE IInv'
  OBVIOUS
<1>1. TypeOK
  BY DEF IInv
<1>2. /\ pc = "scan" /\ Keep /\ KeepSlices /\ UNCHANGED open /\ i <= Len(src)
      /\ mode \in Quote /\ mode' = "code" /\ i' = i + 1 /\ UNCHANGED <<typ, depth>>
  BY <1>1, TypeFacts DEF QuotedEnd, At, LeftComment, RightComment, Pair, Advance
<1>3. Inside /\ Inside'
  BY <1>2, ModeFacts DEF Inside
<1> QED
  BY <1>1, <1>2, <1>3, InnerStep, TypeFacts, ModeFacts DEF TypeOK, IInv, Cursor

LEMMA CommentByteInductive == IInv /\ CommentByte => IInv'
<1> SUFFICES ASSUME IInv, CommentByte PROVE IInv'
  OBVIOUS
<1>1. TypeOK
  BY DEF IInv
<1>2. /\ pc = "scan" /\ Keep /\ KeepSlices /\ UNCHANGED open /\ i <= Len(src)
      /\ mode \in {"comment", "close"} /\ i' = i + 1 /\ UNCHANGED <<typ, mode, depth>>
  BY <1>1, TypeFacts DEF CommentByte, At, LeftComment, RightComment, Pair, Advance
<1>3. Inside /\ Inside'
  BY <1>2, ModeFacts DEF Inside
<1> QED
  BY <1>1, <1>2, <1>3, InnerStep, TypeFacts, ModeFacts DEF TypeOK, IInv, Cursor

LEMMA CommentStarInductive == IInv /\ CommentStar => IInv'
<1> SUFFICES ASSUME IInv, CommentStar PROVE IInv'
  OBVIOUS
<1>1. TypeOK
  BY DEF IInv
<1>2. /\ pc = "scan" /\ Keep /\ KeepSlices /\ UNCHANGED open /\ i <= Len(src)
      /\ mode = "comment" /\ mode' = "close" /\ i' = i + 2 /\ i + 1 <= Len(src)
      /\ UNCHANGED <<typ, depth>>
  BY <1>1, TypeFacts DEF CommentStar, At, LeftComment, RightComment, Pair, Advance
<1>3. Inside /\ Inside'
  BY <1>2, ModeFacts DEF Inside
<1> QED
  BY <1>1, <1>2, <1>3, InnerStep, TypeFacts, ModeFacts DEF TypeOK, IInv, Cursor

\* What the five actions at a closing "}}" have in common.
LEMMA ClosingFacts ==
    ASSUME IInv, Closing
    PROVE  /\ pc = "scan" /\ pc' = "scan" /\ src' = src
           /\ mode \in {"code", "close"} /\ mode' = "text"
           /\ i + 1 <= Len(src) /\ i' = i + 2
           /\ UNCHANGED <<open, typ>>
           /\ typ # Literal
           /\ Covered(slices) = open /\ open + 2 <= i /\ block = NextBlock(slices)
<1>1. /\ pc = "scan" /\ pc' = "scan" /\ src' = src
      /\ mode \in {"code", "close"} /\ mode' = "text"
      /\ i + 1 <= Len(src) /\ i' = i + 2
      /\ UNCHANGED <<open, typ>>
  BY DEF Closing, At, RightDelim, Pair, Advance, Keep
<1>2. Inside
  BY <1>1 DEF Inside
<1>3. Cursor
  BY <1>1 DEF IInv
<1> QED
  BY <1>1, <1>2, <1>3 DEF Cursor

\* The cursor stands right behind the slice just emitted.
LEMMA AfterEmit ==
    ASSUME IInv, Closing, NEW type \in SliceType \ {Literal},
           slices' = Emit(slices, type, open, i + 2), litStart' = i + 2,
           depth' = 0,
           block' = block + (IF type \in {BlockOpen, BlockClose} THEN 1 ELSE 0)
    PROVE  IInv'
<1>1. TypeOK
  BY DEF IInv
<1>2. /\ slices' \in Seq(Slice) /\ slices' # <<>>
      /\ slices'[Len(slices')].type = type
      /\ GoodTiling(src, slices')
      /\ Covered(slices') = i + 2
      /\ NextBlock(slices') = block'
  BY <1>1, ClosingFacts, EmitStep, TypeFacts
<1>3. TypeOK'
  BY <1>1, <1>2, ClosingFacts, TypeFacts, ModeFacts DEF TypeOK
<1>4. ~Inside'
  BY ClosingFacts DEF Inside
<1>5. InText'
  <2>1. Clean(src', litStart', i')
    BY <1>1, ClosingFacts, TypeFacts DEF Clean
  <2> QED
    BY <1>1, <1>2, <2>1, ClosingFacts, TypeFacts DEF InText
<1>6. Cursor'
  BY <1>2, <1>4, <1>5, ClosingFacts DEF Cursor
<1> QED
  BY <1>2, <1>3, <1>6, ClosingFacts DEF IInv

LEMMA EndSliceInductive == IInv /\ EndSlice => IInv'
<1> SUFFICES ASSUME IInv, EndSlice PROVE IInv'
  OBVIOUS
<1>1. /\ Closing /\ depth' = 0 /\ litStart' = i + 2
      /\ slices' = Emit(slices, typ, open, i + 2)
      /\ block' = block + (IF typ \in {BlockOpen, BlockClose} THEN 1 ELSE 0)
  BY DEF EndSlice
<1>2. typ \in SliceType \ {Literal}
  BY <1>1, ClosingFacts DEF IInv, TypeOK
<1> QED
  BY <1>1, <1>2, AfterEmit

LEMMA EndDefineInductive == IInv /\ EndDefine => IInv'
<1> SUFFICES ASSUME IInv, EndDefine PROVE IInv'
  OBVIOUS
<1>1. /\ Closing /\ depth' = 0 /\ litStart' = i + 2 /\ block' = block
      /\ slices' = Emit(slices, Define, open, i + 2)
  BY DEF EndDefine
<1>2. block' = block + (IF Define \in {BlockOpen, BlockClose} THEN 1 ELSE 0)
  BY <1>1, TypeNames, TypeFacts DEF IInv
<1> QED
  BY <1>1, <1>2, AfterEmit, TypeNames

\* A tag inside a define block: only the nesting changes.
LEMMA InDefine ==
    ASSUME IInv, Closing, KeepSlices, depth' \in Nat, depth' > 0
    PROVE  IInv'
<1>1. TypeOK
  BY DEF IInv
<1>2. Keep
  BY DEF Closing
<1>3. Inside /\ Inside'
  BY ClosingFacts DEF Inside
<1> QED
  BY <1>1, <1>2, <1>3, ClosingFacts, InnerStep, TypeFacts, ModeFacts DEF TypeOK

LEMMA EnterBlockInductive == IInv /\ EnterBlock => IInv'
  BY InDefine, TypeFacts DEF EnterBlock, IInv

LEMMA LeaveBlockInductive == IInv /\ LeaveBlock => IInv'
  BY InDefine, TypeFacts DEF LeaveBlock, IInv

LEMMA InsideBlockInductive == IInv /\ InsideBlock => IInv'
  BY InDefine, TypeFacts DEF InsideBlock, IInv

LEMMA UnterminatedInductive == IInv /\ Unterminated => IInv'
  BY DEF Unterminated, IInv, TypeOK, KeepSlices

\* Setting the standalone flags changes nothing the invariant looks at.
LEMMA MarkGood ==
    ASSUME NEW s \in Seq(Byte), NEW ss \in Seq(Slice), GoodTiling(s, ss)
    PROVE  LET tt == markStandaloneActions(s, ss)
           IN  /\ tt \in Seq(Slice)
               /\ GoodTiling(s, tt)
               /\ Covered(tt) = Covered(ss)
<1> DEFINE tt == markStandaloneActions(s, ss)
           n == Len(ss)
<1>1. n \in Nat /\ DOMAIN ss = 1 .. n /\ \A k \in 1 .. n : ss[k] \in Slice
  OBVIOUS
<1>2. ASSUME NEW k \in 1 .. n
      PROVE  /\ tt[k] \in Slice
             /\ tt[k].type = ss[k].type /\ tt[k].block = ss[k].block
             /\ tt[k].start = ss[k].start /\ tt[k].stop = ss[k].stop
  <2>1. tt[k] = [ss[k] EXCEPT !.standalone =
                    ss[k].type = Action /\ standaloneOnLine(s, ss[k].start, ss[k].stop)]
    BY <1>1 DEF markStandaloneActions
  <2>2. (ss[k].type = Action /\ standaloneOnLine(s, ss[k].start, ss[k].stop)) \in BOOLEAN
    BY Zenon
  <2> QED
    BY <1>1, <2>1, <2>2 DEF Slice
<1>3. tt \in Seq(Slice) /\ Len(tt) = n /\ (tt = <<>> <=> ss = <<>>)
  <2>1. DOMAIN tt = 1 .. n /\ tt = [k \in 1 .. n |-> tt[k]]
    BY <1>1 DEF markStandaloneActions
  <2> HIDE DEF tt
  <2>2. tt \in Seq(Slice)
    BY <1>1, <1>2, <2>1
  <2>3. Len(tt) = n
    BY <1>1, <2>1, <2>2
  <2>4. n = 0 <=> ss = <<>>
    OBVIOUS
  <2>5. Len(tt) = 0 <=> tt = <<>>
    BY <2>2
  <2> QED
    BY <2>2, <2>3, <2>4, <2>5
<1> HIDE DEF tt
<1>4. Covered(tt) = Covered(ss)
  BY <1>1, <1>2, <1>3 DEF Covered
<1>5. Contiguous(tt)
  BY <1>1, <1>2, <1>3 DEF GoodTiling, Contiguous
<1>6. OneOwner(tt)
  <2>1. \A p : \A k \in 1 .. n : Owns(tt, p, k) <=> Owns(ss, p, k)
    BY <1>2 DEF Owns
  <2> QED
    BY <1>2, <1>3, <1>4, <2>1 DEF GoodTiling, OneOwner
<1>7. Alternating(tt)
  BY <1>1, <1>2, <1>3 DEF GoodTiling, Alternating
<1>8. CleanLiterals(s, tt)
  BY <1>1, <1>2, <1>3 DEF GoodTiling, CleanLiterals
<1>9. Regions(tt)
  BY <1>1, <1>2, <1>3 DEF GoodTiling, Regions
<1> QED
  BY <1>3, <1>4, <1>5, <1>6, <1>7, <1>8, <1>9 DEF GoodTiling, tt

LEMMA FinishInductive == IInv /\ Finish => IInv'
<1> SUFFICES ASSUME IInv, Finish PROVE IInv'
  OBVIOUS
<1> DEFINE all == IF litStart <= Len(src)
                  THEN Emit(slices, Literal, litStart, Len(src) + 1)
                  ELSE slices
<1>1. TypeOK
  BY DEF IInv
<1>2. /\ pc = "scan" /\ i > Len(src) /\ ~Inside
      /\ slices' = markStandaloneActions(src, all)
      /\ pc' = IF Check(src, slices') THEN "done" ELSE "misTiled"
      /\ UNCHANGED <<src, i, litStart, block, open, typ, mode, depth>>
  BY DEF Finish
<1>3. InText /\ Covered(slices) = litStart /\ i = Len(src) + 1
  BY <1>1, <1>2, TypeFacts DEF IInv, Cursor
<1>4. all \in Seq(Slice) /\ GoodTiling(src, all) /\ Covered(all) = Len(src) + 1
  <2>1. CASE litStart <= Len(src)
    BY <2>1, <1>1, <1>2, <1>3, EmitStep, TypeFacts, TypeNames DEF InText
  <2>2. CASE ~(litStart <= Len(src))
    BY <2>2, <1>1, <1>3, TypeFacts DEF IInv
  <2> QED
    BY <2>1, <2>2
<1> HIDE DEF all
<1>5. /\ slices' \in Seq(Slice)
      /\ GoodTiling(src, slices')
      /\ Covered(slices') = Len(src) + 1
  BY <1>1, <1>2, <1>4, MarkGood, TypeFacts
<1>6. Check(src, slices')
  <2>1. \A k \in 1 .. Len(slices') :
            slices'[k].start \in Nat \ {0} /\ slices'[k].stop \in Nat \ {0}
    <3>1. \A x \in Slice : x.start \in Nat \ {0} /\ x.stop \in Nat \ {0}
      BY DEF Slice
    <3>2. \A k \in 1 .. Len(slices') : slices'[k] \in Slice
      BY <1>5
    <3> QED
      BY <3>1, <3>2
  <2>2. DOMAIN slices' = 1 .. Len(slices')
    BY <1>5
  <2> QED
    BY <1>5, <2>1, <2>2 DEF Check, Covered, GoodTiling, Contiguous
<1>7. pc' = "done"
  BY <1>2, <1>6
<1>8. TypeOK'
  BY <1>1, <1>2, <1>5, <1>7 DEF TypeOK
<1> QED
  BY <1>2, <1>5, <1>7, <1>8 DEF IInv
----------------------------------------------------------------------------
(* The theorems.                                                           *)

LEMMA NextInductive == IInv /\ [Next]_vars => IInv'
<1>1. IInv /\ UNCHANGED vars => IInv'
  BY DEF vars, IInv, TypeOK, Cursor, Inside, InText
<1> QED
  BY <1>1, SkipTextInductive, OpenSliceInductive, OpenInDefineInductive,
     LeadSpaceInductive, LeadCommentInductive, LeadWordInductive,
     CodeByteInductive, CodeQuoteInductive, QuotedByteInductive,
     QuotedEndInductive, CommentByteInductive, CommentStarInductive,
     EndSliceInductive, EnterBlockInductive, LeaveBlockInductive,
     InsideBlockInductive, EndDefineInductive, UnterminatedInductive,
     FinishInductive
  DEF Next

\* The inductive invariant holds in every reachable state of the scanner, for
\* every set of templates.
THEOREM Inductive == Spec => []IInv
  BY InitIInv, NextInductive, PTL DEF Spec

\* Every byte of a template ScanTiling accepts belongs to exactly one slice.
THEOREM Tiled == Spec => []TilesSource
<1>1. IInv => TilesSource
  <2> SUFFICES ASSUME IInv, pc = "done" PROVE TilesSource
    BY DEF TilesSource
  <2>1. /\ slices \in Seq(Slice) /\ OneOwner(slices) /\ Covered(slices) = Len(src) + 1
        /\ Len(src) \in Nat /\ DOMAIN slices = 1 .. Len(slices)
    BY TypeFacts DEF IInv, GoodTiling
  <2>2. \A p \in 1 .. Len(src) :
            \E k \in 1 .. Len(slices) :
                Owns(slices, p, k) /\ \A l \in 1 .. Len(slices) : Owns(slices, p, l) => l = k
    BY <2>1 DEF OneOwner
  <2> QED
    BY <2>1, <2>2 DEF TilesSource, Within, Owns
<1> QED
  BY <1>1, Inductive, PTL

\* ScanTiling's own consistency check never refuses a tiling.
THEOREM CheckNeverFails == Spec => []NeverMisTiled
<1>1. IInv => NeverMisTiled
  BY DEF IInv, NeverMisTiled
<1> QED
  BY <1>1, Inductive, PTL

\* No literal holds a delimiter, so a stub has none left in it.
THEOREM StubIsClean == Spec => []NoHiddenDelimiter
<1>1. IInv => NoHiddenDelimiter
  BY DEF IInv, TypeOK, GoodTiling, CleanLiterals, Clean, NoHiddenDelimiter
<1> QED
  BY <1>1, Inductive, PTL

\* Literals are non-empty and never neighbours: "no literal before this slice"
\* means "adjacent in the source".
THEOREM NoEmptyLiteral == Spec => []LiteralsMaximal
<1>1. IInv => LiteralsMaximal
  <2> SUFFICES ASSUME IInv PROVE LiteralsMaximal
    OBVIOUS
  <2>1. DOMAIN slices = 1 .. Len(slices)
    BY DEF IInv, TypeOK
  <2> QED
    BY <2>1 DEF IInv, GoodTiling, Alternating, Contiguous, LiteralsMaximal
<1> QED
  BY <1>1, Inductive, PTL

\* Block ids number the regions between control tags.
THEOREM BlockIds == Spec => []BlockRegions
<1>1. IInv => BlockRegions
  <2> SUFFICES ASSUME IInv PROVE BlockRegions
    OBVIOUS
  <2>1. DOMAIN slices = 1 .. Len(slices)
    BY DEF IInv, TypeOK
  <2> QED
    BY <2>1 DEF IInv, GoodTiling, Regions, BlockRegions
<1> QED
  BY <1>1, Inductive, PTL
----------------------------------------------------------------------------
(* Refinement: the scanner implements Partition.                           *)

LEMMA PiecesFacts ==
    ASSUME NEW ss \in Seq(Slice)
    PROVE  /\ Pieces(ss) \in Seq(Nat \X Nat)
           /\ Len(Pieces(ss)) = Len(ss)
           /\ Pieces(ss) = <<>> <=> ss = <<>>
           /\ \A k \in 1 .. Len(ss) : Pieces(ss)[k] = <<ss[k].start, ss[k].stop>>
<1> DEFINE pp == Pieces(ss)
<1>1. \A k \in 1 .. Len(ss) : ss[k] \in Slice /\ ss[k].start \in Nat /\ ss[k].stop \in Nat
  <2>1. \A x \in Slice : x.start \in Nat /\ x.stop \in Nat
    BY DEF Slice
  <2> QED
    BY <2>1
<1>2. pp = [k \in 1 .. Len(ss) |-> <<ss[k].start, ss[k].stop>>]
  BY DEF Pieces
<1>3. pp \in Seq(Nat \X Nat) /\ Len(pp) = Len(ss)
  BY <1>1, <1>2
<1>4. pp = <<>> <=> Len(pp) = 0
  BY <1>3
<1>5. ss = <<>> <=> Len(ss) = 0
  OBVIOUS
<1> QED
  BY <1>2, <1>3, <1>4, <1>5

LEMMA PiecesAppend ==
    ASSUME NEW ss \in Seq(Slice), NEW e \in Slice
    PROVE  Pieces(Append(ss, e)) = Append(Pieces(ss), <<e.start, e.stop>>)
<1>1. e.start \in Nat /\ e.stop \in Nat
  BY DEF Slice
<1>2. Append(ss, e) \in Seq(Slice)
  OBVIOUS
<1>3. /\ Pieces(ss) \in Seq(Nat \X Nat)
      /\ Len(Pieces(ss)) = Len(ss)
      /\ \A k \in 1 .. Len(ss) : Pieces(ss)[k] = <<ss[k].start, ss[k].stop>>
  BY PiecesFacts
<1> DEFINE pp == Append(Pieces(ss), <<e.start, e.stop>>)
           qq == Pieces(Append(ss, e))
<1>4. /\ pp \in Seq(Nat \X Nat) /\ Len(pp) = Len(ss) + 1
      /\ pp[Len(ss) + 1] = <<e.start, e.stop>>
      /\ \A k \in 1 .. Len(ss) : pp[k] = <<ss[k].start, ss[k].stop>>
  BY <1>1, <1>3
<1>5. /\ qq \in Seq(Nat \X Nat) /\ Len(qq) = Len(Append(ss, e))
      /\ \A k \in 1 .. Len(Append(ss, e)) :
            qq[k] = <<Append(ss, e)[k].start, Append(ss, e)[k].stop>>
  BY <1>2, PiecesFacts
<1>6. /\ Len(Append(ss, e)) = Len(ss) + 1
      /\ Append(ss, e)[Len(ss) + 1] = e
      /\ \A k \in 1 .. Len(ss) : Append(ss, e)[k] = ss[k]
  BY AppendedSlice
<1> HIDE DEF pp, qq
<1>0. Len(ss) \in Nat
  OBVIOUS
<1>7. \A k \in 1 .. Len(ss) + 1 : pp[k] = qq[k]
  <2>1. ASSUME NEW k \in 1 .. Len(ss) PROVE pp[k] = qq[k]
    <3>1. k \in 1 .. Len(Append(ss, e)) /\ Append(ss, e)[k] = ss[k]
      BY <1>6
    <3> HIDE <1>6
    <3>2. qq[k] = <<ss[k].start, ss[k].stop>>
      BY <1>5, <3>1
    <3> QED
      BY <1>4, <3>2
  <2>2. pp[Len(ss) + 1] = qq[Len(ss) + 1]
    BY <1>4, <1>5, <1>6
  <2> QED
    BY <2>1, <2>2
<1>8. Len(pp) = Len(qq) /\ Len(pp) = Len(ss) + 1
  BY <1>4, <1>5, <1>6
<1>9. pp = qq
  <2>1. pp \in Seq(Nat \X Nat) /\ qq \in Seq(Nat \X Nat)
    BY <1>4, <1>5
  <2>2. \A k \in 1 .. Len(pp) : pp[k] = qq[k]
    BY <1>7, <1>8
  <2> HIDE <1>4, <1>5, <1>6, <1>7
  <2> QED
    BY <2>1, <2>2, <1>8, SeqEqual
<1> QED
  BY <1>9 DEF pp, qq

LEMMA SameCovered ==
    ASSUME NEW ss \in Seq(Slice)
    PROVE  Covered(ss) = IF Pieces(ss) = <<>> THEN 1 ELSE Pieces(ss)[Len(Pieces(ss))][2]
<1>1. ss # <<>> => Len(ss) \in 1 .. Len(ss)
  OBVIOUS
<1> QED
  BY <1>1, PiecesFacts DEF Covered

\* Emitting one slice cuts one piece.
LEMMA EmitCuts ==
    ASSUME IInv, pc = "scan", pc' = pc, src' = src,
           NEW type \in SliceType, NEW from, NEW stop \in Nat,
           from = Covered(slices), from < stop, stop <= Len(src) + 1,
           from \in Nat \ {0},
           slices' = Emit(slices, type, from, stop)
    PROVE  P!Cut
<1>1. TypeOK
  BY DEF IInv
<1> DEFINE e == NewSlice(block, type, from, stop)
<1>2. e \in Slice /\ e.start = from /\ e.stop = stop /\ slices' = Append(slices, e)
  BY <1>1, TypeFacts DEF NewSlice, Slice, Emit
<1> HIDE DEF e
<1>3. Pieces(slices') = Append(Pieces(slices), <<from, stop>>)
  BY <1>1, <1>2, PiecesAppend, TypeFacts
<1>4. P!Covered = from
  BY <1>1, SameCovered, TypeFacts DEF P!Covered
<1>5. stop \in P!Covered + 1 .. Len(src) + 1
  BY <1>1, <1>4, TypeFacts
<1>6. Outcome = "cutting" /\ Outcome' = Outcome
  BY DEF Outcome
<1> QED
  BY <1>3, <1>4, <1>5, <1>6 DEF P!Cut

LEMMA KeepStutters ==
    ASSUME pc' = pc, src' = src, slices' = slices
    PROVE  UNCHANGED P!pvars
  BY DEF P!pvars, Outcome, Pieces

LEMMA InitRefines == Init => P!PInit
<1> SUFFICES ASSUME Init PROVE P!PInit
  OBVIOUS
<1>1. slices = <<>> /\ slices \in Seq(Slice)
  BY DEF Init, Start
<1>2. Pieces(slices) = <<>>
  BY <1>1, PiecesFacts
<1>3. P!Byte = Byte
  BY DEF P!Byte, Byte, P!Space, Space, P!Blank, Blank, P!Quote, Quote, P!Word, Word,
     P!Directive, Directive, P!Mention, Mention,
     P!OpenWord, OpenWord
<1> QED
  BY <1>2, <1>3, SourcesAssumption DEF Init, Start, P!PInit, Outcome

\* Every step of the scanner cuts a piece, ends the partition, or is silent.
LEMMA NextRefines == IInv /\ [Next]_vars => [P!PNext]_P!pvars
<1> SUFFICES ASSUME IInv, [Next]_vars PROVE P!PNext \/ UNCHANGED P!pvars
  OBVIOUS
<1>1. TypeOK
  BY DEF IInv
<1>2. ASSUME pc' = pc, src' = src, slices' = slices PROVE UNCHANGED P!pvars
  BY <1>2, KeepStutters
<1>3. CASE OpenSlice
  <2>1. /\ pc = "scan" /\ pc' = pc /\ src' = src /\ mode = "text" /\ depth = 0 /\ i <= Len(src)
        /\ slices' = IF i > litStart THEN Emit(slices, Literal, litStart, i) ELSE slices
    BY <1>3 DEF OpenSlice, At, Keep
  <2>2. Covered(slices) = litStart
    BY <2>1 DEF IInv, Cursor, Inside
  <2>3. CASE i > litStart
    BY <1>1, <2>1, <2>2, <2>3, EmitCuts, TypeFacts, TypeNames DEF P!PNext
  <2> QED
    BY <1>2, <2>1, <2>3
<1>4. CASE EndSlice
  <2>1. Closing /\ slices' = Emit(slices, typ, open, i + 2)
    BY <1>4 DEF EndSlice
  <2>2. typ \in SliceType
    BY <1>1 DEF TypeOK
  <2> QED
    BY <1>1, <2>1, <2>2, ClosingFacts, EmitCuts, TypeFacts DEF P!PNext
<1>5. CASE EndDefine
  <2>1. Closing /\ slices' = Emit(slices, Define, open, i + 2)
    BY <1>5 DEF EndDefine
  <2> QED
    BY <1>1, <2>1, ClosingFacts, EmitCuts, TypeFacts, TypeNames DEF P!PNext
<1>6. CASE Unterminated
  <2>1. pc = "scan" /\ pc' = "unterminated" /\ src' = src /\ slices' = slices
    BY <1>6 DEF Unterminated, KeepSlices
  <2> QED
    BY <2>1 DEF P!PNext, P!Refuse, Outcome, Pieces
<1>7. CASE Finish
  <2> DEFINE all == IF litStart <= Len(src)
                    THEN Emit(slices, Literal, litStart, Len(src) + 1)
                    ELSE slices
             e == NewSlice(block, Literal, litStart, Len(src) + 1)
  <2>1. /\ pc = "scan" /\ ~Inside /\ src' = src
        /\ slices' = markStandaloneActions(src, all)
    BY <1>7 DEF Finish
  <2>2. Covered(slices) = litStart
    BY <2>1 DEF IInv, Cursor
  <2>3. pc' = "done"
    <3>1. IInv'
      BY <1>7, FinishInductive
    <3> QED
      BY <1>7, <3>1 DEF Finish, IInv
  <2>4. e \in Slice /\ e.start = litStart /\ e.stop = Len(src) + 1
    BY <1>1, TypeFacts, TypeNames DEF NewSlice, Slice
  <2>5. all = IF litStart <= Len(src) THEN Append(slices, e) ELSE slices
    BY DEF Emit, NewSlice
  <2> HIDE DEF e
  <2> HIDE DEF all
  <2>12. slices \in Seq(Slice)
    BY <1>1, TypeFacts
  <2>13. Append(slices, e) \in Seq(Slice)
    BY <2>4, <2>12
  <2>14. Pieces(Append(slices, e)) = Append(Pieces(slices), <<litStart, Len(src) + 1>>)
    BY <2>4, <2>12, PiecesAppend
  <2>6. all \in Seq(Slice)
    BY <2>5, <2>12, <2>13
  <2>7. Pieces(all) = IF litStart <= Len(src)
                      THEN Append(Pieces(slices), <<litStart, Len(src) + 1>>)
                      ELSE Pieces(slices)
    BY <2>5, <2>14
  <2>8. Pieces(slices') = Pieces(all)
    <3>1. DOMAIN slices' = DOMAIN all
      BY <2>1 DEF markStandaloneActions
    <3>2. \A k \in DOMAIN all : slices'[k].start = all[k].start /\ slices'[k].stop = all[k].stop
      <4> SUFFICES ASSUME NEW k \in DOMAIN all
                   PROVE  slices'[k].start = all[k].start /\ slices'[k].stop = all[k].stop
        OBVIOUS
      <4>1. all[k] \in Slice
        BY <2>6
      <4>2. slices'[k] = [all[k] EXCEPT !.standalone =
                all[k].type = Action /\ standaloneOnLine(src, all[k].start, all[k].stop)]
        BY <2>1 DEF markStandaloneActions
      <4> QED
        BY <4>1, <4>2 DEF Slice
    <3> QED
      BY <3>1, <3>2 DEF Pieces
  <2>9. P!Covered = litStart
    BY <1>1, <2>2, SameCovered, TypeFacts DEF P!Covered
  <2>10. Outcome = "cutting" /\ Outcome' = "tiled"
    BY <2>1, <2>3 DEF Outcome
  <2>11. P!Deliver
    BY <2>1, <2>7, <2>8, <2>9, <2>10 DEF P!Deliver
  <2> QED
    BY <2>11 DEF P!PNext
<1>8. CASE UNCHANGED vars
  BY <1>2, <1>8 DEF vars
<1>9. CASE SkipText \/ OpenInDefine \/ LeadSpace \/ LeadComment \/ LeadWord \/ CodeByte
           \/ CodeQuote \/ QuotedByte \/ QuotedEnd \/ CommentByte \/ CommentStar
  BY <1>2, <1>9 DEF SkipText, OpenInDefine, LeadSpace, LeadComment, LeadWord, CodeByte,
     CodeQuote, QuotedByte, QuotedEnd, CommentByte, CommentStar, Keep, KeepSlices
<1>10. CASE EnterBlock \/ LeaveBlock \/ InsideBlock
  BY <1>2, <1>10 DEF EnterBlock, LeaveBlock, InsideBlock, Closing, Keep, KeepSlices
<1> QED
  BY <1>3, <1>4, <1>5, <1>6, <1>7, <1>8, <1>9, <1>10 DEF Next

\* The scanner implements Partition: for every set of templates, ScanTiling
\* cuts a template left to right into non-empty pieces that in the end cover
\* it, or refuses it.
THEOREM ImplementsPartition == Spec => Partitions
  BY Inductive, InitRefines, NextRefines, PTL DEF Spec, P!PSpec, Partitions

----------------------------------------------------------------------------
(* Standalone actions.  IInv does not say where the delimiters are: what    *)
(* is added is that a slice that is no literal begins and ends with a brace, *)
(* which no line holds next to a slice that is alone on it.                  *)

LBrace == "{"
RBrace == "}"

Braced(s, ss) ==
    \A k \in 1 .. Len(ss) :
        ss[k].type # Literal => s[ss[k].start] = LBrace /\ s[ss[k].stop - 1] = RBrace

Marked(s, ss) ==
    \A k \in 1 .. Len(ss) :
        ss[k].standalone => ss[k].type = Action /\ standaloneOnLine(s, ss[k].start, ss[k].stop)

BraceInv ==
    /\ Braced(src, slices) /\ Marked(src, slices)
    /\ pc = "scan" /\ Inside => src[open] = LBrace
    /\ Covered(slices) <= Len(src) + 1

\* A slice as Emit makes it keeps both.
LEMMA EmitBraced ==
    ASSUME NEW ss \in Seq(Slice), NEW s, Braced(s, ss), Marked(s, ss),
           NEW type \in SliceType, NEW from \in Nat \ {0}, NEW to \in Nat \ {0}, block \in Nat,
           type # Literal => s[from] = LBrace /\ s[to - 1] = RBrace
    PROVE  Braced(s, Emit(ss, type, from, to)) /\ Marked(s, Emit(ss, type, from, to))
<1> DEFINE e == [type |-> type, block |-> block, start |-> from, stop |-> to, standalone |-> FALSE]
           tt == Append(ss, e)
<1>1. e \in Slice
  BY DEF Slice
<1>2. e.type = type /\ e.start = from /\ e.stop = to /\ ~e.standalone
  OBVIOUS
<1>3. Emit(ss, type, from, to) = Append(ss, e)
  BY DEF Emit
<1> HIDE DEF e
<1>4. /\ Len(tt) = Len(ss) + 1 /\ tt[Len(ss) + 1] = e /\ Len(ss) \in Nat
      /\ \A k \in 1 .. Len(ss) : tt[k] = ss[k]
  BY <1>1, AppendedSlice
<1> HIDE DEF tt
<1>5. \A k \in 1 .. Len(tt) : k \in 1 .. Len(ss) \/ k = Len(ss) + 1
  BY <1>4
<1>6. Braced(s, tt)
  BY <1>2, <1>4, <1>5 DEF Braced
<1>7. Marked(s, tt)
  BY <1>2, <1>4, <1>5 DEF Marked
<1> QED
  BY <1>3, <1>6, <1>7 DEF tt

LEMMA NextBraced == IInv /\ IInv' /\ BraceInv /\ [Next]_vars => BraceInv'
<1> SUFFICES ASSUME IInv, IInv', BraceInv, [Next]_vars PROVE BraceInv'
  OBVIOUS
<1>1. TypeOK
  BY DEF IInv
<1>0. pc' \in {"scan", "done"} => Covered(slices') <= Len(src') + 1
  <2>1. open' <= Len(src') + 1 /\ litStart' <= Len(src') + 1 /\ Len(src') \in Nat
    BY DEF IInv, TypeOK
  <2>2. CASE pc' = "scan"
    <3>1. Covered(slices') = open' \/ Covered(slices') = litStart'
      BY <2>2 DEF IInv, Cursor
    <3> QED
      BY <2>1, <3>1
  <2>3. CASE pc' = "done"
    BY <2>1, <2>3 DEF IInv
  <2> QED
    BY <2>2, <2>3
<1>2. ASSUME UNCHANGED <<src, slices, open>>, pc' = "scan" /\ Inside' => pc = "scan" /\ Inside
      PROVE  BraceInv'
  BY <1>2 DEF BraceInv
<1>3. CASE SkipText \/ OpenInDefine
  BY <1>2, <1>3 DEF SkipText, OpenInDefine, At, Keep, KeepSlices, Inside
<1>4. CASE LeadSpace \/ LeadComment \/ LeadWord \/ CodeByte \/ CodeQuote \/ QuotedByte
           \/ QuotedEnd \/ CommentByte \/ CommentStar
  <2>1. pc = "scan" /\ mode # "text" /\ UNCHANGED <<src, slices, open, pc>>
    BY <1>4, ModeFacts DEF LeadSpace, LeadComment, LeadWord, CodeByte, CodeQuote, QuotedByte,
       QuotedEnd, CommentByte, CommentStar, At, Keep, KeepSlices
  <2> QED
    BY <1>2, <2>1 DEF Inside
<1>5. CASE EnterBlock \/ LeaveBlock \/ InsideBlock
  <2>1. pc = "scan" /\ mode # "text" /\ UNCHANGED <<src, slices, open>>
    BY <1>5 DEF EnterBlock, LeaveBlock, InsideBlock, Closing, At, Keep, KeepSlices
  <2> QED
    BY <1>2, <2>1 DEF Inside
<1>6. CASE OpenSlice
  <2>1. /\ src' = src /\ open' = i /\ src[i] = LBrace /\ pc = "scan" /\ mode = "text" /\ depth = 0
        /\ slices' = IF i > litStart THEN Emit(slices, Literal, litStart, i) ELSE slices
    BY <1>6 DEF OpenSlice, At, Keep, LeftDelim, Pair, LBrace
  <2>2. Braced(src, slices') /\ Marked(src, slices')
    BY <1>1, <2>1, EmitBraced, TypeFacts, TypeNames DEF BraceInv
  <2>3. pc' = "scan"
    BY <2>1, <1>6 DEF OpenSlice, Keep
  <2> QED
    BY <1>0, <2>1, <2>2, <2>3 DEF BraceInv
<1>7. CASE EndSlice \/ EndDefine
  <2>1. PICK type \in SliceType : slices' = Emit(slices, type, open, i + 2)
    BY <1>1, <1>7, TypeNames DEF EndSlice, EndDefine, TypeOK
  <2>2. /\ pc = "scan" /\ mode # "text" /\ src' = src /\ mode' = "text" /\ depth' = 0
        /\ src[i + 1] = RBrace
    BY <1>7 DEF EndSlice, EndDefine, Closing, At, Keep, RightDelim, Pair, RBrace
  <2>3. src[open] = LBrace /\ (i + 2) - 1 = i + 1
    BY <1>1, <2>2, TypeFacts DEF BraceInv, Inside
  <2>4. Braced(src, slices') /\ Marked(src, slices')
    BY <1>1, <2>1, <2>2, <2>3, EmitBraced, TypeFacts DEF BraceInv
  <2>5. pc' = "scan"
    BY <2>2, <1>7 DEF EndSlice, EndDefine, Closing, Keep
  <2> QED
    BY <1>0, <2>2, <2>4, <2>5 DEF BraceInv, Inside
<1>8. CASE Finish
  <2> DEFINE all == IF litStart <= Len(src)
                    THEN Emit(slices, Literal, litStart, Len(src) + 1)
                    ELSE slices
             tt == markStandaloneActions(src, all)
  <2>1. slices' = tt /\ src' = src /\ pc' = "done"
    BY <1>8 DEF Finish, IInv
  <2>2. all \in Seq(Slice) /\ Braced(src, all)
    <3>1. CASE litStart <= Len(src)
      <4>1. Emit(slices, Literal, litStart, Len(src) + 1) \in Seq(Slice)
        BY <1>1, TypeFacts, TypeNames DEF Emit, Slice
      <4> QED
        BY <1>1, <3>1, <4>1, EmitBraced, TypeFacts, TypeNames DEF BraceInv
    <3>2. CASE ~(litStart <= Len(src))
      BY <1>1, <3>2, TypeFacts DEF BraceInv
    <3> QED
      BY <3>1, <3>2
  <2> HIDE DEF all
  <2>3. Len(tt) = Len(all) /\ DOMAIN tt = DOMAIN all /\ DOMAIN all = 1 .. Len(all)
    <3>1. DOMAIN all = 1 .. Len(all) /\ DOMAIN tt = DOMAIN all /\ Len(all) \in Nat
      BY <2>2 DEF markStandaloneActions
    <3> QED
      BY <3>1
  <2>4. ASSUME NEW k \in 1 .. Len(all)
        PROVE  /\ tt[k].type = all[k].type /\ tt[k].start = all[k].start /\ tt[k].stop = all[k].stop
               /\ tt[k].standalone =
                     (all[k].type = Action /\ standaloneOnLine(src, all[k].start, all[k].stop))
    <3>1. all[k] \in Slice
      BY <2>2
    <3>2. tt[k] = [all[k] EXCEPT !.standalone =
                      all[k].type = Action /\ standaloneOnLine(src, all[k].start, all[k].stop)]
      BY <2>3 DEF markStandaloneActions
    <3> QED
      BY <3>1, <3>2 DEF Slice
  <2> HIDE DEF tt
  <2>5. Braced(src, tt) /\ Marked(src, tt)
    BY <2>2, <2>3, <2>4 DEF Braced, Marked
  <2> QED
    BY <1>0, <2>1, <2>5 DEF BraceInv
<1>9. CASE Unterminated \/ UNCHANGED vars
  BY <1>2, <1>9 DEF Unterminated, KeepSlices, vars, Inside
<1> QED
  BY <1>3, <1>4, <1>5, <1>6, <1>7, <1>8, <1>9 DEF Next

\* A slice that is marked standalone is alone on its source lines: beside it
\* there are blanks, and they belong to literals.
THEOREM StandaloneIsAlone == Spec => []StandaloneAlone
<1>1. Init => BraceInv
  <2> SUFFICES ASSUME Init PROVE BraceInv
    OBVIOUS
  <2>1. slices = <<>> /\ ~Inside /\ Len(src) \in Nat
    BY SourcesAssumption DEF Init, Start, Inside
  <2>2. Covered(slices) = 1
    BY <2>1 DEF Covered
  <2> QED
    BY <2>1, <2>2 DEF BraceInv, Braced, Marked
<1>2. IInv /\ BraceInv => StandaloneAlone
  <2> SUFFICES ASSUME IInv, BraceInv, NEW k \in 1 .. Len(slices), slices[k].standalone
               PROVE  /\ slices[k].type = Action
                      /\ \A p \in 1 .. Len(src) : Beside(p, k) =>
                            /\ src[p] \in Blank
                            /\ \A l \in 1 .. Len(slices) :
                                  Within(p, l) => slices[l].type = Literal
                      /\ k > 1 => slices[k - 1].type = Literal
                      /\ k < Len(slices) => slices[k + 1].type = Literal
    BY DEF StandaloneAlone, IInv, TypeOK
  <2>1. /\ Contiguous(slices) /\ OneOwner(slices) /\ Len(slices) \in Nat
        /\ \A l \in 1 .. Len(slices) : slices[l].start \in Nat \ {0} /\ slices[l].stop \in Nat \ {0}
    <3>1. \A x \in Slice : x.start \in Nat \ {0} /\ x.stop \in Nat \ {0}
      BY DEF Slice
    <3> QED
      BY <3>1 DEF IInv, TypeOK, GoodTiling
  <2>2. standaloneOnLine(src, slices[k].start, slices[k].stop) /\ slices[k].type = Action
    BY DEF BraceInv, Marked
  <2>3. LBrace \notin Blank \cup {"\n"} /\ RBrace \notin Blank \cup {"\n"}
    BY Zenon DEF Blank, LBrace, RBrace
  <2>4. ASSUME k > 1, slices[k - 1].type # Literal PROVE FALSE
    <3> DEFINE p == slices[k].start - 1
    <3>1. k - 1 \in 1 .. Len(slices)
      BY <2>1, <2>4
    <3>2. slices[k].start = slices[k - 1].stop /\ slices[k - 1].start < slices[k - 1].stop
      BY <2>1, <2>4, <3>1 DEF Contiguous
    <3>3. p \in 1 .. slices[k].start - 1 /\ p .. slices[k].start - 1 = {p}
      BY <2>1, <3>1, <3>2
    <3>4. src[p] = RBrace
      BY <2>4, <3>1, <3>2 DEF BraceInv, Braced
    <3> HIDE DEF p
    <3> QED
      BY <2>2, <2>3, <3>3, <3>4 DEF standaloneOnLine
  <2>5. ASSUME k < Len(slices), slices[k + 1].type # Literal PROVE FALSE
    <3> DEFINE p == slices[k].stop
    <3>1. k + 1 \in 1 .. Len(slices)
      BY <2>1, <2>5
    <3>2. slices[k + 1].start = p /\ slices[k + 1].start < slices[k + 1].stop
      BY <2>1, <2>5, <3>1 DEF Contiguous
    <3>3. Covered(slices) <= Len(src) + 1 /\ slices[k + 1].stop <= Covered(slices)
      BY <2>1, <3>1 DEF BraceInv, OneOwner
    <3>4. p \in slices[k].stop .. Len(src) /\ p .. p = {p}
      BY <2>1, <3>1, <3>2, <3>3, TypeFacts DEF IInv, Covered
    <3>5. src[p] = LBrace
      BY <2>5, <3>1, <3>2 DEF BraceInv, Braced
    <3> HIDE DEF p
    <3> QED
      BY <2>2, <2>3, <3>4, <3>5 DEF standaloneOnLine, p
  <2>6. ASSUME NEW p \in 1 .. Len(src), Beside(p, k)
        PROVE  src[p] \in Blank
    <3>1. /\ \A q \in 1 .. slices[k].start - 1 :
                src[q] \in Blank \/ \E r \in q .. slices[k].start - 1 : src[r] = "\n"
          /\ \A q \in slices[k].stop .. Len(src) :
                src[q] \in Blank \/ \E r \in slices[k].stop .. q : src[r] = "\n"
      BY <2>2 DEF standaloneOnLine
    <3>2. slices[k].start \in Nat /\ slices[k].stop \in Nat /\ Len(src) \in Nat
      BY <2>1, TypeFacts DEF IInv
    <3>3. CASE p < slices[k].start /\ \A q \in p .. slices[k].start - 1 : src[q] # "\n"
      <4>1. p \in 1 .. slices[k].start - 1
        BY <3>2, <3>3
      <4> QED
        BY <3>1, <3>3, <4>1
    <3>4. CASE slices[k].stop <= p /\ \A q \in slices[k].stop .. p : src[q] # "\n"
      <4>1. p \in slices[k].stop .. Len(src)
        BY <3>2, <3>4
      <4> QED
        BY <3>1, <3>4, <4>1
    <3> QED
      BY <2>6, <3>3, <3>4 DEF Beside
  <2>7. ASSUME NEW p \in 1 .. Len(src), Beside(p, k), NEW l \in 1 .. Len(slices), Within(p, l),
               slices[l].type # Literal
        PROVE  FALSE
    <3> DEFINE first == slices[l].start
               last == slices[l].stop - 1
    <3>1. /\ first \in Nat \ {0} /\ last \in Nat /\ p \in first .. last /\ last <= Len(src)
          /\ src[first] = LBrace /\ src[last] = RBrace /\ Len(src) \in Nat
      <4>1. slices[l].stop <= Covered(slices) /\ Covered(slices) <= Len(src) + 1
        BY <2>1 DEF BraceInv, OneOwner
      <4>2. src[first] = LBrace /\ src[last] = RBrace
        BY <2>7 DEF BraceInv, Braced
      <4>3. Covered(slices) \in Nat /\ Len(src) \in Nat
        BY <2>1, TypeFacts DEF IInv, Covered
      <4> QED
        BY <2>1, <2>7, <4>1, <4>2, <4>3 DEF Within
    <3>2. /\ slices[k].start \in Nat \ {0} /\ slices[k].stop \in Nat /\ slices[k].start < slices[k].stop
          /\ slices[l].stop = last + 1 /\ Covered(slices) \in Nat
      <4>1. slices[l].stop \in Nat \ {0} /\ slices[k].start < slices[k].stop
        BY <2>1 DEF Contiguous
      <4> QED
        BY <2>1, <4>1, TypeFacts DEF IInv, Covered
    <3>3. k # l
      BY <2>1, <2>7, <3>2 DEF Beside, Within
    <3>4. slices[k].stop <= Covered(slices) /\ slices[l].stop <= Covered(slices)
      BY <2>1 DEF OneOwner
    <3>5. CASE p < slices[k].start
      <4>1. last < slices[k].start
        <5>1. SUFFICES ASSUME slices[k].start <= last PROVE FALSE
          BY <3>1, <3>2
        <5>2. Owns(slices, slices[k].start, k) /\ Owns(slices, slices[k].start, l)
          BY <3>1, <3>2, <3>5, <5>1 DEF Owns
        <5>3. slices[k].start \in 1 .. Covered(slices) - 1
          BY <3>2, <3>4, <2>1
        <5> QED
          BY <2>1, <3>3, <5>2, <5>3 DEF OneOwner
      <4>2. \A q \in p .. slices[k].start - 1 : src[q] # "\n"
        BY <2>7, <3>1, <3>2, <3>5 DEF Beside
      <4>3. last \in 1 .. slices[k].start - 1 /\ \A q \in last .. slices[k].start - 1 : q \in p .. slices[k].start - 1
        BY <3>1, <3>2, <4>1
      <4> QED
        BY <2>2, <2>3, <3>1, <4>2, <4>3 DEF standaloneOnLine
    <3>6. CASE slices[k].stop <= p
      <4>1. slices[k].stop <= first
        <5>1. SUFFICES ASSUME first < slices[k].stop PROVE FALSE
          BY <3>1, <3>2
        <5>2. slices[k].stop - 1 \in 1 .. Covered(slices) - 1
          BY <3>2, <3>4
        <5>3. Owns(slices, slices[k].stop - 1, k) /\ Owns(slices, slices[k].stop - 1, l)
          BY <3>1, <3>2, <3>6, <5>1 DEF Owns
        <5> QED
          BY <2>1, <3>3, <5>2, <5>3 DEF OneOwner
      <4>2. \A q \in slices[k].stop .. p : src[q] # "\n"
        BY <2>7, <3>1, <3>2, <3>6 DEF Beside
      <4>3. first \in slices[k].stop .. Len(src) /\ \A q \in slices[k].stop .. first : q \in slices[k].stop .. p
        BY <3>1, <3>2, <4>1
      <4> QED
        BY <2>2, <2>3, <3>1, <4>2, <4>3 DEF standaloneOnLine
    <3> QED
      BY <2>7, <3>5, <3>6 DEF Beside
  <2> QED
    BY <2>2, <2>4, <2>5, <2>6, <2>7
<1> QED
  BY <1>1, <1>2, NextBraced, Inductive, PTL DEF Spec

----------------------------------------------------------------------------
(* Numerals: no two numbers share one.                                    *)

Digit == {"0", "1"}
OneDigit(n) == <<IF n = 0 THEN "0" ELSE "1">>

\* f is Numeral up to m.
Numbers(f, m) ==
    f = [n \in 0 .. m |-> IF n < 2 THEN OneDigit(n) ELSE f[n \div 2] \o f[n % 2]]

\* A number of two or more is more than its half.
LEMMA Halves ==
    ASSUME NEW n \in Nat, n >= 2
    PROVE  /\ n \div 2 \in Nat /\ n \div 2 >= 1 /\ n \div 2 < n
           /\ n % 2 = 0 \/ n % 2 = 1
  OBVIOUS

\* Halves and remainders tell numbers apart.
LEMMA HalvesAgree ==
    ASSUME NEW m \in Nat, NEW n \in Nat, m \div 2 = n \div 2, m % 2 = n % 2
    PROVE  m = n
  OBVIOUS

\* Two tables of numerals agree where both are defined.
LEMMA NumbersAgree ==
    ASSUME NEW m \in Nat, NEW l \in Nat, NEW f, NEW g, Numbers(f, m), Numbers(g, l),
           NEW n \in Nat, n <= m, n <= l
    PROVE  f[n] = g[n]
<1> DEFINE bad == {q \in Nat : q <= m /\ q <= l /\ f[q] # g[q]}
<1> SUFFICES ASSUME bad # {} PROVE FALSE
  OBVIOUS
<1>1. PICK q \in bad : \A p \in bad : q <= p
  <2>1. bad \subseteq Nat
    OBVIOUS
  <2> HIDE DEF bad
  <2> QED
    BY <2>1, Least
<1>2. q \in Nat /\ q <= m /\ q <= l /\ f[q] # g[q]
  BY <1>1
<1>3. /\ f[q] = IF q < 2 THEN OneDigit(q) ELSE f[q \div 2] \o f[q % 2]
      /\ g[q] = IF q < 2 THEN OneDigit(q) ELSE g[q \div 2] \o g[q % 2]
  <2>1. q \in 0 .. m /\ q \in 0 .. l
    BY <1>2
  <2> QED
    BY <2>1 DEF Numbers
<1>4. q >= 2
  BY <1>2, <1>3
<1>5. /\ q \div 2 \in Nat /\ q \div 2 < q /\ q % 2 \in Nat /\ q % 2 < q
  BY <1>2, <1>4, Halves
<1>6. q \div 2 \notin bad /\ q % 2 \notin bad
  <2> HIDE DEF bad
  <2> QED
    BY <1>1, <1>2, <1>5
<1>7. f[q \div 2] = g[q \div 2] /\ f[q % 2] = g[q % 2]
  BY <1>2, <1>5, <1>6
<1> QED
  BY <1>2, <1>3, <1>7

\* There is one up to every number.
LEMMA NumbersExist ==
    ASSUME NEW m \in Nat
    PROVE  \E f : Numbers(f, m)
<1> DEFINE bad == {q \in Nat : ~ \E f : Numbers(f, q)}
<1> SUFFICES ASSUME bad # {} PROVE FALSE
  OBVIOUS
<1>1. PICK q \in bad : \A p \in bad : q <= p
  <2>1. bad \subseteq Nat
    OBVIOUS
  <2> HIDE DEF bad
  <2> QED
    BY <2>1, Least
<1>2. q \in Nat /\ ~ \E f : Numbers(f, q)
  BY <1>1
<1>3. q >= 2
  <2> SUFFICES ASSUME q < 2 PROVE FALSE
    BY <1>2
  <2>1. \A n \in 0 .. q : n < 2
    BY <1>2
  <2>2. Numbers([n \in 0 .. q |-> OneDigit(n)], q)
    BY <2>1 DEF Numbers
  <2> QED
    BY <1>2, <2>2
<1>4. q - 1 \in Nat /\ q - 1 < q
  BY <1>2, <1>3
<1>5. PICK f : Numbers(f, q - 1)
  <2>1. q - 1 \notin bad
    <3> HIDE DEF bad
    <3> QED
      BY <1>1, <1>2, <1>4
  <2> QED
    BY <1>4, <2>1
<1> DEFINE g == [n \in 0 .. q |-> IF n = q THEN f[q \div 2] \o f[q % 2] ELSE f[n]]
<1>6. ASSUME NEW n \in 0 .. q
      PROVE  g[n] = IF n < 2 THEN OneDigit(n) ELSE g[n \div 2] \o g[n % 2]
  <2>1. CASE n = q
    <3>1. /\ q \div 2 \in 0 .. q /\ q \div 2 # q /\ q % 2 \in 0 .. q /\ q % 2 # q
      BY <1>2, <1>3, Halves
    <3>2. g[q \div 2] = f[q \div 2] /\ g[q % 2] = f[q % 2]
      BY <3>1
    <3>3. g[q] = f[q \div 2] \o f[q % 2]
      <4>1. q \in 0 .. q
        BY <1>2
      <4> QED
        BY <4>1
    <3>4. ~(q < 2)
      BY <1>2, <1>3
    <3> HIDE DEF g
    <3>5. g[q] = g[q \div 2] \o g[q % 2]
      BY <3>2, <3>3
    <3> QED
      BY <2>1, <3>4, <3>5
  <2>2. CASE n # q
    <3>1. n \in 0 .. q - 1 /\ n \in Nat
      BY <1>2, <2>2
    <3>2. f[n] = IF n < 2 THEN OneDigit(n) ELSE f[n \div 2] \o f[n % 2]
      BY <1>5, <3>1 DEF Numbers
    <3>3. g[n] = f[n]
      BY <2>2
    <3>4. CASE n < 2
      BY <3>2, <3>3, <3>4
    <3>5. CASE ~(n < 2)
      <4>1. /\ n \div 2 \in 0 .. q /\ n \div 2 # q /\ n % 2 \in 0 .. q /\ n % 2 # q
        BY <1>2, <3>1, <3>5, Halves
      <4>2. g[n \div 2] = f[n \div 2] /\ g[n % 2] = f[n % 2]
        BY <4>1
      <4> QED
        BY <3>2, <3>3, <3>5, <4>2
    <3> QED
      BY <3>4, <3>5
  <2> QED
    BY <2>1, <2>2
<1>7. g = [n \in 0 .. q |-> g[n]]
  OBVIOUS
<1> HIDE DEF g
<1>8. Numbers(g, q)
  BY <1>6, <1>7 DEF Numbers
<1> QED
  BY <1>2, <1>8

\* Numeral is what it says.
LEMMA NumeralIs ==
    /\ \A n \in {0, 1} : Numeral[n] = OneDigit(n)
    /\ \A n \in Nat : n >= 2 => Numeral[n] = Numeral[n \div 2] \o OneDigit(n % 2)
<1> DEFINE F(n) == CHOOSE f : Numbers(f, n)
           h == [n \in Nat |-> F(n)[n]]
<1>1. \A n \in Nat : Numbers(F(n), n)
  BY NumbersExist
<1>2. ASSUME NEW n \in Nat
      PROVE  h[n] = IF n < 2 THEN OneDigit(n) ELSE h[n \div 2] \o h[n % 2]
  <2>1. Numbers(F(n), n)
    BY <1>1
  <2>2. h[n] = F(n)[n]
    OBVIOUS
  <2>3. F(n)[n] = IF n < 2 THEN OneDigit(n) ELSE F(n)[n \div 2] \o F(n)[n % 2]
    <3>1. n \in 0 .. n
      OBVIOUS
    <3> HIDE DEF F
    <3> QED
      BY <2>1, <3>1 DEF Numbers
  <2>4. CASE n < 2
    BY <2>2, <2>3, <2>4
  <2>5. CASE ~(n < 2)
    <3> DEFINE a == n \div 2
               b == n % 2
    <3>1. a \in Nat /\ a <= n /\ a <= a /\ b \in Nat /\ b <= n /\ b <= b
      BY <2>5, Halves
    <3>2. Numbers(F(a), a) /\ Numbers(F(b), b)
      BY <1>1, <3>1
    <3>3. h[a] = F(a)[a] /\ h[b] = F(b)[b]
      BY <3>1
    <3> HIDE DEF F, a, b
    <3>4. F(n)[a] = F(a)[a] /\ F(n)[b] = F(b)[b]
      BY <2>1, <3>1, <3>2, NumbersAgree
    <3>5. F(n)[n] = F(n)[a] \o F(n)[b]
      BY <2>3, <2>5 DEF a, b
    <3>6. h[n] = h[a] \o h[b]
      BY <2>2, <3>3, <3>4, <3>5
    <3> QED
      BY <2>5, <3>6 DEF a, b
  <2> QED
    BY <2>4, <2>5
<1> HIDE DEF F
<1>3. h = [n \in Nat |-> h[n]]
  OBVIOUS
<1> HIDE DEF h
<1>4. h = [n \in Nat |-> IF n < 2 THEN <<IF n = 0 THEN "0" ELSE "1">> ELSE h[n \div 2] \o h[n % 2]]
  BY <1>2, <1>3 DEF OneDigit
<1> DEFINE g == CHOOSE f : f = [n \in Nat |-> IF n < 2 THEN <<IF n = 0 THEN "0" ELSE "1">>
                                               ELSE f[n \div 2] \o f[n % 2]]
<1>5. g = [n \in Nat |-> IF n < 2 THEN <<IF n = 0 THEN "0" ELSE "1">>
                         ELSE g[n \div 2] \o g[n % 2]]
  BY <1>4
<1>6. Numeral = g
  BY DEF Numeral
<1> HIDE DEF g
<1>7. \A n \in Nat : Numeral[n] = IF n < 2 THEN OneDigit(n) ELSE Numeral[n \div 2] \o Numeral[n % 2]
  BY <1>5, <1>6 DEF OneDigit
<1>8. \A n \in {0, 1} : Numeral[n] = OneDigit(n)
  BY <1>7
<1>9. ASSUME NEW n \in Nat, n >= 2 PROVE Numeral[n] = Numeral[n \div 2] \o OneDigit(n % 2)
  <2>1. n % 2 \in {0, 1}
    BY <1>9, Halves
  <2>2. Numeral[n % 2] = OneDigit(n % 2)
    BY <1>8, <2>1
  <2>3. Numeral[n] = Numeral[n \div 2] \o Numeral[n % 2]
    <3>1. ~(n < 2)
      BY <1>9
    <3>2. Numeral[n] = IF n < 2 THEN OneDigit(n) ELSE Numeral[n \div 2] \o Numeral[n % 2]
      BY <1>7
    <3> QED
      BY <3>1, <3>2, Zenon
  <2> QED
    BY <2>2, <2>3
<1> QED
  BY <1>8, <1>9

\* A numeral is made of digits.
LEMMA NumeralType ==
    ASSUME NEW n \in Nat
    PROVE  /\ Numeral[n] \in Seq(Digit) /\ Len(Numeral[n]) \in Nat
           /\ Len(Numeral[n]) > 0 /\ (n >= 2 => Len(Numeral[n]) > 1)
<1> DEFINE Fits(q) == /\ Numeral[q] \in Seq(Digit) /\ Len(Numeral[q]) \in Nat
                      /\ Len(Numeral[q]) > 0 /\ (q >= 2 => Len(Numeral[q]) > 1)
           bad == {q \in Nat : ~Fits(q)}
<1> SUFFICES ASSUME bad # {} PROVE FALSE
  OBVIOUS
<1>1. PICK q \in bad : \A p \in bad : q <= p
  <2>1. bad \subseteq Nat
    OBVIOUS
  <2> HIDE DEF bad
  <2> QED
    BY <2>1, Least
<1>2. q \in Nat /\ ~Fits(q)
  BY <1>1
<1>3. \A p : OneDigit(p) \in Seq(Digit) /\ Len(OneDigit(p)) = 1
  BY DEF OneDigit, Digit
<1>4. CASE q < 2
  <2>1. q \in {0, 1}
    BY <1>2, <1>4
  <2>2. Numeral[q] = OneDigit(q)
    BY <2>1, NumeralIs
  <2>3. Numeral[q] \in Seq(Digit) /\ Len(Numeral[q]) = 1
    BY <1>3, <2>2
  <2>4. ~(q >= 2)
    BY <1>2, <1>4
  <2> QED
    BY <1>2, <2>3, <2>4
<1>5. CASE q >= 2
  <2> DEFINE a == q \div 2
             b == OneDigit(q % 2)
             s == Numeral[a]
  <2>1. a \in Nat /\ a < q
    BY <1>2, <1>5, Halves
  <2>2. Numeral[q] = s \o b
    BY <1>2, <1>5, NumeralIs
  <2> HIDE DEF a
  <2>3. s \in Seq(Digit) /\ Len(s) \in Nat /\ Len(s) > 0
    <3>1. a \notin bad
      <4> HIDE DEF bad
      <4> QED
        BY <1>1, <1>2, <2>1
    <3> QED
      BY <2>1, <3>1
  <2>4. b \in Seq(Digit) /\ Len(b) = 1
    BY <1>3
  <2> HIDE DEF s, b
  <2>5. s \o b \in Seq(Digit) /\ Len(s \o b) = Len(s) + Len(b)
    BY <2>3, <2>4, ConcatProperties
  <2>6. Fits(q)
    BY <2>2, <2>3, <2>4, <2>5
  <2> QED
    BY <1>2, <2>6
<1> QED
  BY <1>2, <1>4, <1>5

\* Two numbers have two numerals.
LEMMA NumeralUnique ==
    ASSUME NEW m \in Nat, NEW n \in Nat, Numeral[m] = Numeral[n]
    PROVE  m = n
<1> DEFINE bad == {q \in Nat : \E p \in Nat : Numeral[p] = Numeral[q] /\ p # q}
<1> SUFFICES ASSUME bad # {} PROVE FALSE
  OBVIOUS
<1>1. PICK q \in bad : \A p \in bad : q <= p
  <2>1. bad \subseteq Nat
    OBVIOUS
  <2> HIDE DEF bad
  <2> QED
    BY <2>1, Least
<1>2. PICK p \in Nat : q \in Nat /\ Numeral[p] = Numeral[q] /\ p # q
  BY <1>1
<1>3. p >= 2 <=> q >= 2
  <2>1. \A x \in Nat : x >= 2 <=> Len(Numeral[x]) > 1
    <3> SUFFICES ASSUME NEW x \in Nat, ~(x >= 2) PROVE ~(Len(Numeral[x]) > 1)
      BY NumeralType
    <3>1. x \in {0, 1}
      OBVIOUS
    <3>2. Numeral[x] = OneDigit(x)
      BY <3>1, NumeralIs
    <3> QED
      BY <3>2 DEF OneDigit
  <2> QED
    BY <1>2, <2>1
<1>4. CASE q < 2
  <2>1. q \in {0, 1} /\ p \in {0, 1}
    BY <1>2, <1>3, <1>4
  <2>2. OneDigit(p) = OneDigit(q)
    BY <1>2, <2>1, NumeralIs
  <2>3. OneDigit(0) # OneDigit(1)
    BY DEF OneDigit
  <2> QED
    BY <1>2, <2>1, <2>2, <2>3
<1>5. CASE q >= 2
  <2> DEFINE a == p \div 2
             b == q \div 2
             c == OneDigit(p % 2)
             e == OneDigit(q % 2)
             s == Numeral[a]
             t == Numeral[b]
  <2>1. /\ a \in Nat /\ b \in Nat /\ b < q /\ (p % 2 = 0 \/ p % 2 = 1) /\ (q % 2 = 0 \/ q % 2 = 1)
    BY <1>2, <1>3, <1>5, Halves
  <2>2. Numeral[p] = s \o c /\ Numeral[q] = t \o e
    BY <1>2, <1>3, <1>5, NumeralIs
  <2> HIDE DEF a, b
  <2>3. s \in Seq(Digit) /\ t \in Seq(Digit)
    BY <2>1, NumeralType
  <2>4. /\ c \in Seq(Digit) /\ e \in Seq(Digit) /\ Len(c) = 1 /\ Len(e) = 1
    BY DEF OneDigit, Digit
  <2>5. c[1] = e[1] => p % 2 = q % 2
    BY <2>1 DEF OneDigit
  <2>6. s \o c = t \o e
    BY <1>2, <2>2
  <2> HIDE DEF s, t, c, e
  <2> DEFINE u == s \o c
             v == t \o e
  <2>7. /\ Len(u) = Len(s) + 1 /\ u[Len(s) + 1] = c[1]
        /\ \A x \in 1 .. Len(s) : u[x] = s[x]
    <3>1. /\ s \o c \in Seq(Digit) /\ Len(s \o c) = Len(s) + Len(c)
          /\ \A x \in 1 .. Len(s) + Len(c) :
                (s \o c)[x] = IF x <= Len(s) THEN s[x] ELSE c[x - Len(s)]
      BY <2>3, <2>4, ConcatProperties
    <3>2. Len(s) \in Nat
      BY <2>3
    <3> HIDE DEF u
    <3> QED
      BY <2>4, <3>1, <3>2 DEF u
  <2>8. /\ Len(v) = Len(t) + 1 /\ v[Len(t) + 1] = e[1]
        /\ \A x \in 1 .. Len(t) : v[x] = t[x]
    <3>1. /\ t \o e \in Seq(Digit) /\ Len(t \o e) = Len(t) + Len(e)
          /\ \A x \in 1 .. Len(t) + Len(e) :
                (t \o e)[x] = IF x <= Len(t) THEN t[x] ELSE e[x - Len(t)]
      BY <2>3, <2>4, ConcatProperties
    <3>2. Len(t) \in Nat
      BY <2>3
    <3> HIDE DEF v
    <3> QED
      BY <2>4, <3>1, <3>2 DEF v
  <2>9. u = v
    BY <2>6
  <2> HIDE DEF u, v
  <2>10. Len(s) = Len(t) /\ Len(s) \in Nat
    BY <2>3, <2>7, <2>8, <2>9
  <2>11. c[1] = e[1]
    BY <2>7, <2>8, <2>9, <2>10
  <2>12. s = t
    <3>1. \A x \in 1 .. Len(s) : s[x] = t[x]
      BY <2>7, <2>8, <2>9, <2>10
    <3> QED
      BY <2>3, <2>10, <3>1
  <2>13. a # b
    <3> SUFFICES ASSUME a = b PROVE FALSE
      OBVIOUS
    <3>1. p \div 2 = q \div 2 /\ p % 2 = q % 2
      BY <2>5, <2>11 DEF a, b
    <3> QED
      BY <1>2, <3>1, HalvesAgree
  <2>14. b \in bad
    BY <2>1, <2>12, <2>13 DEF s, t
  <2> HIDE DEF bad
  <2> QED
    BY <1>1, <1>2, <2>1, <2>14
<1> QED
  BY <1>2, <1>4, <1>5

----------------------------------------------------------------------------
(* Texts laid end to end.                                                  *)

\* What \o makes of two sequences, position by position.
LEMMA Joined ==
    ASSUME NEW S, NEW s \in Seq(S), NEW t \in Seq(S)
    PROVE  /\ s \o t \in Seq(S)
           /\ Len(s) \in Nat /\ Len(t) \in Nat
           /\ Len(s \o t) = Len(s) + Len(t)
           /\ \A j \in 1 .. Len(s) : (s \o t)[j] = s[j]
           /\ \A j \in 1 .. Len(t) : (s \o t)[Len(s) + j] = t[j]
<1>1. Len(s) \in Nat /\ Len(t) \in Nat
  BY LenProperties
<1>2. /\ s \o t \in Seq(S)
      /\ Len(s \o t) = Len(s) + Len(t)
      /\ \A e \in 1 .. Len(s) + Len(t) : (s \o t)[e] = IF e <= Len(s) THEN s[e] ELSE t[e - Len(s)]
  BY ConcatProperties
<1>3. \A j \in 1 .. Len(s) : j \in 1 .. Len(s) + Len(t) /\ j <= Len(s)
  BY <1>1
<1>4. \A j \in 1 .. Len(t) : /\ Len(s) + j \in 1 .. Len(s) + Len(t) /\ ~(Len(s) + j <= Len(s))
                             /\ (Len(s) + j) - Len(s) = j
  BY <1>1
<1> QED
  BY <1>1, <1>2, <1>3, <1>4

\* The first n texts of f, laid end to end.
Flat(f, n) == FlattenSeq([m \in 1 .. n |-> f[m]])

\* No texts make the empty one.
LEMMA FlatZero == ASSUME NEW f PROVE Flat(f, 0) = <<>>
<1>1. [m \in 1 .. 0 |-> f[m]] = <<>>
  <2>1. 1 .. 0 = {}
    OBVIOUS
  <2> QED
    BY <2>1
<1>2. Len(<<>>) = 0
  OBVIOUS
<1> QED
  BY <1>1, <1>2 DEF Flat, FlattenSeq

\* FlattenSeq, one text at a time.
LEMMA FlatPrefixes ==
    ASSUME NEW f, NEW n \in Nat \ {0}
    PROVE  \E h : /\ Flat(f, n) = h[n]
                  /\ \A e \in 1 .. n : h[e] = IF e = 1 THEN f[e] ELSE h[e - 1] \o f[e]
<1> DEFINE g == [m \in 1 .. n |-> f[m]]
<1>1. Len(g) = n /\ \A e \in 1 .. n : g[e] = f[e]
  <2>1. DOMAIN g = 1 .. n /\ IsSeq(g)
    <3>1. n \in Int /\ g = [p \in 1 .. n |-> g[p]]
      OBVIOUS
    <3> HIDE DEF g
    <3> QED
      BY <3>1, FunctionIs
  <2>2. \A e \in 1 .. n : g[e] = f[e]
    OBVIOUS
  <2> HIDE DEF g
  <2>3. Len(g) \in Nat /\ DOMAIN g = 1 .. Len(g)
    BY <2>1, SeqFacts
  <2>4. Len(g) = n
    BY <2>1, <2>3
  <2> QED
    BY <2>2, <2>4
<1>2. Flat(f, n) = FlattenSeq(g)
  BY DEF Flat
<1> HIDE DEF g
<1>3. Len(g) \in Nat \ {0}
  BY <1>1
<1>4. PICK h : /\ FlattenSeq(g) = h[Len(g)]
               /\ \A e \in 1 .. Len(g) : h[e] = IF e = 1 THEN g[e] ELSE h[e - 1] \o g[e]
  BY <1>3, FlattenParts
<1> QED
  BY <1>1, <1>2, <1>4

\* The next text goes behind the ones before it.
LEMMA FlatNext ==
    ASSUME NEW f, NEW n \in Nat
    PROVE  Flat(f, n + 1) = IF n = 0 THEN f[1] ELSE Flat(f, n) \o f[n + 1]
<1>1. PICK h : /\ Flat(f, n + 1) = h[n + 1]
               /\ \A e \in 1 .. n + 1 : h[e] = IF e = 1 THEN f[e] ELSE h[e - 1] \o f[e]
  <2>1. n + 1 \in Nat \ {0}
    OBVIOUS
  <2> QED
    BY <2>1, FlatPrefixes
<1>2. CASE n = 0
  <2>1. 1 \in 1 .. n + 1 /\ n + 1 = 1
    BY <1>2
  <2> QED
    BY <1>1, <1>2, <2>1
<1>3. CASE n # 0
  <2>1. PICK g : /\ Flat(f, n) = g[n]
                 /\ \A e \in 1 .. n : g[e] = IF e = 1 THEN f[e] ELSE g[e - 1] \o f[e]
    <3>1. n \in Nat \ {0}
      BY <1>3
    <3> QED
      BY <3>1, FlatPrefixes
  <2> DEFINE bad == {e \in Nat : e >= 1 /\ e <= n /\ g[e] # h[e]}
  <2>2. bad = {}
    <3> SUFFICES ASSUME bad # {} PROVE FALSE
      OBVIOUS
    <3>1. PICK e \in bad : \A l \in bad : e <= l
      <4>1. bad \subseteq Nat
        OBVIOUS
      <4> HIDE DEF bad
      <4> QED
        BY <4>1, Least
    <3>2. e \in Nat /\ e >= 1 /\ e <= n /\ g[e] # h[e]
      OBVIOUS
    <3>3. e \in 1 .. n /\ e \in 1 .. n + 1
      BY <3>2
    <3>4. CASE e = 1
      BY <1>1, <2>1, <3>2, <3>3, <3>4
    <3>5. CASE e # 1
      <4>1. e - 1 \in Nat /\ e - 1 >= 1 /\ e - 1 <= n /\ ~(e <= e - 1)
        BY <3>2, <3>5
      <4>2. e - 1 \notin bad
        <5> HIDE DEF bad
        <5> QED
          BY <3>1, <4>1
      <4>3. g[e - 1] = h[e - 1]
        BY <4>1, <4>2
      <4>4. g[e] = g[e - 1] \o f[e] /\ h[e] = h[e - 1] \o f[e]
        BY <1>1, <2>1, <3>3, <3>5
      <4> QED
        BY <3>2, <4>3, <4>4
    <3> QED
      BY <3>4, <3>5
  <2>3. g[n] = h[n]
    <3>1. n >= 1 /\ n <= n
      BY <1>3
    <3> QED
      BY <2>2, <3>1
  <2>4. n + 1 \in 1 .. n + 1 /\ n + 1 # 1 /\ (n + 1) - 1 = n
    BY <1>3
  <2>5. h[n + 1] = h[(n + 1) - 1] \o f[n + 1]
    BY <1>1, <2>4
  <2> QED
    BY <1>1, <1>3, <2>1, <2>3, <2>4, <2>5
<1> QED
  BY <1>2, <1>3

\* Where text k of f begins.
Begins(f, k) == Len(Flat(f, k - 1)) + 1

\* The first n texts stand where they begin, and nothing else does.
Laid(f, n) ==
    /\ \A k \in 1 .. n : Begins(f, k) + Len(f[k]) - 1 <= Len(Flat(f, n))
    /\ \A k \in 1 .. n : \A j \in 1 .. Len(f[k]) : Flat(f, n)[Begins(f, k) + j - 1] = f[k][j]
    /\ \A q \in 1 .. Len(Flat(f, n)) :
          \E k \in 1 .. n : \E j \in 1 .. Len(f[k]) : q = Begins(f, k) + j - 1

\* Texts laid end to end stand where they begin.
LEMMA FlatIs ==
    ASSUME NEW S, NEW f, NEW n \in Nat, \A m \in 1 .. n : f[m] \in Seq(S)
    PROVE  /\ Flat(f, n) \in Seq(S) /\ Len(Flat(f, n)) \in Nat
           /\ Laid(f, n)
<1> DEFINE Good(m) == Flat(f, m) \in Seq(S) /\ Len(Flat(f, m)) \in Nat /\ Laid(f, m)
           bad == {m \in Nat : m <= n /\ ~Good(m)}
<1> SUFFICES ASSUME bad # {} PROVE FALSE
  OBVIOUS
<1>1. PICK m \in bad : \A l \in bad : m <= l
  <2>1. bad \subseteq Nat
    OBVIOUS
  <2> HIDE DEF bad
  <2> QED
    BY <2>1, Least
<1>2. m \in Nat /\ m <= n /\ ~Good(m)
  OBVIOUS
<1>3. m # 0
  <2>1. Flat(f, 0) = <<>>
    BY FlatZero
  <2>2. Len(Flat(f, 0)) = 0 /\ Flat(f, 0) \in Seq(S)
    <3>1. <<>> \in Seq(S) /\ Len(<<>>) = 0
      BY EmptySeq
    <3> QED
      BY <2>1, <3>1
  <2>3. 1 .. 0 = {}
    OBVIOUS
  <2>4. Laid(f, 0)
    BY <2>2, <2>3 DEF Laid
  <2> QED
    BY <1>2, <2>2, <2>4
<1> DEFINE l == m - 1
<1>4. l \in Nat /\ l <= n /\ ~(m <= l) /\ m = l + 1
  BY <1>2, <1>3
<1>5. Good(l)
  <2>1. l \notin bad
    <3> HIDE DEF bad, l
    <3> QED
      BY <1>1, <1>4
  <2> QED
    BY <1>4, <2>1
<1> DEFINE t == Flat(f, l)
           u == f[m]
<1>6. t \in Seq(S) /\ u \in Seq(S) /\ Len(t) \in Nat
  BY <1>2, <1>3, <1>5
<1>7. Flat(f, m) = t \o u
  <2>1. Flat(f, l + 1) = IF l = 0 THEN f[1] ELSE Flat(f, l) \o f[l + 1]
    <3> HIDE DEF l
    <3> QED
      BY <1>4, FlatNext
  <2>2. CASE l = 0
    <3>1. t = <<>> /\ Flat(f, m) = u
      BY <1>4, <2>1, <2>2, FlatZero
    <3> HIDE DEF t, u
    <3>2. <<>> \o u = u
      BY <1>6, ConcatEmptySeq
    <3> QED
      BY <3>1, <3>2
  <2>3. CASE l # 0
    BY <1>4, <2>1, <2>3
  <2> QED
    BY <2>2, <2>3
<1>8. Begins(f, m) = Len(t) + 1
  BY DEF Begins
<1>l. /\ \A k \in 1 .. l : Begins(f, k) + Len(f[k]) - 1 <= Len(t)
      /\ \A k \in 1 .. l : \A j \in 1 .. Len(f[k]) : t[Begins(f, k) + j - 1] = f[k][j]
      /\ \A q \in 1 .. Len(t) :
            \E k \in 1 .. l : \E j \in 1 .. Len(f[k]) : q = Begins(f, k) + j - 1
  BY <1>5 DEF Laid
<1>b. \A k \in 1 .. m : Begins(f, k) \in Nat /\ Begins(f, k) >= 1 /\ Len(f[k]) \in Nat
  <2> SUFFICES ASSUME NEW k \in 1 .. m
               PROVE  Begins(f, k) \in Nat /\ Begins(f, k) >= 1 /\ Len(f[k]) \in Nat
    OBVIOUS
  <2>1. k - 1 \in Nat /\ k - 1 <= n /\ ~(m <= k - 1) /\ k \in 1 .. n
    BY <1>2
  <2>2. k - 1 \notin bad
    <3> HIDE DEF bad
    <3> QED
      BY <1>1, <2>1
  <2>3. Len(Flat(f, k - 1)) \in Nat
    BY <2>1, <2>2
  <2>4. f[k] \in Seq(S)
    BY <2>1
  <2> QED
    BY <2>3, <2>4, LenProperties DEF Begins
<1> DEFINE v == t \o u
<1> HIDE DEF t, u, l, bad
<1>9. /\ v \in Seq(S) /\ Len(u) \in Nat /\ Len(v) = Len(t) + Len(u)
      /\ \A j \in 1 .. Len(t) : v[j] = t[j]
      /\ \A j \in 1 .. Len(u) : v[Len(t) + j] = u[j]
  BY <1>6, Joined
<1> HIDE DEF v
<1>10. \A k \in 1 .. m : k \in 1 .. l \/ k = m
  BY <1>2, <1>4
<1>u. f[m] = u
  BY DEF u
<1>11. ASSUME NEW k \in 1 .. m
       PROVE  /\ Begins(f, k) + Len(f[k]) - 1 <= Len(v)
              /\ \A j \in 1 .. Len(f[k]) : v[Begins(f, k) + j - 1] = f[k][j]
  <2>1. CASE k = m
    <3>1. Begins(f, k) = Len(t) + 1 /\ f[k] = u
      BY <1>8, <1>u, <2>1
    <3>2. \A j \in 1 .. Len(u) : (Len(t) + 1) + j - 1 = Len(t) + j
      BY <1>6, <1>9
    <3>3. (Len(t) + 1) + Len(u) - 1 <= Len(v)
      BY <1>6, <1>9
    <3> QED
      BY <1>9, <3>1, <3>2, <3>3
  <2>2. CASE k \in 1 .. l
    <3>1. Begins(f, k) \in Nat /\ Begins(f, k) >= 1 /\ Len(f[k]) \in Nat
      BY <1>b
    <3>2. /\ Begins(f, k) + Len(f[k]) - 1 <= Len(t)
          /\ \A j \in 1 .. Len(f[k]) : t[Begins(f, k) + j - 1] = f[k][j]
      BY <1>l, <2>2
    <3>3. ASSUME NEW j \in 1 .. Len(f[k])
          PROVE  Begins(f, k) + j - 1 \in 1 .. Len(t)
      BY <1>6, <3>1, <3>2
    <3>4. Begins(f, k) + Len(f[k]) - 1 <= Len(v)
      BY <1>6, <1>9, <3>1, <3>2
    <3> QED
      BY <1>9, <3>2, <3>3, <3>4
  <2> QED
    BY <1>10, <2>1, <2>2
<1>12. ASSUME NEW q \in 1 .. Len(v)
       PROVE  \E k \in 1 .. m : \E j \in 1 .. Len(f[k]) : q = Begins(f, k) + j - 1
  <2>1. CASE q <= Len(t)
    <3>1. q \in 1 .. Len(t)
      BY <1>6, <2>1
    <3>2. PICK k \in 1 .. l : \E j \in 1 .. Len(f[k]) : q = Begins(f, k) + j - 1
      BY <1>l, <3>1
    <3>3. k \in 1 .. m
      BY <1>4
    <3> QED
      BY <3>2, <3>3
  <2>2. CASE q > Len(t)
    <3>1. q - Len(t) \in 1 .. Len(u) /\ q = (Len(t) + 1) + (q - Len(t)) - 1
      BY <1>6, <1>9, <2>2
    <3>2. m \in 1 .. m
      BY <1>2, <1>3
    <3> QED
      BY <1>8, <1>u, <3>1, <3>2
  <2> QED
    BY <1>6, <1>9, <2>1, <2>2
<1>13. Flat(f, m) = v
  BY <1>7 DEF v
<1>14. Len(v) \in Nat
  BY <1>6, <1>9
<1>15. Laid(f, m)
  BY <1>11, <1>12, <1>13 DEF Laid
<1> QED
  BY <1>2, <1>9, <1>13, <1>14, <1>15

\* A text ends where the next one begins.
LEMMA NextBegins ==
    ASSUME NEW S, NEW f, NEW n \in Nat, \A m \in 1 .. n : f[m] \in Seq(S), NEW k \in 1 .. n
    PROVE  /\ Begins(f, k) \in Nat /\ Begins(f, k) >= 1 /\ Len(f[k]) \in Nat
           /\ Begins(f, k + 1) = Begins(f, k) + Len(f[k])
<1>1. k - 1 \in Nat /\ \A m \in 1 .. k - 1 : f[m] \in Seq(S)
  OBVIOUS
<1>2. Flat(f, k - 1) \in Seq(S) /\ Len(Flat(f, k - 1)) \in Nat
  <2> DEFINE l == k - 1
  <2>1. l \in Nat /\ \A m \in 1 .. l : f[m] \in Seq(S)
    BY <1>1
  <2> HIDE DEF l
  <2>2. Flat(f, l) \in Seq(S) /\ Len(Flat(f, l)) \in Nat
    BY <2>1, FlatIs
  <2> QED
    BY <2>2 DEF l
<1>3. f[k] \in Seq(S) /\ Len(f[k]) \in Nat
  <2>1. f[k] \in Seq(S)
    OBVIOUS
  <2> QED
    BY <2>1, LenProperties
<1>4. Len(Flat(f, k)) = Len(Flat(f, k - 1)) + Len(f[k])
  <2> DEFINE l == k - 1
             t == Flat(f, l)
             u == f[k]
  <2>1. l \in Nat /\ k = l + 1 /\ t \in Seq(S) /\ u \in Seq(S) /\ Len(t) \in Nat /\ Len(u) \in Nat
    BY <1>1, <1>2, <1>3
  <2>2. Flat(f, l + 1) = IF l = 0 THEN f[1] ELSE Flat(f, l) \o f[l + 1]
    <3> HIDE DEF l
    <3> QED
      BY <2>1, FlatNext
  <2>3. CASE l = 0
    <3>1. t = <<>> /\ Flat(f, k) = u
      BY <2>1, <2>2, <2>3, FlatZero
    <3>2. Len(t) = 0
      BY <3>1
    <3> HIDE DEF t, u, l
    <3>3. Len(Flat(f, k)) = Len(t) + Len(u)
      BY <2>1, <3>1, <3>2
    <3> QED
      BY <3>3 DEF t, u, l
  <2>4. CASE l # 0
    <3>1. Flat(f, k) = t \o u
      BY <2>1, <2>2, <2>4
    <3> HIDE DEF t, u, l
    <3>2. Len(t \o u) = Len(t) + Len(u)
      BY <2>1, Joined
    <3> QED
      BY <3>1, <3>2 DEF t, u, l
  <2> QED
    BY <2>3, <2>4
<1>5. Begins(f, k) = Len(Flat(f, k - 1)) + 1 /\ Begins(f, k + 1) = Len(Flat(f, k)) + 1
  <2>1. (k + 1) - 1 = k
    OBVIOUS
  <2> QED
    BY <2>1 DEF Begins
<1> DEFINE a == Len(Flat(f, k - 1))
           b == Len(f[k])
<1>6. /\ a \in Nat /\ b \in Nat
      /\ Begins(f, k) = a + 1 /\ Begins(f, k + 1) = (a + b) + 1
  BY <1>2, <1>3, <1>4, <1>5
<1> HIDE DEF a, b
<1>7. Begins(f, k) \in Nat /\ Begins(f, k) >= 1 /\ Begins(f, k + 1) = Begins(f, k) + b
  BY <1>6
<1> QED
  BY <1>3, <1>7 DEF b

----------------------------------------------------------------------------
(* Sentinels, symbol by symbol.                                           *)

\* t is found at p in s.
LEMMA MatchIs ==
    ASSUME NEW S, NEW s \in Seq(S), NEW t \in Seq(S), t # <<>>, NEW p
    PROVE  p \in Matches(s, t) <=>
              /\ p \in Int /\ p >= 1 /\ p + Len(t) - 1 <= Len(s)
              /\ \A j \in 1 .. Len(t) : s[p + j - 1] = t[j]
<1>1. Len(s) \in Nat /\ Len(t) \in Nat /\ Len(t) > 0 /\ DOMAIN t = 1 .. Len(t)
  <2>1. Len(s) \in Nat /\ Len(t) \in Nat /\ DOMAIN t = 1 .. Len(t)
    BY LenProperties
  <2>2. Len(t) # 0
    BY EmptySeq
  <2> QED
    BY <2>1, <2>2
<1>2. p \in 1 .. Len(s) - Len(t) + 1 <=> p \in Int /\ p >= 1 /\ p + Len(t) - 1 <= Len(s)
  BY <1>1
<1>3. ASSUME p \in Int, p >= 1, p + Len(t) - 1 <= Len(s)
      PROVE  SubSeq(s, p, p + Len(t) - 1) = t <=> \A j \in 1 .. Len(t) : s[p + j - 1] = t[j]
  <2> DEFINE u == SubSeq(s, p, p + Len(t) - 1)
  <2>1. \A e \in p .. p + Len(t) - 1 : e \in 1 .. Len(s)
    BY <1>1, <1>3
  <2>2. \A e \in 1 .. Len(s) : s[e] \in S
    BY ElementOfSeq
  <2>3. \A e \in p .. p + Len(t) - 1 : s[e] \in S
    BY <2>1, <2>2
  <2>4. p + Len(t) - 1 \in Int
    BY <1>1, <1>3
  <2>5. /\ u \in Seq(S)
        /\ Len(u) = IF p <= p + Len(t) - 1 THEN (p + Len(t) - 1) - p + 1 ELSE 0
        /\ \A e \in 1 .. (p + Len(t) - 1) - p + 1 : u[e] = s[p + e - 1]
    BY <1>3, <2>3, <2>4, SubSeqProperties
  <2> HIDE DEF u
  <2>6. (p + Len(t) - 1) - p + 1 = Len(t) /\ p <= p + Len(t) - 1
    BY <1>1, <1>3
  <2>7. Len(u) = Len(t) /\ \A e \in 1 .. Len(t) : u[e] = s[p + e - 1]
    BY <2>5, <2>6
  <2>8. u = t <=> \A e \in 1 .. Len(t) : u[e] = t[e]
    <3>1. u = [e \in 1 .. Len(u) |-> u[e]] /\ t = [e \in 1 .. Len(t) |-> t[e]]
      BY <2>5, LenProperties
    <3> QED
      BY <2>7, <3>1
  <2> QED
    BY <2>7, <2>8 DEF u
<1> QED
  BY <1>2, <1>3 DEF Matches

\* The source is a text.
LEMMA SourceIs ==
    ASSUME TypeOK
    PROVE  src \in Seq(Byte) /\ Len(src) \in Nat
<1>1. src \in Seq(Byte)
  BY DEF TypeOK
<1> QED
  BY <1>1, LenProperties

\* The symbols a sentinel is made of.
Bar   == "_"
Gtmpl == "gtmpl"
Hash  == "hash"
TagA  == "a"
TagB  == "b"
Slash == "/"
Star  == "*"

\* All of them are bytes.
LEMMA ByteSymbols ==
    /\ Digit \subseteq Byte
    /\ Bar \in Byte /\ Gtmpl \in Byte /\ Hash \in Byte /\ TagA \in Byte /\ TagB \in Byte
    /\ Slash \in Byte /\ Star \in Byte
<1>1. Mention \subseteq Byte
  BY Zenon DEF Byte
<1>2. Bar \in Byte
  BY Zenon DEF Byte, Bar
<1>3. Slash \in Byte
  BY Zenon DEF Byte, Slash
<1>4. Star \in Byte
  BY Zenon DEF Byte, Star
<1>5. "1" \in Byte
  BY Zenon DEF Byte
<1>6. Gtmpl \in Byte /\ Hash \in Byte /\ TagA \in Byte /\ TagB \in Byte /\ "0" \in Byte
  BY Zenon, <1>1 DEF Mention, Gtmpl, Hash, TagA, TagB
<1>7. Digit \subseteq Byte
  BY Zenon, <1>5, <1>6 DEF Digit
<1> QED
  BY <1>2, <1>3, <1>4, <1>6, <1>7

\* The symbols tell the parts of a sentinel apart.
LEMMA Distinct ==
    /\ Bar \notin Digit /\ Gtmpl \notin Digit /\ Slash \notin Digit /\ Star \notin Digit
    /\ Bar # Gtmpl /\ Bar # Hash /\ Bar # Slash /\ Bar # Star
    /\ Gtmpl # Hash /\ Gtmpl # Slash /\ Gtmpl # Star /\ Gtmpl # TagA /\ Gtmpl # TagB
    /\ Hash # Slash /\ Hash # Star /\ Slash # Star /\ TagA # TagB
  BY Zenon DEF Digit, Bar, Gtmpl, Hash, TagA, TagB, Slash, Star

----------------------------------------------------------------------------
(* The prefix: the source does not hold it.                               *)

\* What the base and every candidate have in common.
Like(prefix) ==
    /\ prefix \in Seq(Byte) /\ Len(prefix) \in Nat /\ Len(prefix) >= 3
    /\ prefix[1] = Bar /\ prefix[2] = Bar /\ prefix[Len(prefix)] # Bar
    /\ \A j \in 1 .. Len(prefix) : prefix[j] # Slash /\ prefix[j] # Star
    /\ \A j \in 1 .. Len(prefix) : prefix[j] = Gtmpl <=> j = 3
    /\ \A j \in 2 .. Len(prefix) - 1 : ~(prefix[j] = Bar /\ prefix[j + 1] = Bar)

\* The base is such a prefix.
LEMMA BaseLike == Like(sentinelBase)
<1>1. /\ sentinelBase \in Seq(Byte) /\ Len(sentinelBase) = 3
      /\ sentinelBase[1] = Bar /\ sentinelBase[2] = Bar /\ sentinelBase[3] = Gtmpl
  <2>1. sentinelBase = <<Bar, Bar, Gtmpl>>
    BY Zenon DEF sentinelBase, Bar, Gtmpl
  <2> QED
    BY <2>1, ByteSymbols
<1>2. 1 .. 3 = {1, 2, 3} /\ 2 .. 3 - 1 = {2}
  OBVIOUS
<1> QED
  BY <1>1, <1>2, Distinct DEF Like

\* A candidate, symbol by symbol.
LEMMA CandidateIs ==
    ASSUME NEW n \in Nat
    PROVE  /\ candidate(n) \in Seq(Byte)
           /\ Len(Numeral[n]) \in Nat /\ Len(Numeral[n]) > 0
           /\ Len(candidate(n)) = 6 + Len(Numeral[n])
           /\ candidate(n)[1] = Bar /\ candidate(n)[2] = Bar /\ candidate(n)[3] = Gtmpl
           /\ candidate(n)[4] = Bar /\ candidate(n)[5] = Hash /\ candidate(n)[6] = Bar
           /\ \A j \in 1 .. Len(Numeral[n]) : /\ candidate(n)[6 + j] = Numeral[n][j]
                                              /\ Numeral[n][j] \in Digit
<1> DEFINE head == sentinelBase \o <<Bar, Hash, Bar>>
<1>1. head = <<Bar, Bar, Gtmpl>> \o <<Bar, Hash, Bar>>
  BY Zenon DEF sentinelBase, Bar, Gtmpl, Hash
<1>2. /\ head \in Seq(Byte) /\ Len(head) = 6
      /\ head[1] = Bar /\ head[2] = Bar /\ head[3] = Gtmpl
      /\ head[4] = Bar /\ head[5] = Hash /\ head[6] = Bar
  <2> DEFINE s == <<Bar, Bar, Gtmpl>>
             t == <<Bar, Hash, Bar>>
  <2>1. /\ s \in Seq(Byte) /\ Len(s) = 3 /\ s[1] = Bar /\ s[2] = Bar /\ s[3] = Gtmpl
        /\ t \in Seq(Byte) /\ Len(t) = 3 /\ t[1] = Bar /\ t[2] = Hash /\ t[3] = Bar
    BY ByteSymbols
  <2>2. head = s \o t
    BY <1>1
  <2> HIDE DEF s, t, head
  <2>3. /\ s \o t \in Seq(Byte) /\ Len(s \o t) = Len(s) + Len(t)
        /\ \A j \in 1 .. Len(s) : (s \o t)[j] = s[j]
        /\ \A j \in 1 .. Len(t) : (s \o t)[Len(s) + j] = t[j]
    <3>1. s \in Seq(Byte)
      BY <2>1
    <3>2. t \in Seq(Byte)
      BY <2>1
    <3> QED
      BY <3>1, <3>2, Joined
  <2>4. {1, 2, 3} \subseteq 1 .. 3
    OBVIOUS
  <2> QED
    BY <2>1, <2>2, <2>3, <2>4
<1>3. Numeral[n] \in Seq(Digit) /\ Len(Numeral[n]) \in Nat /\ Len(Numeral[n]) > 0
  BY NumeralType
<1>4. Numeral[n] \in Seq(Byte)
  <2>1. Digit \subseteq Byte
    BY ByteSymbols
  <2> QED
    BY <1>3, <2>1, SeqMonotonic
<1>5. candidate(n) = head \o Numeral[n]
  BY Zenon DEF candidate, Bar, Hash
<1> HIDE DEF head
<1>6. /\ candidate(n) \in Seq(Byte)
      /\ Len(candidate(n)) = Len(head) + Len(Numeral[n])
      /\ \A j \in 1 .. Len(head) : candidate(n)[j] = head[j]
      /\ \A j \in 1 .. Len(Numeral[n]) : candidate(n)[Len(head) + j] = Numeral[n][j]
  <2>1. head \in Seq(Byte)
    BY <1>2
  <2> DEFINE c == head \o Numeral[n]
  <2>2. /\ c \in Seq(Byte)
        /\ Len(c) = Len(head) + Len(Numeral[n])
        /\ \A j \in 1 .. Len(head) : c[j] = head[j]
        /\ \A j \in 1 .. Len(Numeral[n]) : c[Len(head) + j] = Numeral[n][j]
    BY <2>1, <1>4, Joined
  <2> HIDE DEF c
  <2>3. candidate(n) = c
    BY <1>5 DEF c
  <2> QED
    BY <2>2, <2>3
<1>7. \A j \in 1 .. Len(Numeral[n]) : Numeral[n][j] \in Digit
  BY <1>3, ElementOfSeq
<1>8. {1, 2, 3, 4, 5, 6} \subseteq 1 .. 6
  OBVIOUS
<1> QED
  BY <1>2, <1>3, <1>6, <1>7, <1>8

\* Every candidate is such a prefix.
LEMMA CandidateLike ==
    ASSUME NEW n \in Nat
    PROVE  Like(candidate(n))
<1> DEFINE c == candidate(n)
           d == Numeral[n]
<1>1. /\ c \in Seq(Byte) /\ Len(d) \in Nat /\ Len(d) > 0 /\ Len(c) = 6 + Len(d)
      /\ c[1] = Bar /\ c[2] = Bar /\ c[3] = Gtmpl /\ c[4] = Bar /\ c[5] = Hash /\ c[6] = Bar
      /\ \A j \in 1 .. Len(d) : c[6 + j] = d[j] /\ d[j] \in Digit
  BY CandidateIs
<1> HIDE DEF c, d
<1>2. ASSUME NEW j \in 1 .. Len(c)
      PROVE  j \in {1, 2, 3, 4, 5, 6} \/ (j > 6 /\ c[j] \in Digit)
  <2>1. CASE j > 6
    <3>1. j - 6 \in 1 .. Len(d) /\ 6 + (j - 6) = j
      BY <1>1, <2>1
    <3> QED
      BY <1>1, <2>1, <3>1
  <2>2. CASE ~(j > 6)
    BY <1>1, <2>2
  <2> QED
    BY <2>1, <2>2
<1>3. ASSUME NEW j \in 1 .. Len(c)
      PROVE  c[j] # Slash /\ c[j] # Star /\ (c[j] = Gtmpl <=> j = 3)
  BY <1>1, <1>2, <1>3, Distinct
<1>4. c[Len(c)] # Bar
  BY <1>1, <1>2, Distinct
<1>5. ASSUME NEW j \in 2 .. Len(c) - 1
      PROVE  ~(c[j] = Bar /\ c[j + 1] = Bar)
  <2>1. j \in 1 .. Len(c) /\ j + 1 \in 1 .. Len(c) /\ j >= 2
    BY <1>1
  <2>2. j \in {2, 3, 4, 5} \/ j >= 6
    BY <2>1
  <2>3. CASE j \in {2, 3, 4, 5}
    BY <1>1, <2>3, Distinct
  <2>4. CASE j >= 6
    <3>1. j + 1 > 6 /\ j + 1 \notin {1, 2, 3, 4, 5, 6}
      BY <2>4
    <3> QED
      BY <1>2, <2>1, <3>1, Distinct
  <2> QED
    BY <2>2, <2>3, <2>4
<1>6. Len(c) \in Nat /\ Len(c) >= 3
  BY <1>1
<1>7. Like(c)
  BY <1>1, <1>3, <1>4, <1>5, <1>6 DEF Like
<1> QED
  BY <1>7 DEF c

\* Two candidates that end at the same place are the same.
LEMMA CandidateEnds ==
    ASSUME NEW s \in Seq(Byte), NEW m \in Nat, NEW n \in Nat,
           NEW p \in Matches(s, candidate(m)), NEW q \in Matches(s, candidate(n)),
           p + Len(candidate(m)) = q + Len(candidate(n))
    PROVE  m = n
<1> DEFINE c == candidate(m)
           d == candidate(n)
<1>1. Like(c) /\ Like(d)
  BY CandidateLike
<1>2. /\ c \in Seq(Byte) /\ Len(c) = 6 + Len(Numeral[m]) /\ Len(Numeral[m]) \in Nat
      /\ d \in Seq(Byte) /\ Len(d) = 6 + Len(Numeral[n]) /\ Len(Numeral[n]) \in Nat
      /\ \A j \in 1 .. Len(Numeral[m]) : c[6 + j] = Numeral[m][j]
      /\ \A j \in 1 .. Len(Numeral[n]) : d[6 + j] = Numeral[n][j]
  BY CandidateIs
<1> DEFINE x == Numeral[m]
           y == Numeral[n]
<1>3. p \in Int /\ p >= 1 /\ \A j \in 1 .. Len(c) : s[p + j - 1] = c[j]
  <2>1. c # <<>>
    BY <1>1 DEF Like
  <2>2. p \in Matches(s, c)
    OBVIOUS
  <2>3. c \in Seq(Byte)
    BY <1>2
  <2> HIDE DEF c
  <2> QED
    BY <2>1, <2>2, <2>3, MatchIs
<1>4. q \in Int /\ q >= 1 /\ \A j \in 1 .. Len(d) : s[q + j - 1] = d[j]
  <2>1. d # <<>>
    BY <1>1 DEF Like
  <2>2. q \in Matches(s, d)
    OBVIOUS
  <2>3. d \in Seq(Byte)
    BY <1>2
  <2> HIDE DEF d
  <2> QED
    BY <2>1, <2>2, <2>3, MatchIs
<1>5. p + Len(c) = q + Len(d)
  OBVIOUS
<1> HIDE DEF c, d, x, y
<1>6. /\ Len(c) \in Nat /\ Len(d) \in Nat /\ Len(c) >= 3 /\ Len(d) >= 3
      /\ \A j \in 1 .. Len(c) : c[j] = Gtmpl <=> j = 3
      /\ \A j \in 1 .. Len(d) : d[j] = Gtmpl <=> j = 3
  BY <1>1 DEF Like
<1>7. p = q
  <2>1. s[p + 2] = Gtmpl /\ s[q + 2] = Gtmpl
    <3>1. 3 \in 1 .. Len(c) /\ 3 \in 1 .. Len(d) /\ p + 3 - 1 = p + 2 /\ q + 3 - 1 = q + 2
      BY <1>3, <1>4, <1>6
    <3>2. s[p + 3 - 1] = c[3] /\ s[q + 3 - 1] = d[3] /\ c[3] = Gtmpl /\ d[3] = Gtmpl
      BY <1>3, <1>4, <1>6, <3>1
    <3> QED
      BY <3>1, <3>2
  <2>2. CASE p < q
    <3> DEFINE j == (q + 2) - p + 1
    <3>1. j \in 1 .. Len(c) /\ j # 3 /\ p + j - 1 = q + 2
      BY <1>3, <1>4, <1>5, <1>6, <2>2
    <3> HIDE DEF j
    <3> QED
      BY <1>3, <1>6, <2>1, <3>1
  <2>3. CASE q < p
    <3> DEFINE j == (p + 2) - q + 1
    <3>1. j \in 1 .. Len(d) /\ j # 3 /\ q + j - 1 = p + 2
      BY <1>3, <1>4, <1>5, <1>6, <2>3
    <3> HIDE DEF j
    <3> QED
      BY <1>4, <1>6, <2>1, <3>1
  <2> QED
    BY <1>3, <1>4, <2>2, <2>3
<1>8. Len(c) = Len(d) /\ \A j \in 1 .. Len(c) : c[j] = d[j]
  BY <1>3, <1>4, <1>5, <1>6, <1>7
<1>9. x \in Seq(Digit) /\ y \in Seq(Digit)
  BY NumeralType DEF x, y
<1>10. /\ Len(c) = 6 + Len(x) /\ Len(x) \in Nat /\ Len(d) = 6 + Len(y) /\ Len(y) \in Nat
       /\ \A j \in 1 .. Len(x) : c[6 + j] = x[j]
       /\ \A j \in 1 .. Len(y) : d[6 + j] = y[j]
  BY <1>2 DEF x, y
<1>11. Len(x) = Len(y) /\ \A j \in 1 .. Len(x) : x[j] = y[j]
  <2>1. Len(x) = Len(y)
    <3>1. Len(c) = Len(d) /\ Len(c) = 6 + Len(x) /\ Len(d) = 6 + Len(y)
      BY <1>8, <1>10
    <3>2. Len(x) \in Nat /\ Len(y) \in Nat
      BY <1>10
    <3>3. \A a \in Nat : \A b \in Nat : 6 + a = 6 + b => a = b
      OBVIOUS
    <3> QED
      BY <3>1, <3>2, <3>3
  <2>2. ASSUME NEW j \in 1 .. Len(x) PROVE x[j] = y[j]
    <3>1. 6 + j \in 1 .. Len(c) /\ j \in 1 .. Len(y)
      BY <1>10, <2>1
    <3> QED
      BY <1>8, <1>10, <3>1
  <2> QED
    BY <2>1, <2>2
<1>12. x = y
  BY <1>9, <1>11, SeqEqual
<1> QED
  BY <1>12, NumeralUnique DEF x, y

\* "Unreachable: len(src)+1 distinct candidates cannot all be substrings of a
\* string of length len(src)" (sentinel.go:35-36).
LEMMA CandidateFree ==
    ASSUME NEW s \in Seq(Byte)
    PROVE  \E n \in 0 .. Len(s) : Matches(s, candidate(n)) = {}
<1> SUFFICES ASSUME \A n \in 0 .. Len(s) : Matches(s, candidate(n)) # {} PROVE FALSE
  OBVIOUS
<1> DEFINE Where(n) == CHOOSE p : p \in Matches(s, candidate(n))
           f == [n \in 0 .. Len(s) |-> Where(n) + Len(candidate(n)) - 1]
<1>1. Len(s) \in Nat
  BY LenProperties
<1>2. \A n \in 0 .. Len(s) : Where(n) \in Matches(s, candidate(n))
  OBVIOUS
<1> HIDE DEF Where
<1>3. ASSUME NEW n \in 0 .. Len(s)
      PROVE  /\ Where(n) \in Int /\ Len(candidate(n)) \in Nat
             /\ Where(n) + Len(candidate(n)) - 1 \in 1 .. Len(s)
  <2> DEFINE c == candidate(n)
             p == Where(n)
  <2>1. Like(c)
    BY CandidateLike, <1>1
  <2>2. p \in Matches(s, c)
    BY <1>2
  <2>3. c # <<>> /\ c \in Seq(Byte) /\ Len(c) \in Nat /\ Len(c) >= 3
    BY <2>1 DEF Like
  <2> HIDE DEF c, p
  <2>4. c \in Seq(Byte)
    BY <2>3
  <2>5. p \in Int /\ p >= 1 /\ p + Len(c) - 1 <= Len(s)
    BY <2>2, <2>3, <2>4, MatchIs
  <2>6. p + Len(c) - 1 \in 1 .. Len(s)
    BY <1>1, <2>3, <2>5
  <2> QED
    BY <2>3, <2>5, <2>6 DEF c, p
<1>4. f \in [0 .. Len(s) -> 1 .. Len(s)]
  BY <1>3
<1>5. /\ IsFiniteSet(0 .. Len(s)) /\ IsFiniteSet(1 .. Len(s))
      /\ Cardinality(1 .. Len(s)) < Cardinality(0 .. Len(s))
  <2>1. 0 \in Int /\ 1 \in Int /\ Len(s) \in Int
    BY <1>1
  <2>2. IsFiniteSet(0 .. Len(s)) /\ Cardinality(0 .. Len(s)) = Len(s) + 1
    BY <1>1, <2>1, FS_Interval
  <2>3. IsFiniteSet(1 .. Len(s)) /\ Cardinality(1 .. Len(s)) = Len(s)
    <3>1. /\ IsFiniteSet(1 .. Len(s))
          /\ Cardinality(1 .. Len(s)) = IF 1 > Len(s) THEN 0 ELSE Len(s) - 1 + 1
      BY <2>1, FS_Interval
    <3>2. (1 > Len(s) => Len(s) = 0) /\ Len(s) - 1 + 1 = Len(s)
      BY <1>1
    <3> QED
      BY <3>1, <3>2
  <2> QED
    BY <1>1, <2>2, <2>3
<1>6. PICK m \in 0 .. Len(s), n \in 0 .. Len(s) : m # n /\ f[m] = f[n]
  <2> HIDE DEF f
  <2> QED
    BY <1>4, <1>5, FS_PigeonHole
<1>7. Where(m) + Len(candidate(m)) = Where(n) + Len(candidate(n))
  <2>1. f[m] = Where(m) + Len(candidate(m)) - 1 /\ f[n] = Where(n) + Len(candidate(n)) - 1
    OBVIOUS
  <2>2. f[m] = f[n]
    BY <1>6
  <2>3. /\ Where(m) \in Int /\ Len(candidate(m)) \in Int
        /\ Where(n) \in Int /\ Len(candidate(n)) \in Int
    BY <1>3
  <2> HIDE DEF f
  <2> DEFINE a == Where(m)
             b == Len(candidate(m))
             c == Where(n)
             d == Len(candidate(n))
  <2>4. a \in Int /\ b \in Int /\ c \in Int /\ d \in Int /\ a + b - 1 = c + d - 1
    BY <2>1, <2>2, <2>3
  <2> HIDE DEF a, b, c, d
  <2>5. a + b = c + d
    BY <2>4
  <2> QED
    BY <2>5 DEF a, b, c, d
<1>8. m \in Nat /\ n \in Nat /\ Where(m) \in Matches(s, candidate(m)) /\ Where(n) \in Matches(s, candidate(n))
  BY <1>1, <1>2
<1>9. m = n
  <2> DEFINE p == Where(m)
             q == Where(n)
  <2>1. p \in Matches(s, candidate(m)) /\ q \in Matches(s, candidate(n))
    BY <1>8
  <2>2. p + Len(candidate(m)) = q + Len(candidate(n))
    BY <1>7
  <2> HIDE DEF p, q
  <2> QED
    BY <1>8, <2>1, <2>2, CandidateEnds
<1> QED
  BY <1>6, <1>9

\* The prefix the stub is built with is one of them, and the source does not
\* hold it.
LEMMA PrefixLike ==
    ASSUME TypeOK
    PROVE  Like(uniquePrefix) /\ Matches(src, uniquePrefix) = {}
<1>1. src \in Seq(Byte) /\ Len(src) \in Nat
  BY SourceIs
<1>2. CASE Matches(src, sentinelBase) = {}
  BY <1>2, BaseLike DEF uniquePrefix
<1>3. CASE Matches(src, sentinelBase) # {}
  <2> DEFINE free == {n \in 0 .. Len(src) : Matches(src, candidate(n)) = {}}
             n0 == CHOOSE n \in free : \A m \in free : n <= m
  <2>1. free \subseteq Nat /\ free # {}
    <3>1. \E n \in 0 .. Len(src) : Matches(src, candidate(n)) = {}
      BY <1>1, CandidateFree
    <3> QED
      BY <1>1, <3>1
  <2>2. uniquePrefix = candidate(n0)
    BY <1>3 DEF uniquePrefix
  <2>3. n0 \in free
    <3> HIDE DEF free
    <3>1. \E n \in free : \A m \in free : n <= m
      BY <2>1, Least
    <3> QED
      BY <3>1
  <2>4. n0 \in Nat /\ Matches(src, candidate(n0)) = {}
    <3> HIDE DEF n0
    <3> QED
      BY <2>1, <2>3
  <2> HIDE DEF n0
  <2> QED
    BY <2>2, <2>4, CandidateLike
<1> QED
  BY <1>2, <1>3

----------------------------------------------------------------------------
(* Where a stub holds its prefix.                                         *)

\* t is actionSentinel and commentSentinel, symbol by symbol.
IdForm(t, prefix, d) ==
    /\ t \in Seq(Byte) /\ Len(t) = Len(prefix) + Len(d) + 3
    /\ \A j \in 1 .. Len(prefix) : t[j] = prefix[j]
    /\ t[Len(prefix) + 1] = Bar /\ t[Len(prefix) + 2] = TagA
    /\ \A j \in 1 .. Len(d) : t[Len(prefix) + 2 + j] = d[j]
    /\ t[Len(prefix) + Len(d) + 3] = Bar

RemarkForm(t, prefix, d) ==
    /\ t \in Seq(Byte) /\ Len(t) = Len(prefix) + Len(d) + 6
    /\ t[1] = Slash /\ t[2] = Star
    /\ \A j \in 1 .. Len(prefix) : t[2 + j] = prefix[j]
    /\ t[Len(prefix) + 3] = Bar /\ t[Len(prefix) + 4] = TagB
    /\ \A j \in 1 .. Len(d) : t[Len(prefix) + 4 + j] = d[j]
    /\ t[Len(prefix) + Len(d) + 5] = Star /\ t[Len(prefix) + Len(d) + 6] = Slash

\* The n texts of f are literals without the prefix and sentinels with it.
Stubbed(prefix, f, n, lits, ids) ==
    /\ Like(prefix) /\ n \in Nat
    /\ \A k \in 1 .. n : f[k] \in Seq(Byte)
    /\ \A k \in 1 .. n : k \in lits => /\ Matches(f[k], prefix) = {}
                                       /\ k + 1 \in 1 .. n => k + 1 \notin lits
    /\ \A k \in 1 .. n : k \notin lits =>
          IF k \in ids THEN IdForm(f[k], prefix, Numeral[k - 1])
          ELSE RemarkForm(f[k], prefix, Numeral[k - 1])

\* prefix is found at q in s.
FoundAt(s, prefix, q) ==
    /\ q \in Int /\ q >= 1 /\ q + Len(prefix) - 1 <= Len(s)
    /\ \A j \in 1 .. Len(prefix) : s[q + j - 1] = prefix[j]

\* The places of the texts.
LEMMA Placed ==
    ASSUME NEW prefix, NEW f, NEW n, NEW lits, NEW ids, Stubbed(prefix, f, n, lits, ids),
           NEW k \in 1 .. n
    PROVE  /\ n \in Nat /\ Flat(f, n) \in Seq(Byte) /\ Len(Flat(f, n)) \in Nat
           /\ Begins(f, k) \in Nat /\ Begins(f, k) >= 1 /\ Len(f[k]) \in Nat
           /\ Begins(f, k + 1) = Begins(f, k) + Len(f[k])
           /\ Begins(f, k) + Len(f[k]) - 1 <= Len(Flat(f, n))
           /\ \A j \in 1 .. Len(f[k]) : Flat(f, n)[Begins(f, k) + j - 1] = f[k][j]
           /\ k = n => Begins(f, k + 1) = Len(Flat(f, n)) + 1
<1>1. n \in Nat /\ \A m \in 1 .. n : f[m] \in Seq(Byte)
  BY DEF Stubbed
<1>2. Flat(f, n) \in Seq(Byte) /\ Len(Flat(f, n)) \in Nat /\ Laid(f, n)
  BY <1>1, FlatIs
<1>3. /\ Begins(f, k) \in Nat /\ Begins(f, k) >= 1 /\ Len(f[k]) \in Nat
      /\ Begins(f, k + 1) = Begins(f, k) + Len(f[k])
  BY <1>1, NextBegins
<1>4. ASSUME k = n PROVE Begins(f, k + 1) = Len(Flat(f, n)) + 1
  <2>1. (k + 1) - 1 = n
    BY <1>1, <1>4
  <2> QED
    BY <2>1 DEF Begins
<1> QED
  BY <1>1, <1>2, <1>3, <1>4 DEF Laid

\* The numeral of a sentinel.
LEMMA NumeralHere ==
    ASSUME NEW n \in Nat, NEW k \in 1 .. n
    PROVE  /\ k - 1 \in Nat /\ Numeral[k - 1] \in Seq(Digit)
           /\ Len(Numeral[k - 1]) \in Nat /\ Len(Numeral[k - 1]) > 0
           /\ \A j \in 1 .. Len(Numeral[k - 1]) : Numeral[k - 1][j] \in Digit
<1> DEFINE l == k - 1
<1>1. l \in Nat
  OBVIOUS
<1> HIDE DEF l
<1>2. Numeral[l] \in Seq(Digit) /\ Len(Numeral[l]) \in Nat /\ Len(Numeral[l]) > 0
  BY <1>1, NumeralType
<1>3. \A j \in 1 .. Len(Numeral[l]) : Numeral[l][j] \in Digit
  BY <1>2, ElementOfSeq
<1> QED
  BY <1>1, <1>2, <1>3 DEF l

\* A prefix that has its mark in a literal does not go on into the sentinel
\* behind it.
LEMMA StaysInside ==
    ASSUME NEW prefix, NEW f, NEW n, NEW lits, NEW ids, Stubbed(prefix, f, n, lits, ids),
           NEW q, FoundAt(Flat(f, n), prefix, q),
           NEW k \in 1 .. n, k \in lits, q + 2 < Begins(f, k + 1)
    PROVE  q + Len(prefix) - 1 < Begins(f, k + 1)
<1> DEFINE s == Flat(f, n)
           e == Begins(f, k + 1)
           size == Len(prefix)
<1>1. /\ n \in Nat /\ Len(s) \in Nat /\ e \in Nat /\ (k = n => e = Len(s) + 1)
  BY Placed
<1>2. /\ size \in Nat /\ size >= 3 /\ prefix[1] = Bar /\ prefix[2] = Bar /\ prefix[size] # Bar
      /\ \A j \in 1 .. size : prefix[j] # Slash
      /\ \A j \in 2 .. size - 1 : ~(prefix[j] = Bar /\ prefix[j + 1] = Bar)
  BY DEF Stubbed, Like
<1>3. /\ q \in Int /\ q >= 1 /\ q + size - 1 <= Len(s)
      /\ \A j \in 1 .. size : s[q + j - 1] = prefix[j]
  BY DEF FoundAt
<1>4. q + 2 < e
  OBVIOUS
<1> SUFFICES ASSUME e <= q + size - 1 PROVE FALSE
  BY <1>1, <1>2, <1>3
<1>5. k + 1 \in 1 .. n
  <2> HIDE DEF s, e, size
  <2>1. k # n
    BY <1>1, <1>2, <1>3
  <2> QED
    BY <1>1, <2>1
<1>6. k + 1 \notin lits
  BY <1>5 DEF Stubbed
<1> DEFINE x == f[k + 1]
           d == Numeral[(k + 1) - 1]
<1>7. Len(x) \in Nat /\ \A j \in 1 .. Len(x) : s[e + j - 1] = x[j]
  BY <1>5, Placed
<1>8. Len(d) \in Nat /\ Len(d) > 0
  BY <1>1, <1>5, NumeralHere
<1>9. IF k + 1 \in ids THEN IdForm(x, prefix, d) ELSE RemarkForm(x, prefix, d)
  BY <1>5, <1>6 DEF Stubbed
<1> HIDE DEF s, e, size, x, d
<1> DEFINE m == e - q + 1
<1>10. m \in 4 .. size /\ q + m - 1 = e
  BY <1>1, <1>2, <1>3, <1>4
<1>11. prefix[m] = s[e]
  <2>1. m \in 1 .. size
    BY <1>2, <1>10
  <2> HIDE DEF m
  <2> QED
    BY <1>3, <1>10, <2>1
<1>12. Len(x) >= 2 => s[e] = x[1] /\ s[e + 1] = x[2]
  <2> SUFFICES ASSUME Len(x) >= 2 PROVE s[e] = x[1] /\ s[e + 1] = x[2]
    OBVIOUS
  <2>1. 1 \in 1 .. Len(x) /\ 2 \in 1 .. Len(x) /\ e + 1 - 1 = e /\ e + 2 - 1 = e + 1
    BY <1>1, <1>7
  <2>2. s[e + 1 - 1] = x[1] /\ s[e + 2 - 1] = x[2]
    BY <1>7, <2>1
  <2> QED
    BY <2>1, <2>2
<1>13. CASE k + 1 \in ids
  <2>1. Len(x) = size + Len(d) + 3 /\ \A j \in 1 .. size : x[j] = prefix[j]
    BY <1>9, <1>13 DEF IdForm, size
  <2>2. Len(x) >= 2 /\ x[1] = Bar /\ x[2] = Bar
    BY <1>2, <1>8, <2>1
  <2>3. s[e] = Bar /\ s[e + 1] = Bar
    BY <1>12, <2>2
  <2>4. m # size
    BY <1>2, <1>11, <2>3
  <2>5. m \in 2 .. size - 1 /\ m + 1 \in 1 .. size /\ q + (m + 1) - 1 = e + 1
    <3> HIDE DEF m
    <3> QED
      BY <1>1, <1>2, <1>3, <1>10, <2>4
  <2>6. prefix[m + 1] = Bar
    <3> HIDE DEF m
    <3>1. s[q + (m + 1) - 1] = prefix[m + 1]
      BY <1>3, <2>5
    <3> QED
      BY <2>3, <2>5, <3>1
  <2> QED
    <3> HIDE DEF m
    <3> QED
      BY <1>2, <1>11, <2>3, <2>5, <2>6
<1>14. CASE k + 1 \notin ids
  <2>1. Len(x) = size + Len(d) + 6 /\ x[1] = Slash
    BY <1>9, <1>14 DEF RemarkForm, size
  <2>2. Len(x) >= 2
    BY <1>2, <1>8, <2>1
  <2>3. prefix[m] = Slash
    BY <1>11, <1>12, <2>1, <2>2
  <2>4. m \in 1 .. size
    BY <1>2, <1>10
  <2> HIDE DEF m
  <2> QED
    BY <1>2, <2>3, <2>4
<1> QED
  BY <1>13, <1>14

\* The literal behind the identifier k goes on as prefix does behind its first
\* symbol.
Echo(prefix, f, n, lits, ids, k) ==
    /\ k \in 1 .. n /\ k \notin lits /\ k \in ids
    /\ k + 1 \in 1 .. n /\ k + 1 \in lits
    /\ Len(prefix) - 1 <= Len(f[k + 1])
    /\ \A j \in 1 .. Len(prefix) - 1 : f[k + 1][j] = prefix[j + 1]

\* The end of an identifier is an underscore behind a digit, the end of a
\* comment is a slash.
LEMMA SentinelEnds ==
    ASSUME NEW prefix, NEW f, NEW n, NEW lits, NEW ids, Stubbed(prefix, f, n, lits, ids),
           NEW k \in 1 .. n, k \notin lits
    PROVE  LET s == Flat(f, n)
               e == Begins(f, k + 1)
           IN  /\ e \in Nat /\ e >= 4
               /\ k \in ids => s[e - 1] = Bar /\ s[e - 2] \in Digit
               /\ k \notin ids => s[e - 1] = Slash
<1> DEFINE s == Flat(f, n)
           e == Begins(f, k + 1)
           b == Begins(f, k)
           x == f[k]
           d == Numeral[k - 1]
           size == Len(prefix)
<1>1. /\ n \in Nat /\ b \in Nat /\ b >= 1 /\ Len(x) \in Nat /\ e = b + Len(x)
      /\ \A j \in 1 .. Len(x) : s[b + j - 1] = x[j]
  BY Placed
<1>2. size \in Nat /\ size >= 3
  BY DEF Stubbed, Like
<1>3. Len(d) \in Nat /\ Len(d) > 0 /\ \A j \in 1 .. Len(d) : d[j] \in Digit
  BY <1>1, NumeralHere
<1>4. IF k \in ids THEN IdForm(x, prefix, d) ELSE RemarkForm(x, prefix, d)
  BY DEF Stubbed
<1> HIDE DEF s, e, b, x, d, size
<1>5. ASSUME k \in ids
      PROVE  e \in Nat /\ e >= 4 /\ s[e - 1] = Bar /\ s[e - 2] \in Digit
  <2>1. /\ Len(x) = size + Len(d) + 3
        /\ \A j \in 1 .. Len(d) : x[size + 2 + j] = d[j]
        /\ x[size + Len(d) + 3] = Bar
    BY <1>4, <1>5 DEF IdForm, size
  <2>2. /\ size + Len(d) + 3 \in 1 .. Len(x) /\ size + 2 + Len(d) \in 1 .. Len(x)
        /\ Len(d) \in 1 .. Len(d)
        /\ b + (size + Len(d) + 3) - 1 = e - 1 /\ b + (size + 2 + Len(d)) - 1 = e - 2
        /\ e \in Nat /\ e >= 4
    BY <1>1, <1>2, <1>3, <2>1
  <2>3. s[b + (size + Len(d) + 3) - 1] = Bar
    BY <1>1, <2>1, <2>2
  <2>4. s[b + (size + 2 + Len(d)) - 1] = d[Len(d)]
    BY <1>1, <2>1, <2>2
  <2> QED
    BY <1>3, <2>2, <2>3, <2>4
<1>6. ASSUME k \notin ids
      PROVE  e \in Nat /\ e >= 4 /\ s[e - 1] = Slash
  <2>1. Len(x) = size + Len(d) + 6 /\ x[size + Len(d) + 6] = Slash
    BY <1>4, <1>6 DEF RemarkForm, size
  <2>2. /\ size + Len(d) + 6 \in 1 .. Len(x)
        /\ b + (size + Len(d) + 6) - 1 = e - 1
        /\ e \in Nat /\ e >= 4
    BY <1>1, <1>2, <1>3, <2>1
  <2>3. s[b + (size + Len(d) + 6) - 1] = Slash
    BY <1>1, <2>1, <2>2
  <2> QED
    BY <2>2, <2>3
<1>7. /\ e \in Nat /\ e >= 4
      /\ k \in ids => s[e - 1] = Bar /\ s[e - 2] \in Digit
      /\ k \notin ids => s[e - 1] = Slash
  BY <1>5, <1>6
<1> QED
  BY <1>7 DEF s, e

\* The mark of the prefix in a sentinel.
LEMMA MarkInSentinel ==
    ASSUME NEW prefix, NEW f, NEW n, NEW lits, NEW ids, Stubbed(prefix, f, n, lits, ids),
           NEW k \in 1 .. n, k \notin lits, NEW j \in 1 .. Len(f[k]), f[k][j] = Gtmpl
    PROVE  j = IF k \in ids THEN 3 ELSE 5
<1> DEFINE x == f[k]
           d == Numeral[k - 1]
           size == Len(prefix)
<1>1. size \in Nat /\ size >= 3 /\ \A l \in 1 .. size : prefix[l] = Gtmpl <=> l = 3
  BY DEF Stubbed, Like
<1>2. n \in Nat
  BY DEF Stubbed
<1>3. Len(d) \in Nat /\ Len(d) > 0 /\ \A l \in 1 .. Len(d) : d[l] \in Digit
  BY <1>2, NumeralHere
<1>4. IF k \in ids THEN IdForm(x, prefix, d) ELSE RemarkForm(x, prefix, d)
  BY DEF Stubbed
<1>5. j \in 1 .. Len(x) /\ x[j] = Gtmpl
  OBVIOUS
<1> HIDE DEF x, d, size
<1>6. CASE k \in ids
  <2>1. /\ Len(x) = size + Len(d) + 3
        /\ \A l \in 1 .. size : x[l] = prefix[l]
        /\ x[size + 1] = Bar /\ x[size + 2] = TagA
        /\ \A l \in 1 .. Len(d) : x[size + 2 + l] = d[l]
        /\ x[size + Len(d) + 3] = Bar
    BY <1>4, <1>6 DEF IdForm, size
  <2>2. CASE j \in 1 .. size
    BY <1>1, <1>5, <1>6, <2>1, <2>2
  <2>3. CASE j = size + 1 \/ j = size + 2 \/ j = size + Len(d) + 3
    BY <1>5, <2>1, <2>3, Distinct
  <2>4. CASE j > size + 2 /\ j < size + Len(d) + 3
    <3>1. j - (size + 2) \in 1 .. Len(d) /\ size + 2 + (j - (size + 2)) = j
      BY <1>1, <1>3, <1>5, <2>4
    <3>2. x[j] \in Digit
      BY <1>3, <2>1, <3>1
    <3> QED
      BY <1>5, <3>2, Distinct
  <2>5. \/ j \in 1 .. size
        \/ j = size + 1 \/ j = size + 2 \/ j = size + Len(d) + 3
        \/ j > size + 2 /\ j < size + Len(d) + 3
    <3> DEFINE l == Len(d)
    <3>1. j \in Nat /\ j >= 1 /\ j <= size + l + 3 /\ size \in Nat /\ l \in Nat
      BY <1>1, <1>3, <1>5, <2>1
    <3> HIDE DEF l
    <3>2. CASE j < size + 3
      BY <3>1, <3>2
    <3>3. CASE ~(j < size + 3)
      <4>1. j > size + 2 /\ (j < size + l + 3 \/ j = size + l + 3)
        BY <3>1, <3>3
      <4> QED
        BY <4>1 DEF l
    <3> QED
      BY <3>2, <3>3
  <2> QED
    BY <2>2, <2>3, <2>4, <2>5
<1>7. CASE k \notin ids
  <2>1. /\ Len(x) = size + Len(d) + 6
        /\ x[1] = Slash /\ x[2] = Star
        /\ \A l \in 1 .. size : x[2 + l] = prefix[l]
        /\ x[size + 3] = Bar /\ x[size + 4] = TagB
        /\ \A l \in 1 .. Len(d) : x[size + 4 + l] = d[l]
        /\ x[size + Len(d) + 5] = Star /\ x[size + Len(d) + 6] = Slash
    BY <1>4, <1>7 DEF RemarkForm, size
  <2>2. CASE j > 2 /\ j < size + 3
    <3>1. j - 2 \in 1 .. size /\ 2 + (j - 2) = j
      BY <1>1, <1>5, <2>2
    <3>2. prefix[j - 2] = Gtmpl
      BY <1>5, <2>1, <3>1
    <3>3. j - 2 = 3
      BY <1>1, <3>1, <3>2
    <3>4. j = 5
      BY <1>5, <3>3
    <3> QED
      BY <1>7, <3>4
  <2>3. CASE \/ j = 1 \/ j = 2 \/ j = size + 3 \/ j = size + 4
             \/ j = size + Len(d) + 5 \/ j = size + Len(d) + 6
    BY <1>5, <2>1, <2>3, Distinct
  <2>4. CASE j > size + 4 /\ j < size + Len(d) + 5
    <3>1. j - (size + 4) \in 1 .. Len(d) /\ size + 4 + (j - (size + 4)) = j
      BY <1>1, <1>3, <1>5, <2>4
    <3>2. x[j] \in Digit
      BY <1>3, <2>1, <3>1
    <3> QED
      BY <1>5, <3>2, Distinct
  <2>5. \/ j > 2 /\ j < size + 3
        \/ j = 1 \/ j = 2 \/ j = size + 3 \/ j = size + 4
        \/ j = size + Len(d) + 5 \/ j = size + Len(d) + 6
        \/ j > size + 4 /\ j < size + Len(d) + 5
    <3> DEFINE l == Len(d)
    <3>1. j \in Nat /\ j >= 1 /\ j <= size + l + 6 /\ size \in Nat /\ l \in Nat
      BY <1>1, <1>3, <1>5, <2>1
    <3> HIDE DEF l
    <3>2. CASE j < size + 5
      BY <3>1, <3>2
    <3>3. CASE ~(j < size + 5)
      <4>1. j > size + 4 /\ (j < size + l + 5 \/ j = size + l + 5 \/ j = size + l + 6)
        BY <3>1, <3>3
      <4> QED
        BY <4>1 DEF l
    <3> QED
      BY <3>2, <3>3
  <2> QED
    BY <2>2, <2>3, <2>4, <2>5
<1> QED
  BY <1>6, <1>7

\* Where a stub holds its prefix: in its sentinels, and where a literal echoes
\* one.
LEMMA Occurs ==
    ASSUME NEW prefix, NEW f, NEW n, NEW lits, NEW ids, Stubbed(prefix, f, n, lits, ids),
           NEW q, FoundAt(Flat(f, n), prefix, q)
    PROVE  \E k \in 1 .. n :
              \/ k \notin lits /\ k \in ids /\ q = Begins(f, k)
              \/ k \notin lits /\ k \notin ids /\ q = Begins(f, k) + 2
              \/ /\ Echo(prefix, f, n, lits, ids, k) /\ q = Begins(f, k + 1) - 1
                 /\ q - 1 >= 1 /\ Flat(f, n)[q - 1] \in Digit
<1> DEFINE s == Flat(f, n)
           size == Len(prefix)
<1>1. /\ size \in Nat /\ size >= 3 /\ prefix[1] = Bar /\ prefix[2] = Bar /\ prefix[3] = Gtmpl
      /\ prefix \in Seq(Byte) /\ prefix # <<>>
  BY DEF Stubbed, Like
<1>2. /\ q \in Int /\ q >= 1 /\ q + size - 1 <= Len(s)
      /\ \A j \in 1 .. size : s[q + j - 1] = prefix[j]
  BY DEF FoundAt
<1>3. /\ n \in Nat /\ \A m \in 1 .. n : f[m] \in Seq(Byte)
  BY DEF Stubbed
<1>4. s \in Seq(Byte) /\ Len(s) \in Nat /\ Laid(f, n)
  BY <1>3, FlatIs
<1>5. s[q] = Bar /\ s[q + 1] = Bar /\ s[q + 2] = Gtmpl /\ q + 2 \in 1 .. Len(s)
  <2> HIDE DEF s, size
  <2>1. {1, 2, 3} \subseteq 1 .. size /\ q + 1 - 1 = q /\ q + 2 - 1 = q + 1 /\ q + 3 - 1 = q + 2
    BY <1>1, <1>2
  <2>2. s[q + 1 - 1] = prefix[1] /\ s[q + 2 - 1] = prefix[2] /\ s[q + 3 - 1] = prefix[3]
    BY <1>2, <2>1
  <2> QED
    BY <1>1, <1>2, <1>4, <2>1, <2>2
<1>p. PICK k \in 1 .. n : \E j \in 1 .. Len(f[k]) : q + 2 = Begins(f, k) + j - 1
  <2>1. \A p \in 1 .. Len(s) : \E k \in 1 .. n : \E j \in 1 .. Len(f[k]) : p = Begins(f, k) + j - 1
    BY <1>4 DEF Laid
  <2> HIDE DEF s
  <2> QED
    BY <1>5, <2>1
<1>6. PICK j \in 1 .. Len(f[k]) : q + 2 = Begins(f, k) + j - 1
  BY <1>p
<1> DEFINE b == Begins(f, k)
           e == Begins(f, k + 1)
           x == f[k]
<1>7. /\ b \in Nat /\ b >= 1 /\ Len(x) \in Nat /\ e = b + Len(x)
      /\ \A l \in 1 .. Len(x) : s[b + l - 1] = x[l]
  BY Placed
<1>8. j \in 1 .. Len(x) /\ q + 2 = b + j - 1 /\ x[j] = Gtmpl
  BY <1>5, <1>6, <1>7
<1>9. CASE k \notin lits
  <2>1. j = IF k \in ids THEN 3 ELSE 5
    <3>1. f[k][j] = Gtmpl
      BY <1>8
    <3> QED
      BY <1>6, <1>9, <3>1, MarkInSentinel
  <2> HIDE DEF s, size, b, x
  <2>2. q = IF k \in ids THEN b ELSE b + 2
    BY <1>2, <1>7, <1>8, <2>1
  <2> QED
    BY <1>9, <2>2 DEF b
<1>10. CASE k \in lits
  <2>1. q + 2 < e
    <3> HIDE DEF s, size, b, x, e
    <3> QED
      BY <1>2, <1>7, <1>8
  <2>2. q + size - 1 < e
    BY <1>6, <1>10, <2>1, StaysInside
  <2>3. CASE j >= 3
    <3> DEFINE p == j - 2
    <3>1. p \in Int /\ p >= 1 /\ p + size - 1 <= Len(x)
      <4> HIDE DEF s, size, b, x, e
      <4> QED
        BY <1>1, <1>2, <1>7, <1>8, <2>2, <2>3
    <3>2. ASSUME NEW l \in 1 .. size
          PROVE  x[p + l - 1] = prefix[l]
      <4>1. p + l - 1 \in 1 .. Len(x) /\ b + (p + l - 1) - 1 = q + l - 1
        <5> HIDE DEF s, size, b, x, e
        <5> QED
          BY <1>1, <1>2, <1>7, <1>8, <3>1
      <4> HIDE DEF s, size, b, x, e, p
      <4>2. s[b + (p + l - 1) - 1] = x[p + l - 1]
        BY <1>7, <4>1
      <4> QED
        BY <1>2, <4>1, <4>2
    <3>3. x \in Seq(Byte)
      BY <1>3
    <3>4. Matches(x, prefix) = {}
      BY <1>6, <1>10 DEF Stubbed
    <3> HIDE DEF x, p
    <3>5. p \in Matches(x, prefix)
      BY <1>1, <3>1, <3>2, <3>3, MatchIs
    <3> QED
      BY <3>4, <3>5
  <2>4. CASE j < 3
    <3>1. k # 1
      <4>1. k = 1 => b = 1
        <5>1. Flat(f, 0) = <<>>
          BY FlatZero
        <5>2. Len(<<>>) = 0
          OBVIOUS
        <5> QED
          BY <5>1, <5>2 DEF Begins
      <4> HIDE DEF s, size, b, x, e
      <4> QED
        BY <1>2, <1>7, <1>8, <2>4, <4>1
    <3> DEFINE l == k - 1
    <3>2. l \in 1 .. n /\ l + 1 = k /\ n \in Nat
      BY <1>3, <3>1
    <3> HIDE DEF l
    <3>3. l \notin lits
      <4>1. l \in lits => (l + 1 \in 1 .. n => l + 1 \notin lits)
        BY <3>2 DEF Stubbed
      <4> QED
        BY <1>10, <3>2, <4>1
    <3>4. /\ b >= 4
          /\ l \in ids => s[b - 1] = Bar /\ s[b - 2] \in Digit
          /\ l \notin ids => s[b - 1] = Slash
      BY <3>2, <3>3, SentinelEnds
    <3> HIDE DEF s, size, b, x, e
    <3>5. l \in ids
      <4>1. s[b - 1] = Bar
        <5>1. b - 1 = q \/ b - 1 = q + 1
          BY <1>2, <1>7, <1>8, <2>4
        <5> QED
          BY <1>5, <5>1
      <4> QED
        BY <3>4, <4>1, Distinct
    <3>6. j = 2
      <4>1. ASSUME j = 1 PROVE FALSE
        <5>1. b - 2 = q
          BY <1>2, <1>7, <1>8, <4>1
        <5> QED
          BY <1>5, <3>4, <3>5, <5>1, Distinct
      <4> QED
        BY <1>7, <1>8, <2>4, <4>1
    <3>7. q = b - 1 /\ q - 1 = b - 2 /\ q - 1 >= 1 /\ s[q - 1] \in Digit
      BY <1>2, <1>7, <1>8, <3>4, <3>5, <3>6
    <3>8. size - 1 <= Len(x)
      BY <1>1, <1>2, <1>7, <2>2, <3>7
    <3>9. ASSUME NEW m \in 1 .. size - 1
          PROVE  x[m] = prefix[m + 1]
      <4>1. m + 1 \in 1 .. size /\ m \in 1 .. Len(x) /\ q + (m + 1) - 1 = b + m - 1
        BY <1>1, <1>2, <1>7, <3>7, <3>8
      <4>2. s[q + (m + 1) - 1] = prefix[m + 1] /\ s[b + m - 1] = x[m]
        BY <1>2, <1>7, <4>1
      <4> QED
        BY <4>1, <4>2
    <3>10. x = f[l + 1] /\ b = Begins(f, l + 1)
      BY <3>2 DEF x, b
    <3>11. Echo(prefix, f, n, lits, ids, l)
      BY <1>10, <3>2, <3>3, <3>5, <3>8, <3>9, <3>10 DEF Echo, size
    <3> QED
      BY <3>2, <3>7, <3>10, <3>11 DEF s
  <2> QED
    BY <1>8, <2>3, <2>4
<1> QED
  BY <1>9, <1>10

\* Numeral n stands in s behind x, and no digit behind it.
NumeralAt(s, x, n) ==
    /\ \A j \in 1 .. Len(Numeral[n]) : s[x + j] = Numeral[n][j]
    /\ s[x + Len(Numeral[n]) + 1] \notin Digit

\* What stands in s behind the prefix of a sentinel that begins at p.
AfterId(s, prefix, n, p) ==
    /\ FoundAt(s, prefix, p)
    /\ s[p + Len(prefix) + 1] = TagA /\ NumeralAt(s, p + Len(prefix) + 1, n)

AfterRemark(s, prefix, n, p) ==
    /\ FoundAt(s, prefix, p + 2) /\ s[p + 1] = Star
    /\ s[p + 2 + Len(prefix) + 1] = TagB /\ NumeralAt(s, p + 2 + Len(prefix) + 1, n)

\* Numerals that begin at the same place and end with something else.
LEMMA SameNumeral ==
    ASSUME NEW s, NEW x \in Int, NEW m \in Nat, NEW n \in Nat,
           NumeralAt(s, x, m), NumeralAt(s, x, n)
    PROVE  m = n
<1> DEFINE u == Numeral[m]
           v == Numeral[n]
<1>1. u \in Seq(Digit) /\ Len(u) \in Nat /\ v \in Seq(Digit) /\ Len(v) \in Nat
  BY NumeralType
<1>2. /\ \A j \in 1 .. Len(u) : s[x + j] = u[j]
      /\ \A j \in 1 .. Len(v) : s[x + j] = v[j]
      /\ s[x + Len(u) + 1] \notin Digit /\ s[x + Len(v) + 1] \notin Digit
  BY DEF NumeralAt
<1> HIDE DEF u, v
<1>3. (\A j \in 1 .. Len(u) : u[j] \in Digit) /\ (\A j \in 1 .. Len(v) : v[j] \in Digit)
  BY <1>1, ElementOfSeq
<1>4. ~(Len(u) < Len(v))
  <2> SUFFICES ASSUME Len(u) < Len(v) PROVE FALSE
    OBVIOUS
  <2>1. Len(u) + 1 \in 1 .. Len(v) /\ x + (Len(u) + 1) = x + Len(u) + 1
    BY <1>1
  <2>2. s[x + (Len(u) + 1)] = v[Len(u) + 1] /\ v[Len(u) + 1] \in Digit
    BY <1>2, <1>3, <2>1
  <2> QED
    BY <1>2, <2>1, <2>2
<1>5. ~(Len(v) < Len(u))
  <2> SUFFICES ASSUME Len(v) < Len(u) PROVE FALSE
    OBVIOUS
  <2>1. Len(v) + 1 \in 1 .. Len(u) /\ x + (Len(v) + 1) = x + Len(v) + 1
    BY <1>1
  <2>2. s[x + (Len(v) + 1)] = u[Len(v) + 1] /\ u[Len(v) + 1] \in Digit
    BY <1>2, <1>3, <2>1
  <2> QED
    BY <1>2, <2>1, <2>2
<1>6. Len(u) = Len(v)
  BY <1>1, <1>4, <1>5
<1>7. \A j \in 1 .. Len(u) : u[j] = v[j]
  BY <1>2, <1>6
<1>8. u = v
  BY <1>1, <1>6, <1>7, SeqEqual
<1> QED
  BY <1>8, NumeralUnique DEF u, v

\* What stands behind the prefix of an identifier that is found.
LEMMA BehindId ==
    ASSUME NEW prefix, NEW s, NEW t, NEW n \in Nat, NEW p, FoundAt(s, t, p),
           IdForm(t, prefix, Numeral[n]), Len(prefix) \in Nat, Len(s) \in Nat
    PROVE  AfterId(s, prefix, n, p)
<1> DEFINE d == Numeral[n]
           size == Len(prefix)
           l == Len(d)
           r == Len(s)
<1>1. /\ p \in Int /\ p >= 1 /\ p + Len(t) - 1 <= r
      /\ \A j \in 1 .. Len(t) : s[p + j - 1] = t[j]
  BY DEF FoundAt
<1>2. size \in Nat /\ l \in Nat /\ r \in Nat
  BY NumeralType
<1>3. /\ Len(t) = size + l + 3
      /\ \A j \in 1 .. size : t[j] = prefix[j]
      /\ t[size + 2] = TagA
      /\ \A j \in 1 .. l : t[size + 2 + j] = d[j]
      /\ t[size + l + 3] = Bar
  BY DEF IdForm
<1> HIDE DEF d, size, l, r
<1>4. p + size - 1 <= r
  BY <1>1, <1>2, <1>3
<1>5. ASSUME NEW j \in 1 .. size PROVE s[p + j - 1] = prefix[j]
  <2>1. j \in 1 .. Len(t)
    BY <1>2, <1>3
  <2> QED
    BY <1>1, <1>3, <2>1
<1>6. s[p + size + 1] = TagA
  <2>1. size + 2 \in 1 .. Len(t) /\ p + (size + 2) - 1 = p + size + 1
    BY <1>1, <1>2, <1>3
  <2>2. s[p + (size + 2) - 1] = t[size + 2]
    BY <1>1, <2>1
  <2> QED
    BY <1>3, <2>1, <2>2
<1>7. ASSUME NEW j \in 1 .. l PROVE s[(p + size + 1) + j] = d[j]
  <2>1. size + 2 + j \in 1 .. Len(t) /\ p + (size + 2 + j) - 1 = (p + size + 1) + j
    BY <1>1, <1>2, <1>3
  <2>2. s[p + (size + 2 + j) - 1] = t[size + 2 + j]
    BY <1>1, <2>1
  <2> QED
    BY <1>3, <2>1, <2>2
<1>8. s[(p + size + 1) + l + 1] = Bar
  <2>1. size + l + 3 \in 1 .. Len(t) /\ p + (size + l + 3) - 1 = (p + size + 1) + l + 1
    BY <1>1, <1>2, <1>3
  <2>2. s[p + (size + l + 3) - 1] = t[size + l + 3]
    BY <1>1, <2>1
  <2> QED
    BY <1>3, <2>1, <2>2
<1>9. FoundAt(s, prefix, p)
  BY <1>1, <1>4, <1>5 DEF FoundAt, size, r
<1>10. NumeralAt(s, p + size + 1, n)
  BY <1>7, <1>8, Distinct DEF NumeralAt, d, l
<1> QED
  BY <1>6, <1>9, <1>10 DEF AfterId, size

\* And of a comment that is found.
LEMMA BehindRemark ==
    ASSUME NEW prefix, NEW s, NEW t, NEW n \in Nat, NEW p, FoundAt(s, t, p),
           RemarkForm(t, prefix, Numeral[n]), Len(prefix) \in Nat, Len(s) \in Nat
    PROVE  AfterRemark(s, prefix, n, p)
<1> DEFINE d == Numeral[n]
           size == Len(prefix)
           l == Len(d)
           r == Len(s)
<1>1. /\ p \in Int /\ p >= 1 /\ p + Len(t) - 1 <= r
      /\ \A j \in 1 .. Len(t) : s[p + j - 1] = t[j]
  BY DEF FoundAt
<1>2. size \in Nat /\ l \in Nat /\ r \in Nat
  BY NumeralType
<1>3. /\ Len(t) = size + l + 6
      /\ t[2] = Star
      /\ \A j \in 1 .. size : t[2 + j] = prefix[j]
      /\ t[size + 4] = TagB
      /\ \A j \in 1 .. l : t[size + 4 + j] = d[j]
      /\ t[size + l + 5] = Star
  BY DEF RemarkForm
<1> HIDE DEF d, size, l, r
<1>4. p + 2 \in Int /\ p + 2 >= 1 /\ (p + 2) + size - 1 <= r
  BY <1>1, <1>2, <1>3
<1>5. ASSUME NEW j \in 1 .. size PROVE s[(p + 2) + j - 1] = prefix[j]
  <2>1. 2 + j \in 1 .. Len(t) /\ p + (2 + j) - 1 = (p + 2) + j - 1
    BY <1>1, <1>2, <1>3
  <2>2. s[p + (2 + j) - 1] = t[2 + j]
    BY <1>1, <2>1
  <2> QED
    BY <1>3, <2>1, <2>2
<1>a. s[p + 1] = Star
  <2>1. 2 \in 1 .. Len(t) /\ p + 2 - 1 = p + 1
    BY <1>1, <1>2, <1>3
  <2>2. s[p + 2 - 1] = t[2]
    BY <1>1, <2>1
  <2> QED
    BY <1>3, <2>1, <2>2
<1>6. s[p + 2 + size + 1] = TagB
  <2>1. size + 4 \in 1 .. Len(t) /\ p + (size + 4) - 1 = p + 2 + size + 1
    BY <1>1, <1>2, <1>3
  <2>2. s[p + (size + 4) - 1] = t[size + 4]
    BY <1>1, <2>1
  <2> QED
    BY <1>3, <2>1, <2>2
<1>7. ASSUME NEW j \in 1 .. l PROVE s[(p + 2 + size + 1) + j] = d[j]
  <2>1. size + 4 + j \in 1 .. Len(t) /\ p + (size + 4 + j) - 1 = (p + 2 + size + 1) + j
    BY <1>1, <1>2, <1>3
  <2>2. s[p + (size + 4 + j) - 1] = t[size + 4 + j]
    BY <1>1, <2>1
  <2> QED
    BY <1>3, <2>1, <2>2
<1>8. s[(p + 2 + size + 1) + l + 1] = Star
  <2>1. size + l + 5 \in 1 .. Len(t) /\ p + (size + l + 5) - 1 = (p + 2 + size + 1) + l + 1
    BY <1>1, <1>2, <1>3
  <2>2. s[p + (size + l + 5) - 1] = t[size + l + 5]
    BY <1>1, <2>1
  <2> QED
    BY <1>3, <2>1, <2>2
<1>9. FoundAt(s, prefix, p + 2)
  BY <1>4, <1>5 DEF FoundAt, size, r
<1>10. NumeralAt(s, p + 2 + size + 1, n)
  BY <1>7, <1>8, Distinct DEF NumeralAt, d, l
<1> QED
  BY <1>a, <1>6, <1>9, <1>10 DEF AfterRemark, size

\* Every text of a stub is found in its place.
LEMMA FoundInPlace ==
    ASSUME NEW prefix, NEW f, NEW n, NEW lits, NEW ids, Stubbed(prefix, f, n, lits, ids),
           NEW k \in 1 .. n
    PROVE  FoundAt(Flat(f, n), f[k], Begins(f, k))
<1>1. /\ Begins(f, k) \in Nat /\ Begins(f, k) >= 1
      /\ Begins(f, k) + Len(f[k]) - 1 <= Len(Flat(f, n))
      /\ \A j \in 1 .. Len(f[k]) : Flat(f, n)[Begins(f, k) + j - 1] = f[k][j]
  BY Placed
<1> QED
  BY <1>1 DEF FoundAt

\* A sentinel is found in its place, and where a literal echoes one.
LEMMA FoundOnce ==
    ASSUME NEW prefix, NEW f, NEW n, NEW lits, NEW ids, Stubbed(prefix, f, n, lits, ids),
           NEW k \in 1 .. n, k \notin lits, NEW p, FoundAt(Flat(f, n), f[k], p)
    PROVE  \/ p = Begins(f, k)
           \/ \E l \in 1 .. n : Echo(prefix, f, n, lits, ids, l) /\ Begins(f, l + 1) = p + 1
<1> DEFINE s == Flat(f, n)
           size == Len(prefix)
<1>1. n \in Nat /\ Len(s) \in Nat /\ size \in Nat
  BY Placed DEF Stubbed, Like
<1>2. p \in Int
  BY DEF FoundAt
<1>3. ASSUME NEW l \in 1 .. n, l \notin lits, NEW q, FoundAt(s, f[l], q)
      PROVE  /\ l \in ids => AfterId(s, prefix, l - 1, q)
             /\ l \notin ids => AfterRemark(s, prefix, l - 1, q)
  <2> DEFINE m == l - 1
             t == f[l]
  <2>1. m \in Nat
    BY <1>1
  <2>2. IF l \in ids THEN IdForm(t, prefix, Numeral[m]) ELSE RemarkForm(t, prefix, Numeral[m])
    BY <1>3 DEF Stubbed
  <2>3. FoundAt(s, t, q) /\ Len(prefix) \in Nat /\ Len(s) \in Nat
    BY <1>1, <1>3
  <2> HIDE DEF s, m, t, size
  <2>4. CASE l \in ids
    <3>1. IdForm(t, prefix, Numeral[m])
      BY <2>2, <2>4
    <3>2. AfterId(s, prefix, m, q)
      BY <2>1, <2>3, <3>1, BehindId
    <3> QED
      BY <2>4, <3>2 DEF m
  <2>5. CASE l \notin ids
    <3>1. RemarkForm(t, prefix, Numeral[m])
      BY <2>2, <2>5
    <3>2. AfterRemark(s, prefix, m, q)
      BY <2>1, <2>3, <3>1, BehindRemark
    <3> QED
      BY <2>5, <3>2 DEF m
  <2> QED
    BY <2>4, <2>5
<1>4. ASSUME NEW l \in 1 .. n, l \notin lits
      PROVE  /\ Begins(f, l) \in Nat
             /\ l \in ids => AfterId(s, prefix, l - 1, Begins(f, l))
             /\ l \notin ids => AfterRemark(s, prefix, l - 1, Begins(f, l))
  <2>1. Begins(f, l) \in Nat
    BY Placed
  <2>2. FoundAt(s, f[l], Begins(f, l))
    BY FoundInPlace
  <2> QED
    BY <1>3, <1>4, <2>1, <2>2
<1>5. ASSUME NEW l \in 1 .. n, NEW x \in Int, NumeralAt(s, x, k - 1), NumeralAt(s, x, l - 1)
      PROVE  k = l
  <2> DEFINE a == k - 1
             b == l - 1
  <2>1. a \in Nat /\ b \in Nat /\ k = a + 1 /\ l = b + 1
    BY <1>1
  <2>2. NumeralAt(s, x, a) /\ NumeralAt(s, x, b)
    BY <1>5
  <2> HIDE DEF a, b, s
  <2>3. a = b
    BY <1>5, <2>1, <2>2, SameNumeral
  <2> QED
    BY <2>1, <2>3
<1>6. CASE k \in ids
  <2>1. AfterId(s, prefix, k - 1, p)
    BY <1>3, <1>6
  <2>2. FoundAt(s, prefix, p) /\ s[p + size + 1] = TagA /\ NumeralAt(s, p + size + 1, k - 1)
    BY <2>1 DEF AfterId
  <2>3. PICK l \in 1 .. n :
              \/ l \notin lits /\ l \in ids /\ p = Begins(f, l)
              \/ l \notin lits /\ l \notin ids /\ p = Begins(f, l) + 2
              \/ /\ Echo(prefix, f, n, lits, ids, l) /\ p = Begins(f, l + 1) - 1
                 /\ p - 1 >= 1 /\ Flat(f, n)[p - 1] \in Digit
    BY <2>2, Occurs
  <2>4. CASE l \notin lits /\ l \in ids /\ p = Begins(f, l)
    <3>1. AfterId(s, prefix, l - 1, p)
      BY <1>4, <2>4
    <3>2. NumeralAt(s, p + size + 1, l - 1)
      BY <3>1 DEF AfterId
    <3>3. p + size + 1 \in Int
      BY <1>1, <1>2
    <3> DEFINE x == p + size + 1
    <3>4. x \in Int /\ NumeralAt(s, x, k - 1) /\ NumeralAt(s, x, l - 1)
      BY <2>2, <3>2, <3>3
    <3> HIDE DEF s, x, size
    <3>5. k = l
      BY <1>5, <3>4
    <3> QED
      BY <2>4, <3>5
  <2>5. CASE l \notin lits /\ l \notin ids /\ p = Begins(f, l) + 2
    <3> DEFINE b == Begins(f, l)
    <3>1. AfterRemark(s, prefix, l - 1, b)
      BY <1>4, <2>5
    <3>2. s[b + 2 + size + 1] = TagB
      BY <3>1 DEF AfterRemark
    <3> HIDE DEF s, b, size
    <3>3. p = b + 2
      BY <2>5 DEF b
    <3> QED
      BY <2>2, <3>2, <3>3, Distinct
  <2>6. CASE Echo(prefix, f, n, lits, ids, l) /\ p = Begins(f, l + 1) - 1
    <3>1. Begins(f, l + 1) \in Nat
      <4>1. /\ Begins(f, l) \in Nat /\ Len(f[l]) \in Nat
            /\ Begins(f, l + 1) = Begins(f, l) + Len(f[l])
        BY Placed
      <4> QED
        BY <4>1
    <3>2. Begins(f, l + 1) = p + 1
      BY <1>2, <2>6, <3>1
    <3> QED
      BY <2>6, <3>2
  <2> QED
    BY <2>3, <2>4, <2>5, <2>6
<1>7. CASE k \notin ids
  <2> DEFINE q == p + 2
  <2>1. AfterRemark(s, prefix, k - 1, p)
    BY <1>3, <1>7
  <2>2. /\ FoundAt(s, prefix, q) /\ s[p + 1] = Star
        /\ s[q + size + 1] = TagB /\ NumeralAt(s, q + size + 1, k - 1)
    BY <2>1 DEF AfterRemark
  <2>q. q \in Int /\ q = p + 2 /\ q - 1 = p + 1
    BY <1>2
  <2> HIDE DEF q
  <2>3. PICK l \in 1 .. n :
              \/ l \notin lits /\ l \in ids /\ q = Begins(f, l)
              \/ l \notin lits /\ l \notin ids /\ q = Begins(f, l) + 2
              \/ /\ Echo(prefix, f, n, lits, ids, l) /\ q = Begins(f, l + 1) - 1
                 /\ q - 1 >= 1 /\ Flat(f, n)[q - 1] \in Digit
    BY <2>2, Occurs
  <2>4. CASE l \notin lits /\ l \in ids /\ q = Begins(f, l)
    <3>1. AfterId(s, prefix, l - 1, q)
      BY <1>4, <2>4
    <3>2. s[q + size + 1] = TagA
      BY <3>1 DEF AfterId
    <3> QED
      BY <2>2, <3>2, Distinct
  <2>5. CASE l \notin lits /\ l \notin ids /\ q = Begins(f, l) + 2
    <3> DEFINE b == Begins(f, l)
    <3>1. AfterRemark(s, prefix, l - 1, b) /\ b \in Nat
      BY <1>4, <2>5
    <3>2. NumeralAt(s, b + 2 + size + 1, l - 1)
      BY <3>1 DEF AfterRemark
    <3>3. p = b
      <4>1. p + 2 = b + 2
        BY <2>5, <2>q
      <4> HIDE DEF b
      <4> QED
        BY <1>2, <3>1, <4>1
    <3> DEFINE x == q + size + 1
    <3>4. x \in Int /\ NumeralAt(s, x, k - 1)
      BY <1>1, <2>2, <2>q
    <3>5. NumeralAt(s, x, l - 1)
      BY <2>5, <3>2
    <3> HIDE DEF s, x, size, b
    <3>6. k = l
      BY <1>5, <3>4, <3>5
    <3> QED
      BY <3>3, <3>6 DEF b
  <2>6. CASE s[q - 1] \in Digit
    BY <2>2, <2>6, <2>q, Distinct
  <2> QED
    BY <2>3, <2>4, <2>5, <2>6
<1> QED
  BY <1>6, <1>7

----------------------------------------------------------------------------
(* The stub of a finished tiling.                                         *)

\* actionSentinel has the form of an identifier.
LEMMA actionSentinelForm ==
    ASSUME NEW prefix, Like(prefix), NEW id \in Nat
    PROVE  IdForm(actionSentinel(prefix, id), prefix, Numeral[id])
<1> DEFINE d == Numeral[id]
           u == <<Bar, TagA>>
           v == <<Bar>>
           a == prefix \o u
           b == a \o d
           t == b \o v
           size == Len(prefix)
           l == Len(d)
<1>1. actionSentinel(prefix, id) = t
  BY Zenon DEF actionSentinel, Bar, TagA
<1>2. prefix \in Seq(Byte) /\ size \in Nat /\ size >= 3
  BY DEF Like
<1>3. d \in Seq(Byte) /\ l \in Nat
  <2>1. d \in Seq(Digit) /\ l \in Nat
    BY NumeralType
  <2>2. Digit \subseteq Byte
    BY ByteSymbols
  <2> HIDE DEF d
  <2> QED
    BY <2>1, <2>2, SeqMonotonic
<1>4. u \in Seq(Byte) /\ Len(u) = 2 /\ u[1] = Bar /\ u[2] = TagA
  BY ByteSymbols
<1>5. v \in Seq(Byte) /\ Len(v) = 1 /\ v[1] = Bar
  BY ByteSymbols
<1> HIDE DEF u, v, d, size, l
<1>6. /\ a \in Seq(Byte) /\ Len(a) = size + 2
      /\ \A j \in 1 .. size : a[j] = prefix[j]
      /\ a[size + 1] = Bar /\ a[size + 2] = TagA
  <2>1. /\ a \in Seq(Byte) /\ Len(a) = Len(prefix) + Len(u)
        /\ \A j \in 1 .. Len(prefix) : a[j] = prefix[j]
        /\ \A j \in 1 .. Len(u) : a[Len(prefix) + j] = u[j]
    <3>1. prefix \in Seq(Byte)
      BY <1>2, <1>4
    <3>2. u \in Seq(Byte)
      BY <1>2, <1>4
    <3> QED
      BY <3>1, <3>2, Joined
  <2>2. 1 \in 1 .. Len(u) /\ 2 \in 1 .. Len(u)
    BY <1>4
  <2> HIDE DEF a
  <2> QED
    BY <1>4, <2>1, <2>2 DEF size
<1> HIDE DEF a
<1>7. /\ b \in Seq(Byte) /\ Len(b) = (size + 2) + l
      /\ \A j \in 1 .. size + 2 : b[j] = a[j]
      /\ \A j \in 1 .. l : b[(size + 2) + j] = d[j]
  <2>1. /\ b \in Seq(Byte) /\ Len(b) = Len(a) + Len(d)
        /\ \A j \in 1 .. Len(a) : b[j] = a[j]
        /\ \A j \in 1 .. Len(d) : b[Len(a) + j] = d[j]
    <3>1. a \in Seq(Byte)
      BY <1>3, <1>6
    <3>2. d \in Seq(Byte)
      BY <1>3, <1>6
    <3> QED
      BY <3>1, <3>2, Joined
  <2> HIDE DEF b
  <2> QED
    BY <1>6, <2>1 DEF l
<1> HIDE DEF b
<1>8. /\ t \in Seq(Byte) /\ Len(t) = ((size + 2) + l) + 1
      /\ \A j \in 1 .. (size + 2) + l : t[j] = b[j]
      /\ t[((size + 2) + l) + 1] = Bar
  <2>1. /\ t \in Seq(Byte) /\ Len(t) = Len(b) + Len(v)
        /\ \A j \in 1 .. Len(b) : t[j] = b[j]
        /\ \A j \in 1 .. Len(v) : t[Len(b) + j] = v[j]
    <3>1. b \in Seq(Byte)
      BY <1>5, <1>7
    <3>2. v \in Seq(Byte)
      BY <1>5, <1>7
    <3> QED
      BY <3>1, <3>2, Joined
  <2>2. 1 \in 1 .. Len(v)
    BY <1>5
  <2> HIDE DEF t
  <2> QED
    BY <1>5, <1>7, <2>1, <2>2
<1> HIDE DEF t
<1>9. Len(t) = size + l + 3 /\ ((size + 2) + l) + 1 = size + l + 3
  BY <1>2, <1>3, <1>8
<1>10. \A j \in 1 .. size : t[j] = prefix[j]
  <2>1. \A j \in 1 .. size : j \in 1 .. size + 2 /\ j \in 1 .. (size + 2) + l
    BY <1>2, <1>3
  <2> QED
    BY <1>6, <1>7, <1>8, <2>1
<1>11. t[size + 1] = Bar /\ t[size + 2] = TagA
  <2>1. /\ size + 1 \in 1 .. size + 2 /\ size + 1 \in 1 .. (size + 2) + l
        /\ size + 2 \in 1 .. size + 2 /\ size + 2 \in 1 .. (size + 2) + l
    BY <1>2, <1>3
  <2> QED
    BY <1>6, <1>7, <1>8, <2>1
<1>12. \A j \in 1 .. l : t[size + 2 + j] = d[j]
  <2>1. \A j \in 1 .. l : (size + 2) + j \in 1 .. (size + 2) + l
    BY <1>2, <1>3
  <2> QED
    BY <1>7, <1>8, <2>1
<1>13. t[size + l + 3] = Bar
  BY <1>8, <1>9
<1>14. IdForm(t, prefix, d)
  BY <1>8, <1>9, <1>10, <1>11, <1>12, <1>13 DEF IdForm, size, l
<1> QED
  BY <1>1, <1>14 DEF d

\* commentSentinel has the form of a comment.
LEMMA commentSentinelForm ==
    ASSUME NEW prefix, Like(prefix), NEW id \in Nat
    PROVE  RemarkForm(commentSentinel(prefix, id), prefix, Numeral[id])
<1> DEFINE d == Numeral[id]
           w == <<Slash, Star>>
           u == <<Bar, TagB>>
           v == <<Star, Slash>>
           x == w \o prefix
           a == x \o u
           b == a \o d
           t == b \o v
           size == Len(prefix)
           l == Len(d)
<1>1. commentSentinel(prefix, id) = t
  BY Zenon DEF commentSentinel, Bar, TagB, Slash, Star
<1>2. prefix \in Seq(Byte) /\ size \in Nat /\ size >= 3
  BY DEF Like
<1>3. d \in Seq(Byte) /\ l \in Nat
  <2>1. d \in Seq(Digit) /\ l \in Nat
    BY NumeralType
  <2>2. Digit \subseteq Byte
    BY ByteSymbols
  <2> HIDE DEF d
  <2> QED
    BY <2>1, <2>2, SeqMonotonic
<1>4. /\ u \in Seq(Byte) /\ Len(u) = 2 /\ u[1] = Bar /\ u[2] = TagB
      /\ v \in Seq(Byte) /\ Len(v) = 2 /\ v[1] = Star /\ v[2] = Slash
      /\ w \in Seq(Byte) /\ Len(w) = 2 /\ w[1] = Slash /\ w[2] = Star
  BY ByteSymbols
<1> HIDE DEF u, v, w, d, size, l
<1>a. {1, 2} \subseteq 1 .. 2
  OBVIOUS
<1>5. /\ x \in Seq(Byte) /\ Len(x) = 2 + size
      /\ x[1] = Slash /\ x[2] = Star
      /\ \A j \in 1 .. size : x[2 + j] = prefix[j]
  <2>1. /\ x \in Seq(Byte) /\ Len(x) = Len(w) + Len(prefix)
        /\ \A j \in 1 .. Len(w) : x[j] = w[j]
        /\ \A j \in 1 .. Len(prefix) : x[Len(w) + j] = prefix[j]
    <3>1. w \in Seq(Byte)
      BY <1>2, <1>4
    <3>2. prefix \in Seq(Byte)
      BY <1>2, <1>4
    <3> QED
      BY <3>1, <3>2, Joined
  <2> HIDE DEF x
  <2> QED
    BY <1>4, <1>a, <2>1 DEF size
<1> HIDE DEF x
<1>6. /\ a \in Seq(Byte) /\ Len(a) = (2 + size) + 2
      /\ \A j \in 1 .. 2 + size : a[j] = x[j]
      /\ a[(2 + size) + 1] = Bar /\ a[(2 + size) + 2] = TagB
  <2>1. /\ a \in Seq(Byte) /\ Len(a) = Len(x) + Len(u)
        /\ \A j \in 1 .. Len(x) : a[j] = x[j]
        /\ \A j \in 1 .. Len(u) : a[Len(x) + j] = u[j]
    <3>1. x \in Seq(Byte)
      BY <1>4, <1>5
    <3>2. u \in Seq(Byte)
      BY <1>4, <1>5
    <3> QED
      BY <3>1, <3>2, Joined
  <2> HIDE DEF a
  <2> QED
    BY <1>4, <1>5, <1>a, <2>1
<1> HIDE DEF a
<1>7. /\ b \in Seq(Byte) /\ Len(b) = ((2 + size) + 2) + l
      /\ \A j \in 1 .. (2 + size) + 2 : b[j] = a[j]
      /\ \A j \in 1 .. l : b[((2 + size) + 2) + j] = d[j]
  <2>1. /\ b \in Seq(Byte) /\ Len(b) = Len(a) + Len(d)
        /\ \A j \in 1 .. Len(a) : b[j] = a[j]
        /\ \A j \in 1 .. Len(d) : b[Len(a) + j] = d[j]
    <3>1. a \in Seq(Byte)
      BY <1>3, <1>6
    <3>2. d \in Seq(Byte)
      BY <1>3, <1>6
    <3> QED
      BY <3>1, <3>2, Joined
  <2> HIDE DEF b
  <2> QED
    BY <1>6, <2>1 DEF l
<1> HIDE DEF b
<1>8. /\ t \in Seq(Byte) /\ Len(t) = (((2 + size) + 2) + l) + 2
      /\ \A j \in 1 .. ((2 + size) + 2) + l : t[j] = b[j]
      /\ t[(((2 + size) + 2) + l) + 1] = Star /\ t[(((2 + size) + 2) + l) + 2] = Slash
  <2>1. /\ t \in Seq(Byte) /\ Len(t) = Len(b) + Len(v)
        /\ \A j \in 1 .. Len(b) : t[j] = b[j]
        /\ \A j \in 1 .. Len(v) : t[Len(b) + j] = v[j]
    <3>1. b \in Seq(Byte)
      BY <1>4, <1>7
    <3>2. v \in Seq(Byte)
      BY <1>4, <1>7
    <3> QED
      BY <3>1, <3>2, Joined
  <2> HIDE DEF t
  <2> QED
    BY <1>4, <1>7, <1>a, <2>1
<1> HIDE DEF t
<1>9. /\ Len(t) = size + l + 6
      /\ (((2 + size) + 2) + l) + 1 = size + l + 5 /\ (((2 + size) + 2) + l) + 2 = size + l + 6
      /\ (2 + size) + 2 = size + 4 /\ (2 + size) + 1 = size + 3
      /\ ((2 + size) + 2) + l = size + l + 4
  BY <1>2, <1>3, <1>8
<1>10. \A j \in 1 .. 2 + size : t[j] = x[j]
  <2>1. \A j \in 1 .. 2 + size : j \in 1 .. (2 + size) + 2 /\ j \in 1 .. ((2 + size) + 2) + l
    BY <1>2, <1>3
  <2> QED
    BY <1>6, <1>7, <1>8, <2>1
<1>11. t[1] = Slash /\ t[2] = Star /\ \A j \in 1 .. size : t[2 + j] = prefix[j]
  <2>1. /\ 1 \in 1 .. 2 + size /\ 2 \in 1 .. 2 + size
        /\ \A j \in 1 .. size : 2 + j \in 1 .. 2 + size
    BY <1>2
  <2> QED
    BY <1>5, <1>10, <2>1
<1>12. t[size + 3] = Bar /\ t[size + 4] = TagB
  <2>1. /\ (2 + size) + 1 \in 1 .. (2 + size) + 2 /\ (2 + size) + 1 \in 1 .. ((2 + size) + 2) + l
        /\ (2 + size) + 2 \in 1 .. (2 + size) + 2 /\ (2 + size) + 2 \in 1 .. ((2 + size) + 2) + l
    BY <1>2, <1>3
  <2>2. t[(2 + size) + 1] = Bar /\ t[(2 + size) + 2] = TagB
    BY <1>6, <1>7, <1>8, <2>1
  <2> QED
    BY <1>9, <2>2
<1>13. \A j \in 1 .. l : t[size + 4 + j] = d[j]
  <2>1. \A j \in 1 .. l : ((2 + size) + 2) + j \in 1 .. ((2 + size) + 2) + l
    BY <1>2, <1>3
  <2>2. \A j \in 1 .. l : t[((2 + size) + 2) + j] = d[j]
    BY <1>7, <1>8, <2>1
  <2> QED
    BY <1>9, <2>2
<1>14. t[size + l + 5] = Star /\ t[size + l + 6] = Slash
  BY <1>8, <1>9
<1>15. RemarkForm(t, prefix, d)
  BY <1>8, <1>9, <1>11, <1>12, <1>13, <1>14 DEF RemarkForm, size, l
<1> QED
  BY <1>1, <1>15 DEF d

\* The texts StubUpTo lays end to end.
Texts(c) ==
    [k \in 1 .. Len(slices) |->
        IF slices[k].type = Literal THEN RawOf(k) ELSE sentinelFor(k, c)]

Literals       == {k \in 1 .. Len(slices) : slices[k].type = Literal}
Identifiers(c) == {k \in 1 .. Len(slices) : IsIdentifier(k, c)}

\* The slices of a finished tiling lie in the source.
LEMMA SlicesInside ==
    ASSUME IInv, pc = "done", NEW k \in 1 .. Len(slices)
    PROVE  /\ slices[k].start \in Nat /\ slices[k].start >= 1
           /\ slices[k].stop \in Nat /\ slices[k].stop - 1 <= Len(src)
           /\ Len(src) \in Nat /\ Len(slices) \in Nat
<1>1. slices \in Seq(Slice) /\ Len(slices) \in Nat /\ Len(src) \in Nat
  BY SourceIs DEF IInv, TypeOK
<1>2. slices[k] \in Slice
  BY <1>1
<1>3. slices[k].start \in Nat \ {0} /\ slices[k].stop \in Nat \ {0}
  BY <1>2 DEF Slice
<1>4. slices[k].stop <= Len(src) + 1
  BY DEF IInv, GoodTiling, OneOwner
<1> QED
  BY <1>1, <1>3, <1>4

\* A literal holds what the source holds.
LEMMA RawIs ==
    ASSUME IInv, pc = "done", NEW k \in 1 .. Len(slices)
    PROVE  /\ RawOf(k) \in Seq(Byte)
           /\ \A prefix : Like(prefix) /\ Matches(src, prefix) = {}
                           => Matches(RawOf(k), prefix) = {}
<1> DEFINE from == slices[k].start
           to == slices[k].stop - 1
           r == RawOf(k)
<1>1. /\ from \in Nat /\ from >= 1 /\ to \in Int /\ to <= Len(src) /\ Len(src) \in Nat
  BY SlicesInside
<1>2. src \in Seq(Byte)
  BY SourceIs DEF IInv
<1>3. r = SubSeq(src, from, to)
  BY DEF RawOf
<1> HIDE DEF from, to, r
<1>4. \A l \in from .. to : src[l] \in Byte
  <2>1. \A l \in from .. to : l \in 1 .. Len(src)
    BY <1>1
  <2> QED
    BY <1>2, <2>1, ElementOfSeq
<1>5. /\ r \in Seq(Byte)
      /\ Len(r) = IF from <= to THEN to - from + 1 ELSE 0
      /\ \A l \in 1 .. to - from + 1 : r[l] = src[from + l - 1]
  <2>1. from \in Int /\ to \in Int
    BY <1>1
  <2> DEFINE u == SubSeq(src, from, to)
  <2>2. /\ u \in Seq(Byte)
        /\ Len(u) = IF from <= to THEN to - from + 1 ELSE 0
        /\ \A l \in 1 .. to - from + 1 : u[l] = src[from + l - 1]
    BY <1>4, <2>1, SubSeqProperties
  <2> HIDE DEF u
  <2>3. r = u
    BY <1>3 DEF u
  <2> QED
    BY <2>2, <2>3
<1>6. ASSUME NEW prefix, Like(prefix), Matches(src, prefix) = {}, NEW q \in Matches(r, prefix)
      PROVE  FALSE
  <2>1. prefix \in Seq(Byte) /\ prefix # <<>> /\ Len(prefix) \in Nat /\ Len(prefix) >= 3
    BY <1>6 DEF Like
  <2>2. /\ q \in Int /\ q >= 1 /\ q + Len(prefix) - 1 <= Len(r)
        /\ \A j \in 1 .. Len(prefix) : r[q + j - 1] = prefix[j]
    BY <1>5, <1>6, <2>1, MatchIs
  <2>3. from <= to /\ Len(r) = to - from + 1
    BY <1>1, <1>5, <2>1, <2>2
  <2> DEFINE p == from + q - 1
  <2>4. p \in Int /\ p >= 1 /\ p + Len(prefix) - 1 <= Len(src)
    BY <1>1, <2>1, <2>2, <2>3
  <2>5. ASSUME NEW j \in 1 .. Len(prefix) PROVE src[p + j - 1] = prefix[j]
    <3>1. q + j - 1 \in 1 .. to - from + 1 /\ from + (q + j - 1) - 1 = p + j - 1
      BY <1>1, <2>1, <2>2, <2>3
    <3> HIDE DEF p
    <3>2. r[q + j - 1] = src[from + (q + j - 1) - 1]
      BY <1>5, <3>1
    <3> QED
      BY <2>2, <3>1, <3>2
  <2> HIDE DEF p
  <2>6. p \in Matches(src, prefix)
    BY <1>2, <2>1, <2>4, <2>5, MatchIs
  <2> QED
    BY <1>6, <2>6
<1> QED
  BY <1>5, <1>6 DEF r

\* The texts of a stub are literals and sentinels.
LEMMA TextsStubbed ==
    ASSUME IInv, pc = "done", NEW c
    PROVE  Stubbed(uniquePrefix, Texts(c), Len(slices), Literals, Identifiers(c))
<1> DEFINE prefix == uniquePrefix
           n == Len(slices)
           f == Texts(c)
<1>1. Like(prefix) /\ Matches(src, prefix) = {}
  BY PrefixLike DEF IInv
<1>2. n \in Nat /\ slices \in Seq(Slice)
  BY DEF IInv, TypeOK
<1>3. ASSUME NEW k \in 1 .. n, k \in Literals
      PROVE  /\ f[k] \in Seq(Byte) /\ Matches(f[k], prefix) = {}
             /\ k + 1 \in 1 .. n => k + 1 \notin Literals
  <2>1. f[k] = RawOf(k)
    BY <1>3 DEF Texts, Literals
  <2>2. RawOf(k) \in Seq(Byte) /\ Matches(RawOf(k), prefix) = {}
    BY <1>1, RawIs
  <2>3. ASSUME k + 1 \in 1 .. n PROVE k + 1 \notin Literals
    <3>1. k + 1 > 1 /\ (k + 1) - 1 = k
      BY <1>2
    <3>2. slices[k + 1].type = Literal => slices[(k + 1) - 1].type # Literal
      BY <2>3, <3>1 DEF IInv, GoodTiling, Alternating
    <3>3. slices[k].type = Literal
      BY <1>3 DEF Literals
    <3> QED
      BY <3>1, <3>2, <3>3 DEF Literals
  <2> QED
    BY <2>1, <2>2, <2>3
<1>4. ASSUME NEW k \in 1 .. n, k \notin Literals
      PROVE  /\ f[k] \in Seq(Byte)
             /\ IF k \in Identifiers(c) THEN IdForm(f[k], prefix, Numeral[k - 1])
                ELSE RemarkForm(f[k], prefix, Numeral[k - 1])
  <2>1. k - 1 \in Nat
    BY <1>2
  <2>2. f[k] = IF k \in Identifiers(c)
               THEN actionSentinel(prefix, k - 1) ELSE commentSentinel(prefix, k - 1)
    BY <1>4 DEF Texts, Literals, Identifiers, sentinelFor
  <2>3. IdForm(actionSentinel(prefix, k - 1), prefix, Numeral[k - 1])
    BY <1>1, <2>1, actionSentinelForm
  <2>4. RemarkForm(commentSentinel(prefix, k - 1), prefix, Numeral[k - 1])
    BY <1>1, <2>1, commentSentinelForm
  <2> HIDE DEF f, prefix
  <2>5. CASE k \in Identifiers(c)
    <3>1. IdForm(f[k], prefix, Numeral[k - 1])
      BY <2>2, <2>3, <2>5
    <3> QED
      BY <2>5, <3>1 DEF IdForm
  <2>6. CASE k \notin Identifiers(c)
    <3>1. RemarkForm(f[k], prefix, Numeral[k - 1])
      BY <2>2, <2>4, <2>6
    <3> QED
      BY <2>6, <3>1 DEF RemarkForm
  <2> QED
    BY <2>5, <2>6
<1> HIDE DEF f, prefix
<1>5. \A k \in 1 .. n : f[k] \in Seq(Byte)
  BY <1>3, <1>4
<1>6. \A k \in 1 .. n : k \in Literals => /\ Matches(f[k], prefix) = {}
                                          /\ k + 1 \in 1 .. n => k + 1 \notin Literals
  BY <1>3
<1>7. \A k \in 1 .. n : k \notin Literals =>
          IF k \in Identifiers(c) THEN IdForm(f[k], prefix, Numeral[k - 1])
          ELSE RemarkForm(f[k], prefix, Numeral[k - 1])
  BY <1>4
<1>8. Stubbed(prefix, f, n, Literals, Identifiers(c))
  <2>1. Like(prefix) /\ n \in Nat
    BY <1>1, <1>2
  <2> HIDE DEF n
  <2> QED
    BY Zenon, <1>5, <1>6, <1>7, <2>1 DEF Stubbed
<1> QED
  BY <1>8 DEF f, prefix

\* The stub lays them end to end.
LEMMA StubIs ==
    ASSUME NEW c, NEW m \in 0 .. Len(slices), Len(slices) \in Nat
    PROVE  StubUpTo(m, c) = Flat(Texts(c), m)
<1>1. ASSUME NEW k \in 1 .. m
      PROVE  Texts(c)[k] = IF slices[k].type = Literal THEN RawOf(k) ELSE sentinelFor(k, c)
  <2>1. k \in 1 .. Len(slices)
    OBVIOUS
  <2> QED
    BY <2>1 DEF Texts
<1>2. [k \in 1 .. m |-> IF slices[k].type = Literal THEN RawOf(k) ELSE sentinelFor(k, c)]
        = [k \in 1 .. m |-> Texts(c)[k]]
  BY <1>1
<1> QED
  BY <1>2 DEF StubUpTo, Flat

\* A literal that goes on as the prefix does is what Echoes says.
LEMMA EchoIs ==
    ASSUME IInv, pc = "done", NEW c, NEW l,
           Echo(uniquePrefix, Texts(c), Len(slices), Literals, Identifiers(c), l)
    PROVE  Echoes(l, c) /\ l \in 1 .. Len(slices) /\ l + 1 \in 1 .. Len(slices)
<1> DEFINE prefix == uniquePrefix
           t == Tail(prefix)
           r == RawOf(l + 1)
<1>1. /\ l \in 1 .. Len(slices) /\ l \in Identifiers(c)
      /\ l + 1 \in 1 .. Len(slices) /\ l + 1 \in Literals
      /\ Len(prefix) - 1 <= Len(Texts(c)[l + 1])
      /\ \A j \in 1 .. Len(prefix) - 1 : Texts(c)[l + 1][j] = prefix[j + 1]
  BY DEF Echo
<1>2. Texts(c)[l + 1] = r /\ slices[l + 1].type = Literal /\ IsIdentifier(l, c)
  BY <1>1 DEF Texts, Literals, Identifiers
<1>3. Like(prefix)
  BY PrefixLike DEF IInv
<1>4. prefix \in Seq(Byte) /\ prefix # <<>> /\ Len(prefix) \in Nat /\ Len(prefix) >= 3
  BY <1>3 DEF Like
<1>5. r \in Seq(Byte) /\ Len(r) \in Nat
  <2>1. r \in Seq(Byte)
    BY <1>1, RawIs
  <2> QED
    BY <2>1, LenProperties
<1>6. t \in Seq(Byte) /\ Len(t) = Len(prefix) - 1 /\ \A j \in 1 .. Len(t) : t[j] = prefix[j + 1]
  <2> HIDE DEF prefix
  <2> QED
    BY <1>4, HeadTailProperties
<1>7. Len(slices) \in Nat
  BY DEF IInv, TypeOK
<1>s. /\ Len(prefix) - 1 <= Len(r)
      /\ \A j \in 1 .. Len(prefix) - 1 : r[j] = prefix[j + 1]
  BY <1>1, <1>2
<1> HIDE DEF prefix, t, r
<1>8. Len(t) \in Nat /\ Len(t) <= Len(r) /\ \A j \in 1 .. Len(t) : t[j] = r[j]
  BY <1>4, <1>6, <1>s
<1>9. SubSeq(t, 1, Len(t)) = SubSeq(r, 1, Len(t))
  <2>1. 1 \in Nat \ {0} /\ Len(t) <= Len(t)
    BY <1>8
  <2> QED
    BY <1>5, <1>6, <1>8, <2>1, SamePart
<1>10. IsPrefix(t, r)
  BY <1>8, <1>9 DEF IsPrefix
<1>11. l < Len(slices)
  BY <1>1, <1>7
<1>12. Echoes(l, c)
  BY <1>2, <1>10, <1>11 DEF Echoes, prefix, t, r
<1> QED
  BY <1>1, <1>12

\* A finished tiling has the property.
LEMMA DoneUnique ==
    ASSUME IInv, pc = "done"
    PROVE  SentinelsUnique
<1> SUFFICES ASSUME NEW c \in BOOLEAN, NEW k \in DOMAIN slices, slices[k].type # Literal
             PROVE  LET stub == StubUpTo(Len(slices), c)
                        starts == [l \in DOMAIN slices |-> Len(StubUpTo(l - 1, c)) + 1]
                        found == Matches(stub, sentinelFor(k, c))
                    IN  /\ starts[k] \in found
                        /\ \A p \in found \ {starts[k]} :
                              \E l \in DOMAIN slices : Echoes(l, c) /\ starts[l + 1] = p + 1
  BY Zenon DEF SentinelsUnique
<1> DEFINE n == Len(slices)
           f == Texts(c)
           stub == StubUpTo(n, c)
           starts == [l \in DOMAIN slices |-> Len(StubUpTo(l - 1, c)) + 1]
           x == sentinelFor(k, c)
           found == Matches(stub, x)
<1>1. n \in Nat /\ DOMAIN slices = 1 .. n
  BY DEF IInv, TypeOK
<1>2. Stubbed(uniquePrefix, f, n, Literals, Identifiers(c))
  BY TextsStubbed
<1>3. k \in 1 .. n /\ k \notin Literals /\ f[k] = x
  BY <1>1 DEF Texts, Literals
<1>4. stub = Flat(f, n)
  <2>1. n \in 0 .. Len(slices)
    BY <1>1
  <2> QED
    BY <1>1, <2>1, StubIs
<1>5. ASSUME NEW l \in 1 .. n PROVE starts[l] = Begins(f, l)
  <2>1. l - 1 \in 0 .. Len(slices) /\ l \in DOMAIN slices
    BY <1>1
  <2>2. StubUpTo(l - 1, c) = Flat(f, l - 1)
    <3> DEFINE m == l - 1
    <3>1. m \in 0 .. Len(slices)
      BY <2>1
    <3> HIDE DEF m
    <3>2. StubUpTo(m, c) = Flat(Texts(c), m)
      BY <1>1, <3>1, StubIs
    <3> QED
      BY <3>2 DEF m
  <2>3. starts[l] = Len(StubUpTo(l - 1, c)) + 1
    BY <2>1
  <2> QED
    BY <2>2, <2>3 DEF Begins
<1>6. x \in Seq(Byte) /\ x # <<>>
  <2> DEFINE d == Numeral[k - 1]
             prefix == uniquePrefix
  <2>1. Len(prefix) \in Nat /\ Len(prefix) >= 3
    BY <1>2 DEF Stubbed, Like
  <2>2. Len(d) \in Nat
    BY <1>1, <1>3, NumeralHere
  <2>3. IdForm(x, prefix, d) \/ RemarkForm(x, prefix, d)
    BY <1>2, <1>3 DEF Stubbed
  <2> HIDE DEF d, prefix, x
  <2>4. /\ x \in Seq(Byte)
        /\ Len(x) = Len(prefix) + Len(d) + 3 \/ Len(x) = Len(prefix) + Len(d) + 6
    BY <2>3 DEF IdForm, RemarkForm
  <2>5. Len(x) # 0
    BY <2>1, <2>2, <2>4
  <2> QED
    BY <2>4, <2>5
<1>7. stub \in Seq(Byte)
  BY <1>1, <1>2, <1>3, <1>4, Placed
<1> HIDE DEF f, stub, starts, x
<1>8. \A p : p \in found <=> FoundAt(stub, x, p)
  BY <1>6, <1>7, MatchIs DEF FoundAt
<1> HIDE DEF found
<1>9. starts[k] \in found
  <2>1. FoundAt(Flat(f, n), f[k], Begins(f, k))
    BY <1>2, <1>3, FoundInPlace
  <2> QED
    BY <1>3, <1>4, <1>5, <1>8, <2>1
<1>10. ASSUME NEW p \in found \ {starts[k]}
       PROVE  \E l \in DOMAIN slices : Echoes(l, c) /\ starts[l + 1] = p + 1
  <2>1. FoundAt(Flat(f, n), f[k], p)
    BY <1>3, <1>4, <1>8
  <2>2. \/ p = Begins(f, k)
        \/ \E l \in 1 .. n : Echo(uniquePrefix, f, n, Literals, Identifiers(c), l)
                                /\ Begins(f, l + 1) = p + 1
    BY <1>2, <1>3, <2>1, FoundOnce
  <2>3. p # Begins(f, k)
    BY <1>3, <1>5, <1>10
  <2>4. PICK l \in 1 .. n : /\ Echo(uniquePrefix, f, n, Literals, Identifiers(c), l)
                            /\ Begins(f, l + 1) = p + 1
    BY <2>2, <2>3
  <2>5. Echoes(l, c) /\ l + 1 \in 1 .. n
    BY <2>4, EchoIs DEF f
  <2> QED
    BY <1>1, <1>5, <2>4, <2>5
<1> QED
  BY <1>9, <1>10 DEF found, stub, starts, x

----------------------------------------------------------------------------
(* Theorems about the placeholders.                                        *)

\* The prefix of the sentinels does not occur in the source: "returns an
\* identifier prefix that does not occur in src" (sentinel.go:19-22), and the
\* way past the loop of its candidates is dead (sentinel.go:35-37).
THEOREM PrefixIsFree == Spec => [](Matches(src, uniquePrefix) = {})
<1>1. IInv => Matches(src, uniquePrefix) = {}
  BY PrefixLike DEF IInv
<1> QED
  BY <1>1, Inductive, PTL

\* Every sentinel is found at its own place in the stub, and elsewhere only
\* where a literal echoes one.
THEOREM SentinelsHold == Spec => []SentinelsUnique
<1>1. IInv => SentinelsUnique
  <2>1. CASE pc = "done"
    BY <2>1, DoneUnique
  <2>2. CASE pc # "done"
    BY <2>2 DEF SentinelsUnique
  <2> QED
    BY <2>1, <2>2
<1> QED
  BY <1>1, Inductive, PTL
=============================================================================
