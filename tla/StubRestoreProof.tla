-------------------------- MODULE StubRestoreProof --------------------------
(***************************************************************************)
(* For every tiling and every formatter: when VerifyFormatted finds        *)
(* nothing wrong, Restore finds every sentinel it looks for; what comes    *)
(* back has every slice, and every Go token that the formatter kept; and a *)
(* formatter that changes nothing gives the template back.                 *)
(***************************************************************************)
EXTENDS StubRestoreInvariants, FiniteSetTheorems, SequenceTheorems,
        WellFoundedInduction, TLAPS

LEMMA TypeFacts ==
    ASSUME IInv
    PROVE  /\ til \in Seq(RawSlice) /\ Len(til) \in Nat /\ DOMAIN til = 1 .. Len(til)
           /\ formatted \in Seq(Token) /\ Len(formatted) \in Nat
           /\ k \in Nat \ {0} /\ k <= Len(til) + 1
           /\ cur \in Nat \ {0} /\ cur <= Len(formatted) + 1
           /\ prevPos \in Nat /\ prevPos <= Len(formatted)
  BY TilingsAssumption DEF IInv, TypeOK

\* A sentinel names its slice, so two slices never share one.
LEMMA SentinelNames ==
    ASSUME NEW t, NEW c, NEW j
    PROVE  sentinelFor(t, c, j)[2] = j
  BY DEF sentinelFor

LEMMA Disjoint ==
    ASSUME NEW j, NEW l, j # l, NEW q \in SentinelAt(j)
    PROVE  q \notin SentinelAt(l)
  BY SentinelNames DEF SentinelAt, Occurrences

LEMMA Positions ==
    ASSUME IInv, NEW j, NEW q \in SentinelAt(j)
    PROVE  q \in 1 .. Len(formatted) /\ q \in Nat \ {0}
  BY TypeFacts DEF SentinelAt, Occurrences

\* A sentinel counted once has one position.
LEMMA CountedOnce ==
    ASSUME IInv, Once
    PROVE  \E p \in 1 .. Len(formatted) : SentinelAt(k) = {p}
<1>1. SentinelAt(k) = Occurrences(formatted, Needle)
  BY DEF SentinelAt, Needle
<1>2. IsFiniteSet(1 .. Len(formatted))
  BY FS_Interval, TypeFacts
<1>3. SentinelAt(k) \subseteq 1 .. Len(formatted)
  BY DEF SentinelAt, Occurrences
<1>4. IsFiniteSet(SentinelAt(k))
  BY <1>2, <1>3, FS_Subset
<1>5. Cardinality(SentinelAt(k)) = 1
  BY <1>1 DEF Once
<1>6. PICK p : SentinelAt(k) = {p}
  BY <1>4, <1>5, FS_Singleton
<1> QED
  BY <1>3, <1>6

\* Where strings.Index finds a sentinel that has one position.
LEMMA IndexOfOne ==
    ASSUME NEW s, NEW c, NEW from \in Nat, NEW p \in Nat,
           Occurrences(s, c) = {p}, p >= from
    PROVE  IndexFrom(s, c, from) = p
  BY DEF IndexFrom

LEMMA InitIInv == Init => IInv
<1> SUFFICES ASSUME Init PROVE IInv
  OBVIOUS
<1>1. til \in Seq(RawSlice) /\ Len(til) \in Nat
  BY TilingsAssumption DEF Init
<1>2. formatted = <<>> /\ Len(formatted) = 0 /\ formatted \in Seq(Token)
  BY DEF Init
<1>3. pc = "format" /\ k = 1 /\ prevPos = 0 /\ cur = 1 /\ til \in Tilings
      /\ commentStandalone = FALSE
  BY DEF Init
<1>4. TypeOK
  <2>1. k \in 1 .. Len(til) + 1
    BY <1>1, <1>3
  <2>2. prevPos \in 0 .. Len(formatted) /\ cur \in 1 .. Len(formatted) + 1
    <3>1. Len(formatted) = 0
      BY <1>2
    <3> HIDE <1>2
    <3> QED
      BY <1>3, <3>1
  <2> QED
    BY <1>3, <2>1, <2>2 DEF TypeOK
<1> QED
  BY <1>2, <1>3, <1>4 DEF IInv

LEMMA GiveUpInductive == IInv /\ GiveUp => IInv'
  BY DEF IInv, GiveUp, TypeOK

LEMMA GofumptAcceptsInductive == IInv /\ GofumptAccepts => IInv'
<1> SUFFICES ASSUME IInv, GofumptAccepts PROVE IInv'
  OBVIOUS
<1>1. formatted' \in Seq(Token) /\ Len(formatted') \in Nat
  BY GofumptAssumption DEF GofumptAccepts, IInv, TypeOK
<1>2. /\ til' = til /\ commentStandalone' = commentStandalone
      /\ k' = 1 /\ prevPos' = 0 /\ cur' = 1 /\ pc' = "verify"
  BY DEF GofumptAccepts
<1>3. TypeOK'
  BY <1>1, <1>2, TypeFacts DEF IInv, TypeOK
<1>4. \A j \in Actions' : ~(j < k')
  BY <1>2, TypeFacts DEF Actions
<1>5. VerifiedUpTo(k)'
  BY <1>4 DEF VerifiedUpTo
<1> QED
  BY <1>1, <1>2, <1>3, <1>4, <1>5 DEF IInv

LEMMA SkipLiteralInductive == IInv /\ SkipLiteral => IInv'
<1> SUFFICES ASSUME IInv, SkipLiteral PROVE IInv'
  OBVIOUS
<1>1. /\ pc \in {"verify", "restore"} /\ k <= Len(til) /\ til[k].type = Literal
      /\ k' = k + 1
      /\ UNCHANGED <<til, commentStandalone, formatted, prevPos, cur, out, pc>>
  BY DEF SkipLiteral, AtSlice
<1>2. TypeOK'
  BY <1>1, TypeFacts DEF IInv, TypeOK
<1>3. Actions' = Actions /\ \A j : SentinelAt(j)' = SentinelAt(j)
  BY <1>1 DEF Actions, SentinelAt
<1>4. Actions \subseteq Nat \ {0} /\ k \notin Actions
  BY <1>1, TypeFacts DEF Actions
<1>5. \A j \in Actions : (j < k + 1 <=> j < k) /\ (j >= k + 1 <=> j >= k)
  BY <1>4, TypeFacts
<1>6. pc = "verify" => VerifiedUpTo(k)'
  BY <1>1, <1>3, <1>5 DEF IInv, VerifiedUpTo
<1>7. pc = "verify" => \A j \in Actions : j < k' => \A q \in SentinelAt(j) : q <= prevPos
  BY <1>1, <1>5 DEF IInv
<1>8. pc = "restore" => VerifiedUpTo(Len(til) + 1)'
  BY <1>1, <1>3 DEF IInv, VerifiedUpTo
<1>9. pc = "restore" => \A j \in Actions : j >= k' => \A q \in SentinelAt(j) : q >= cur
  BY <1>1, <1>5 DEF IInv
<1> QED
  BY <1>1, <1>2, <1>3, <1>6, <1>7, <1>8, <1>9, TypeFacts DEF IInv

LEMMA VerifySliceInductive == IInv /\ VerifySlice => IInv'
<1> SUFFICES ASSUME IInv, VerifySlice PROVE IInv'
  OBVIOUS
<1>1. /\ pc = "verify" /\ k <= Len(til) /\ til[k].type # Literal
      /\ Once /\ InOrder
      /\ prevPos' = IndexFrom(formatted, Needle, 1)
      /\ k' = k + 1
      /\ UNCHANGED <<til, commentStandalone, formatted, cur, out, pc>>
  BY DEF VerifySlice, AtSlice
<1>2. PICK p \in 1 .. Len(formatted) : SentinelAt(k) = {p}
  BY <1>1, CountedOnce
<1>3. p \in Nat \ {0} /\ p <= Len(formatted)
  BY <1>2, TypeFacts
<1>4. prevPos' = p /\ p >= prevPos
  <2>1. Occurrences(formatted, Needle) = {p}
    BY <1>2 DEF SentinelAt, Needle
  <2>2. IndexFrom(formatted, Needle, 1) = p
    BY <1>3, <2>1, IndexOfOne
  <2> QED
    BY <1>1, <2>2 DEF InOrder
<1>5. TypeOK'
  BY <1>1, <1>3, <1>4, TypeFacts DEF IInv, TypeOK
<1>6. Actions' = Actions /\ \A j : SentinelAt(j)' = SentinelAt(j)
  BY <1>1 DEF Actions, SentinelAt
<1>7. Actions \subseteq Nat \ {0} /\ k \in Actions
  BY <1>1, TypeFacts DEF Actions
<1>8. \A j \in Actions : j < k + 1 <=> j < k \/ j = k
  BY <1>7, TypeFacts
<1>9. VerifiedUpTo(k) /\ \A j \in Actions : j < k => \A q \in SentinelAt(j) : q <= prevPos
  BY <1>1 DEF IInv
\* The sentinels before this one lie strictly before it.
<1>10. \A l \in Actions : l < k => \A q \in SentinelAt(l) : q < p
  <2> SUFFICES ASSUME NEW l \in Actions, l < k, NEW q \in SentinelAt(l) PROVE q < p
    OBVIOUS
  <2>1. q <= prevPos /\ q \in Nat
    BY <1>9, Positions
  <2>2. q # p
    BY <1>2, <1>7, Disjoint, TypeFacts
  <2> QED
    BY <1>3, <1>4, <2>1, <2>2, TypeFacts
<1>11. VerifiedUpTo(k + 1)
  <2> SUFFICES ASSUME NEW j \in Actions, j < k + 1
               PROVE  \E r \in 1 .. Len(formatted) :
                        /\ SentinelAt(j) = {r}
                        /\ \A l \in Actions : l < j => \A q \in SentinelAt(l) : q < r
    BY DEF VerifiedUpTo
  <2>1. CASE j < k
    BY <1>9, <2>1 DEF VerifiedUpTo
  <2>2. CASE j = k
    BY <1>2, <1>10, <2>2
  <2> QED
    BY <1>8, <2>1, <2>2
<1>12. VerifiedUpTo(k)'
  BY <1>1, <1>6, <1>11 DEF VerifiedUpTo
<1>13. \A j \in Actions : j < k' => \A q \in SentinelAt(j) : q <= prevPos'
  <2> SUFFICES ASSUME NEW j \in Actions, j < k + 1, NEW q \in SentinelAt(j) PROVE q <= p
    BY <1>1, <1>4
  <2>1. CASE j < k
    BY <1>3, <1>10, <2>1, Positions
  <2>2. CASE j = k
    BY <1>2, <1>3, <2>2
  <2> QED
    BY <1>8, <2>1, <2>2
<1> QED
  BY <1>1, <1>5, <1>6, <1>12, <1>13, TypeFacts DEF IInv

LEMMA VerifyFailsInductive == IInv /\ VerifyFails => IInv'
  BY GiveUpInductive DEF VerifyFails

LEMMA GofumptRejectsInductive == IInv /\ GofumptRejects => IInv'
  BY GiveUpInductive DEF GofumptRejects

\* When the verify loop is through, every sentinel is known to be there once,
\* and Restore starts before all of them.
LEMMA VerifyDoneInductive == IInv /\ VerifyDone => IInv'
<1> SUFFICES ASSUME IInv, VerifyDone PROVE IInv'
  OBVIOUS
<1>1. /\ pc = "verify" /\ k > Len(til) /\ pc' = "restore" /\ k' = 1
      /\ UNCHANGED <<til, commentStandalone, formatted, prevPos, cur, out>>
  BY DEF VerifyDone
<1>2. cur = 1
  BY <1>1 DEF IInv
<1>3. k = Len(til) + 1 /\ VerifiedUpTo(k)
  BY <1>1, TypeFacts DEF IInv
<1>4. Actions' = Actions /\ \A j : SentinelAt(j)' = SentinelAt(j)
  BY <1>1 DEF Actions, SentinelAt
<1>5. VerifiedUpTo(Len(til) + 1)'
  BY <1>1, <1>3, <1>4 DEF VerifiedUpTo
<1>6. \A j \in Actions : \A q \in SentinelAt(j) : q >= cur
  BY <1>2, Positions
<1>7. TypeOK'
  BY <1>1, TypeFacts DEF IInv, TypeOK
<1> QED
  BY <1>1, <1>4, <1>5, <1>6, <1>7, TypeFacts DEF IInv

\* The slice Restore is at has its sentinel ahead.
LEMMA RestoreFinds == IInv => VerifiedRestores
<1> SUFFICES ASSUME IInv, pc = "restore", k <= Len(til), til[k].type # Literal PROVE Found
  BY DEF VerifiedRestores
<1>1. k \in Actions /\ k < Len(til) + 1 /\ k >= k
  BY TypeFacts DEF Actions
<1>2. PICK p \in 1 .. Len(formatted) : SentinelAt(k) = {p}
  BY <1>1 DEF IInv, VerifiedUpTo
<1>3. p >= cur
  BY <1>1, <1>2 DEF IInv
<1> QED
  BY <1>2, <1>3 DEF Found, SentinelAt, Needle

LEMMA RestoreSliceInductive == IInv /\ RestoreSlice => IInv'
<1> SUFFICES ASSUME IInv, RestoreSlice PROVE IInv'
  OBVIOUS
<1>1. pc = "restore" /\ k <= Len(til) /\ til[k].type # Literal
  BY DEF RestoreSlice, AtSlice
<1>2. Found
  BY <1>1, RestoreFinds DEF VerifiedRestores
<1>3. /\ cur' = IndexFrom(formatted, Needle, cur) + 1 /\ k' = k + 1
      /\ UNCHANGED <<til, commentStandalone, formatted, prevPos, pc>>
  BY <1>2 DEF RestoreSlice
<1>4. Actions \subseteq Nat \ {0} /\ k \in Actions
  BY <1>1, TypeFacts DEF Actions
<1>5. PICK p \in 1 .. Len(formatted) : SentinelAt(k) = {p}
  BY <1>1, <1>4, TypeFacts DEF IInv, VerifiedUpTo
<1>6. p \in Nat \ {0} /\ p <= Len(formatted) /\ p >= cur
  BY <1>1, <1>4, <1>5, TypeFacts DEF IInv
<1>7. cur' = p + 1
  <2>1. Occurrences(formatted, Needle) = {p}
    BY <1>5 DEF SentinelAt, Needle
  <2> QED
    BY <1>3, <1>6, <2>1, IndexOfOne, TypeFacts
<1>8. TypeOK'
  BY <1>1, <1>3, <1>6, <1>7, TypeFacts DEF IInv, TypeOK
<1>9. Actions' = Actions /\ \A j : SentinelAt(j)' = SentinelAt(j)
  BY <1>3 DEF Actions, SentinelAt
<1>10. VerifiedUpTo(Len(til) + 1)'
  BY <1>1, <1>3, <1>9 DEF IInv, VerifiedUpTo
<1>11. ASSUME NEW j \in Actions, j >= k + 1, NEW q \in SentinelAt(j)
       PROVE  q >= p + 1
  <2>1. j \in Nat /\ j < Len(til) + 1 /\ k < j
    BY <1>4, <1>11, TypeFacts DEF Actions
  <2>2. PICK r \in 1 .. Len(formatted) :
            SentinelAt(j) = {r} /\ \A l \in Actions : l < j => \A s \in SentinelAt(l) : s < r
    BY <1>1, <2>1 DEF IInv, VerifiedUpTo
  <2>3. p < r /\ q = r
    BY <1>4, <1>5, <1>11, <2>1, <2>2
  <2> QED
    BY <1>6, <2>3, TypeFacts
<1>12. \A j \in Actions : j >= k' => \A q \in SentinelAt(j) : q >= cur'
  BY <1>3, <1>7, <1>11
<1> QED
  BY <1>1, <1>3, <1>8, <1>9, <1>10, <1>12, TypeFacts DEF IInv

LEMMA RestoreDoneInductive == IInv /\ RestoreDone => IInv'
  BY DEF RestoreDone, IInv, TypeOK

LEMMA NextInductive == IInv /\ [Next]_vars => IInv'
<1>1. IInv /\ UNCHANGED vars => IInv'
  <2> SUFFICES ASSUME IInv, UNCHANGED vars PROVE IInv'
    OBVIOUS
  <2>1. Actions' = Actions /\ \A j : SentinelAt(j)' = SentinelAt(j)
    BY DEF vars, Actions, SentinelAt
  <2> QED
    BY <2>1 DEF vars, IInv, TypeOK, VerifiedUpTo
<1> QED
  BY <1>1, GofumptAcceptsInductive, GofumptRejectsInductive, SkipLiteralInductive,
     VerifySliceInductive, VerifyFailsInductive, VerifyDoneInductive,
     RestoreSliceInductive, RestoreDoneInductive
  DEF Next

\* The inductive invariant, for every tiling and every formatter.
THEOREM Inductive == Spec => []IInv
  BY InitIInv, NextInductive, PTL DEF Spec

\* Once VerifyFormatted is satisfied Restore finds every sentinel: the error
\* branch behind it in tryFormat never runs.
THEOREM VerifyIsEnough == Spec => []VerifiedRestores
  BY Inductive, RestoreFinds, PTL

----------------------------------------------------------------------------
(***************************************************************************)
(* What Restore has written.  The sentinels it consumed lie behind cur and *)
(* the others ahead, so the gap it copies holds none of them; and cur      *)
(* stands right after a sentinel, which is what decides whether the next   *)
(* action is the first thing on its line.  While Restore runs, the text    *)
(* ends in the previous slice unless a literal came between.               *)
(***************************************************************************)

\* gofumpt's text holds sentinels of this template and no slice.
Stubbed ==
    \A p \in DOMAIN formatted :
        /\ ~IsRaw(formatted[p])
        /\ IsSentinel(formatted[p]) => \E j \in Actions : p \in SentinelAt(j)

Consumed ==
    /\ \A j \in Actions : j < k => \A q \in SentinelAt(j) : q < cur
    /\ cur = 1 => out = <<>>
    /\ cur > 1 => IsSentinel(formatted[cur - 1])
    /\ k - 1 \in Actions => out # <<>> /\ IsRaw(out[Len(out)])

\* The slices before k are in the text, once and in order, and no sentinel is.
Written ==
    /\ out \in Seq(Token)
    /\ \A p \in DOMAIN out : ~IsSentinel(out[p])
    /\ \A p \in DOMAIN out : IsRaw(out[p]) => out[p][2] \in Actions /\ out[p][2] < k
    /\ \A j \in Actions : j < k => \E p \in DOMAIN out : IsRaw(out[p]) /\ out[p][2] = j
    /\ \A p, q \in DOMAIN out :
          IsRaw(out[p]) /\ IsRaw(out[q]) /\ p < q => out[p][2] < out[q][2]

Touching(o, p) == o[p][2] - 1 \in Actions => p > 1 /\ IsRaw(o[p - 1])

Adjacent == \A p \in DOMAIN out : IsRaw(out[p]) => Touching(out, p)

\* Go text stands before position p on its line.
Inline(o, p) ==
    \E q \in 1 .. p - 1 : IsGo(o[q]) /\ \A r \in q .. p - 1 : o[r] # Text("\n")

\* What VerbatimKept says of the slice at position p of the text o.
Verbatim(o, p) ==
    LET j == o[p][2]
    IN  /\ til[j].type = Define => o[p] = Raw(til, j)
        /\ \A l \in DOMAIN til[j].cont :
              stringLineMask(til[j].cont)[l] => o[p][3][l] = til[j].cont[l].indent
        /\ precededByLiteral(til, j) /\ Inline(o, p) => o[p] = Raw(til, j)

AllVerbatim == \A p \in DOMAIN out : IsRaw(out[p]) => Verbatim(out, p)

RestoreInv ==
    /\ IInv
    /\ pc \in {"verify", "restore"} => Stubbed
    /\ pc = "verify" => out = <<>>
    /\ pc = "restore" => Consumed
    /\ pc = "done" => k = Len(til) + 1
    /\ pc \in {"restore", "done"} => Written /\ Adjacent /\ AllVerbatim

\* A set of naturals that is not empty has a least element.
LEMMA Least ==
    ASSUME NEW S, S \subseteq Nat, S # {}
    PROVE  \E m \in S : \A n \in S : m <= n
<1>1. IsWellFoundedOn(OpToRel(<, Nat), Nat)
  BY NatLessThanWellFounded
<1>2. PICK x \in S : \A y \in S : ~ (<<y, x>> \in OpToRel(<, Nat))
  BY <1>1, WFMin
<1>3. ASSUME NEW y \in S PROVE x <= y
  <2>1. x \in Nat /\ y \in Nat
    BY <1>2
  <2>2. ~(y < x)
    BY <1>2, <2>1 DEF OpToRel
  <2> QED
    BY <2>1, <2>2
<1> QED
  BY <1>2, <1>3

Newline == Text("\n")
Blank1 == Text(" ")

\* No newline from position q up to p.
SameLine(s, q, p) == \A r \in q .. p - 1 : s[r] # Newline

\* LinePrefix begins at the first position of p's line.
LEMMA LineStart ==
    ASSUME NEW s, NEW p \in Nat \ {0}
    PROVE  \E first \in 1 .. p :
              /\ LinePrefix(s, p) = SubSeq(s, first, p - 1)
              /\ \A q \in 1 .. p : SameLine(s, q, p) => first <= q
<1> DEFINE starts == {q \in 1 .. p : SameLine(s, q, p)}
           first  == CHOOSE q \in starts : \A r \in starts : q <= r
<1>1. LinePrefix(s, p) = SubSeq(s, first, p - 1)
  BY Zenon DEF LinePrefix, SameLine, Newline
<1>2. p \in starts
  BY DEF SameLine
<1>3. starts \subseteq Nat
  OBVIOUS
<1>4. \E q \in starts : \A r \in starts : q <= r
  BY <1>2, <1>3, Least
<1>5. first \in starts /\ \A r \in starts : first <= r
  BY <1>4
<1> QED
  BY <1>1, <1>5

\* Something other than white space on the line before p shows in its prefix.
LEMMA PrefixHas ==
    ASSUME NEW s \in Seq(Token), NEW p \in 1 .. Len(s), NEW q \in 1 .. p - 1,
           SameLine(s, q, p), s[q] # Blank1
    PROVE  ~isAllSpaceOrTab(LinePrefix(s, p))
<1>0. p \in Nat \ {0} /\ Len(s) \in Nat
  OBVIOUS
<1>1. PICK first \in 1 .. p :
          /\ LinePrefix(s, p) = SubSeq(s, first, p - 1)
          /\ \A r \in 1 .. p : SameLine(s, r, p) => first <= r
  BY <1>0, LineStart
<1>2. first <= q
  BY <1>1
<1>3. /\ q - first + 1 \in DOMAIN SubSeq(s, first, p - 1)
      /\ SubSeq(s, first, p - 1)[q - first + 1] = s[q]
  BY <1>2
<1> QED
  BY <1>1, <1>3, Zenon DEF isAllSpaceOrTab, Blank1

LEMMA PrefixLength ==
    ASSUME NEW s \in Seq(Token), NEW p \in 1 .. Len(s)
    PROVE  Len(LinePrefix(s, p)) \in Nat
<1>0. p \in Nat \ {0} /\ Len(s) \in Nat
  OBVIOUS
<1>1. PICK first \in 1 .. p : LinePrefix(s, p) = SubSeq(s, first, p - 1)
  BY <1>0, LineStart
<1> QED
  BY <1>1

LEMMA SliceToken ==
    ASSUME NEW j \in Nat, NEW v \in Seq(Nat), NEW c, c = <<"slice", j, v>>
    PROVE  /\ c \in Token /\ IsRaw(c) /\ ~IsSentinel(c)
           /\ c[2] = j /\ c[3] = v
<1>1. c \in Token
  BY DEF Token
<1>2. c[1] = "slice" /\ c[2] = j /\ c[3] = v
  OBVIOUS
<1>3. "slice" \notin {"ident", "remark"}
  OBVIOUS
<1> QED
  BY <1>1, <1>2, <1>3 DEF IsRaw, IsSentinel

\* A slice put back is the slice it was, and its bytes are as they were if it
\* is a define block; lines inside a string literal always are.
LEMMA RestoredIs ==
    ASSUME IInv, NEW p \in 1 .. Len(formatted), NEW j \in DOMAIN til
    PROVE  LET c == Restored(formatted, p, til, j)
           IN  /\ c \in Token /\ IsRaw(c) /\ ~IsSentinel(c) /\ c[2] = j
               /\ til[j].type = Define => c = Raw(til, j)
               /\ \A l \in DOMAIN til[j].cont :
                     stringLineMask(til[j].cont)[l] => c[3][l] = til[j].cont[l].indent
<1> DEFINE n == Len(LinePrefix(formatted, p))
           moved == [l \in DOMAIN til[j].cont |->
                        IF stringLineMask(til[j].cont)[l] THEN til[j].cont[l].indent ELSE n]
           c == Restored(formatted, p, til, j)
<1>1. til[j].cont \in Seq(Line) /\ j \in Nat
  <2>1. til[j] \in RawSlice /\ j \in Nat
    BY TypeFacts
  <2> QED
    BY <2>1 DEF RawSlice
<1>2. \A l \in DOMAIN til[j].cont : til[j].cont[l].indent \in Nat
  <2>1. \A l \in DOMAIN til[j].cont : til[j].cont[l] \in Line
    BY <1>1
  <2> QED
    BY <2>1 DEF Line
<1>3. n \in Nat
  BY PrefixLength, TypeFacts
<1>4. Indents(til[j]) \in Seq(Nat)
  BY <1>1, <1>2 DEF Indents
<1>5. moved \in Seq(Nat)
  BY <1>1, <1>2, <1>3
<1>6. c = Raw(til, j) \/ (til[j].type # Define /\ c = <<"slice", j, moved>>)
  BY DEF Restored, reindentContinuation
<1>7. Raw(til, j) = <<"slice", j, Indents(til[j])>>
  BY DEF Raw
<1>8. \A l \in DOMAIN til[j].cont : Indents(til[j])[l] = til[j].cont[l].indent
  BY DEF Indents
<1> HIDE DEF c, n
<1> SUFFICES /\ c \in Token /\ IsRaw(c) /\ ~IsSentinel(c) /\ c[2] = j
             /\ til[j].type = Define => c = Raw(til, j)
             /\ \A l \in DOMAIN til[j].cont :
                   stringLineMask(til[j].cont)[l] => c[3][l] = til[j].cont[l].indent
  BY DEF c
<1>9. CASE c = Raw(til, j)
  <2>1. c = <<"slice", j, Indents(til[j])>>
    BY <1>7, <1>9
  <2>2. /\ c \in Token /\ IsRaw(c) /\ ~IsSentinel(c)
        /\ c[2] = j /\ c[3] = Indents(til[j])
    BY <1>1, <1>4, <2>1, SliceToken
  <2> QED
    BY <1>8, <1>9, <2>2
<1>10. CASE til[j].type # Define /\ c = <<"slice", j, moved>>
  <2>1. c = <<"slice", j, moved>>
    BY <1>10
  <2>2. /\ c \in Token /\ IsRaw(c) /\ ~IsSentinel(c)
        /\ c[2] = j /\ c[3] = moved
    BY <1>1, <1>5, <2>1, SliceToken
  <2> QED
    BY <1>10, <2>2
<1> QED
  BY <1>6, <1>9, <1>10

----------------------------------------------------------------------------
(* Restore, step by step.                                                   *)

LEMMA OutFacts ==
    ASSUME RestoreInv, pc \in {"restore", "done"}
    PROVE  out \in Seq(Token) /\ Len(out) \in Nat /\ DOMAIN out = 1 .. Len(out)
  BY DEF RestoreInv, Written

\* Three texts put together, position by position.
LEMMA Joined ==
    ASSUME NEW T, NEW a \in Seq(T), NEW b \in Seq(T), NEW c \in T, NEW o,
           o = a \o b \o <<c>>
    PROVE  /\ o \in Seq(T) /\ Len(o) = Len(a) + Len(b) + 1
           /\ \A i \in 1 .. Len(a) : o[i] = a[i]
           /\ \A i \in 1 .. Len(b) : o[Len(a) + i] = b[i]
           /\ o[Len(a) + Len(b) + 1] = c
<1>1. /\ a \o b \in Seq(T) /\ Len(a \o b) = Len(a) + Len(b)
      /\ \A i \in 1 .. Len(a) : (a \o b)[i] = a[i]
      /\ \A i \in 1 .. Len(b) : (a \o b)[Len(a) + i] = b[i]
  OBVIOUS
<1> DEFINE ab == a \o b
<1> HIDE DEF ab
<1>2. ab \in Seq(T) /\ <<c>> \in Seq(T) /\ Len(<<c>>) = 1 /\ <<c>>[1] = c
  BY <1>1 DEF ab
<1>3. o = ab \o <<c>>
  BY DEF ab
<1>4. /\ o \in Seq(T) /\ Len(o) = Len(ab) + 1
      /\ \A i \in 1 .. Len(ab) : o[i] = ab[i]
      /\ o[Len(ab) + 1] = c
  <2>1. ab \in Seq(T)
    BY <1>2
  <2>2. ab \o <<c>> \in Seq(T) /\ Len(ab \o <<c>>) = Len(ab) + 1
    BY <2>1
  <2>3. \A i \in 1 .. Len(ab) : (ab \o <<c>>)[i] = ab[i]
    BY <2>1
  <2>4. (ab \o <<c>>)[Len(ab) + 1] = c
    BY <2>1
  <2> QED
    BY <1>3, <2>2, <2>3, <2>4
<1>5. Len(ab) = Len(a) + Len(b) /\ Len(a) \in Nat /\ Len(b) \in Nat
  BY <1>1 DEF ab
<1>6. ASSUME NEW i \in 1 .. Len(a) PROVE o[i] = a[i]
  BY <1>1, <1>4, <1>5 DEF ab
<1>7. ASSUME NEW i \in 1 .. Len(b) PROVE o[Len(a) + i] = b[i]
  BY <1>1, <1>4, <1>5 DEF ab
<1> QED
  BY <1>4, <1>5, <1>6, <1>7

\* The gap before an action, and the action, are appended to the text: g tokens
\* of formatted from cur on, then the slice of the sentinel at p.
Appends(p, g) ==
    /\ out' \in Seq(Token) /\ Len(out') = Len(out) + g + 1
    /\ \A i \in 1 .. Len(out) : out'[i] = out[i]
    /\ \A i \in 1 .. g : out'[Len(out) + i] = formatted[cur + i - 1]
    /\ out'[Len(out) + g + 1] = Restored(formatted, p, til, k)

LEMMA RestoreSliceIs ==
    ASSUME RestoreInv, RestoreSlice
    PROVE  \E p \in 1 .. Len(formatted) : \E g \in Nat :
              /\ SentinelAt(k) = {p} /\ p >= cur /\ cur' = p + 1
              /\ g = IF precededByLiteral(til, k) THEN p - cur ELSE 0
              /\ Appends(p, g)
<1>1. pc = "restore" /\ k <= Len(til) /\ til[k].type # Literal /\ IInv
  BY DEF RestoreSlice, AtSlice, RestoreInv
<1>2. Found
  BY <1>1, RestoreFinds DEF VerifiedRestores
<1>3. k \in Actions
  BY <1>1, TypeFacts DEF Actions
<1>4. PICK p \in 1 .. Len(formatted) : SentinelAt(k) = {p}
  BY <1>1, <1>3, TypeFacts DEF IInv, VerifiedUpTo
<1>5. p \in Nat \ {0} /\ p <= Len(formatted) /\ p >= cur
  BY <1>1, <1>3, <1>4, TypeFacts DEF IInv
<1>6. IndexFrom(formatted, Needle, cur) = p
  <2>1. Occurrences(formatted, Needle) = {p}
    BY <1>4 DEF SentinelAt, Needle
  <2> QED
    BY <1>1, <1>5, <2>1, IndexOfOne, TypeFacts
<1> DEFINE gap == IF precededByLiteral(til, k) THEN SubSeq(formatted, cur, p - 1) ELSE <<>>
           c == Restored(formatted, p, til, k)
<1>7. cur' = p + 1 /\ out' = out \o gap \o <<c>>
  BY <1>2, <1>6 DEF RestoreSlice
<1>8. /\ SubSeq(formatted, cur, p - 1) \in Seq(Token)
      /\ Len(SubSeq(formatted, cur, p - 1)) = p - cur
      /\ \A i \in 1 .. p - cur : SubSeq(formatted, cur, p - 1)[i] = formatted[cur + i - 1]
  BY <1>1, <1>5, TypeFacts
<1>9. gap \in Seq(Token) /\ Len(gap) \in Nat
      /\ Len(gap) = (IF precededByLiteral(til, k) THEN p - cur ELSE 0)
      /\ \A i \in 1 .. Len(gap) : gap[i] = formatted[cur + i - 1]
  <2>1. CASE precededByLiteral(til, k)
    BY <1>1, <1>5, <1>8, <2>1, TypeFacts
  <2>2. CASE ~precededByLiteral(til, k)
    BY <2>2
  <2> QED
    BY <2>1, <2>2
<1>10. c \in Token
  BY <1>1, <1>3, RestoredIs DEF Actions
<1>11. out \in Seq(Token) /\ Len(out) \in Nat
  BY <1>1, OutFacts
<1> HIDE DEF gap, c
<1>12. /\ out' \in Seq(Token) /\ Len(out') = Len(out) + Len(gap) + 1
       /\ \A i \in 1 .. Len(out) : out'[i] = out[i]
       /\ \A i \in 1 .. Len(gap) : out'[Len(out) + i] = gap[i]
       /\ out'[Len(out) + Len(gap) + 1] = c
  <2>1. out \in Seq(Token) /\ gap \in Seq(Token) /\ c \in Token
    BY <1>9, <1>10, <1>11
  <2>2. out' = out \o gap \o <<c>>
    BY <1>7
  <2> QED
    BY <2>1, <2>2, Joined
<1>13. Appends(p, Len(gap))
  BY <1>9, <1>12 DEF Appends, c
<1> QED
  BY <1>4, <1>5, <1>7, <1>9, <1>13

\* What lies between the consumed sentinels and the next one is neither a
\* sentinel nor a slice.
LEMMA GapIsText ==
    ASSUME RestoreInv, pc = "restore", NEW r \in cur .. Len(formatted),
           \A j \in Actions : j >= k => \A q \in SentinelAt(j) : r < q
    PROVE  ~IsSentinel(formatted[r]) /\ ~IsRaw(formatted[r])
<1>1. r \in DOMAIN formatted /\ r \in Nat
  BY TypeFacts DEF RestoreInv
<1>2. ~IsRaw(formatted[r])
  BY <1>1 DEF RestoreInv, Stubbed
<1>3. ASSUME IsSentinel(formatted[r]) PROVE FALSE
  <2>1. PICK j \in Actions : r \in SentinelAt(j)
    BY <1>1, <1>3 DEF RestoreInv, Stubbed
  <2>2. CASE j >= k
    BY <1>1, <2>1, <2>2
  <2>3. CASE j < k
    <3>1. r < cur
      BY <2>1, <2>3 DEF RestoreInv, Consumed
    <3> QED
      BY <1>1, <3>1, TypeFacts DEF RestoreInv
  <2> QED
    BY <2>1, <2>2, <2>3, TypeFacts DEF Actions, RestoreInv
<1> QED
  BY <1>2, <1>3

\* The slices of the longer text are those it had, at their places, and the
\* one restored now at its end; no sentinel comes with the gap.
LEMMA SlicesAfter ==
    ASSUME RestoreInv, pc = "restore", k \in Actions,
           NEW p \in 1 .. Len(formatted), NEW g \in Nat,
           SentinelAt(k) = {p}, p >= cur,
           g = 0 \/ g = p - cur, Appends(p, g)
    PROVE  /\ DOMAIN out' = 1 .. Len(out) + g + 1
           /\ \A i \in 1 .. Len(out) : out'[i] = out[i]
           /\ \A i \in Len(out) + 1 .. Len(out) + g :
                 /\ cur + (i - Len(out)) - 1 \in cur .. p - 1
                 /\ out'[i] = formatted[cur + (i - Len(out)) - 1]
                 /\ ~IsRaw(out'[i]) /\ ~IsSentinel(out'[i])
           /\ LET c == out'[Len(out) + g + 1]
              IN  IsRaw(c) /\ ~IsSentinel(c) /\ c[2] = k
<1>1. /\ Len(out) \in Nat /\ cur \in Nat \ {0} /\ p \in Nat \ {0}
      /\ k \in DOMAIN til /\ Len(formatted) \in Nat
  BY OutFacts, TypeFacts DEF RestoreInv, Actions
<1>2. /\ out' \in Seq(Token) /\ Len(out') = Len(out) + g + 1
      /\ \A i \in 1 .. Len(out) : out'[i] = out[i]
      /\ \A i \in 1 .. g : out'[Len(out) + i] = formatted[cur + i - 1]
      /\ out'[Len(out) + g + 1] = Restored(formatted, p, til, k)
  BY DEF Appends
<1>3. LET c == out'[Len(out) + g + 1]
      IN  IsRaw(c) /\ ~IsSentinel(c) /\ c[2] = k
  BY <1>1, <1>2, RestoredIs DEF RestoreInv
\* The sentinels still looked for do not come before p.
<1>4. \A j \in Actions : j >= k => \A q \in SentinelAt(j) : q >= p
  <2> SUFFICES ASSUME NEW j \in Actions, j >= k, NEW q \in SentinelAt(j) PROVE q >= p
    OBVIOUS
  <2>1. CASE j = k
    BY <1>1, <2>1
  <2>2. CASE j # k
    <3>1. j \in Nat /\ k \in Nat /\ k < j /\ j < Len(til) + 1
      BY <1>1, <2>2, TypeFacts DEF RestoreInv, Actions
    <3>2. PICK r \in 1 .. Len(formatted) :
            SentinelAt(j) = {r} /\ \A l \in Actions : l < j => \A s \in SentinelAt(l) : s < r
      BY <3>1 DEF RestoreInv, IInv, VerifiedUpTo
    <3>3. p < r /\ q = r
      BY <3>1, <3>2
    <3> QED
      BY <1>1, <3>3
  <2> QED
    BY <2>1, <2>2
<1>5. ASSUME NEW i \in Len(out) + 1 .. Len(out) + g
      PROVE  /\ cur + (i - Len(out)) - 1 \in cur .. p - 1
             /\ out'[i] = formatted[cur + (i - Len(out)) - 1]
             /\ ~IsRaw(out'[i]) /\ ~IsSentinel(out'[i])
  <2> DEFINE r == cur + (i - Len(out)) - 1
  <2>1. i \in Nat /\ i - Len(out) \in 1 .. g /\ g = p - cur
    BY <1>1
  <2>2. r \in cur .. p - 1 /\ r \in cur .. Len(formatted)
    BY <1>1, <2>1
  <2>3. out'[i] = formatted[r]
    <3>1. out'[Len(out) + (i - Len(out))] = formatted[cur + (i - Len(out)) - 1]
      BY <1>2, <2>1
    <3>2. Len(out) + (i - Len(out)) = i
      BY <1>1, <2>1
    <3> QED
      BY <3>1, <3>2
  <2>4. ~IsSentinel(formatted[r]) /\ ~IsRaw(formatted[r])
    <3>1. \A j \in Actions : j >= k => \A q \in SentinelAt(j) : r < q
      BY <1>1, <1>4, <2>2, Positions DEF RestoreInv
    <3> QED
      BY <2>2, <3>1, GapIsText
  <2> QED
    BY <2>2, <2>3, <2>4
<1>6. DOMAIN out' = 1 .. Len(out) + g + 1
  BY <1>2
<1> QED
  BY <1>2, <1>3, <1>5, <1>6

\* The places of the longer text, in their three parts.
LEMMA PlacesAfter ==
    ASSUME NEW n \in Nat, NEW g \in Nat, NEW i \in 1 .. n + g + 1
    PROVE  i \in 1 .. n \/ i \in n + 1 .. n + g \/ i = n + g + 1
  OBVIOUS

\* The hypotheses of a restored slice, for the lemmas below.
Restoring(p, g) ==
    /\ RestoreInv /\ pc = "restore" /\ k \in Actions
    /\ p \in 1 .. Len(formatted) /\ g \in Nat
    /\ SentinelAt(k) = {p} /\ p >= cur /\ cur' = p + 1 /\ k' = k + 1
    /\ g = IF precededByLiteral(til, k) THEN p - cur ELSE 0
    /\ Appends(p, g)
    /\ UNCHANGED <<til, commentStandalone, formatted, prevPos, pc>>

LEMMA RestoreSliceRestoring ==
    ASSUME RestoreInv, RestoreSlice
    PROVE  \E p, g : Restoring(p, g)
<1>1. pc = "restore" /\ k <= Len(til) /\ til[k].type # Literal /\ IInv
  BY DEF RestoreSlice, AtSlice, RestoreInv
<1>2. Found
  BY <1>1, RestoreFinds DEF VerifiedRestores
<1>3. k \in Actions
  BY <1>1, TypeFacts DEF Actions
<1>4. k' = k + 1 /\ UNCHANGED <<til, commentStandalone, formatted, prevPos, pc>>
  BY <1>2 DEF RestoreSlice
<1>5. PICK p \in 1 .. Len(formatted), g \in Nat :
              /\ SentinelAt(k) = {p} /\ p >= cur /\ cur' = p + 1
              /\ g = IF precededByLiteral(til, k) THEN p - cur ELSE 0
              /\ Appends(p, g)
  BY RestoreSliceIs
<1> QED
  BY <1>1, <1>3, <1>4, <1>5 DEF Restoring

LEMMA RestoringFacts ==
    ASSUME NEW p, NEW g, Restoring(p, g)
    PROVE  /\ Len(out) \in Nat /\ out \in Seq(Token) /\ DOMAIN out = 1 .. Len(out)
           /\ out' \in Seq(Token) /\ Len(out') = Len(out) + g + 1
           /\ DOMAIN out' = 1 .. Len(out) + g + 1
           /\ k \in Nat \ {0} /\ p \in Nat \ {0} /\ cur \in Nat \ {0} /\ g \in Nat
           /\ Actions' = Actions /\ Actions \subseteq Nat \ {0}
           /\ \A i \in 1 .. Len(out) : out'[i] = out[i]
           /\ \A i \in Len(out) + 1 .. Len(out) + g :
                 /\ cur + (i - Len(out)) - 1 \in cur .. p - 1
                 /\ out'[i] = formatted[cur + (i - Len(out)) - 1]
                 /\ ~IsRaw(out'[i]) /\ ~IsSentinel(out'[i])
           /\ LET c == out'[Len(out) + g + 1]
              IN  IsRaw(c) /\ ~IsSentinel(c) /\ c[2] = k
<1>1. /\ RestoreInv /\ IInv /\ pc = "restore" /\ k \in Actions
      /\ p \in 1 .. Len(formatted) /\ g \in Nat
      /\ SentinelAt(k) = {p} /\ p >= cur
      /\ g = 0 \/ g = p - cur
      /\ Appends(p, g) /\ til' = til
  BY DEF Restoring, RestoreInv
<1>2. Actions' = Actions /\ Actions \subseteq Nat \ {0}
  BY <1>1, TypeFacts DEF Actions
<1>3. /\ Len(out) \in Nat /\ out \in Seq(Token) /\ DOMAIN out = 1 .. Len(out)
      /\ k \in Nat \ {0} /\ p \in Nat \ {0} /\ cur \in Nat \ {0} /\ g \in Nat
  BY <1>1, TypeFacts, OutFacts
<1>4. out' \in Seq(Token) /\ Len(out') = Len(out) + g + 1
  BY <1>1 DEF Appends
<1> HIDE <1>1
<1> QED
  BY <1>1, <1>2, <1>3, <1>4, SlicesAfter

\* Every slice before the next one is in the text, once, and in order.
LEMMA WrittenStep ==
    ASSUME NEW p, NEW g, Restoring(p, g)
    PROVE  Written'
<1> DEFINE n == Len(out)
           z == n + g + 1
<1>1. /\ n \in Nat /\ DOMAIN out = 1 .. n /\ DOMAIN out' = 1 .. z /\ z \in Nat
      /\ k \in Nat \ {0} /\ g \in Nat /\ k' = k + 1 /\ k \in Actions
      /\ out' \in Seq(Token) /\ Actions' = Actions /\ Actions \subseteq Nat \ {0}
      /\ \A i \in 1 .. n : out'[i] = out[i]
      /\ \A i \in n + 1 .. n + g : ~IsRaw(out'[i]) /\ ~IsSentinel(out'[i])
      /\ IsRaw(out'[z]) /\ ~IsSentinel(out'[z]) /\ out'[z][2] = k
  <2>1. k \in Actions /\ k' = k + 1
    BY DEF Restoring
  <2>2. n \in Nat /\ g \in Nat
    BY RestoringFacts
  <2> QED
    BY <2>1, <2>2, RestoringFacts
<1>2. Written
  BY DEF Restoring, RestoreInv
<1> HIDE DEF n, z
<1>3. \A i \in DOMAIN out' : i \in 1 .. n \/ i \in n + 1 .. n + g \/ i = z
  BY <1>1, PlacesAfter DEF z
<1>4. \A i \in DOMAIN out' : ~IsSentinel(out'[i])
  BY <1>1, <1>2, <1>3 DEF Written
\* A slice in the longer text is one it had or the new one.
<1>5. ASSUME NEW i \in DOMAIN out', IsRaw(out'[i])
      PROVE  \/ i \in 1 .. n /\ IsRaw(out[i]) /\ out[i][2] \in Actions
                /\ out[i][2] < k /\ out'[i][2] = out[i][2]
             \/ i = z /\ out'[i][2] = k
  BY <1>1, <1>2, <1>3, <1>5 DEF Written
<1>6. \A i \in DOMAIN out' : IsRaw(out'[i]) => out'[i][2] \in Actions /\ out'[i][2] < k + 1
  <2> SUFFICES ASSUME NEW i \in DOMAIN out', IsRaw(out'[i])
               PROVE  out'[i][2] \in Actions /\ out'[i][2] < k + 1
    OBVIOUS
  <2>1. CASE i = z
    BY <1>1, <2>1
  <2>2. CASE i # z
    <3>1. out[i][2] \in Actions /\ out[i][2] < k /\ out'[i][2] = out[i][2]
      BY <1>5, <2>2
    <3>2. out[i][2] \in Nat
      BY <1>1, <3>1
    <3> QED
      BY <1>1, <3>1, <3>2
  <2> QED
    BY <2>1, <2>2
<1>7. ASSUME NEW j \in Actions, j < k + 1
      PROVE  \E i \in DOMAIN out' : IsRaw(out'[i]) /\ out'[i][2] = j
  <2>1. CASE j = k
    <3>1. z \in DOMAIN out'
      BY <1>1 DEF z
    <3> QED
      BY <1>1, <2>1, <3>1
  <2>2. CASE j < k
    <3>1. PICK i \in DOMAIN out : IsRaw(out[i]) /\ out[i][2] = j
      BY <1>2, <2>2 DEF Written
    <3>2. i \in DOMAIN out' /\ out'[i] = out[i]
      BY <1>1, <3>1 DEF z
    <3> QED
      BY <3>1, <3>2
  <2> QED
    BY <1>1, <1>7, <2>1, <2>2
<1>8. ASSUME NEW i \in DOMAIN out', NEW j \in DOMAIN out',
             IsRaw(out'[i]), IsRaw(out'[j]), i < j
      PROVE  out'[i][2] < out'[j][2]
  <2>1. i # z
    BY <1>1, <1>8
  <2>2. i \in 1 .. n /\ IsRaw(out[i]) /\ out[i][2] < k /\ out'[i][2] = out[i][2]
    BY <1>5, <1>8, <2>1
  <2>3. CASE j = z
    BY <1>1, <2>2, <2>3
  <2>4. CASE j # z
    <3>1. j \in 1 .. n /\ IsRaw(out[j]) /\ out'[j][2] = out[j][2]
      BY <1>5, <1>8, <2>4
    <3> QED
      BY <1>1, <1>2, <1>8, <2>2, <3>1 DEF Written
  <2> QED
    BY <2>3, <2>4
<1> QED
  BY <1>1, <1>4, <1>6, <1>7, <1>8 DEF Written

\* No gap is copied between slices that touch in the source.
LEMMA AdjacentStep ==
    ASSUME NEW p, NEW g, Restoring(p, g)
    PROVE  Adjacent'
<1> DEFINE n == Len(out)
           z == n + g + 1
<1>1. /\ n \in Nat /\ DOMAIN out = 1 .. n /\ DOMAIN out' = 1 .. z /\ z \in Nat
      /\ k \in Nat \ {0} /\ g \in Nat
      /\ Actions' = Actions /\ Actions \subseteq Nat \ {0}
      /\ \A i \in 1 .. n : out'[i] = out[i]
      /\ \A i \in n + 1 .. n + g : ~IsRaw(out'[i])
      /\ IsRaw(out'[z]) /\ out'[z][2] = k
  <2>1. n \in Nat /\ g \in Nat
    BY RestoringFacts
  <2> QED
    BY <2>1, RestoringFacts
<1>2. \A i \in DOMAIN out : IsRaw(out[i]) => Touching(out, i)
  BY DEF Restoring, RestoreInv, Adjacent
<1>3. k - 1 \in Actions => n >= 1 /\ IsRaw(out[n]) /\ g = 0
  <2> SUFFICES ASSUME k - 1 \in Actions PROVE n >= 1 /\ IsRaw(out[n]) /\ g = 0
    OBVIOUS
  <2>1. out # <<>> /\ IsRaw(out[Len(out)])
    BY DEF Restoring, RestoreInv, Consumed
  <2>2. ~precededByLiteral(til, k)
    BY DEF precededByLiteral, Actions
  <2>3. g = 0
    BY <2>2 DEF Restoring
  <2>4. out \in Seq(Token)
    BY RestoringFacts
  <2>5. n >= 1
    BY <1>1, <2>1, <2>4
  <2> QED
    BY <2>1, <2>3, <2>5
<1> SUFFICES ASSUME NEW i \in DOMAIN out', IsRaw(out'[i]), out'[i][2] - 1 \in Actions
             PROVE  i > 1 /\ IsRaw(out'[i - 1])
  BY <1>1 DEF Adjacent, Touching
<1> HIDE DEF n
<1>4. CASE i \in 1 .. n
  <2>1. i > 1 /\ IsRaw(out[i - 1])
    BY <1>1, <1>2, <1>4 DEF Touching
  <2>2. i - 1 \in 1 .. n
    BY <1>1, <1>4, <2>1
  <2> QED
    BY <1>1, <2>1, <2>2
<1>5. CASE i = z
  <2>1. n >= 1 /\ IsRaw(out[n]) /\ g = 0
    BY <1>1, <1>3, <1>5
  <2>2. i - 1 = n /\ n \in 1 .. n /\ i > 1
    BY <1>1, <1>5, <2>1
  <2> QED
    BY <1>1, <2>1, <2>2
<1> QED
  BY <1>1, <1>4, <1>5

\* Restore stands right after the sentinel it replaced.
LEMMA ConsumedStep ==
    ASSUME NEW p, NEW g, Restoring(p, g)
    PROVE  Consumed'
<1>1. /\ p \in Nat \ {0} /\ cur \in Nat \ {0} /\ p >= cur /\ cur' = p + 1
      /\ k \in Nat \ {0} /\ k' = k + 1 /\ k \in Actions /\ SentinelAt(k) = {p}
      /\ Actions' = Actions /\ Actions \subseteq Nat \ {0}
  BY RestoringFacts DEF Restoring
<1>2. \A j : SentinelAt(j)' = SentinelAt(j)
  BY DEF Restoring, SentinelAt
<1>3. ASSUME NEW j \in Actions, j < k + 1, NEW q \in SentinelAt(j) PROVE q < p + 1
  <2>1. CASE j = k
    BY <1>1, <1>3, <2>1
  <2>2. CASE j < k
    <3>1. q < cur
      BY <1>3, <2>2 DEF Restoring, RestoreInv, Consumed
    <3>2. q \in Nat
      BY <1>3, Positions DEF Restoring, RestoreInv
    <3> QED
      BY <1>1, <3>1, <3>2
  <2> QED
    BY <1>1, <1>3, <2>1, <2>2
<1>4. formatted' = formatted /\ IsSentinel(formatted[p])
  <2>1. p \in SentinelAt(k) /\ formatted' = formatted
    BY <1>1 DEF Restoring
  <2>2. formatted[p] = sentinelFor(til, commentStandalone, k)
    BY <2>1 DEF SentinelAt, Occurrences
  <2>3. sentinelFor(til, commentStandalone, k)[1] \in {"ident", "remark"}
    BY DEF sentinelFor
  <2> QED
    BY <2>1, <2>2, <2>3 DEF IsSentinel
<1>5. Len(out') >= 1 /\ IsRaw(out'[Len(out')]) /\ out' # <<>>
  <2>1. /\ out' \in Seq(Token) /\ Len(out') = Len(out) + g + 1
        /\ Len(out) \in Nat /\ g \in Nat /\ IsRaw(out'[Len(out) + g + 1])
    BY RestoringFacts
  <2> QED
    BY <2>1
<1>6. cur' # 1 /\ cur' - 1 = p
  BY <1>1
<1> QED
  BY <1>1, <1>2, <1>3, <1>4, <1>5, <1>6 DEF Consumed

LEMMA SentinelIsNoSpace ==
    ASSUME NEW c, IsSentinel(c)
    PROVE  c # Blank1 /\ c # Newline
<1>1. c[1] = "ident" \/ c[1] = "remark"
  BY DEF IsSentinel
<1>2. Blank1[1] = " " /\ Newline[1] = "\n"
  BY DEF Blank1, Newline, Text
<1>3. " " # "ident" /\ " " # "remark" /\ "\n" # "ident" /\ "\n" # "remark"
  OBVIOUS
<1> QED
  BY <1>1, <1>2, <1>3, Zenon

LEMMA GoIsNoSpace ==
    ASSUME NEW c, IsGo(c)
    PROVE  c # Blank1
  BY Zenon DEF IsGo, White, Blank1

\* Go text before an action on its line is before its sentinel on the line
\* gofumpt wrote: in the gap that is copied, or, when the gap holds no newline,
\* as the sentinel before the gap.
LEMMA InlineSeen ==
    ASSUME NEW p, NEW g, Restoring(p, g), precededByLiteral(til, k),
           Inline(out', Len(out) + g + 1)
    PROVE  ~isAllSpaceOrTab(LinePrefix(formatted, p))
<1> DEFINE n == Len(out)
           at(r) == n + (r - cur) + 1
<1>1. /\ n \in Nat /\ p \in Nat \ {0} /\ cur \in Nat \ {0} /\ g \in Nat
      /\ out \in Seq(Token)
      /\ \A i \in n + 1 .. n + g : out'[i] = formatted[cur + (i - n) - 1]
  BY RestoringFacts
<1>2. p \in 1 .. Len(formatted) /\ p >= cur /\ g = p - cur
  BY DEF Restoring
<1>3. formatted \in Seq(Token)
  BY TypeFacts DEF Restoring, RestoreInv
<1>4. PICK q \in 1 .. n + g : IsGo(out'[q]) /\ \A r \in q .. n + g : out'[r] # Newline
  <2>1. (n + g + 1) - 1 = n + g
    BY <1>1
  <2>2. \E q \in 1 .. (n + g + 1) - 1 :
            IsGo(out'[q]) /\ \A r \in q .. (n + g + 1) - 1 : out'[r] # Newline
    BY Zenon DEF Inline, Newline
  <2> QED
    BY <2>1, <2>2
<1> HIDE DEF n
\* Where the tokens of the gap have gone.
<1>5. ASSUME NEW r \in cur .. p - 1
      PROVE  at(r) \in n + 1 .. n + g /\ out'[at(r)] = formatted[r]
  <2>1. at(r) \in n + 1 .. n + g /\ cur + (at(r) - n) - 1 = r
    BY <1>1, <1>2
  <2> QED
    BY <1>1, <2>1
<1>6. CASE q > n
  <2> DEFINE at0 == cur + (q - n) - 1
  <2>1. at0 \in cur .. p - 1 /\ at(at0) = q
    BY <1>1, <1>2, <1>6
  <2>2. formatted[at0] # Blank1
    BY <1>4, <1>5, <2>1, GoIsNoSpace
  <2>3. ASSUME NEW r \in at0 .. p - 1 PROVE formatted[r] # Newline
    <3>1. r \in cur .. p - 1 /\ at(r) \in q .. n + g
      BY <1>1, <1>2, <1>6, <2>1
    <3> QED
      BY <1>4, <1>5, <3>1
  <2>4. SameLine(formatted, at0, p) /\ at0 \in 1 .. p - 1
    BY <1>1, <2>1, <2>3 DEF SameLine
  <2> QED
    BY <1>2, <1>3, <2>2, <2>4, PrefixHas
<1>7. CASE q <= n
  <2>1. cur > 1 /\ IsSentinel(formatted[cur - 1])
    <3>1. out # <<>>
      BY <1>1, <1>7 DEF n
    <3> QED
      BY <1>1, <3>1 DEF Restoring, RestoreInv, Consumed
  <2>2. formatted[cur - 1] # Blank1 /\ formatted[cur - 1] # Newline
    BY <2>1, SentinelIsNoSpace
  <2>3. ASSUME NEW r \in cur - 1 .. p - 1 PROVE formatted[r] # Newline
    <3>1. CASE r = cur - 1
      BY <2>2, <3>1
    <3>2. CASE r # cur - 1
      <4>1. r \in cur .. p - 1
        BY <1>1, <3>2
      <4>2. at(r) \in q .. n + g
        BY <1>1, <1>2, <1>5, <1>7, <4>1
      <4> QED
        BY <1>4, <1>5, <4>1, <4>2
    <3> QED
      BY <3>1, <3>2
  <2>4. SameLine(formatted, cur - 1, p)
    BY <2>3 DEF SameLine
  <2>5. cur - 1 \in 1 .. p - 1
    BY <1>1, <1>2, <2>1
  <2> QED
    BY <1>2, <1>3, <2>2, <2>4, <2>5, PrefixHas
<1> QED
  BY <1>1, <1>4, <1>6, <1>7

LEMMA VerbatimStep ==
    ASSUME NEW p, NEW g, Restoring(p, g)
    PROVE  AllVerbatim'
<1> DEFINE n == Len(out)
           z == n + g + 1
           c == out'[z]
<1>1. /\ n \in Nat /\ DOMAIN out = 1 .. n /\ DOMAIN out' = 1 .. z /\ z \in Nat
      /\ g \in Nat /\ \A i \in 1 .. n : out'[i] = out[i]
      /\ \A i \in n + 1 .. n + g : ~IsRaw(out'[i])
  <2>1. n \in Nat /\ g \in Nat
    BY RestoringFacts
  <2> QED
    BY <2>1, RestoringFacts
<1>2. til' = til /\ k \in DOMAIN til /\ p \in 1 .. Len(formatted) /\ IInv
  BY DEF Restoring, RestoreInv, Actions
<1>3. c = Restored(formatted, p, til, k) /\ c[2] = k
  <2>1. out'[z] = Restored(formatted, p, til, k)
    BY DEF Restoring, Appends
  <2> QED
    BY <1>2, <2>1, RestoredIs
<1>4. Verbatim(out', z)
  <2>1. til[k].type = Define => c = Raw(til, k)
    BY <1>2, <1>3, RestoredIs
  <2>2. \A l \in DOMAIN til[k].cont :
            stringLineMask(til[k].cont)[l] => c[3][l] = til[k].cont[l].indent
    BY <1>2, <1>3, RestoredIs
  <2>3. precededByLiteral(til, k) /\ Inline(out', z) => c = Raw(til, k)
    <3> SUFFICES ASSUME precededByLiteral(til, k), Inline(out', z) PROVE c = Raw(til, k)
      OBVIOUS
    <3>1. ~isAllSpaceOrTab(LinePrefix(formatted, p))
      BY InlineSeen
    <3> QED
      BY <1>3, <3>1 DEF Restored, reindentContinuation
  <2> HIDE DEF z
  <2> QED
    BY <1>3, <2>1, <2>2, <2>3 DEF Verbatim
<1>5. ASSUME NEW i \in 1 .. n, IsRaw(out[i]) PROVE Verbatim(out', i)
  <2>1. Verbatim(out, i) /\ out'[i] = out[i]
    BY <1>1, <1>5 DEF Restoring, RestoreInv, AllVerbatim
  <2>2. Inline(out', i) => Inline(out, i)
    <3> SUFFICES ASSUME NEW q \in 1 .. i - 1, IsGo(out'[q]),
                        \A r \in q .. i - 1 : out'[r] # Text("\n")
                 PROVE  Inline(out, i)
      BY Zenon DEF Inline
    <3>1. \A r \in q .. i - 1 : out'[r] = out[r]
      BY <1>1, <1>5
    <3>2. q \in q .. i - 1
      BY <1>1, <1>5
    <3> QED
      BY <3>1, <3>2, Zenon DEF Inline
  <2> QED
    BY <2>1, <2>2 DEF Verbatim
<1> SUFFICES ASSUME NEW i \in DOMAIN out', IsRaw(out'[i]) PROVE Verbatim(out', i)
  BY <1>2 DEF AllVerbatim, Verbatim
<1> QED
  BY <1>1, <1>4, <1>5

LEMMA RestoreSliceKeeps == RestoreInv /\ RestoreSlice => RestoreInv'
<1> SUFFICES ASSUME RestoreInv, RestoreSlice PROVE RestoreInv'
  OBVIOUS
<1>1. PICK p, g : Restoring(p, g)
  BY RestoreSliceRestoring
<1>2. IInv'
  BY RestoreSliceInductive DEF RestoreInv
<1>3. Written' /\ Adjacent' /\ Consumed' /\ AllVerbatim'
  BY <1>1, WrittenStep, AdjacentStep, ConsumedStep, VerbatimStep
<1>4. pc = "restore" /\ pc' = pc
      /\ UNCHANGED <<til, formatted, commentStandalone>>
  BY <1>1 DEF Restoring
<1>5. Stubbed'
  BY <1>4 DEF RestoreInv, Stubbed, Actions, SentinelAt
<1> QED
  BY <1>2, <1>3, <1>4, <1>5 DEF RestoreInv

\* The rest of gofumpt's text holds no sentinel and no slice.
LEMMA RestoreDoneKeeps == RestoreInv /\ RestoreDone => RestoreInv'
<1> SUFFICES ASSUME RestoreInv, RestoreDone PROVE RestoreInv'
  OBVIOUS
<1> DEFINE n == Len(out)
           tail == SubSeq(formatted, cur, Len(formatted))
<1>1. /\ pc = "restore" /\ k = Len(til) + 1 /\ pc' = "done"
      /\ out' = out \o tail
      /\ UNCHANGED <<til, commentStandalone, formatted, k, prevPos, cur>>
  BY TypeFacts DEF RestoreDone, RestoreInv
<1>2. IInv'
  BY RestoreDoneInductive DEF RestoreInv
<1>3. /\ out \in Seq(Token) /\ n \in Nat /\ DOMAIN out = 1 .. n
      /\ formatted \in Seq(Token) /\ Len(formatted) \in Nat
      /\ cur \in Nat \ {0} /\ cur <= Len(formatted) + 1
  BY <1>1, OutFacts, TypeFacts DEF RestoreInv
<1>4. /\ tail \in Seq(Token) /\ Len(tail) \in Nat
      /\ \A i \in 1 .. Len(tail) : /\ cur + i - 1 \in cur .. Len(formatted)
                                   /\ tail[i] = formatted[cur + i - 1]
  BY <1>3
<1> HIDE DEF tail
<1>5. ASSUME NEW i \in 1 .. Len(tail) PROVE ~IsRaw(tail[i]) /\ ~IsSentinel(tail[i])
  <2>1. \A j \in Actions : ~(j >= k)
    BY <1>1, TypeFacts DEF Actions, RestoreInv
  <2>2. cur + i - 1 \in cur .. Len(formatted) /\ tail[i] = formatted[cur + i - 1]
    BY <1>4
  <2> DEFINE r == cur + i - 1
  <2> HIDE DEF r
  <2>3. r \in cur .. Len(formatted) /\ tail[i] = formatted[r]
    BY <2>2 DEF r
  <2>4. ~IsSentinel(formatted[r]) /\ ~IsRaw(formatted[r])
    BY <1>1, <2>1, <2>3, GapIsText
  <2> QED
    BY <2>3, <2>4
<1>6. /\ out' \in Seq(Token) /\ Len(out') = n + Len(tail)
      /\ \A i \in 1 .. n : out'[i] = out[i]
      /\ \A i \in n + 1 .. n + Len(tail) : i - n \in 1 .. Len(tail) /\ out'[i] = tail[i - n]
  BY <1>1, <1>3, <1>4
<1>7. DOMAIN out' = 1 .. n + Len(tail)
  BY <1>6
<1>8. ASSUME NEW i \in DOMAIN out'
      PROVE  \/ i \in DOMAIN out /\ out'[i] = out[i]
             \/ i \notin DOMAIN out /\ ~IsRaw(out'[i]) /\ ~IsSentinel(out'[i])
  <2>1. CASE i \in 1 .. n
    BY <1>3, <1>6, <2>1
  <2>2. CASE i \in n + 1 .. n + Len(tail)
    <3>1. i \notin 1 .. n
      BY <1>3, <2>2
    <3> QED
      BY <1>3, <1>5, <1>6, <2>2, <3>1
  <2> QED
    BY <1>3, <1>4, <1>7, <2>1, <2>2
<1>9. \A i \in DOMAIN out : i \in DOMAIN out' /\ out'[i] = out[i]
  BY <1>3, <1>4, <1>6, <1>7
<1>10. Written /\ Adjacent /\ AllVerbatim
  BY <1>1 DEF RestoreInv
<1>11. Actions' = Actions
  BY <1>1 DEF Actions
<1>12. Written'
  BY <1>1, <1>6, <1>8, <1>9, <1>10, <1>11 DEF Written
<1>13. Adjacent'
  <2> SUFFICES ASSUME NEW i \in DOMAIN out', IsRaw(out'[i]), out'[i][2] - 1 \in Actions
               PROVE  i > 1 /\ IsRaw(out'[i - 1])
    BY <1>11 DEF Adjacent, Touching
  <2>1. i \in DOMAIN out /\ out'[i] = out[i]
    BY <1>8
  <2>2. i > 1 /\ IsRaw(out[i - 1])
    BY <1>10, <2>1 DEF Adjacent, Touching
  <2>3. i - 1 \in DOMAIN out
    BY <1>3, <2>1, <2>2
  <2> QED
    BY <1>9, <2>2, <2>3
<1>14. AllVerbatim'
  <2> SUFFICES ASSUME NEW i \in DOMAIN out', IsRaw(out'[i]) PROVE Verbatim(out', i)
    BY <1>1 DEF AllVerbatim, Verbatim
  <2>1. i \in DOMAIN out /\ out'[i] = out[i]
    BY <1>8
  <2>2. Verbatim(out, i)
    BY <1>10, <2>1 DEF AllVerbatim
  <2>3. Inline(out', i) => Inline(out, i)
    <3> SUFFICES ASSUME NEW q \in 1 .. i - 1, IsGo(out'[q]),
                        \A r \in q .. i - 1 : out'[r] # Text("\n")
                 PROVE  Inline(out, i)
      BY Zenon DEF Inline
    <3>1. \A r \in q .. i - 1 : out'[r] = out[r]
      BY <1>3, <1>6, <2>1
    <3>2. q \in q .. i - 1
      BY <1>3, <2>1
    <3> QED
      BY <3>1, <3>2, Zenon DEF Inline
  <2> QED
    BY <2>1, <2>2, <2>3 DEF Verbatim
<1> QED
  BY <1>1, <1>2, <1>12, <1>13, <1>14 DEF RestoreInv

LEMMA GofumptAcceptsKeeps == RestoreInv /\ GofumptAccepts => RestoreInv'
<1> SUFFICES ASSUME RestoreInv, GofumptAccepts PROVE RestoreInv'
  OBVIOUS
<1>1. /\ til \in Tilings /\ commentStandalone \in BOOLEAN
      /\ formatted' \in Gofumpt(Stub(til, commentStandalone))
      /\ til' = til /\ commentStandalone' = commentStandalone
      /\ out' = <<>> /\ pc' = "verify"
  BY DEF GofumptAccepts, RestoreInv, IInv, TypeOK
<1>2. IInv'
  BY GofumptAcceptsInductive DEF RestoreInv
<1>3. Stubbed'
  <2> SUFFICES ASSUME NEW p \in DOMAIN formatted'
               PROVE  /\ ~IsRaw(formatted'[p])
                      /\ IsSentinel(formatted'[p]) => \E j \in Actions' : p \in SentinelAt(j)'
    BY DEF Stubbed
  <2>1. ~IsRaw(formatted'[p])
    BY <1>1, SentinelsAssumption
  <2>2. ASSUME IsSentinel(formatted'[p])
        PROVE  \E j \in Actions' : p \in SentinelAt(j)'
    <3>1. PICK j \in DOMAIN til : /\ til[j].type # Literal
                                  /\ formatted'[p] = sentinelFor(til, commentStandalone, j)
      BY <1>1, <2>2, SentinelsAssumption
    <3>2. p \in 1 .. Len(formatted')
      BY <1>2 DEF IInv
    <3>3. j \in Actions' /\ p \in SentinelAt(j)'
      BY <1>1, <3>1, <3>2 DEF Actions, SentinelAt, Occurrences
    <3> QED
      BY <3>3
  <2> QED
    BY <2>1, <2>2
<1> QED
  BY <1>1, <1>2, <1>3 DEF RestoreInv

LEMMA GiveUpKeeps ==
    ASSUME RestoreInv, GiveUp, pc \in {"format", "verify"}
    PROVE  RestoreInv'
<1>1. IInv'
  BY GiveUpInductive DEF RestoreInv
<1>2. pc' \in {"format", "fallback"}
  BY DEF GiveUp
<1> QED
  BY <1>1, <1>2 DEF RestoreInv

LEMMA SkipLiteralKeeps == RestoreInv /\ SkipLiteral => RestoreInv'
<1> SUFFICES ASSUME RestoreInv, SkipLiteral PROVE RestoreInv'
  OBVIOUS
<1>1. /\ pc \in {"verify", "restore"} /\ k <= Len(til) /\ til[k].type = Literal
      /\ k' = k + 1
      /\ UNCHANGED <<til, commentStandalone, formatted, prevPos, cur, out, pc>>
  BY DEF SkipLiteral, AtSlice
<1>2. IInv'
  BY SkipLiteralInductive DEF RestoreInv
<1>3. Actions' = Actions /\ \A j : SentinelAt(j)' = SentinelAt(j)
  BY <1>1 DEF Actions, SentinelAt
<1>4. Actions \subseteq Nat \ {0} /\ k \notin Actions /\ k \in Nat \ {0}
  BY <1>1, TypeFacts DEF Actions, RestoreInv
<1>5. \A j \in Actions : j < k + 1 <=> j < k
  BY <1>4
<1>6. k' - 1 \notin Actions
  BY <1>1, <1>4
<1>7. pc \in {"verify", "restore"} => Stubbed'
  BY <1>1, <1>3 DEF RestoreInv, Stubbed
<1>8. pc = "restore" => Consumed'
  BY <1>1, <1>3, <1>5, <1>6 DEF RestoreInv, Consumed
<1>9. pc = "restore" => Written'
  BY <1>1, <1>3, <1>5 DEF RestoreInv, Written
<1>10. pc = "restore" => Adjacent' /\ AllVerbatim'
  BY <1>1, <1>3 DEF RestoreInv, Adjacent, Touching, AllVerbatim, Verbatim
<1> QED
  BY <1>1, <1>2, <1>7, <1>8, <1>9, <1>10 DEF RestoreInv

LEMMA VerifySliceKeeps == RestoreInv /\ VerifySlice => RestoreInv'
<1> SUFFICES ASSUME RestoreInv, VerifySlice PROVE RestoreInv'
  OBVIOUS
<1>1. pc = "verify" /\ UNCHANGED <<til, commentStandalone, formatted, out, pc>>
  BY DEF VerifySlice, AtSlice
<1>2. IInv'
  BY VerifySliceInductive DEF RestoreInv
<1>3. Stubbed'
  BY <1>1 DEF RestoreInv, Stubbed, Actions, SentinelAt
<1> QED
  BY <1>1, <1>2, <1>3 DEF RestoreInv

\* Restore begins before every slice, with nothing written.
LEMMA VerifyDoneKeeps == RestoreInv /\ VerifyDone => RestoreInv'
<1> SUFFICES ASSUME RestoreInv, VerifyDone PROVE RestoreInv'
  OBVIOUS
<1>1. /\ pc = "verify" /\ pc' = "restore" /\ k' = 1
      /\ UNCHANGED <<til, commentStandalone, formatted, cur, out>>
  BY DEF VerifyDone
<1>2. IInv'
  BY VerifyDoneInductive DEF RestoreInv
<1>3. cur' = 1 /\ out' = <<>> /\ k' = 1
  BY <1>1 DEF RestoreInv, IInv
<1>4. Stubbed'
  BY <1>1 DEF RestoreInv, Stubbed, Actions, SentinelAt
<1>5. \A j \in Actions' : j \in Nat \ {0}
  BY <1>2, TypeFacts, <1>1 DEF Actions, RestoreInv
<1>6. (\A j \in Actions' : ~(j < k')) /\ k' - 1 \notin Actions'
  BY <1>3, <1>5
<1>7. Consumed'
  BY <1>3, <1>6 DEF Consumed
<1>8. DOMAIN out' = {} /\ out' \in Seq(Token)
  BY <1>3
<1>9. Written' /\ Adjacent' /\ AllVerbatim'
  BY <1>6, <1>8 DEF Written, Adjacent, AllVerbatim
<1> QED
  BY <1>1, <1>2, <1>4, <1>7, <1>9 DEF RestoreInv

LEMMA RestoreInvInductive == RestoreInv /\ [Next]_vars => RestoreInv'
<1>1. ASSUME RestoreInv, UNCHANGED vars PROVE RestoreInv'
  <2>1. IInv'
    BY <1>1, NextInductive DEF RestoreInv
  <2>2. /\ UNCHANGED <<til, commentStandalone, formatted, k, cur, out, pc>>
        /\ Actions' = Actions /\ \A j : SentinelAt(j)' = SentinelAt(j)
    BY <1>1 DEF vars, Actions, SentinelAt
  <2>3. (Stubbed => Stubbed') /\ (Consumed => Consumed') /\ (Written => Written')
    BY <2>2 DEF Stubbed, Consumed, Written
  <2>4. (Adjacent => Adjacent') /\ (AllVerbatim => AllVerbatim')
    BY <2>2 DEF Adjacent, Touching, AllVerbatim, Verbatim
  <2> QED
    BY <1>1, <2>1, <2>2, <2>3, <2>4 DEF RestoreInv
<1>2. ASSUME RestoreInv, GofumptRejects \/ VerifyFails PROVE RestoreInv'
  BY <1>2, GiveUpKeeps DEF GofumptRejects, VerifyFails, AtSlice
<1> QED
  BY <1>1, <1>2, GofumptAcceptsKeeps, SkipLiteralKeeps, VerifySliceKeeps,
     VerifyDoneKeeps, RestoreSliceKeeps, RestoreDoneKeeps
  DEF Next

\* What Restore has written so far, for every tiling and every formatter that
\* makes up no sentinel.
THEOREM RestoreInductive == Spec => []RestoreInv
<1>1. Init => RestoreInv
  BY InitIInv DEF Init, RestoreInv
<1> QED
  BY <1>1, RestoreInvInductive, PTL DEF Spec

\* The template that comes back holds every slice that is not a literal exactly
\* once, in the source's order, and no sentinel is left in it.
THEOREM EverySliceComesBack == Spec => []EachSliceOnce
<1>1. RestoreInv => EachSliceOnce
  <2> SUFFICES ASSUME RestoreInv, pc = "done"
               PROVE  /\ {out[p][2] : p \in {q \in DOMAIN out : IsRaw(out[q])}} = Actions
                      /\ \A p, q \in DOMAIN out :
                            IsRaw(out[p]) /\ IsRaw(out[q]) /\ p < q => out[p][2] < out[q][2]
                      /\ \A p \in DOMAIN out : ~IsSentinel(out[p])
    BY DEF EachSliceOnce
  <2>1. Written /\ k = Len(til) + 1
    BY DEF RestoreInv
  <2>2. \A j \in Actions : j < k
    BY <2>1, TypeFacts DEF Actions, RestoreInv
  <2>3. \A p \in DOMAIN out : IsRaw(out[p]) => out[p][2] \in Actions
    BY <2>1 DEF Written
  <2>4. \A j \in Actions : \E p \in DOMAIN out : IsRaw(out[p]) /\ out[p][2] = j
    BY <2>1, <2>2 DEF Written
  <2>5. {out[p][2] : p \in {q \in DOMAIN out : IsRaw(out[q])}} = Actions
    BY <2>3, <2>4
  <2> QED
    BY <2>1, <2>5 DEF Written
<1> QED
  BY <1>1, RestoreInductive, PTL

\* Slices with nothing between them in the source have nothing between them in
\* the template that comes back.
THEOREM NothingBetweenNeighbours == Spec => []AdjacentStayAdjacent
<1>1. RestoreInv => AdjacentStayAdjacent
  BY DEF RestoreInv, Adjacent, Touching, AdjacentStayAdjacent
<1> QED
  BY <1>1, RestoreInductive, PTL

\* Continuation lines never move in a define block, inside a string literal, or
\* when Go text precedes their action on its line.
THEOREM BytesKeptWhereUnsafe == Spec => []VerbatimKept
<1>1. RestoreInv => VerbatimKept
  <2> SUFFICES ASSUME RestoreInv, pc = "done", NEW p \in DOMAIN out, IsRaw(out[p])
               PROVE  LET j == out[p][2]
                      IN  /\ til[j].type = Define => out[p] = Raw(til, j)
                          /\ \A l \in DOMAIN til[j].cont :
                                stringLineMask(til[j].cont)[l]
                                    => out[p][3][l] = til[j].cont[l].indent
                          /\ precededByLiteral(til, j) /\ (\E q \in 1 .. p - 1 :
                                IsGo(out[q]) /\ \A r \in q .. p - 1 : out[r] # Text("\n"))
                                => out[p] = Raw(til, j)
    BY Zenon DEF VerbatimKept
  <2>1. Verbatim(out, p)
    BY DEF RestoreInv, AllVerbatim
  <2> QED
    BY <2>1, Zenon DEF Verbatim, Inline
<1> QED
  BY <1>1, RestoreInductive, PTL
----------------------------------------------------------------------------
(* The formatter that changes nothing: Stub and SourceOf, prefix by prefix.*)

\* f is the sequence of the prefixes of pieces put together.
Prefixes(f, size, pieces) ==
    f = [j \in 0 .. size |-> IF j = 0 THEN <<>> ELSE f[j - 1] \o pieces[j]]

\* There is one, for any number of pieces: the recursive functions in Stub and
\* SourceOf are what they say.
LEMMA PrefixesExist ==
    ASSUME NEW pieces, NEW size \in Nat
    PROVE  \E f : Prefixes(f, size, pieces)
<1> DEFINE bad == {m \in Nat : ~ \E f : Prefixes(f, m, pieces)}
<1> SUFFICES ASSUME bad # {} PROVE FALSE
  OBVIOUS
<1>1. PICK m \in bad : \A l \in bad : m <= l
  <2>1. bad \subseteq Nat
    OBVIOUS
  <2> HIDE DEF bad
  <2> QED
    BY <2>1, Least
<1>2. m # 0
  <2>1. 0 .. 0 = {0}
    OBVIOUS
  <2>2. Prefixes([j \in {0} |-> <<>>], 0, pieces)
    BY <2>1 DEF Prefixes
  <2> QED
    BY <2>2, <1>1
<1>3. m - 1 \in Nat /\ m - 1 \notin bad
  BY <1>1, <1>2
<1>4. PICK f : Prefixes(f, m - 1, pieces)
  BY <1>3
<1> DEFINE g == [j \in 0 .. m |-> IF j = m THEN f[m - 1] \o pieces[m] ELSE f[j]]
<1>5. \A j \in 0 .. m - 1 : f[j] = IF j = 0 THEN <<>> ELSE f[j - 1] \o pieces[j]
  BY <1>4 DEF Prefixes
<1>6. ASSUME NEW j \in 0 .. m
      PROVE  g[j] = IF j = 0 THEN <<>> ELSE g[j - 1] \o pieces[j]
  <2>1. CASE j = m
    <3>1. m - 1 \in 0 .. m /\ m - 1 # m
      BY <1>3
    <3>2. g[m - 1] = f[m - 1]
      BY <3>1
    <3> QED
      BY <1>2, <1>3, <2>1, <3>2
  <2>2. CASE j = 0
    BY <1>2, <1>3, <1>5, <2>2
  <2>3. CASE j # m /\ j # 0
    <3>1. j \in 0 .. m - 1 /\ j - 1 \in 0 .. m - 1 /\ j - 1 # m /\ j - 1 \in 0 .. m
      BY <1>3, <2>3
    <3>2. g[j] = f[j] /\ g[j - 1] = f[j - 1]
      BY <2>3, <3>1
    <3> QED
      BY <1>5, <2>3, <3>1, <3>2
  <2> QED
    BY <2>1, <2>2, <2>3
<1>7. g = [j \in 0 .. m |-> IF j = 0 THEN <<>> ELSE g[j - 1] \o pieces[j]]
  <2>1. g = [j \in 0 .. m |-> g[j]]
    OBVIOUS
  <2> HIDE DEF g
  <2> QED
    BY <1>6, <2>1
<1>8. Prefixes(g, m, pieces)
  BY <1>7 DEF Prefixes
<1> QED
  BY <1>1, <1>8

\* What slice j is in the stub and in the template.
StubPiece(t, c, j) ==
    IF t[j].type = Literal THEN t[j].text ELSE <<sentinelFor(t, c, j)>>
SourcePiece(t, j) ==
    IF t[j].type = Literal THEN t[j].text ELSE <<Raw(t, j)>>

LEMMA StubIs ==
    ASSUME NEW t \in Seq(RawSlice), NEW c
    PROVE  \E f : /\ Stub(t, c) = f[Len(t)] /\ f[0] = <<>>
                  /\ \A j \in 1 .. Len(t) : f[j] = f[j - 1] \o StubPiece(t, c, j)
<1> DEFINE f == CHOOSE h : h = [j \in 0 .. Len(t) |->
                    IF j = 0 THEN <<>>
                    ELSE h[j - 1] \o (IF t[j].type = Literal THEN t[j].text
                                      ELSE <<sentinelFor(t, c, j)>>)]
           pieces == [j \in 1 .. Len(t) |-> StubPiece(t, c, j)]
<1>1. Stub(t, c) = f[Len(t)]
  BY DEF Stub
<1>2. Len(t) \in Nat
  OBVIOUS
<1>3. PICK h : Prefixes(h, Len(t), pieces)
  BY <1>2, PrefixesExist
<1>4. h = [j \in 0 .. Len(t) |->
              IF j = 0 THEN <<>>
              ELSE h[j - 1] \o (IF t[j].type = Literal THEN t[j].text
                                ELSE <<sentinelFor(t, c, j)>>)]
  <2>1. \A j \in 0 .. Len(t) : j # 0 => j \in 1 .. Len(t)
    BY <1>2
  <2> QED
    BY <1>3, <2>1 DEF Prefixes, StubPiece
<1>5. f = [j \in 0 .. Len(t) |->
              IF j = 0 THEN <<>>
              ELSE f[j - 1] \o (IF t[j].type = Literal THEN t[j].text
                                ELSE <<sentinelFor(t, c, j)>>)]
  BY <1>4
<1> HIDE DEF f
<1>6. f[0] = <<>> /\ \A j \in 1 .. Len(t) : f[j] = f[j - 1] \o StubPiece(t, c, j)
  BY <1>2, <1>5 DEF StubPiece
<1> QED
  BY <1>1, <1>6

LEMMA SourceIs ==
    ASSUME NEW t \in Seq(RawSlice)
    PROVE  \E f : /\ SourceOf(t) = f[Len(t)] /\ f[0] = <<>>
                  /\ \A j \in 1 .. Len(t) : f[j] = f[j - 1] \o SourcePiece(t, j)
<1> DEFINE f == CHOOSE h : h = [j \in 0 .. Len(t) |->
                    IF j = 0 THEN <<>>
                    ELSE h[j - 1] \o (IF t[j].type = Literal THEN t[j].text
                                      ELSE <<Raw(t, j)>>)]
           pieces == [j \in 1 .. Len(t) |-> SourcePiece(t, j)]
<1>1. SourceOf(t) = f[Len(t)]
  BY DEF SourceOf
<1>2. Len(t) \in Nat
  OBVIOUS
<1>3. PICK h : Prefixes(h, Len(t), pieces)
  BY <1>2, PrefixesExist
<1>4. h = [j \in 0 .. Len(t) |->
              IF j = 0 THEN <<>>
              ELSE h[j - 1] \o (IF t[j].type = Literal THEN t[j].text
                                ELSE <<Raw(t, j)>>)]
  <2>1. \A j \in 0 .. Len(t) : j # 0 => j \in 1 .. Len(t)
    BY <1>2
  <2> QED
    BY <1>3, <2>1 DEF Prefixes, SourcePiece
<1>5. f = [j \in 0 .. Len(t) |->
              IF j = 0 THEN <<>>
              ELSE f[j - 1] \o (IF t[j].type = Literal THEN t[j].text
                                ELSE <<Raw(t, j)>>)]
  BY <1>4
<1> HIDE DEF f
<1>6. f[0] = <<>> /\ \A j \in 1 .. Len(t) : f[j] = f[j - 1] \o SourcePiece(t, j)
  BY <1>2, <1>5 DEF SourcePiece
<1> QED
  BY <1>1, <1>6

----------------------------------------------------------------------------
(* The stub and the template side by side.                                 *)

\* The sentinel of slice j stands in a where b has the slice, and right behind
\* the sentinel of the slice before it.
Placed(a, b, t, c, j) ==
    \E p \in 1 .. Len(a) :
        /\ a[p] = sentinelFor(t, c, j) /\ b[p] = Raw(t, j)
        /\ j = 1 => p = 1
        /\ j > 1 /\ t[j - 1].type # Literal => p > 1 /\ a[p - 1] = sentinelFor(t, c, j - 1)

\* a is the stub of the first m slices and b their text.
Mirrors(a, b, t, c, m) ==
    /\ a \in Seq(Token) /\ b \in Seq(Token) /\ Len(a) = Len(b)
    /\ \A p \in 1 .. Len(a) :
          \/ a[p] = b[p]
          \/ \E j \in 1 .. m : a[p] = sentinelFor(t, c, j) /\ b[p] = Raw(t, j)
    /\ \A j \in 1 .. m : t[j].type # Literal => Placed(a, b, t, c, j)
    /\ m = 0 => Len(a) = 0
    /\ m > 0 /\ t[m].type # Literal => Len(a) > 0 /\ a[Len(a)] = sentinelFor(t, c, m)

LEMMA PieceType ==
    ASSUME NEW t \in Seq(RawSlice), NEW c, NEW j \in 1 .. Len(t)
    PROVE  /\ t[j].type = Literal => t[j].text \in Seq(Token)
           /\ sentinelFor(t, c, j) \in Token
           /\ Raw(t, j) \in Token
<1>1. t[j] \in RawSlice /\ j \in Nat
  OBVIOUS
<1>2. t[j].text \in Seq({Text(d) : d \in Byte}) /\ t[j].cont \in Seq(Line)
  BY <1>1 DEF RawSlice
<1>3. {Text(d) : d \in Byte} \subseteq Token
  <2>1. <<>> \in Seq(Nat) /\ 0 \in Nat
    OBVIOUS
  <2>2. ASSUME NEW d \in Byte PROVE Text(d) \in Token
    <3> DEFINE kinds == Byte \cup {"ident", "remark", "slice"}
    <3>1. d \in kinds
      OBVIOUS
    <3> HIDE DEF kinds
    <3>2. <<d, 0, <<>>>> \in kinds \X Nat \X Seq(Nat)
      BY <2>1, <3>1
    <3> QED
      BY <3>2 DEF Text, Token, kinds
  <2> QED
    BY <2>2, Zenon
<1>4. t[j].text \in Seq(Token)
  <2> DEFINE S == {Text(d) : d \in Byte}
             x == t[j].text
  <2>1. x \in Seq(S) /\ S \subseteq Token
    BY <1>2, <1>3
  <2> HIDE DEF S, x
  <2>2. x \in Seq(Token)
    BY <2>1
  <2> QED
    BY <2>2 DEF x
<1>5. sentinelFor(t, c, j) \in Token
  <2>1. <<>> \in Seq(Nat)
    OBVIOUS
  <2>2. <<"ident", j, <<>>>> \in Token /\ <<"remark", j, <<>>>> \in Token
    BY <1>1, <2>1 DEF Token
  <2> QED
    BY <2>2 DEF sentinelFor
<1>6. Indents(t[j]) \in Seq(Nat)
  <2>1. \A l \in DOMAIN t[j].cont : t[j].cont[l].indent \in Nat
    <3>1. \A l \in DOMAIN t[j].cont : t[j].cont[l] \in Line
      BY <1>2
    <3> QED
      BY <3>1 DEF Line
  <2> QED
    BY <1>2, <2>1 DEF Indents
<1>7. Raw(t, j) \in Token
  BY <1>1, <1>6, SliceToken DEF Raw
<1> QED
  BY <1>4, <1>5, <1>7

LEMMA ConcatFacts ==
    ASSUME NEW T, NEW a \in Seq(T), NEW x \in Seq(T)
    PROVE  /\ a \o x \in Seq(T) /\ Len(a \o x) = Len(a) + Len(x)
           /\ Len(a) \in Nat /\ Len(x) \in Nat
           /\ \A p \in 1 .. Len(a) : (a \o x)[p] = a[p]
           /\ \A p \in 1 .. Len(x) : (a \o x)[Len(a) + p] = x[p]
  OBVIOUS

LEMMA MirrorsStep ==
    ASSUME NEW t \in Seq(RawSlice), NEW c, NEW m \in 1 .. Len(t), NEW a, NEW b,
           Mirrors(a, b, t, c, m - 1)
    PROVE  Mirrors(a \o StubPiece(t, c, m), b \o SourcePiece(t, m), t, c, m)
<1> DEFINE x == StubPiece(t, c, m)
           y == SourcePiece(t, m)
           s == sentinelFor(t, c, m)
           r == Raw(t, m)
<1>1. /\ a \in Seq(Token) /\ b \in Seq(Token) /\ Len(a) = Len(b) /\ Len(a) \in Nat
      /\ m \in Nat \ {0}
  BY DEF Mirrors
<1>2. /\ x \in Seq(Token) /\ y \in Seq(Token) /\ Len(x) = Len(y) /\ Len(x) \in Nat
      /\ t[m].type = Literal => x = y
      /\ t[m].type # Literal => Len(x) = 1 /\ x[1] = s /\ y[1] = r
  <2>1. CASE t[m].type = Literal
    <3>1. x = t[m].text /\ y = t[m].text
      BY <2>1 DEF StubPiece, SourcePiece
    <3>2. t[m].text \in Seq(Token)
      BY <2>1, PieceType
    <3> HIDE DEF x, y
    <3> QED
      BY <2>1, <3>1, <3>2
  <2>2. CASE t[m].type # Literal
    <3>1. s \in Token /\ r \in Token
      BY PieceType
    <3>2. x = <<s>> /\ y = <<r>>
      BY <2>2 DEF StubPiece, SourcePiece
    <3> HIDE DEF x, y, s, r
    <3> QED
      BY <2>2, <3>1, <3>2
  <2> QED
    BY <2>1, <2>2
<1> HIDE DEF x, y
<1> DEFINE n == Len(a)
           u == a \o x
           v == b \o y
<1>3. /\ u \in Seq(Token) /\ v \in Seq(Token) /\ Len(u) = n + Len(x) /\ Len(v) = Len(u)
      /\ \A p \in 1 .. n : u[p] = a[p] /\ v[p] = b[p]
      /\ \A p \in 1 .. Len(x) : u[n + p] = x[p] /\ v[n + p] = y[p]
  <2>1. /\ u \in Seq(Token) /\ Len(u) = n + Len(x)
        /\ \A p \in 1 .. n : u[p] = a[p]
        /\ \A p \in 1 .. Len(x) : u[n + p] = x[p]
    <3>1. a \in Seq(Token) /\ x \in Seq(Token)
      BY <1>1, <1>2
    <3> QED
      BY <3>1, ConcatFacts
  <2>2. /\ v \in Seq(Token) /\ Len(v) = n + Len(x)
        /\ \A p \in 1 .. n : v[p] = b[p]
        /\ \A p \in 1 .. Len(x) : v[n + p] = y[p]
    <3>1. /\ v \in Seq(Token) /\ Len(v) = Len(b) + Len(y)
          /\ \A p \in 1 .. Len(b) : v[p] = b[p]
          /\ \A p \in 1 .. Len(y) : v[Len(b) + p] = y[p]
      BY <1>1, <1>2, ConcatFacts
    <3>2. Len(b) = n /\ Len(y) = Len(x)
      BY <1>1, <1>2
    <3> QED
      BY <3>1, <3>2
  <2> HIDE DEF u, v
  <2> QED
    BY <2>1, <2>2
<1>4. n \in Nat
  BY <1>1
<1> HIDE DEF u, v, n, s, r
<1> SUFFICES Mirrors(u, v, t, c, m)
  BY DEF u, v, x, y
<1>5. n = Len(a) /\ s = sentinelFor(t, c, m) /\ r = Raw(t, m)
  BY DEF n, s, r
<1>6. ASSUME NEW p \in 1 .. Len(u)
      PROVE  \/ u[p] = v[p]
             \/ \E j \in 1 .. m : u[p] = sentinelFor(t, c, j) /\ v[p] = Raw(t, j)
  <2>1. CASE p <= n
    <3>1. p \in 1 .. n /\ u[p] = a[p] /\ v[p] = b[p]
      BY <1>2, <1>3, <1>4, <2>1
    <3>2. a[p] = b[p] \/ \E j \in 1 .. m - 1 : a[p] = sentinelFor(t, c, j) /\ b[p] = Raw(t, j)
      BY <1>5, <3>1 DEF Mirrors
    <3>3. \A j \in 1 .. m - 1 : j \in 1 .. m
      BY <1>1
    <3> QED
      BY <3>1, <3>2, <3>3
  <2>2. CASE p > n
    <3> DEFINE q == p - n
    <3>1. q \in 1 .. Len(x) /\ p = n + q
      BY <1>2, <1>3, <1>4, <2>2
    <3>2. u[p] = x[q] /\ v[p] = y[q]
      BY <1>3, <3>1
    <3>3. CASE t[m].type = Literal
      BY <1>2, <3>2, <3>3
    <3>4. CASE t[m].type # Literal
      <4>1. q = 1 /\ m \in 1 .. m
        BY <1>1, <1>2, <3>1, <3>4
      <4> QED
        BY <1>2, <1>5, <3>2, <3>4, <4>1
    <3> QED
      BY <3>3, <3>4
  <2> QED
    BY <1>2, <1>3, <1>4, <2>1, <2>2
<1>7. ASSUME NEW j \in 1 .. m, t[j].type # Literal PROVE Placed(u, v, t, c, j)
  <2>1. CASE j < m
    <3>1. j \in 1 .. m - 1
      BY <1>1, <2>1
    <3>2. PICK p \in 1 .. n :
             /\ a[p] = sentinelFor(t, c, j) /\ b[p] = Raw(t, j)
             /\ j = 1 => p = 1
             /\ j > 1 /\ t[j - 1].type # Literal => p > 1 /\ a[p - 1] = sentinelFor(t, c, j - 1)
      BY <1>5, <1>7, <3>1 DEF Mirrors, Placed
    <3>3. p \in 1 .. Len(u) /\ (p > 1 => p - 1 \in 1 .. n)
      BY <1>2, <1>3, <1>4
    <3>4. u[p] = a[p] /\ v[p] = b[p] /\ (p > 1 => u[p - 1] = a[p - 1])
      BY <1>3, <3>3
    <3> QED
      BY <3>2, <3>3, <3>4 DEF Placed
  <2>2. CASE j = m
    <3>1. /\ n + 1 \in 1 .. Len(u) /\ u[n + 1] = s /\ v[n + 1] = r
      BY <1>2, <1>3, <1>4, <1>7, <2>2
    <3>2. m = 1 => n = 0
      BY <1>1, <1>5 DEF Mirrors
    <3>3. ASSUME m > 1, t[m - 1].type # Literal
          PROVE  n > 0 /\ u[n] = sentinelFor(t, c, m - 1)
      <4>1. m - 1 > 0 /\ n > 0 /\ a[n] = sentinelFor(t, c, m - 1)
        BY <1>1, <1>5, <3>3 DEF Mirrors
      <4> QED
        BY <1>3, <1>4, <4>1
    <3>4. n + 1 - 1 = n /\ (n > 0 => n + 1 > 1)
      BY <1>4
    <3> QED
      BY <1>1, <1>5, <2>2, <3>1, <3>2, <3>3, <3>4 DEF Placed
  <2> QED
    BY <1>1, <2>1, <2>2
<1>8. t[m].type # Literal => Len(u) > 0 /\ u[Len(u)] = sentinelFor(t, c, m)
  BY <1>2, <1>3, <1>4, <1>5
<1> QED
  BY <1>1, <1>3, <1>6, <1>7, <1>8 DEF Mirrors

LEMMA StubMirrorsSource ==
    ASSUME NEW t \in Seq(RawSlice), NEW c
    PROVE  Mirrors(Stub(t, c), SourceOf(t), t, c, Len(t))
<1>1. PICK f : /\ Stub(t, c) = f[Len(t)] /\ f[0] = <<>>
               /\ \A j \in 1 .. Len(t) : f[j] = f[j - 1] \o StubPiece(t, c, j)
  BY StubIs
<1>2. PICK h : /\ SourceOf(t) = h[Len(t)] /\ h[0] = <<>>
               /\ \A j \in 1 .. Len(t) : h[j] = h[j - 1] \o SourcePiece(t, j)
  BY SourceIs
<1> DEFINE bad == {m \in 0 .. Len(t) : ~Mirrors(f[m], h[m], t, c, m)}
<1>3. Len(t) \in Nat
  OBVIOUS
<1>4. bad = {}
  <2> SUFFICES ASSUME bad # {} PROVE FALSE
    OBVIOUS
  <2>1. PICK m \in bad : \A l \in bad : m <= l
    <3>1. bad \subseteq Nat
      BY <1>3
    <3> HIDE DEF bad
    <3> QED
      BY <3>1, Least
  <2>2. CASE m = 0
    <3>1. <<>> \in Seq(Token) /\ Len(<<>>) = 0 /\ 1 .. 0 = {}
      OBVIOUS
    <3>2. Mirrors(<<>>, <<>>, t, c, 0)
      BY <3>1 DEF Mirrors
    <3> QED
      BY <1>1, <1>2, <2>1, <2>2, <3>2
  <2>3. CASE m # 0
    <3>1. m \in 1 .. Len(t) /\ m - 1 \in 0 .. Len(t) /\ m - 1 < m /\ m - 1 \in Int /\ m \in Int
      BY <1>3, <2>1, <2>3
    <3>2. m - 1 \notin bad
      BY <2>1, <3>1
    <3>3. Mirrors(f[m - 1], h[m - 1], t, c, m - 1)
      BY <3>1, <3>2
    <3>4. Mirrors(f[m - 1] \o StubPiece(t, c, m), h[m - 1] \o SourcePiece(t, m), t, c, m)
      BY <3>1, <3>3, MirrorsStep
    <3> QED
      BY <1>1, <1>2, <2>1, <3>1, <3>4
  <2> QED
    BY <2>2, <2>3
<1>5. Mirrors(f[Len(t)], h[Len(t)], t, c, Len(t))
  BY <1>3, <1>4
<1> QED
  BY <1>1, <1>2, <1>5

----------------------------------------------------------------------------
(* Restore on the stub itself.                                             *)

\* Gofumpt left the stub alone, and the template is one that Restore should
\* give back.
Idle == formatted = Stub(til, commentStandalone) /\ Aligned

\* The text written so far is the template up to where Restore is.
Copied ==
    /\ Len(out) = cur - 1
    /\ \A i \in 1 .. Len(out) : out[i] = SourceOf(til)[i]

RoundTripInv ==
    /\ RestoreInv
    /\ Idle /\ pc = "restore" => Copied
    /\ Idle /\ pc = "done" => out = SourceOf(til)

LEMMA IdleFacts ==
    ASSUME RestoreInv, Idle
    PROVE  /\ Mirrors(formatted, SourceOf(til), til, commentStandalone, Len(til))
           /\ SourceOf(til) \in Seq(Token) /\ Len(SourceOf(til)) = Len(formatted)
<1>1. til \in Seq(RawSlice)
  BY TypeFacts DEF RestoreInv
<1>2. Mirrors(formatted, SourceOf(til), til, commentStandalone, Len(til))
  BY <1>1, StubMirrorsSource DEF Idle
<1> QED
  BY <1>2 DEF Mirrors

\* Where there is no sentinel the two texts agree.
LEMMA SameText ==
    ASSUME RestoreInv, Idle, NEW p \in 1 .. Len(formatted), ~IsSentinel(formatted[p])
    PROVE  SourceOf(til)[p] = formatted[p]
<1>1. \A j : IsSentinel(sentinelFor(til, commentStandalone, j))
  BY DEF IsSentinel, sentinelFor
<1> QED
  BY <1>1, IdleFacts DEF Mirrors

\* The sentinel of slice k has the slice in its place, and nothing before it if
\* no literal is.
LEMMA SamePlace ==
    ASSUME RestoreInv, Idle, k \in Actions, NEW p, SentinelAt(k) = {p}
    PROVE  /\ SourceOf(til)[p] = Raw(til, k)
           /\ k = 1 => p = 1
           /\ k - 1 \in Actions => p > 1 /\ p - 1 \in SentinelAt(k - 1)
<1>1. k \in 1 .. Len(til) /\ til[k].type # Literal
  BY TypeFacts DEF Actions, RestoreInv
<1>2. PICK q \in 1 .. Len(formatted) :
         /\ formatted[q] = sentinelFor(til, commentStandalone, k)
         /\ SourceOf(til)[q] = Raw(til, k)
         /\ k = 1 => q = 1
         /\ k > 1 /\ til[k - 1].type # Literal =>
               q > 1 /\ formatted[q - 1] = sentinelFor(til, commentStandalone, k - 1)
  BY <1>1, IdleFacts DEF Mirrors, Placed
<1>3. q = p
  BY <1>2 DEF SentinelAt, Occurrences
<1>4. ASSUME k - 1 \in Actions PROVE q > 1 /\ q - 1 \in SentinelAt(k - 1)
  <2>1. k > 1 /\ til[k - 1].type # Literal
    BY <1>1, <1>4, TypeFacts DEF Actions, RestoreInv
  <2>2. Len(formatted) \in Nat
    BY TypeFacts DEF RestoreInv
  <2> QED
    BY <1>2, <2>1, <2>2 DEF SentinelAt, Occurrences
<1> QED
  BY <1>2, <1>3, <1>4

\* A slice is no white space.
LEMMA RawIsNoSpace ==
    ASSUME NEW c, IsRaw(c)
    PROVE  c # Blank1 /\ c # Newline
<1>1. c[1] = "slice"
  BY DEF IsRaw
<1>2. Blank1[1] = " " /\ Newline[1] = "\n"
  BY DEF Blank1, Newline, Text
<1>3. " " # "slice" /\ "\n" # "slice"
  OBVIOUS
<1> QED
  BY <1>1, <1>2, <1>3

\* White space is in the same places.
LEMMA SameSpace ==
    ASSUME RestoreInv, Idle, NEW p \in 1 .. Len(formatted)
    PROVE  /\ SourceOf(til)[p] = Newline <=> formatted[p] = Newline
           /\ SourceOf(til)[p] = Blank1 <=> formatted[p] = Blank1
<1>1. CASE SourceOf(til)[p] = formatted[p]
  BY <1>1
<1>2. CASE SourceOf(til)[p] # formatted[p]
  <2>1. PICK j \in 1 .. Len(til) : /\ formatted[p] = sentinelFor(til, commentStandalone, j)
                                   /\ SourceOf(til)[p] = Raw(til, j)
    BY <1>2, IdleFacts DEF Mirrors
  <2>2. IsSentinel(formatted[p])
    BY <2>1 DEF IsSentinel, sentinelFor
  <2>3. IsRaw(SourceOf(til)[p])
    BY <2>1 DEF IsRaw, Raw
  <2> QED
    BY <2>2, <2>3, SentinelIsNoSpace, RawIsNoSpace
<1> QED
  BY <1>1, <1>2

\* A prefix of a line is as long, and as blank, in both.
LEMMA SameLinePrefix ==
    ASSUME RestoreInv, Idle, NEW p \in 1 .. Len(formatted)
    PROVE  /\ Len(LinePrefix(SourceOf(til), p)) = Len(LinePrefix(formatted, p))
           /\ isAllSpaceOrTab(LinePrefix(SourceOf(til), p))
                 <=> isAllSpaceOrTab(LinePrefix(formatted, p))
<1> DEFINE b == SourceOf(til)
           starts(s) == {q \in 1 .. p : \A r \in q .. p - 1 : s[r] # Newline}
           first(s)  == CHOOSE q \in starts(s) : \A r \in starts(s) : q <= r
<1>1. /\ b \in Seq(Token) /\ formatted \in Seq(Token) /\ Len(b) = Len(formatted)
      /\ Len(formatted) \in Nat /\ p \in Nat \ {0} /\ p <= Len(formatted)
  BY IdleFacts, TypeFacts DEF RestoreInv
<1>2. \A r \in 1 .. Len(formatted) : /\ b[r] = Newline <=> formatted[r] = Newline
                                     /\ b[r] = Blank1 <=> formatted[r] = Blank1
  BY SameSpace
<1>3. LinePrefix(b, p) = SubSeq(b, first(b), p - 1)
  BY Zenon DEF LinePrefix, Newline
<1>4. LinePrefix(formatted, p) = SubSeq(formatted, first(formatted), p - 1)
  BY Zenon DEF LinePrefix, Newline
<1> HIDE DEF b
<1>5. starts(b) = starts(formatted)
  BY <1>1, <1>2
<1>6. first(b) = first(formatted)
  BY <1>5
<1>7. first(formatted) \in 1 .. p
  <2>1. p \in starts(formatted)
    BY <1>1
  <2>2. starts(formatted) \subseteq Nat
    BY <1>1
  <2>3. \E q \in starts(formatted) : \A r \in starts(formatted) : q <= r
    <3> DEFINE S == starts(formatted)
    <3>1. S \subseteq Nat /\ S # {}
      BY <2>1, <2>2
    <3> HIDE DEF S
    <3>2. \E q \in S : \A r \in S : q <= r
      BY <3>1, Least
    <3> QED
      BY <3>2 DEF S
  <2>4. first(formatted) \in starts(formatted)
    BY <2>3
  <2> QED
    BY <2>4
<1> DEFINE f == first(formatted)
<1> HIDE DEF f
<1>8. f \in 1 .. p
  BY <1>7 DEF f
<1>9. /\ Len(SubSeq(b, f, p - 1)) = p - f
      /\ \A i \in 1 .. p - f : SubSeq(b, f, p - 1)[i] = b[f + i - 1]
      /\ DOMAIN SubSeq(b, f, p - 1) = 1 .. p - f
  BY <1>1, <1>8
<1>10. /\ Len(SubSeq(formatted, f, p - 1)) = p - f
       /\ \A i \in 1 .. p - f : SubSeq(formatted, f, p - 1)[i] = formatted[f + i - 1]
       /\ DOMAIN SubSeq(formatted, f, p - 1) = 1 .. p - f
  BY <1>1, <1>8
<1>11. \A i \in 1 .. p - f : b[f + i - 1] = Blank1 <=> formatted[f + i - 1] = Blank1
  BY <1>1, <1>2, <1>8
<1>12. LinePrefix(b, p) = SubSeq(b, f, p - 1) /\ LinePrefix(formatted, p) = SubSeq(formatted, f, p - 1)
  BY <1>3, <1>4, <1>6 DEF f
<1>13. Len(LinePrefix(b, p)) = Len(LinePrefix(formatted, p))
  BY <1>9, <1>10, <1>12
<1>14. isAllSpaceOrTab(LinePrefix(b, p)) <=> isAllSpaceOrTab(LinePrefix(formatted, p))
  BY <1>9, <1>10, <1>11, <1>12 DEF isAllSpaceOrTab, Blank1
<1> QED
  BY <1>13, <1>14 DEF b

\* What Restore writes for slice k is the slice.
LEMMA RestoredIsRaw ==
    ASSUME RestoreInv, Idle, k \in Actions, NEW p \in 1 .. Len(formatted), SentinelAt(k) = {p}
    PROVE  Restored(formatted, p, til, k) = SourceOf(til)[p]
<1> DEFINE b == SourceOf(til)
<1>1. b[p] = Raw(til, k) /\ p \in DOMAIN b
  BY SamePlace, IdleFacts
<1>2. IsRaw(b[p]) /\ b[p][2] = k
  BY <1>1 DEF Raw, IsRaw
<1>3. Restored(b, p, til, k) = b[p]
  BY <1>1, <1>2 DEF Idle, Aligned
<1>4. Restored(b, p, til, k) = Restored(formatted, p, til, k)
  BY SameLinePrefix DEF Restored, reindentContinuation
<1> QED
  BY <1>3, <1>4

\* Without a literal before it, the sentinel is the next thing in the stub.
LEMMA NoGap ==
    ASSUME Idle, NEW p, NEW g, Restoring(p, g)
    PROVE  g = p - cur
<1>1. /\ RestoreInv /\ pc = "restore" /\ k \in Actions /\ SentinelAt(k) = {p} /\ p >= cur
      /\ g = IF precededByLiteral(til, k) THEN p - cur ELSE 0
  BY DEF Restoring
<1>2. p \in Nat \ {0} /\ cur \in Nat \ {0} /\ k \in Nat \ {0} /\ cur <= Len(formatted) + 1
      /\ Len(formatted) \in Nat
  BY <1>1, RestoringFacts, TypeFacts DEF RestoreInv
<1>3. CASE precededByLiteral(til, k)
  BY <1>1, <1>3
<1>4. CASE k = 1
  BY <1>1, <1>2, <1>4, SamePlace DEF precededByLiteral
<1>5. CASE ~precededByLiteral(til, k) /\ k # 1
  <2>1. k - 1 \in Actions
    BY <1>1, <1>2, <1>5, TypeFacts DEF precededByLiteral, Actions, RestoreInv
  <2>2. p > 1 /\ p - 1 \in SentinelAt(k - 1)
    BY <1>1, <2>1, SamePlace
  <2>3. p - 1 < cur
    BY <1>1, <1>2, <2>1, <2>2 DEF RestoreInv, Consumed
  <2> QED
    BY <1>1, <1>2, <1>5, <2>3
<1> QED
  BY <1>3, <1>4, <1>5

LEMMA RestoreSliceCopies ==
    ASSUME RoundTripInv, RestoreSlice
    PROVE  RoundTripInv'
<1>1. RestoreInv /\ RestoreInv'
  BY RestoreSliceKeeps DEF RoundTripInv
<1>2. PICK p, g : Restoring(p, g)
  BY <1>1, RestoreSliceRestoring
<1>3. /\ pc = "restore" /\ k \in Actions /\ SentinelAt(k) = {p} /\ p >= cur /\ cur' = p + 1
      /\ p \in 1 .. Len(formatted)
      /\ UNCHANGED <<til, commentStandalone, formatted, pc>>
      /\ out'[Len(out) + g + 1] = Restored(formatted, p, til, k)
  BY <1>2 DEF Restoring, Appends
<1>4. SUFFICES ASSUME Idle PROVE Copied'
  BY <1>1, <1>3 DEF RoundTripInv, Idle, Aligned
<1> DEFINE b == SourceOf(til)
<1> HIDE DEF b
<1>5. Len(out) = cur - 1 /\ \A i \in 1 .. Len(out) : out[i] = b[i]
  BY <1>3, <1>4 DEF RoundTripInv, Copied, b
<1>6. /\ g = p - cur /\ g \in Nat /\ p \in Nat \ {0} /\ cur \in Nat \ {0}
      /\ Len(out) \in Nat /\ Len(out') = Len(out) + g + 1
      /\ \A i \in 1 .. Len(out) : out'[i] = out[i]
      /\ \A i \in Len(out) + 1 .. Len(out) + g :
            /\ cur + (i - Len(out)) - 1 \in cur .. p - 1
            /\ out'[i] = formatted[cur + (i - Len(out)) - 1] /\ ~IsSentinel(out'[i])
  BY <1>2, <1>4, NoGap, RestoringFacts
<1>7. Len(out') = p /\ Len(out) + g = p - 1 /\ cur' - 1 = p
  BY <1>3, <1>5, <1>6
<1>8. ASSUME NEW i \in 1 .. p PROVE out'[i] = b[i]
  <2>1. CASE i <= Len(out)
    BY <1>5, <1>6, <2>1
  <2>2. CASE i > Len(out) /\ i < p
    <3>1. i \in Len(out) + 1 .. Len(out) + g /\ cur + (i - Len(out)) - 1 = i
      BY <1>5, <1>6, <1>7, <2>2
    <3>2. out'[i] = formatted[i] /\ ~IsSentinel(formatted[i])
      <4>1. /\ out'[i] = formatted[cur + (i - Len(out)) - 1] /\ ~IsSentinel(out'[i])
        BY <1>6, <3>1
      <4> QED
        BY <3>1, <4>1
    <3>3. i \in 1 .. Len(formatted)
      BY <1>3, <1>6, <2>2
    <3> QED
      BY <1>1, <1>4, <3>2, <3>3, SameText DEF b
  <2>3. CASE i = p
    <3>1. out'[p] = Restored(formatted, p, til, k)
      BY <1>3, <1>6, <1>7
    <3>2. Restored(formatted, p, til, k) = b[p]
      BY <1>1, <1>3, <1>4, RestoredIsRaw DEF b
    <3> QED
      BY <2>3, <3>1, <3>2
  <2> QED
    BY <1>6, <2>1, <2>2, <2>3
<1> QED
  BY <1>3, <1>7, <1>8 DEF Copied, b

\* The rest of the stub, behind the last sentinel, is the rest of the template.
LEMMA RestoreDoneCopies ==
    ASSUME RoundTripInv, RestoreDone
    PROVE  RoundTripInv'
<1>1. RestoreInv /\ RestoreInv'
  BY RestoreDoneKeeps DEF RoundTripInv
<1>2. /\ pc = "restore" /\ k > Len(til) /\ pc' = "done"
      /\ out' = out \o SubSeq(formatted, cur, Len(formatted))
      /\ UNCHANGED <<til, commentStandalone, formatted>>
  BY DEF RestoreDone
<1>3. SUFFICES ASSUME Idle PROVE out' = SourceOf(til)
  BY <1>1, <1>2 DEF RoundTripInv, Idle, Aligned
<1> DEFINE b == SourceOf(til)
           tail == SubSeq(formatted, cur, Len(formatted))
<1>4. b \in Seq(Token) /\ Len(b) = Len(formatted)
  BY <1>1, <1>3, IdleFacts
<1> HIDE DEF b
<1>5. Len(out) = cur - 1 /\ \A i \in 1 .. Len(out) : out[i] = b[i]
  BY <1>2, <1>3 DEF RoundTripInv, Copied, b
<1>6. /\ out \in Seq(Token) /\ Len(out) \in Nat /\ formatted \in Seq(Token)
      /\ cur \in Nat \ {0} /\ cur <= Len(formatted) + 1 /\ Len(formatted) \in Nat
  BY <1>1, <1>2, OutFacts, TypeFacts DEF RestoreInv
<1>7. /\ tail \in Seq(Token) /\ Len(tail) = Len(formatted) - cur + 1
      /\ \A i \in 1 .. Len(tail) : tail[i] = formatted[cur + i - 1]
  BY <1>6
<1> HIDE DEF tail
<1>8. /\ out' \in Seq(Token) /\ Len(out') = Len(out) + Len(tail)
      /\ \A i \in 1 .. Len(out) : out'[i] = out[i]
      /\ \A i \in 1 .. Len(tail) : out'[Len(out) + i] = tail[i]
  <2>1. out' = out \o tail
    BY <1>2 DEF tail
  <2> DEFINE o == out \o tail
  <2>2. /\ o \in Seq(Token) /\ Len(o) = Len(out) + Len(tail)
        /\ \A i \in 1 .. Len(out) : o[i] = out[i]
        /\ \A i \in 1 .. Len(tail) : o[Len(out) + i] = tail[i]
    <3>1. out \in Seq(Token) /\ tail \in Seq(Token)
      BY <1>6, <1>7
    <3> QED
      BY <3>1, ConcatFacts
  <2> HIDE DEF o
  <2> QED
    BY <2>1, <2>2 DEF o
<1>9. Len(out') = Len(b)
  BY <1>4, <1>5, <1>6, <1>7, <1>8
<1>10. ASSUME NEW i \in 1 .. Len(b) PROVE out'[i] = b[i]
  <2>1. CASE i <= Len(out)
    BY <1>5, <1>6, <1>8, <2>1
  <2>2. CASE i > Len(out)
    <3> DEFINE q == i - Len(out)
    <3>1. q \in 1 .. Len(tail) /\ Len(out) + q = i /\ cur + q - 1 = i
      BY <1>4, <1>5, <1>6, <1>7, <2>2
    <3> HIDE DEF q
    <3>2. out'[i] = formatted[i]
      BY <1>7, <1>8, <3>1
    <3>3. i \in cur .. Len(formatted) /\ i \in 1 .. Len(formatted)
      BY <1>4, <1>5, <1>6, <2>2
    <3>4. \A j \in Actions : ~(j >= k)
      BY <1>1, <1>2, TypeFacts DEF Actions, RestoreInv
    <3>5. ~IsSentinel(formatted[i])
      BY <1>1, <1>2, <3>3, <3>4, GapIsText
    <3> QED
      BY <1>1, <1>3, <3>2, <3>3, <3>5, SameText DEF b
  <2> QED
    BY <1>4, <1>6, <2>1, <2>2
<1>11. out' = b
  <2> DEFINE o == out'
  <2>1. o \in Seq(Token) /\ Len(o) = Len(b) /\ \A i \in 1 .. Len(b) : o[i] = b[i]
    BY <1>8, <1>9, <1>10
  <2> HIDE DEF o
  <2>2. o = b
    BY <1>4, <2>1, SeqEqual
  <2> QED
    BY <2>2 DEF o
<1> QED
  BY <1>11 DEF b

LEMMA RoundTripInductive == RoundTripInv /\ [Next]_vars => RoundTripInv'
<1> SUFFICES ASSUME RoundTripInv, [Next]_vars PROVE RoundTripInv'
  OBVIOUS
<1>1. RestoreInv'
  BY RestoreInvInductive DEF RoundTripInv
<1>2. CASE RestoreSlice
  BY <1>2, RestoreSliceCopies
<1>3. CASE RestoreDone
  BY <1>3, RestoreDoneCopies
<1>4. CASE VerifyDone
  <2>1. pc = "verify" /\ pc' = "restore" /\ UNCHANGED <<cur, out, til>>
    BY <1>4 DEF VerifyDone
  <2>2. cur' = 1 /\ out' = <<>>
    BY <2>1 DEF RoundTripInv, RestoreInv, IInv
  <2> QED
    BY <1>1, <2>1, <2>2 DEF RoundTripInv, Copied
<1>5. CASE GofumptAccepts \/ GofumptRejects \/ VerifyFails \/ VerifySlice
  <2>1. pc' \notin {"restore", "done"}
    BY <1>5 DEF GofumptAccepts, GofumptRejects, VerifyFails, VerifySlice, GiveUp, AtSlice
  <2> QED
    BY <1>1, <2>1 DEF RoundTripInv
<1>6. CASE SkipLiteral \/ UNCHANGED vars
  <2>1. UNCHANGED <<til, commentStandalone, formatted, cur, out, pc>>
    BY <1>6 DEF SkipLiteral, vars
  <2> QED
    BY <1>1, <2>1 DEF RoundTripInv, Idle, Aligned, Copied
<1> QED
  BY <1>2, <1>3, <1>4, <1>5, <1>6 DEF Next

\* For every tiling: if gofumpt leaves the stub as it is, Restore gives the
\* template back, provided its continuation lines are aligned.
THEOREM IdentityGivesItBack == Spec => []AlignedRoundTrip
<1>1. Init => RoundTripInv
  BY InitIInv DEF Init, RestoreInv, RoundTripInv
<1>2. RoundTripInv => AlignedRoundTrip
  BY DEF RoundTripInv, Idle, AlignedRoundTrip
<1> QED
  BY <1>1, <1>2, RoundTripInductive, PTL DEF Spec
----------------------------------------------------------------------------
(* The tokens of a text that are in a set, and their order.                *)

Cut(s, j) == SubSeq(s, 1, j)

\* What the token at position j adds.
KeptPiece(s, T, j) == IF s[j] \in T THEN <<s[j]>> ELSE <<>>

\* f holds what is kept of s, prefix by prefix.
Picks(f, s, T) ==
    f[0] = <<>> /\ \A j \in 1 .. Len(s) : f[j] = f[j - 1] \o KeptPiece(s, T, j)

LEMMA OnlyIs ==
    ASSUME NEW s \in Seq(Token), NEW T
    PROVE  \E f : Only(s, T) = f[Len(s)] /\ Picks(f, s, T)
<1> DEFINE f == CHOOSE h : h = [j \in 0 .. Len(s) |->
                    IF j = 0 THEN <<>>
                    ELSE h[j - 1] \o (IF s[j] \in T THEN <<s[j]>> ELSE <<>>)]
           pieces == [j \in 1 .. Len(s) |-> KeptPiece(s, T, j)]
<1>1. Only(s, T) = f[Len(s)]
  BY DEF Only
<1>2. Len(s) \in Nat
  OBVIOUS
<1>3. PICK h : Prefixes(h, Len(s), pieces)
  BY <1>2, PrefixesExist
<1>4. h = [j \in 0 .. Len(s) |->
              IF j = 0 THEN <<>>
              ELSE h[j - 1] \o (IF s[j] \in T THEN <<s[j]>> ELSE <<>>)]
  <2>1. \A j \in 0 .. Len(s) : j # 0 => j \in 1 .. Len(s)
    BY <1>2
  <2> QED
    BY <1>3, <2>1 DEF Prefixes, KeptPiece
<1>5. f = [j \in 0 .. Len(s) |->
              IF j = 0 THEN <<>>
              ELSE f[j - 1] \o (IF s[j] \in T THEN <<s[j]>> ELSE <<>>)]
  BY <1>4
<1> HIDE DEF f
<1>6. Picks(f, s, T)
  BY <1>2, <1>5 DEF KeptPiece, Picks
<1> QED
  BY <1>1, <1>6

LEMMA CutFacts ==
    ASSUME NEW s \in Seq(Token), NEW j \in 0 .. Len(s)
    PROVE  /\ Cut(s, j) \in Seq(Token) /\ Len(Cut(s, j)) = j
           /\ \A i \in 1 .. j : Cut(s, j)[i] = s[i]
           /\ j > 0 => Cut(s, j) = Cut(s, j - 1) \o <<s[j]>>
<1>1. Len(s) \in Nat /\ j \in Nat /\ \A i \in 1 .. j : s[i] \in Token
  OBVIOUS
<1>2. /\ Cut(s, j) \in Seq(Token) /\ Len(Cut(s, j)) = j
      /\ \A i \in 1 .. j : Cut(s, j)[i] = s[i]
  BY <1>1, SubSeqProperties DEF Cut
<1>3. j > 0 => Cut(s, j) = Cut(s, j - 1) \o <<s[j]>>
  BY <1>1, SubSeqRecursiveSecond DEF Cut
<1> QED
  BY <1>2, <1>3

\* Only, one token after the other.
LEMMA OnlyCuts ==
    ASSUME NEW s \in Seq(Token), NEW T
    PROVE  /\ Only(Cut(s, 0), T) = <<>> /\ Cut(s, Len(s)) = s
           /\ \A j \in 1 .. Len(s) :
                 Only(Cut(s, j), T) = Only(Cut(s, j - 1), T) \o KeptPiece(s, T, j)
<1>0. Len(s) \in Nat
  OBVIOUS
<1>1. PICK f : Only(s, T) = f[Len(s)] /\ Picks(f, s, T)
  BY OnlyIs
<1>2. ASSUME NEW n \in 0 .. Len(s) PROVE Only(Cut(s, n), T) = f[n]
  <2>1. Cut(s, n) \in Seq(Token) /\ Len(Cut(s, n)) = n
        /\ \A i \in 1 .. n : Cut(s, n)[i] = s[i]
    BY CutFacts
  <2>2. PICK h : Only(Cut(s, n), T) = h[n] /\ Picks(h, Cut(s, n), T)
    BY <2>1, OnlyIs
  <2> DEFINE bad == {m \in 0 .. n : h[m] # f[m]}
  <2>3. SUFFICES ASSUME bad # {} PROVE FALSE
    BY <1>0, <2>2
  <2>4. PICK m \in bad : \A l \in bad : m <= l
    <3>1. bad \subseteq Nat
      BY <1>0
    <3> HIDE DEF bad
    <3> QED
      BY <2>3, <3>1, Least
  <2>5. m # 0
    BY <1>1, <2>2, <2>4 DEF Picks
  <2>6. m \in 1 .. n /\ m \in 1 .. Len(s) /\ m - 1 \in 0 .. n /\ m - 1 < m
    BY <1>0, <2>4, <2>5
  <2>7. m - 1 \notin bad
    BY <2>4, <2>6
  <2>8. h[m] = h[m - 1] \o KeptPiece(Cut(s, n), T, m)
    BY <2>1, <2>2, <2>6 DEF Picks
  <2>9. f[m] = f[m - 1] \o KeptPiece(s, T, m)
    BY <1>1, <2>6 DEF Picks
  <2>10. KeptPiece(Cut(s, n), T, m) = KeptPiece(s, T, m)
    BY <2>1, <2>6 DEF KeptPiece
  <2> QED
    BY <2>4, <2>6, <2>7, <2>8, <2>9, <2>10
<1>3. Only(Cut(s, 0), T) = <<>>
  BY <1>0, <1>1, <1>2 DEF Picks
<1>4. ASSUME NEW j \in 1 .. Len(s)
      PROVE  Only(Cut(s, j), T) = Only(Cut(s, j - 1), T) \o KeptPiece(s, T, j)
  <2>1. j \in 0 .. Len(s) /\ j - 1 \in 0 .. Len(s)
    BY <1>0
  <2>2. f[j] = f[j - 1] \o KeptPiece(s, T, j)
    BY <1>1 DEF Picks
  <2> QED
    BY <1>2, <2>1, <2>2
<1>5. Cut(s, Len(s)) = s
  BY SubSeqFull DEF Cut
<1> QED
  BY <1>3, <1>4, <1>5

\* What is kept was there, and is in the set.
Kept(s, T) == {c \in T : \E q \in DOMAIN s : s[q] = c}

LEMMA OnlyKept ==
    ASSUME NEW s \in Seq(Token), NEW T
    PROVE  \A j \in 0 .. Len(s) : Only(Cut(s, j), T) \in Seq(Kept(s, T))
<1> DEFINE bad == {j \in 0 .. Len(s) : Only(Cut(s, j), T) \notin Seq(Kept(s, T))}
<1>0. Len(s) \in Nat /\ DOMAIN s = 1 .. Len(s)
  OBVIOUS
<1> SUFFICES ASSUME bad # {} PROVE FALSE
  OBVIOUS
<1>1. PICK m \in bad : \A l \in bad : m <= l
  <2>1. bad \subseteq Nat
    BY <1>0
  <2> HIDE DEF bad
  <2> QED
    BY <2>1, Least
<1>2. m # 0
  <2>1. Only(Cut(s, 0), T) = <<>>
    BY OnlyCuts
  <2>2. <<>> \in Seq(Kept(s, T))
    BY EmptySeq
  <2> QED
    BY <1>1, <2>1, <2>2
<1>3. m \in 1 .. Len(s) /\ m - 1 \in 0 .. Len(s) /\ m - 1 < m
  BY <1>0, <1>1, <1>2
<1>4. Only(Cut(s, m - 1), T) \in Seq(Kept(s, T))
  BY <1>1, <1>3
<1>5. KeptPiece(s, T, m) \in Seq(Kept(s, T))
  <2>1. CASE s[m] \in T
    <3>1. s[m] \in Kept(s, T)
      BY <1>0, <1>3, <2>1 DEF Kept
    <3> QED
      BY <2>1, <3>1 DEF KeptPiece
  <2>2. CASE s[m] \notin T
    BY <2>2 DEF KeptPiece
  <2> QED
    BY <2>1, <2>2
<1>6. Only(Cut(s, m), T) \in Seq(Kept(s, T))
  <2>1. Only(Cut(s, m), T) = Only(Cut(s, m - 1), T) \o KeptPiece(s, T, m)
    BY <1>3, OnlyCuts
  <2> QED
    BY <1>4, <1>5, <2>1, ConcatProperties
<1> QED
  BY <1>1, <1>6

LEMMA OnlyType ==
    ASSUME NEW s \in Seq(Token), NEW T
    PROVE  /\ Only(s, T) \in Seq(Kept(s, T)) /\ Only(s, T) \in Seq(Token)
           /\ (\A q \in DOMAIN s : s[q] \notin T) => Only(s, T) = <<>>
<1>1. Len(s) \in 0 .. Len(s) /\ Cut(s, Len(s)) = s
  BY OnlyCuts
<1>2. Only(s, T) \in Seq(Kept(s, T))
  BY <1>1, OnlyKept
<1>3. Kept(s, T) \subseteq Token
  BY DEF Kept
<1>4. Only(s, T) \in Seq(Token)
  BY <1>2, <1>3, SeqMonotonic
<1>5. ASSUME \A q \in DOMAIN s : s[q] \notin T PROVE Only(s, T) = <<>>
  <2>1. Kept(s, T) = {}
    BY <1>5 DEF Kept
  <2> DEFINE o == Only(s, T)
  <2>2. o \in Seq({})
    BY <1>2, <2>1
  <2> HIDE DEF o
  <2>3. o = <<>>
    BY <2>2, EmptySeq, ElementOfSeq
  <2> QED
    BY <2>3 DEF o
<1> QED
  BY <1>2, <1>4, <1>5

LEMMA OnlyEmpty == ASSUME NEW T PROVE Only(<<>>, T) = <<>>
<1>1. <<>> \in Seq(Token) /\ \A q \in DOMAIN <<>> : FALSE
  BY EmptySeq
<1> QED
  BY <1>1, OnlyType

\* A single token.
LEMMA OnlyOne ==
    ASSUME NEW c \in Token, NEW T
    PROVE  Only(<<c>>, T) = IF c \in T THEN <<c>> ELSE <<>>
<1> DEFINE s == <<c>>
<1>1. s \in Seq(Token) /\ Len(s) = 1 /\ s[1] = c
  OBVIOUS
<1> HIDE DEF s
<1>2. /\ Only(Cut(s, 0), T) = <<>> /\ Cut(s, 1) = s
      /\ Only(Cut(s, 1), T) = Only(Cut(s, 0), T) \o KeptPiece(s, T, 1)
  <2>1. 1 \in 1 .. Len(s) /\ 1 - 1 = 0
    BY <1>1
  <2>2. Only(Cut(s, 1), T) = Only(Cut(s, 1 - 1), T) \o KeptPiece(s, T, 1)
    BY <1>1, <2>1, OnlyCuts
  <2>3. Only(Cut(s, 0), T) = <<>> /\ Cut(s, Len(s)) = s
    BY <1>1, OnlyCuts
  <2> QED
    BY <1>1, <2>1, <2>2, <2>3
<1>3. Only(s, T) = <<>> \o KeptPiece(s, T, 1)
  BY <1>2
<1>4. KeptPiece(s, T, 1) = IF c \in T THEN <<c>> ELSE <<>>
  BY <1>1 DEF KeptPiece
<1>5. KeptPiece(s, T, 1) \in Seq(Token)
  <2>1. CASE c \in T
    BY <1>4, <2>1
  <2>2. CASE c \notin T
    <3>1. KeptPiece(s, T, 1) = <<>>
      BY <1>4, <2>2
    <3> QED
      BY <3>1, EmptySeq
  <2> QED
    BY <2>1, <2>2
<1>6. Only(s, T) = KeptPiece(s, T, 1)
  BY <1>3, <1>5, ConcatEmptySeq
<1> QED
  BY <1>4, <1>6 DEF s

\* Of a text in two parts, what is kept of either.
LEMMA OnlyJoined ==
    ASSUME NEW a \in Seq(Token), NEW b \in Seq(Token), NEW T
    PROVE  Only(a \o b, T) = Only(a, T) \o Only(b, T)
<1> DEFINE s == a \o b
           n == Len(a)
<1>0. /\ n \in Nat /\ Len(b) \in Nat /\ s \in Seq(Token) /\ Len(s) = n + Len(b)
      /\ \A i \in 1 .. n : s[i] = a[i]
      /\ \A i \in 1 .. Len(b) : s[n + i] = b[i]
  BY ConcatFacts
<1> HIDE DEF s, n
<1> DEFINE Done(j) == Only(Cut(s, n + j), T) = Only(a, T) \o Only(Cut(b, j), T)
           bad == {j \in 0 .. Len(b) : ~Done(j)}
<1>1. Done(0)
  <2>1. n \in 0 .. Len(s) /\ n + 0 = n
    BY <1>0
  <2>2. Cut(s, n) \in Seq(Token) /\ Len(Cut(s, n)) = n /\ \A i \in 1 .. n : Cut(s, n)[i] = s[i]
    BY <1>0, <2>1, CutFacts
  <2>3. Cut(s, n) = a
    BY <1>0, <2>2, SeqEqual DEF n
  <2>4. Only(Cut(b, 0), T) = <<>>
    BY OnlyCuts
  <2>5. Only(a, T) \o <<>> = Only(a, T)
    BY OnlyType, ConcatEmptySeq
  <2> QED
    BY <2>1, <2>3, <2>4, <2>5
<1>2. ASSUME NEW m \in 1 .. Len(b), Done(m - 1) PROVE Done(m)
  <2>1. /\ n + m \in 1 .. Len(s) /\ (n + m) - 1 = n + (m - 1)
        /\ m \in 0 .. Len(b) /\ m - 1 \in 0 .. Len(b)
    BY <1>0
  <2>2. Only(Cut(s, n + m), T) = Only(Cut(s, n + (m - 1)), T) \o KeptPiece(s, T, n + m)
    BY <1>0, <2>1, OnlyCuts
  <2>3. KeptPiece(s, T, n + m) = KeptPiece(b, T, m)
    BY <1>0 DEF KeptPiece
  <2>4. Only(Cut(b, m), T) = Only(Cut(b, m - 1), T) \o KeptPiece(b, T, m)
    BY OnlyCuts
  <2> DEFINE u == Only(a, T)
             v == Only(Cut(b, m - 1), T)
             w == KeptPiece(b, T, m)
  <2>5. u \in Seq(Token) /\ v \in Seq(Token) /\ w \in Seq(Token)
    <3>1. u \in Seq(Token)
      BY OnlyType
    <3>2. v \in Seq(Token)
      BY <2>1, CutFacts, OnlyType
    <3>3. w \in Seq(Token)
      <4>1. b[m] \in Token
        BY <1>0
      <4>2. <<b[m]>> \in Seq(Token) /\ <<>> \in Seq(Token)
        BY <4>1, EmptySeq
      <4> QED
        BY <4>2 DEF KeptPiece
    <3> QED
      BY <3>1, <3>2, <3>3
  <2>6. /\ Only(Cut(s, n + (m - 1)), T) = u \o v
        /\ Only(Cut(s, n + m), T) = Only(Cut(s, n + (m - 1)), T) \o w
        /\ Only(Cut(b, m), T) = v \o w
    BY <1>2, <2>2, <2>3, <2>4
  <2> HIDE DEF u, v, w
  <2>7. (u \o v) \o w = u \o (v \o w)
    <3>1. \A x \in Seq(Token) : \A y \in Seq(Token) : \A z \in Seq(Token) :
              (x \o y) \o z = x \o (y \o z)
      BY ConcatAssociative
    <3> QED
      BY <2>5, <3>1, Zenon
  <2>8. Only(Cut(s, n + m), T) = u \o Only(Cut(b, m), T)
    BY <2>6, <2>7
  <2> QED
    BY <2>8 DEF u
<1>3. bad = {}
  <2> SUFFICES ASSUME bad # {} PROVE FALSE
    OBVIOUS
  <2>1. PICK m \in bad : \A l \in bad : m <= l
    <3>1. bad \subseteq Nat
      BY <1>0
    <3> HIDE DEF bad
    <3> QED
      BY <3>1, Least
  <2>2. m \in 0 .. Len(b) /\ ~Done(m)
    BY <2>1
  <2>3. m # 0
    BY <1>1, <2>2
  <2> HIDE DEF Done
  <2>4. m \in 1 .. Len(b) /\ m - 1 \in 0 .. Len(b) /\ m - 1 < m
    BY <1>0, <2>2, <2>3
  <2>5. Done(m - 1)
    BY <2>1, <2>4
  <2> QED
    BY <1>2, <2>2, <2>4, <2>5
<1>4. Done(Len(b))
  <2>1. Len(b) \in 0 .. Len(b)
    BY <1>0
  <2> HIDE DEF Done
  <2> QED
    BY <1>3, <2>1
<1>5. Cut(s, n + Len(b)) = s /\ Cut(b, Len(b)) = b
  BY <1>0, OnlyCuts
<1>6. Only(s, T) = Only(a, T) \o Only(b, T)
  BY <1>4, <1>5
<1> QED
  BY <1>6 DEF s

\* A text to position j, and what is kept of it.
LEMMA OnlyStep ==
    ASSUME NEW s \in Seq(Token), NEW T, NEW j \in 1 .. Len(s)
    PROVE  /\ j - 1 \in 0 .. Len(s) /\ j - 1 < j /\ j - 1 \in Nat
           /\ Cut(s, j) \in Seq(Token) /\ Cut(s, j - 1) \in Seq(Token)
           /\ s[j] \in Token
           /\ Only(Cut(s, j), T) \in Seq(Token) /\ Only(Cut(s, j - 1), T) \in Seq(Token)
           /\ s[j] \in T => Only(Cut(s, j), T) = Only(Cut(s, j - 1), T) \o <<s[j]>>
           /\ s[j] \notin T => Only(Cut(s, j), T) = Only(Cut(s, j - 1), T)
<1>1. j \in 0 .. Len(s) /\ j - 1 \in 0 .. Len(s) /\ j - 1 < j /\ j - 1 \in Nat /\ s[j] \in Token
  OBVIOUS
<1>2. Cut(s, j) \in Seq(Token) /\ Cut(s, j - 1) \in Seq(Token)
  BY <1>1, CutFacts
<1>3. Only(Cut(s, j), T) \in Seq(Token) /\ Only(Cut(s, j - 1), T) \in Seq(Token)
  BY <1>2, OnlyType
<1>4. Only(Cut(s, j), T) = Only(Cut(s, j - 1), T) \o KeptPiece(s, T, j)
  BY OnlyCuts
<1>5. s[j] \in T => KeptPiece(s, T, j) = <<s[j]>>
  BY DEF KeptPiece
<1>6. s[j] \notin T => KeptPiece(s, T, j) = <<>>
  BY DEF KeptPiece
<1>7. Only(Cut(s, j - 1), T) \o <<>> = Only(Cut(s, j - 1), T)
  BY <1>3, ConcatEmptySeq
<1> QED
  BY <1>1, <1>2, <1>3, <1>4, <1>5, <1>6, <1>7

\* To keep less of what is kept is to keep less.
LEMMA OnlyTwice ==
    ASSUME NEW s \in Seq(Token), NEW T, NEW U, U \subseteq T
    PROVE  Only(Only(s, T), U) = Only(s, U)
<1> DEFINE Done(j) == Only(Only(Cut(s, j), T), U) = Only(Cut(s, j), U)
           bad == {j \in 0 .. Len(s) : ~Done(j)}
<1>0. Len(s) \in Nat
  OBVIOUS
<1>1. Done(0)
  <2>1. Only(Cut(s, 0), T) = <<>> /\ Only(Cut(s, 0), U) = <<>>
    BY OnlyCuts
  <2>2. <<>> \in Seq(Token) /\ DOMAIN <<>> = {}
    BY EmptySeq
  <2>3. Only(<<>>, U) = <<>>
    BY <2>2, OnlyType
  <2> QED
    BY <2>1, <2>3
<1>2. ASSUME NEW m \in 1 .. Len(s), Done(m - 1) PROVE Done(m)
  <2> DEFINE u == Only(Cut(s, m - 1), T)
             v == Only(Cut(s, m - 1), U)
  <2>1. /\ u \in Seq(Token) /\ v \in Seq(Token) /\ s[m] \in Token
        /\ s[m] \in T => Only(Cut(s, m), T) = u \o <<s[m]>>
        /\ s[m] \notin T => Only(Cut(s, m), T) = u
        /\ s[m] \in U => Only(Cut(s, m), U) = v \o <<s[m]>>
        /\ s[m] \notin U => Only(Cut(s, m), U) = v
    BY OnlyStep
  <2>2. Only(u, U) = v
    BY <1>2
  <2> HIDE DEF u, v
  <2>3. CASE s[m] \notin T
    BY <2>1, <2>2, <2>3
  <2>4. CASE s[m] \in T
    <3>1. <<s[m]>> \in Seq(Token)
      BY <2>1
    <3>2. Only(u \o <<s[m]>>, U) = v \o Only(<<s[m]>>, U)
      BY <2>1, <2>2, <3>1, OnlyJoined
    <3>3. CASE s[m] \in U
      <4>1. Only(<<s[m]>>, U) = <<s[m]>>
        BY <2>1, <3>3, OnlyOne
      <4> QED
        BY <2>1, <2>4, <3>2, <3>3, <4>1
    <3>4. CASE s[m] \notin U
      <4>1. Only(<<s[m]>>, U) = <<>>
        BY <2>1, <3>4, OnlyOne
      <4>2. v \o <<>> = v
        BY <2>1, ConcatEmptySeq
      <4> QED
        BY <2>1, <2>4, <3>2, <3>4, <4>1, <4>2
    <3> QED
      BY <3>3, <3>4
  <2> QED
    BY <2>3, <2>4
<1>3. bad = {}
  <2> SUFFICES ASSUME bad # {} PROVE FALSE
    OBVIOUS
  <2>1. PICK m \in bad : \A l \in bad : m <= l
    <3>1. bad \subseteq Nat
      BY <1>0
    <3> HIDE DEF bad
    <3> QED
      BY <3>1, Least
  <2>2. m \in 0 .. Len(s) /\ ~Done(m)
    BY <2>1
  <2>3. m # 0
    BY <1>1, <2>2
  <2> HIDE DEF Done
  <2>4. m \in 1 .. Len(s) /\ m - 1 \in 0 .. Len(s) /\ m - 1 < m
    BY <1>0, <2>2, <2>3
  <2>5. Done(m - 1)
    BY <2>1, <2>4
  <2> QED
    BY <1>2, <2>2, <2>4, <2>5
<1>4. Done(Len(s))
  <2>1. Len(s) \in 0 .. Len(s)
    BY <1>0
  <2> HIDE DEF Done
  <2> QED
    BY <1>3, <2>1
<1> QED
  BY <1>4, OnlyCuts

\* Two texts that differ only where nothing is kept.
LEMMA OnlySame ==
    ASSUME NEW a \in Seq(Token), NEW b \in Seq(Token), NEW T, Len(a) = Len(b),
           \A p \in 1 .. Len(a) : a[p] = b[p] \/ (a[p] \notin T /\ b[p] \notin T)
    PROVE  Only(a, T) = Only(b, T)
<1> DEFINE Done(j) == Only(Cut(a, j), T) = Only(Cut(b, j), T)
           bad == {j \in 0 .. Len(a) : ~Done(j)}
<1>0. Len(a) \in Nat
  OBVIOUS
<1>1. Done(0)
  BY OnlyCuts
<1>2. ASSUME NEW m \in 1 .. Len(a), Done(m - 1) PROVE Done(m)
  <2>1. KeptPiece(a, T, m) = KeptPiece(b, T, m)
    BY DEF KeptPiece
  <2>2. Only(Cut(a, m), T) = Only(Cut(a, m - 1), T) \o KeptPiece(a, T, m)
    BY OnlyCuts
  <2>3. Only(Cut(b, m), T) = Only(Cut(b, m - 1), T) \o KeptPiece(b, T, m)
    BY OnlyCuts
  <2> QED
    BY <1>2, <2>1, <2>2, <2>3
<1>3. bad = {}
  <2> SUFFICES ASSUME bad # {} PROVE FALSE
    OBVIOUS
  <2>1. PICK m \in bad : \A l \in bad : m <= l
    <3>1. bad \subseteq Nat
      BY <1>0
    <3> HIDE DEF bad
    <3> QED
      BY <3>1, Least
  <2>2. m \in 0 .. Len(a) /\ ~Done(m)
    BY <2>1
  <2>3. m # 0
    BY <1>1, <2>2
  <2> HIDE DEF Done
  <2>4. m \in 1 .. Len(a) /\ m - 1 \in 0 .. Len(a) /\ m - 1 < m
    BY <1>0, <2>2, <2>3
  <2>5. Done(m - 1)
    BY <2>1, <2>4
  <2> QED
    BY <1>2, <2>2, <2>4, <2>5
<1>4. Done(Len(a))
  <2>1. Len(a) \in 0 .. Len(a)
    BY <1>0
  <2> HIDE DEF Done
  <2> QED
    BY <1>3, <2>1
<1> QED
  BY <1>4, OnlyCuts

\* The place of s[p] among what is kept.
Rank(s, T, p) == Len(Only(Cut(s, p - 1), T)) + 1

\* Of a text cut in three.
LEMMA OnlyAround ==
    ASSUME NEW s \in Seq(Token), NEW T, NEW p \in 0 .. Len(s), NEW q \in p .. Len(s)
    PROVE  /\ SubSeq(s, p + 1, q) \in Seq(Token) /\ Cut(s, p) \in Seq(Token)
           /\ Cut(s, q) \in Seq(Token)
           /\ Only(Cut(s, q), T) = Only(Cut(s, p), T) \o Only(SubSeq(s, p + 1, q), T)
           /\ Only(Cut(s, p), T) \in Seq(Token)
           /\ Only(SubSeq(s, p + 1, q), T) \in Seq(Token)
           /\ Only(Cut(s, q), T) \in Seq(Token)
<1>0. Len(s) \in Nat /\ p \in Nat /\ q \in Nat /\ q \in 0 .. Len(s)
      /\ \A i \in p + 1 .. q : s[i] \in Token
  OBVIOUS
<1>1. SubSeq(s, p + 1, q) \in Seq(Token)
  BY <1>0, SubSeqProperties
<1>2. Cut(s, p) \in Seq(Token) /\ Cut(s, q) \in Seq(Token)
  BY <1>0, CutFacts
<1>3. Cut(s, q) = Cut(s, p) \o SubSeq(s, p + 1, q)
  <2>1. 1 \in 1 .. Len(s) + 1 /\ p \in 1 - 1 .. Len(s) /\ q \in p .. Len(s)
    BY <1>0
  <2> QED
    BY <2>1, ConcatAdjacentSubSeq DEF Cut
<1> DEFINE u == Cut(s, p)
           v == SubSeq(s, p + 1, q)
<1>4. u \in Seq(Token) /\ v \in Seq(Token) /\ Cut(s, q) = u \o v
  BY <1>1, <1>2, <1>3
<1> HIDE DEF u, v
<1>5. Only(u \o v, T) = Only(u, T) \o Only(v, T)
  BY <1>4, OnlyJoined
<1>6. Only(u, T) \in Seq(Token) /\ Only(v, T) \in Seq(Token)
  BY <1>4, OnlyType
<1>7. Only(Cut(s, q), T) \in Seq(Token)
  BY <1>2, OnlyType
<1> QED
  BY <1>1, <1>2, <1>4, <1>5, <1>6, <1>7 DEF u, v

LEMMA RankFacts ==
    ASSUME NEW s \in Seq(Token), NEW T, NEW p \in 1 .. Len(s), s[p] \in T
    PROVE  /\ Rank(s, T, p) \in 1 .. Len(Only(s, T))
           /\ Only(s, T)[Rank(s, T, p)] = s[p]
           /\ \A q \in p + 1 .. Len(s) : Rank(s, T, p) < Rank(s, T, q)
           /\ p + 1 <= Len(s) => Rank(s, T, p + 1) = Rank(s, T, p) + 1
<1> DEFINE before == Only(Cut(s, p - 1), T)
           upTo == Only(Cut(s, p), T)
           c == s[p]
<1>0. Len(s) \in Nat /\ p \in Nat /\ p \in 0 .. Len(s) /\ Len(s) \in p .. Len(s)
  OBVIOUS
<1>1. before \in Seq(Token) /\ c \in Token /\ upTo = before \o <<c>>
  BY OnlyStep
<1>2. Rank(s, T, p) = Len(before) + 1 /\ Rank(s, T, p + 1) = Len(upTo) + 1
  <2>1. (p + 1) - 1 = p
    BY <1>0
  <2> QED
    BY <2>1 DEF Rank
<1> HIDE DEF before, upTo, c
<1>3. upTo \in Seq(Token) /\ Len(upTo) = Len(before) + 1 /\ upTo[Len(before) + 1] = c
      /\ Len(before) \in Nat
  BY <1>1
<1>4. ASSUME NEW q \in p .. Len(s)
      PROVE  /\ Len(Only(Cut(s, q), T)) \in Nat /\ Len(Only(Cut(s, q), T)) >= Len(upTo)
             /\ Only(Cut(s, q), T)[Len(upTo)] = upTo[Len(upTo)]
  <2> DEFINE rest == Only(SubSeq(s, p + 1, q), T)
             all == Only(Cut(s, q), T)
  <2>1. all = upTo \o rest /\ rest \in Seq(Token)
    BY <1>0, OnlyAround DEF upTo
  <2> HIDE DEF rest, all
  <2>2. Len(all) = Len(upTo) + Len(rest) /\ Len(rest) \in Nat /\ Len(upTo) \in Nat
        /\ \A i \in 1 .. Len(upTo) : all[i] = upTo[i]
    BY <1>3, <2>1, ConcatFacts
  <2>3. Len(upTo) \in 1 .. Len(upTo)
    BY <1>3
  <2> QED
    BY <2>2, <2>3 DEF all
<1>5. Rank(s, T, p) \in 1 .. Len(Only(s, T)) /\ Only(s, T)[Rank(s, T, p)] = s[p]
  <2>1. Cut(s, Len(s)) = s
    BY OnlyCuts
  <2>2. /\ Len(Only(s, T)) \in Nat /\ Len(Only(s, T)) >= Len(upTo)
        /\ Only(s, T)[Len(upTo)] = upTo[Len(upTo)]
    BY <1>0, <1>4, <2>1
  <2> QED
    BY <1>2, <1>3, <2>2 DEF c
<1>6. ASSUME NEW q \in p + 1 .. Len(s) PROVE Rank(s, T, p) < Rank(s, T, q)
  <2>1. q - 1 \in p .. Len(s)
    BY <1>0
  <2>2. Len(Only(Cut(s, q - 1), T)) \in Nat /\ Len(Only(Cut(s, q - 1), T)) >= Len(upTo)
    BY <1>4, <2>1
  <2>3. Rank(s, T, q) = Len(Only(Cut(s, q - 1), T)) + 1
    BY DEF Rank
  <2> QED
    BY <1>2, <1>3, <2>2, <2>3
<1> QED
  BY <1>2, <1>3, <1>5, <1>6

\* Everything that is kept has such a place.
LEMMA RankOnto ==
    ASSUME NEW s \in Seq(Token), NEW T, NEW i \in 1 .. Len(Only(s, T))
    PROVE  \E p \in 1 .. Len(s) : s[p] \in T /\ Rank(s, T, p) = i
<1> DEFINE reached == {j \in 0 .. Len(s) : Len(Only(Cut(s, j), T)) >= i}
<1>0. Len(s) \in Nat /\ i \in Nat /\ i >= 1 /\ Len(Only(s, T)) \in Nat
  BY OnlyType
<1>1. Len(s) \in reached
  <2>1. Cut(s, Len(s)) = s /\ Len(s) \in 0 .. Len(s)
    BY <1>0, OnlyCuts
  <2> QED
    BY <1>0, <2>1
<1>2. PICK p \in reached : \A l \in reached : p <= l
  <2>1. reached \subseteq Nat
    BY <1>0
  <2> HIDE DEF reached
  <2> QED
    BY <1>1, <2>1, Least
<1>3. p # 0
  <2>1. Only(Cut(s, 0), T) = <<>> /\ Len(<<>>) = 0
    BY OnlyCuts
  <2> QED
    BY <1>0, <1>2, <2>1
<1>4. p \in 1 .. Len(s) /\ p - 1 \in 0 .. Len(s) /\ p - 1 < p
  BY <1>0, <1>2, <1>3
<1> DEFINE before == Only(Cut(s, p - 1), T)
           upTo == Only(Cut(s, p), T)
           c == s[p]
<1>5. /\ before \in Seq(Token) /\ c \in Token
      /\ c \in T => upTo = before \o <<c>>
      /\ c \notin T => upTo = before
  BY <1>4, OnlyStep
<1>6. Len(upTo) >= i
  BY <1>2
<1>7. ~(Len(before) >= i)
  BY <1>2, <1>4
<1>8. Rank(s, T, p) = Len(before) + 1
  BY DEF Rank
<1> HIDE DEF before, upTo
<1>9. c \in T
  BY <1>5, <1>6, <1>7
<1>10. Len(upTo) = Len(before) + 1 /\ Len(before) \in Nat
  BY <1>5, <1>9
<1>11. Rank(s, T, p) = i
  BY <1>0, <1>6, <1>7, <1>8, <1>10
<1> QED
  BY <1>4, <1>9, <1>11

----------------------------------------------------------------------------
(* What Restore drops.                                                     *)

Solid == {c \in Token : c \notin White}

\* gofumpt changed white space only.
Reflowed == Only(formatted, Solid) = Only(Stub(til, commentStandalone), Solid)

LEMMA SentinelIsSolid ==
    ASSUME NEW t \in Seq(RawSlice), NEW c, NEW j \in 1 .. Len(t)
    PROVE  sentinelFor(t, c, j) \in Solid
<1>1. sentinelFor(t, c, j) \in Token /\ IsSentinel(sentinelFor(t, c, j))
  BY PieceType DEF sentinelFor, IsSentinel
<1>2. sentinelFor(t, c, j) \notin White
  BY <1>1, SentinelIsNoSpace DEF White, Blank1, Newline
<1> QED
  BY <1>1, <1>2 DEF Solid

\* What has been consumed ends with the sentinel of the slice before k.
LEMMA ConsumedEnds ==
    ASSUME RestoreInv, pc = "restore", k \in Actions,
           k = 1 \/ k - 1 \in Actions
    PROVE  /\ k = 1 => cur = 1
           /\ k - 1 \in Actions => cur > 1 /\ SentinelAt(k - 1) = {cur - 1}
<1>0. /\ IInv /\ cur \in Nat \ {0} /\ k \in Nat \ {0} /\ Len(til) \in Nat
      /\ Len(formatted) \in Nat /\ cur <= Len(formatted) + 1 /\ Actions \subseteq 1 .. Len(til)
  BY TypeFacts DEF RestoreInv, Actions
\* The sentinel before cur is that of a slice before k.
<1>1. ASSUME cur > 1
      PROVE  \E j \in Actions : j < k /\ cur - 1 \in SentinelAt(j)
  <2>1. cur - 1 \in DOMAIN formatted /\ IsSentinel(formatted[cur - 1])
    BY <1>0, <1>1, TypeFacts DEF RestoreInv, Consumed
  <2>2. PICK j \in Actions : cur - 1 \in SentinelAt(j)
    BY <2>1 DEF RestoreInv, Stubbed
  <2>3. ~(j >= k)
    BY <1>0, <2>2 DEF IInv
  <2> QED
    BY <1>0, <2>2, <2>3
<1>2. ASSUME k = 1 PROVE cur = 1
  BY <1>0, <1>1, <1>2
<1>3. ASSUME k - 1 \in Actions PROVE cur > 1 /\ SentinelAt(k - 1) = {cur - 1}
  <2>1. k - 1 \in Actions /\ k - 1 < k /\ k - 1 < Len(til) + 1
    BY <1>0, <1>3
  <2>2. PICK r \in 1 .. Len(formatted) :
          /\ SentinelAt(k - 1) = {r}
          /\ \A l \in Actions : l < k - 1 => \A q \in SentinelAt(l) : q < r
    BY <1>0, <2>1 DEF IInv, VerifiedUpTo
  <2>3. r < cur
    BY <2>1, <2>2 DEF RestoreInv, Consumed
  <2>4. cur > 1
    BY <1>0, <2>3
  <2>5. PICK j \in Actions : j < k /\ cur - 1 \in SentinelAt(j)
    BY <1>1, <2>4
  <2>6. CASE j = k - 1
    BY <2>2, <2>4, <2>5, <2>6
  <2>7. CASE j < k - 1
    <3>1. cur - 1 < r
      BY <2>2, <2>5, <2>7
    <3> QED
      BY <1>0, <2>3, <3>1
  <2> QED
    BY <1>0, <2>5, <2>6, <2>7
<1> QED
  BY <1>2, <1>3

\* Where the template has no text between two actions, and gofumpt changed white
\* space only, it wrote nothing else between their sentinels.
LEMMA GapIsWhite ==
    ASSUME IInv, VerifiedUpTo(Len(til) + 1), Reflowed, NEW q \in Between
    PROVE  formatted[q] \notin Solid
<1>0. /\ til \in Seq(RawSlice) /\ Len(til) \in Nat /\ Len(formatted) \in Nat
      /\ formatted \in Seq(Token) /\ Actions \subseteq 1 .. Len(til)
      /\ q \in 1 .. Len(formatted)
  BY TypeFacts DEF Actions, Between
<1>1. PICK j \in Actions :
        /\ j = 1 \/ j - 1 \in Actions
        /\ \A i \in SentinelAt(j) : q < i
        /\ j > 1 => \A i \in SentinelAt(j - 1) : i < q
  BY DEF Between
<1>2. PICK p \in 1 .. Len(formatted) : SentinelAt(j) = {p}
  BY <1>0 DEF VerifiedUpTo
<1> DEFINE s == Stub(til, commentStandalone)
           f == formatted
           y == sentinelFor(til, commentStandalone, j)
           kept == Only(f, Solid)
<1>3. s \in Seq(Token) /\ Placed(s, SourceOf(til), til, commentStandalone, j)
  <2>1. til[j].type # Literal /\ j \in 1 .. Len(til)
    BY <1>0 DEF Actions
  <2> QED
    BY <1>0, <2>1, StubMirrorsSource DEF Mirrors
<1>4. \A i \in 1 .. Len(f) : f[i] = y <=> i = p
  BY <1>2 DEF SentinelAt, Occurrences
<1>5. y \in Solid
  BY <1>0, SentinelIsSolid
<1>6. kept = Only(s, Solid)
  BY DEF Reflowed
<1>7. p \in q + 1 .. Len(f)
  BY <1>0, <1>1, <1>2
<1>8. PICK t \in 1 .. Len(s) :
        /\ s[t] = y
        /\ j = 1 => t = 1
        /\ j > 1 /\ til[j - 1].type # Literal =>
              t > 1 /\ s[t - 1] = sentinelFor(til, commentStandalone, j - 1)
  BY <1>3 DEF Placed
<1> HIDE DEF s, f, y, kept
<1>9. SUFFICES ASSUME f[q] \in Solid PROVE FALSE
  BY DEF f
<1>10. Rank(f, Solid, q) < Rank(f, Solid, p) /\ Rank(f, Solid, q) \in 1 .. Len(kept)
  BY <1>0, <1>7, <1>9, RankFacts DEF kept, f
<1>11. \A i \in 1 .. Len(kept) : kept[i] = y => i = Rank(f, Solid, p)
  <2> SUFFICES ASSUME NEW i \in 1 .. Len(kept), kept[i] = y PROVE i = Rank(f, Solid, p)
    OBVIOUS
  <2>1. PICK u \in 1 .. Len(f) : f[u] \in Solid /\ Rank(f, Solid, u) = i
    BY <1>0, RankOnto DEF kept, f
  <2>2. f[u] = y
    BY <1>0, <2>1, RankFacts DEF kept, f
  <2> QED
    BY <1>4, <2>1, <2>2
<1>12. CASE j = 1
  <2>1. t = 1 /\ s[1] = y
    BY <1>8, <1>12
  <2>2. Rank(s, Solid, 1) = 1
    <3>1. Only(Cut(s, 0), Solid) = <<>> /\ Len(<<>>) = 0 /\ 1 - 1 = 0
      BY <1>3, OnlyCuts
    <3> QED
      BY <3>1 DEF Rank
  <2>3. 1 \in 1 .. Len(kept) /\ kept[1] = y
    BY <1>3, <1>5, <1>6, <2>1, <2>2, RankFacts
  <2>4. Rank(f, Solid, p) = 1
    BY <1>11, <2>3
  <2> QED
    BY <1>10, <2>4
<1>13. CASE j - 1 \in Actions
  <2> DEFINE x == sentinelFor(til, commentStandalone, j - 1)
  <2>1. j > 1 /\ til[j - 1].type # Literal /\ j - 1 \in 1 .. Len(til)
    BY <1>0, <1>13 DEF Actions
  <2>2. t > 1 /\ s[t - 1] = x /\ x \in Solid
    BY <1>0, <1>8, <2>1, SentinelIsSolid
  <2>3. PICK r \in 1 .. Len(f) : SentinelAt(j - 1) = {r}
    BY <1>0, <1>13, <2>1 DEF VerifiedUpTo, f
  <2>4. r < q /\ \A i \in 1 .. Len(f) : f[i] = x <=> i = r
    BY <1>1, <2>1, <2>3 DEF SentinelAt, Occurrences, f
  <2> HIDE DEF x
  <2> DEFINE i == Rank(s, Solid, t - 1)
  <2>5. t - 1 \in 1 .. Len(s) /\ (t - 1) + 1 = t /\ t <= Len(s)
    BY <1>3, <2>2
  <2>6. /\ i \in 1 .. Len(kept) /\ kept[i] = x /\ Rank(s, Solid, t) = i + 1
        /\ i + 1 \in 1 .. Len(kept) /\ kept[i + 1] = y
    <3>1. i \in 1 .. Len(kept) /\ kept[i] = x /\ Rank(s, Solid, t) = i + 1
      BY <1>3, <1>6, <2>2, <2>5, RankFacts
    <3>2. Rank(s, Solid, t) \in 1 .. Len(kept) /\ kept[Rank(s, Solid, t)] = y
      BY <1>3, <1>5, <1>6, <1>8, RankFacts
    <3> QED
      BY <3>1, <3>2
  <2> HIDE DEF i
  <2>7. Rank(f, Solid, p) = i + 1
    BY <1>11, <2>6
  <2>8. PICK u \in 1 .. Len(f) : f[u] \in Solid /\ Rank(f, Solid, u) = i
    BY <1>0, <2>6, RankOnto DEF kept, f
  <2>9. f[u] = x
    BY <1>0, <2>6, <2>8, RankFacts DEF kept, f
  <2>10. u = r /\ q \in u + 1 .. Len(f)
    BY <1>0, <2>4, <2>8, <2>9 DEF f
  <2>11. i < Rank(f, Solid, q)
    BY <1>0, <1>9, <2>8, <2>10, RankFacts DEF f
  <2> QED
    BY <1>10, <2>6, <2>7, <2>11
<1> QED
  BY <1>1, <1>12, <1>13

\* Where Restore is at the k-th sentinel, what it drops lies between slices that
\* touch and what it keeps does not.
LEMMA DroppedIsBetween ==
    ASSUME RestoreInv, pc = "restore", k \in Actions,
           NEW p \in 1 .. Len(formatted), SentinelAt(k) = {p}, p >= cur,
           NEW q \in cur .. p - 1
    PROVE  q \in Between <=> ~precededByLiteral(til, k)
<1>0. /\ IInv /\ k \in 1 .. Len(til) /\ Len(til) \in Nat /\ cur \in Nat \ {0}
      /\ Len(formatted) \in Nat /\ q \in DOMAIN formatted /\ Actions \subseteq 1 .. Len(til)
  BY TypeFacts DEF RestoreInv, Actions
<1>1. \A j \in Actions : j < k => \A i \in SentinelAt(j) : i < cur
  BY DEF RestoreInv, Consumed
<1>2. VerifiedUpTo(Len(til) + 1)
  BY <1>0 DEF IInv
<1>3. ASSUME ~precededByLiteral(til, k) PROVE q \in Between
  <2>1. k = 1 \/ k - 1 \in Actions
    BY <1>0, <1>3 DEF precededByLiteral, Actions
  <2>2. \A i \in SentinelAt(k) : q < i
    BY <1>0
  <2>3. ASSUME k > 1 PROVE \A i \in SentinelAt(k - 1) : i < q
    <3>1. k - 1 \in Actions /\ k - 1 < k
      BY <1>0, <2>1, <2>3
    <3>2. \A i \in SentinelAt(k - 1) : i < cur /\ i \in Nat
      BY <1>0, <1>1, <3>1 DEF SentinelAt, Occurrences
    <3> QED
      BY <1>0, <3>2
  <2> QED
    BY <1>0, <2>1, <2>2, <2>3 DEF Between
<1>4. ASSUME precededByLiteral(til, k), q \in Between PROVE FALSE
  <2>1. PICK j \in Actions :
          /\ j = 1 \/ j - 1 \in Actions
          /\ \A i \in SentinelAt(j) : q < i
          /\ j > 1 => \A i \in SentinelAt(j - 1) : i < q
    BY <1>4 DEF Between
  <2>2. j # k
    BY <1>0, <1>4, <2>1 DEF precededByLiteral, Actions
  <2>3. CASE j < k
    <3>1. PICK i \in 1 .. Len(formatted) : SentinelAt(j) = {i}
      BY <1>0, <1>2, <2>1 DEF VerifiedUpTo
    <3>2. i \in SentinelAt(j)
      BY <3>1
    <3>3. i < cur /\ q < i
      BY <1>1, <2>1, <2>3, <3>2
    <3> QED
      BY <1>0, <3>3
  <2>4. CASE j > k
    <3>1. j > 1 /\ j - 1 \in Actions /\ j - 1 >= k
      BY <1>0, <2>1, <2>4
    <3>2. PICK i \in 1 .. Len(formatted) :
            SentinelAt(j - 1) = {i} /\ \A l \in Actions : l < j - 1 => \A h \in SentinelAt(l) : h < i
      BY <1>0, <1>2, <3>1 DEF VerifiedUpTo
    <3>3. i >= p
      <4>1. CASE j - 1 = k
        BY <3>2, <4>1
      <4>2. CASE j - 1 # k
        <5>1. k < j - 1
          BY <1>0, <3>1, <4>2
        <5> QED
          BY <3>2, <5>1
      <4> QED
        BY <4>1, <4>2
    <3>4. i < q
      BY <2>1, <3>1, <3>2
    <3> QED
      BY <1>0, <3>3, <3>4
  <2> QED
    BY <1>0, <2>2, <2>3, <2>4
<1> QED
  BY <1>3, <1>4

\* Nothing behind the last sentinel is between two.
LEMMA TailIsKept ==
    ASSUME RestoreInv, pc = "restore", k > Len(til), NEW q \in cur .. Len(formatted)
    PROVE  q \notin Between
<1>0. IInv /\ Len(til) \in Nat /\ k \in Nat /\ cur \in Nat \ {0} /\ Actions \subseteq 1 .. Len(til)
      /\ Len(formatted) \in Nat
  BY TypeFacts DEF RestoreInv, Actions
<1>1. \A j \in Actions : \A i \in SentinelAt(j) : i < cur
  BY <1>0 DEF RestoreInv, Consumed
<1> SUFFICES ASSUME NEW j \in Actions, \A i \in SentinelAt(j) : q < i PROVE FALSE
  BY DEF Between
<1>2. PICK i \in 1 .. Len(formatted) : SentinelAt(j) = {i}
  BY <1>0 DEF IInv, VerifiedUpTo
<1>3. i \in SentinelAt(j)
  BY <1>2
<1>4. i < cur /\ q < i
  BY <1>1, <1>3
<1> QED
  BY <1>0, <1>4

LEMMA SparedFacts ==
    ASSUME formatted \in Seq(Token)
    PROVE  /\ Spared \in Seq(Token) /\ Len(Spared) = Len(formatted)
           /\ \A p \in 1 .. Len(formatted) :
                 Spared[p] = IF p \in Between THEN Blank1 ELSE formatted[p]
           /\ Blank1 \notin GoText
<1>1. Blank1 \in Token
  <2>1. " " \in Byte
    BY DEF Byte, Space, Blank
  <2>2. <<>> \in Seq(Nat)
    OBVIOUS
  <2> QED
    BY <2>1, <2>2, Zenon DEF Blank1, Text, Token
<1>2. Blank1 \notin GoText
  BY Zenon DEF GoText, IsGo, White, Blank1
<1>3. Len(formatted) \in Nat /\ DOMAIN formatted = 1 .. Len(formatted)
      /\ \A p \in 1 .. Len(formatted) : formatted[p] \in Token
  OBVIOUS
<1>4. Spared = [p \in 1 .. Len(formatted) |-> IF p \in Between THEN Blank1 ELSE formatted[p]]
  BY <1>3, Zenon DEF Spared, Blank1
<1>5. Spared \in [1 .. Len(formatted) -> Token]
  BY <1>1, <1>3, <1>4
<1>6. Spared \in Seq(Token) /\ Len(Spared) = Len(formatted)
  BY <1>3, <1>5
<1> QED
  BY <1>2, <1>4, <1>6

\* Of the Go tokens consumed, exactly those between slices that touch are missing
\* from the text.
GoInv ==
    /\ RestoreInv
    /\ pc \in {"restore", "done"} => VerifiedUpTo(Len(til) + 1)
    /\ pc = "restore" => Only(out, GoText) = Only(Cut(Spared, cur - 1), GoText)
    /\ pc = "done" => Only(out, GoText) = Only(Spared, GoText)

LEMMA GoIsSolid == GoText \subseteq Solid
  BY DEF GoText, Solid, IsGo

LEMMA RestoreSliceKeepsGo ==
    ASSUME GoInv, RestoreSlice
    PROVE  GoInv'
<1>1. RestoreInv /\ RestoreInv'
  BY RestoreSliceKeeps DEF GoInv
<1>2. PICK p, g : Restoring(p, g)
  BY <1>1, RestoreSliceRestoring
<1>3. /\ pc = "restore" /\ k \in Actions /\ SentinelAt(k) = {p} /\ p >= cur /\ cur' = p + 1
      /\ p \in 1 .. Len(formatted)
      /\ UNCHANGED <<til, commentStandalone, formatted, pc>>
  BY <1>2 DEF Restoring
<1>4. SUFFICES Only(out', GoText) = Only(Cut(Spared, cur' - 1), GoText)
  <2>1. Spared' = Spared /\ (VerifiedUpTo(Len(til) + 1))' = VerifiedUpTo(Len(til) + 1)
    BY <1>3 DEF Spared, Between, SentinelAt, Actions, VerifiedUpTo
  <2> QED
    BY <1>1, <1>3, <2>1 DEF GoInv
<1>5. /\ formatted \in Seq(Token) /\ out \in Seq(Token) /\ cur \in Nat \ {0}
      /\ Len(formatted) \in Nat /\ k \in DOMAIN til /\ k \in 1 .. Len(til)
      /\ til \in Seq(RawSlice)
  BY <1>1, <1>3, TypeFacts, OutFacts DEF RestoreInv, Actions
<1>5a. /\ Spared \in Seq(Token) /\ Len(Spared) = Len(formatted)
       /\ \A i \in 1 .. Len(formatted) :
             Spared[i] = IF i \in Between THEN Blank1 ELSE formatted[i]
       /\ Blank1 \notin GoText
  BY <1>5, SparedFacts
<1> DEFINE between == SubSeq(formatted, cur, p - 1)
           spared == SubSeq(Spared, cur, p - 1)
           gap == IF precededByLiteral(til, k) THEN between ELSE <<>>
           c == Restored(formatted, p, til, k)
           written == Only(out, GoText)
           added == Only(spared, GoText)
<1>6. out' = out \o gap \o <<c>>
  <2>1. Occurrences(formatted, Needle) = {p}
    BY <1>3 DEF SentinelAt, Needle
  <2>2. Found /\ IndexFrom(formatted, Needle, cur) = p
    <3>1. Found
      BY <1>3, <2>1 DEF Found
    <3> QED
      BY <1>3, <1>5, <2>1, <3>1, IndexOfOne
  <2> QED
    BY <2>2 DEF RestoreSlice
<1>7. /\ spared \in Seq(Token) /\ added \in Seq(Token) /\ written \in Seq(Token)
      /\ Only(Cut(Spared, p - 1), GoText) = Only(Cut(Spared, cur - 1), GoText) \o added
  <2>1. cur - 1 \in 0 .. Len(Spared) /\ p - 1 \in cur - 1 .. Len(Spared)
        /\ (cur - 1) + 1 = cur
    BY <1>3, <1>5, <1>5a
  <2>2. written \in Seq(Token)
    BY <1>5, OnlyType
  <2>3. /\ SubSeq(Spared, (cur - 1) + 1, p - 1) \in Seq(Token)
        /\ Only(SubSeq(Spared, (cur - 1) + 1, p - 1), GoText) \in Seq(Token)
        /\ Only(Cut(Spared, p - 1), GoText) =
              Only(Cut(Spared, cur - 1), GoText)
              \o Only(SubSeq(Spared, (cur - 1) + 1, p - 1), GoText)
    BY <1>5a, <2>1, OnlyAround
  <2> QED
    BY <2>1, <2>2, <2>3
<1>8. Only(gap, GoText) = added /\ gap \in Seq(Token)
  <2>1. /\ between \in Seq(Token) /\ Len(between) = Len(spared)
        /\ \A i \in 1 .. Len(spared) :
              cur + i - 1 \in cur .. p - 1 /\ between[i] = formatted[cur + i - 1]
              /\ spared[i] = Spared[cur + i - 1] /\ cur + i - 1 \in 1 .. Len(formatted)
    <3>1. \A j \in cur .. p - 1 : formatted[j] \in Token /\ Spared[j] \in Token
      BY <1>3, <1>5, <1>5a
    <3>2. /\ between \in Seq(Token)
          /\ Len(between) = IF cur <= p - 1 THEN (p - 1) - cur + 1 ELSE 0
          /\ \A j \in 1 .. (p - 1) - cur + 1 : between[j] = formatted[cur + j - 1]
          /\ Len(spared) = IF cur <= p - 1 THEN (p - 1) - cur + 1 ELSE 0
          /\ \A j \in 1 .. (p - 1) - cur + 1 : spared[j] = Spared[cur + j - 1]
      BY <1>3, <1>5, <3>1, SubSeqProperties
    <3> HIDE DEF between, spared
    <3>3. ASSUME NEW i \in 1 .. Len(spared)
          PROVE  /\ i \in 1 .. (p - 1) - cur + 1 /\ cur + i - 1 \in cur .. p - 1
                 /\ cur + i - 1 \in 1 .. Len(formatted)
      BY <1>3, <1>5, <3>2
    <3> QED
      BY <3>2, <3>3
  <2>2. CASE precededByLiteral(til, k)
    <3>1. \A q \in cur .. p - 1 : q \notin Between
      BY <1>1, <1>3, <2>2, DroppedIsBetween
    <3>2. \A i \in 1 .. Len(spared) : between[i] = spared[i]
      <4> HIDE DEF between, spared
      <4> QED
        BY <1>5a, <2>1, <3>1
    <3> HIDE DEF between, spared
    <3>3. Only(between, GoText) = Only(spared, GoText)
      BY <1>7, <2>1, <3>2, OnlySame
    <3> QED
      BY <2>1, <2>2, <3>3
  <2>3. CASE ~precededByLiteral(til, k)
    <3>1. \A q \in cur .. p - 1 : q \in Between
      BY <1>1, <1>3, <2>3, DroppedIsBetween
    <3>2. \A i \in 1 .. Len(spared) : spared[i] \notin GoText
      <4> HIDE DEF between, spared
      <4> QED
        BY <1>5a, <2>1, <3>1
    <3> HIDE DEF between, spared
    <3>3. added = <<>>
      <4>1. \A i \in DOMAIN spared : spared[i] \notin GoText
        BY <1>7, <3>2
      <4> QED
        BY <1>7, <4>1, OnlyType
    <3>4. Only(<<>>, GoText) = <<>>
      BY OnlyEmpty
    <3> QED
      BY <2>3, <3>3, <3>4, EmptySeq
  <2> QED
    BY <2>2, <2>3
<1>9. c \in Token /\ c \notin GoText
  <2>1. c \in Token /\ IsRaw(c)
    BY <1>1, <1>3, <1>5, RestoredIs DEF RestoreInv
  <2> QED
    BY <2>1 DEF GoText, IsGo
<1> HIDE DEF between, spared, gap, c
<1>10. Only(out', GoText) = written \o added
  <2>1. <<c>> \in Seq(Token) /\ out \o gap \in Seq(Token) /\ Only(<<c>>, GoText) = <<>>
    <3>1. Only(<<c>>, GoText) = <<>>
      BY <1>9, OnlyOne
    <3>2. <<c>> \in Seq(Token)
      BY <1>9
    <3>3. out \o gap \in Seq(Token)
      BY <1>5, <1>8, ConcatProperties
    <3> QED
      BY <3>1, <3>2, <3>3
  <2>2. Only(out \o gap, GoText) = written \o added
    <3>1. gap \in Seq(Token) /\ out \in Seq(Token)
      BY <1>5, <1>8
    <3>2. Only(out \o gap, GoText) = Only(out, GoText) \o Only(gap, GoText)
      BY <3>1, OnlyJoined
    <3> QED
      BY <1>8, <3>2
  <2>3. Only((out \o gap) \o <<c>>, GoText) = Only(out \o gap, GoText) \o Only(<<c>>, GoText)
    BY <2>1, OnlyJoined
  <2>4. Only(out \o gap, GoText) \in Seq(Token)
    BY <2>1, OnlyType
  <2>5. Only(out \o gap, GoText) \o <<>> = Only(out \o gap, GoText)
    BY <2>4, ConcatEmptySeq
  <2> QED
    BY <1>6, <2>1, <2>2, <2>3, <2>5
<1>11. Only(Cut(Spared, p), GoText) = Only(Cut(Spared, p - 1), GoText)
  <2>1. formatted[p] = sentinelFor(til, commentStandalone, k)
    BY <1>3 DEF SentinelAt, Occurrences
  <2>2. formatted[p] \notin GoText
    BY <2>1 DEF GoText, IsGo, IsSentinel, sentinelFor
  <2>3. Spared[p] \notin GoText /\ p \in 1 .. Len(Spared)
    BY <1>3, <1>5a, <2>2
  <2> QED
    BY <1>5a, <2>3, OnlyStep
<1>12. cur' - 1 = p
  BY <1>3
<1>13. written = Only(Cut(Spared, cur - 1), GoText)
  BY <1>3 DEF GoInv
<1> HIDE DEF written, added
<1> QED
  BY <1>7, <1>10, <1>11, <1>12, <1>13

LEMMA RestoreDoneKeepsGo ==
    ASSUME GoInv, RestoreDone
    PROVE  GoInv'
<1>1. RestoreInv /\ RestoreInv'
  BY RestoreDoneKeeps DEF GoInv
<1>2. /\ pc = "restore" /\ pc' = "done" /\ k > Len(til)
      /\ out' = out \o SubSeq(formatted, cur, Len(formatted))
      /\ UNCHANGED <<til, commentStandalone, formatted>>
  BY DEF RestoreDone
<1>3. SUFFICES Only(out', GoText) = Only(Spared, GoText)
  <2>1. Spared' = Spared /\ (VerifiedUpTo(Len(til) + 1))' = VerifiedUpTo(Len(til) + 1)
    BY <1>2 DEF Spared, Between, SentinelAt, Actions, VerifiedUpTo
  <2> QED
    BY <1>1, <1>2, <2>1 DEF GoInv
<1>4. /\ formatted \in Seq(Token) /\ out \in Seq(Token) /\ cur \in Nat \ {0}
      /\ Len(formatted) \in Nat /\ cur <= Len(formatted) + 1
  BY <1>1, <1>2, TypeFacts, OutFacts DEF RestoreInv
<1>5a. /\ Spared \in Seq(Token) /\ Len(Spared) = Len(formatted)
       /\ \A i \in 1 .. Len(formatted) :
             Spared[i] = IF i \in Between THEN Blank1 ELSE formatted[i]
  BY <1>4, SparedFacts
<1> DEFINE tail == SubSeq(formatted, cur, Len(formatted))
<1>5. tail = SubSeq(Spared, cur, Len(Spared))
  <2> DEFINE other == SubSeq(Spared, cur, Len(Spared))
             n == Len(formatted)
  <2>1. \A i \in cur .. n : formatted[i] = Spared[i] /\ formatted[i] \in Token
    BY <1>1, <1>2, <1>4, <1>5a, TailIsKept
  <2>2. /\ tail \in Seq(Token) /\ other \in Seq(Token)
        /\ Len(tail) = IF cur <= n THEN n - cur + 1 ELSE 0
        /\ Len(other) = IF cur <= n THEN n - cur + 1 ELSE 0
        /\ \A i \in 1 .. n - cur + 1 : tail[i] = formatted[cur + i - 1] /\ other[i] = Spared[cur + i - 1]
    BY <1>4, <1>5a, <2>1, SubSeqProperties
  <2> HIDE DEF tail, other
  <2>3. ASSUME NEW i \in 1 .. Len(tail) PROVE tail[i] = other[i]
    <3>1. i \in 1 .. n - cur + 1 /\ cur + i - 1 \in cur .. n
      BY <1>4, <2>2
    <3> QED
      BY <2>1, <2>2, <3>1
  <2>4. tail = other
    BY <2>2, <2>3, SeqEqual
  <2> QED
    BY <2>4 DEF other
<1>6. /\ tail \in Seq(Token)
      /\ Only(Spared, GoText) = Only(Cut(Spared, cur - 1), GoText) \o Only(tail, GoText)
  <2>1. cur - 1 \in 0 .. Len(Spared) /\ Len(Spared) \in cur - 1 .. Len(Spared)
        /\ (cur - 1) + 1 = cur
    BY <1>4, <1>5a
  <2>2. Cut(Spared, Len(Spared)) = Spared
    BY <1>5a, OnlyCuts
  <2> DEFINE n == Len(Spared)
             m == cur - 1
  <2>3. Spared \in Seq(Token) /\ m \in 0 .. Len(Spared) /\ n \in m .. Len(Spared)
    BY <1>5a, <2>1
  <2> HIDE DEF n, m
  <2>4. /\ SubSeq(Spared, m + 1, n) \in Seq(Token)
        /\ Only(Cut(Spared, n), GoText) =
              Only(Cut(Spared, m), GoText) \o Only(SubSeq(Spared, m + 1, n), GoText)
    BY <2>3, OnlyAround
  <2>5. tail = SubSeq(Spared, m + 1, n)
    BY <1>5, <2>1 DEF m, n
  <2> HIDE DEF tail
  <2> QED
    BY <2>2, <2>4, <2>5 DEF m, n
<1>7. out' = out \o tail
  BY <1>2 DEF tail
<1> HIDE DEF tail
<1>8. Only(out \o tail, GoText) = Only(out, GoText) \o Only(tail, GoText)
  BY <1>4, <1>6, OnlyJoined
<1>9. Only(out, GoText) = Only(Cut(Spared, cur - 1), GoText)
  BY <1>2 DEF GoInv
<1> QED
  BY <1>6, <1>7, <1>8, <1>9

LEMMA GoInductive == GoInv /\ [Next]_vars => GoInv'
<1> SUFFICES ASSUME GoInv, [Next]_vars PROVE GoInv'
  OBVIOUS
<1>1. RestoreInv'
  BY RestoreInvInductive DEF GoInv
<1>2. CASE RestoreSlice
  BY <1>2, RestoreSliceKeepsGo
<1>3. CASE RestoreDone
  BY <1>3, RestoreDoneKeepsGo
<1>4. CASE VerifyDone
  <2>1. /\ pc = "verify" /\ pc' = "restore" /\ k > Len(til)
        /\ UNCHANGED <<til, commentStandalone, cur, out, formatted>>
    BY <1>4 DEF VerifyDone
  <2>2. cur = 1 /\ out = <<>> /\ formatted \in Seq(Token)
    BY <2>1 DEF GoInv, RestoreInv, IInv
  <2>3. VerifiedUpTo(Len(til) + 1)'
    BY <1>1, <2>1 DEF RestoreInv, IInv
  <2>4. Spared \in Seq(Token) /\ Spared' = Spared
    BY <2>1, <2>2, SparedFacts DEF Spared, Between, SentinelAt, Actions
  <2>5. Only(<<>>, GoText) = <<>>
    BY OnlyEmpty
  <2>6. Only(Cut(Spared, 0), GoText) = <<>> /\ cur - 1 = 0
    BY <2>2, <2>4, OnlyCuts
  <2>7. Only(out', GoText) = Only(Cut(Spared', cur' - 1), GoText)
    BY <2>1, <2>2, <2>4, <2>5, <2>6
  <2> QED
    BY <1>1, <2>1, <2>3, <2>7 DEF GoInv
<1>5. CASE GofumptAccepts \/ GofumptRejects \/ VerifyFails \/ VerifySlice
  <2>1. pc' \notin {"restore", "done"}
    BY <1>5 DEF GofumptAccepts, GofumptRejects, VerifyFails, VerifySlice, GiveUp, AtSlice
  <2> QED
    BY <1>1, <2>1 DEF GoInv
<1>6. CASE SkipLiteral \/ UNCHANGED vars
  <2>1. UNCHANGED <<til, commentStandalone, formatted, cur, out, pc>>
    BY <1>6 DEF SkipLiteral, vars
  <2>2. Spared' = Spared /\ (VerifiedUpTo(Len(til) + 1))' = VerifiedUpTo(Len(til) + 1)
    BY <2>1 DEF Spared, Between, SentinelAt, Actions, VerifiedUpTo
  <2> QED
    BY <1>1, <2>1, <2>2 DEF GoInv
<1> QED
  BY <1>2, <1>3, <1>4, <1>5, <1>6 DEF Next

\* The stub has the Go tokens of the template.
LEMMA StubHasGo ==
    ASSUME NEW t \in Seq(RawSlice), NEW c
    PROVE  Stub(t, c) \in Seq(Token) /\ Only(Stub(t, c), GoText) = Only(SourceOf(t), GoText)
<1> DEFINE a == Stub(t, c)
           b == SourceOf(t)
<1>1. /\ a \in Seq(Token) /\ b \in Seq(Token) /\ Len(a) = Len(b)
      /\ \A p \in 1 .. Len(a) :
            \/ a[p] = b[p]
            \/ \E j \in 1 .. Len(t) : a[p] = sentinelFor(t, c, j) /\ b[p] = Raw(t, j)
  BY StubMirrorsSource DEF Mirrors
<1>2. \A j : sentinelFor(t, c, j) \notin GoText /\ Raw(t, j) \notin GoText
  BY DEF GoText, IsGo, IsSentinel, IsRaw, sentinelFor, Raw
<1> HIDE DEF a, b
<1>3. Only(a, GoText) = Only(b, GoText)
  BY <1>1, <1>2, OnlySame
<1> QED
  BY <1>1, <1>3 DEF a, b

LEMMA GoHolds == Spec => []GoInv
<1>1. Init => GoInv
  BY InitIInv DEF Init, RestoreInv, GoInv
<1> QED
  BY <1>1, GoInductive, PTL DEF Spec

\* For every tiling and every formatter, Restore drops exactly the Go tokens that
\* were put between slices that touch: the template comes back with all of its Go
\* tokens in order if the formatter kept them so and put none there.
THEOREM GoTextComesBack == Spec => []GoTextKept
<1>1. GoInv => GoTextKept
  <2> SUFFICES ASSUME GoInv, pc = "done" PROVE GoTextKept
    BY DEF GoTextKept
  <2>1. formatted \in Seq(Token)
    BY TypeFacts DEF GoInv, RestoreInv
  <2>2. Only(out, GoText) = Only(Spared, GoText)
    BY DEF GoInv
  <2>3. ASSUME \A p \in Between : ~IsGo(formatted[p])
        PROVE  Only(Spared, GoText) = Only(formatted, GoText)
    <3>1. \A p \in 1 .. Len(formatted) :
            \/ Spared[p] = formatted[p]
            \/ Spared[p] \notin GoText /\ formatted[p] \notin GoText
      BY <2>1, <2>3, SparedFacts DEF GoText
    <3>2. Spared \in Seq(Token) /\ Len(Spared) = Len(formatted)
      BY <2>1, SparedFacts
    <3> QED
      BY <2>1, <3>1, <3>2, OnlySame
  <2> QED
    BY <2>2, <2>3 DEF GoTextKept
<1> QED
  BY <1>1, GoHolds, PTL

\* In particular, if the formatter changed white space only.
THEOREM OnlySpaceIsDropped ==
    Spec => [](Reflowed /\ pc = "done" => Only(out, GoText) = Only(SourceOf(til), GoText))
<1>1. GoInv /\ GoTextKept =>
        (Reflowed /\ pc = "done" => Only(out, GoText) = Only(SourceOf(til), GoText))
  <2> SUFFICES ASSUME GoInv, GoTextKept, Reflowed, pc = "done"
               PROVE  Only(out, GoText) = Only(SourceOf(til), GoText)
    OBVIOUS
  <2>1. til \in Seq(RawSlice) /\ formatted \in Seq(Token)
    BY TypeFacts DEF GoInv, RestoreInv
  <2>2. \A p \in Between : ~IsGo(formatted[p])
    <3> SUFFICES ASSUME NEW p \in Between PROVE ~IsGo(formatted[p])
      OBVIOUS
    <3>1. formatted[p] \notin Solid /\ formatted[p] \in Token
      BY <2>1, GapIsWhite DEF GoInv, RestoreInv, Between
    <3> QED
      BY <3>1 DEF Solid, IsGo
  <2> DEFINE s == Stub(til, commentStandalone)
  <2>3. s \in Seq(Token) /\ Only(s, GoText) = Only(SourceOf(til), GoText)
    BY <2>1, StubHasGo
  <2>4. Only(formatted, Solid) = Only(s, Solid)
    BY DEF Reflowed
  <2> HIDE DEF s
  <2>5. Only(Only(formatted, Solid), GoText) = Only(formatted, GoText)
    BY <2>1, GoIsSolid, OnlyTwice
  <2>6. Only(Only(s, Solid), GoText) = Only(s, GoText)
    BY <2>3, GoIsSolid, OnlyTwice
  <2>7. Only(formatted, GoText) = Only(SourceOf(til), GoText)
    BY <2>3, <2>4, <2>5, <2>6
  <2> QED
    BY <2>2, <2>7 DEF GoTextKept
<1> QED
  BY <1>1, GoHolds, GoTextComesBack, PTL
=============================================================================
