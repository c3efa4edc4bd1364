--------------------------- MODULE DiagnoseProof ---------------------------
(***************************************************************************)
(* For every template, every text its actions print and every way gofumpt  *)
(* may change the output: the hunks are its changes, one for one; a change *)
(* to lines that were copied from the template is mapped to one of them,   *)
(* and to none only if none is unique; and the line it is mapped to is     *)
(* said to be in the body that it was executed in.                         *)
(***************************************************************************)
EXTENDS DiagnoseInvariants, TextLemmas

Enclosing == {TopLevel, InLoop, InConditional}
Cell == SliceType \X STRING \X Nat \X Enclosing

\* Slice m, the i-th block from outside, is open behind slice p.
IsOpen(m, i, p) ==
    /\ m \in 1 .. p /\ tpl[m].type = BlockOpen /\ Depth(tpl, m) = i
    /\ \A q \in m .. p : Depth(tpl, q) >= i

\* The body behind slice p, that of the innermost open block.
IsBody(p, e) ==
    IF Depth(tpl, p) = 0 THEN e = TopLevel
    ELSE \E k : IsOpen(k, Depth(tpl, p), p) /\ e = enclosingFor(Keyword(k))

\* A cell that names a place of the template has the symbol that is there; what
\* was written has the body too.
PlaceOf(c, m, p) ==
    c[3] = StartOf(m) + p - 1 /\ c[1] = tpl[m].type /\ c[2] = tpl[m].text[p]

Placed(c) == \E m \in DOMAIN tpl : \E p \in DOMAIN tpl[m].text : PlaceOf(c, m, p)
Ran(c)    == \E m \in DOMAIN tpl : \E p \in DOMAIN tpl[m].text :
                PlaceOf(c, m, p) /\ IsBody(m - 1, c[4])

PlacedCell == {c \in Cell : c[3] # 0 /\ Placed(c)}
RealCell == {c \in Cell : c[3] # 0 => Ran(c)}

\* What a diff removes, what hunks replace and what is found, over cells S.
Removes(s, S)  == IsSeq(s) /\ \A p \in DOMAIN s : s[p].mark = "-" => s[p].line \in Seq(S)
Replaces(h, S) == "before" \in DOMAIN h /\ h.before \in Seq(Seq(S))
HunksOver(s, S) == IsSeq(s) /\ \A m \in DOMAIN s : Replaces(s[m], S)

\* mapHunk, by the keys it is given.
LinesIn(keys, key) == {n \in DOMAIN keys : key # <<>> /\ keys[n] = key}
MapsIn(keys, line) == Cardinality(LinesIn(keys, collapseWS(line))) = 1
MapIn(keys, h) ==
    LET mapped == {m \in DOMAIN h.before : MapsIn(keys, h.before[m])}
    IN  IF mapped = {} THEN 0 ELSE Min(LinesIn(keys, collapseWS(h.before[Min(mapped)])))

FoundBy(s, keys, S) ==
    IsSeq(s) /\ \A f \in DOMAIN s : Replaces(s[f].hunk, S) /\ s[f].line = MapIn(keys, s[f].hunk)

\* The keys that findings looks lines up by.
Keys == [m \in DOMAIN SrcLines |-> collapseWS(SrcLines[m])]

MappingInv ==
    /\ tpl \in Templates
    /\ rendered \in Seq(RealCell)
    /\ Removes(diff, RealCell) /\ d \in Nat \ {0}
    /\ HunksOver(cur, RealCell) /\ HunksOver(hunks, RealCell)
    /\ stage \in {"findings", "done"} => index = Keys
    /\ stage \notin {"findings", "done"} => found = <<>>
    /\ FoundBy(found, index, RealCell)
----------------------------------------------------------------------------
(* Where slices start.                                                     *)

\* f sums sizes up from 1: the recursive function in StartOf is what it says.
Starts(f, size, sizes) ==
    f = [n \in 1 .. size |-> IF n = 1 THEN 1 ELSE f[n - 1] + sizes[n - 1]]

LEMMA StartsExist ==
    ASSUME NEW sizes, NEW size \in Nat
    PROVE  \E f : Starts(f, size, sizes)
<1> DEFINE bad == {m \in Nat : ~ \E f : Starts(f, m, sizes)}
<1> SUFFICES ASSUME bad # {} PROVE FALSE
  OBVIOUS
<1>1. PICK m \in bad : \A l \in bad : m <= l
  <2>1. bad \subseteq Nat
    OBVIOUS
  <2> HIDE DEF bad
  <2> QED
    BY <2>1, Least
<1>2. m # 0
  <2>1. 1 .. 0 = {}
    OBVIOUS
  <2>2. Starts([n \in {} |-> 1], 0, sizes)
    BY <2>1 DEF Starts
  <2> QED
    BY <2>2, <1>1
<1>3. m \in Nat /\ m - 1 \in Nat /\ m - 1 \notin bad
  BY <1>1, <1>2
<1>4. PICK f : Starts(f, m - 1, sizes)
  BY <1>3
<1> DEFINE g == [n \in 1 .. m |-> IF n = m THEN IF m = 1 THEN 1 ELSE f[m - 1] + sizes[m - 1]
                                  ELSE f[n]]
<1>5. \A n \in 1 .. m - 1 : f[n] = IF n = 1 THEN 1 ELSE f[n - 1] + sizes[n - 1]
  BY <1>4 DEF Starts
<1>6. ASSUME NEW n \in 1 .. m
      PROVE  g[n] = IF n = 1 THEN 1 ELSE g[n - 1] + sizes[n - 1]
  <2>1. CASE n = m /\ n # 1
    <3>1. m - 1 \in 1 .. m /\ m - 1 # m
      BY <1>3, <2>1
    <3>2. g[m - 1] = f[m - 1]
      BY <3>1
    <3> QED
      BY <2>1, <3>2
  <2>2. CASE n = 1
    BY <1>3, <1>5, <2>2
  <2>3. CASE n # m /\ n # 1
    <3>1. n \in 1 .. m - 1 /\ n - 1 # m /\ n - 1 \in 1 .. m
      BY <1>3, <2>3
    <3>2. g[n] = f[n] /\ g[n - 1] = f[n - 1]
      BY <2>3, <3>1
    <3> QED
      BY <1>5, <2>3, <3>1, <3>2
  <2> QED
    BY <2>1, <2>2, <2>3
<1>7. g = [n \in 1 .. m |-> g[n]]
  OBVIOUS
<1> HIDE DEF g
<1>8. Starts(g, m, sizes)
  BY <1>6, <1>7 DEF Starts
<1> QED
  BY <1>1, <1>8

\* What the template's slices are.
LEMMA TemplateFacts ==
    ASSUME tpl \in Templates
    PROVE  /\ tpl \in Seq(Slice) /\ Len(tpl) \in Nat /\ DOMAIN tpl = 1 .. Len(tpl)
           /\ \A m \in DOMAIN tpl :
                 /\ m \in Nat /\ tpl[m] \in Slice /\ tpl[m].type \in SliceType
                 /\ tpl[m].text \in Seq(STRING) /\ Len(tpl[m].text) \in Nat
                 /\ DOMAIN tpl[m].text = 1 .. Len(tpl[m].text)
<1>1. tpl \in Seq(Slice)
  BY TextAssumption
<1>2. Len(tpl) \in Nat /\ DOMAIN tpl = 1 .. Len(tpl)
  BY <1>1
<1>3. ASSUME NEW m \in DOMAIN tpl
      PROVE  /\ m \in Nat /\ tpl[m] \in Slice /\ tpl[m].type \in SliceType
             /\ tpl[m].text \in Seq(STRING) /\ Len(tpl[m].text) \in Nat
             /\ DOMAIN tpl[m].text = 1 .. Len(tpl[m].text)
  <2>1. m \in Nat /\ tpl[m] \in Slice
    BY <1>1, <1>2
  <2>2. tpl[m].type \in SliceType /\ tpl[m].text \in Seq(STRING)
    BY <2>1 DEF Slice
  <2> QED
    BY <2>1, <2>2
<1> QED
  BY <1>1, <1>2, <1>3

\* The first slice starts at 1, and each at the end of the one before it.
LEMMA StartFacts ==
    ASSUME tpl \in Templates, NEW m \in DOMAIN tpl
    PROVE  /\ m = 1 => StartOf(m) = 1
           /\ m # 1 => StartOf(m) = StartOf(m - 1) + Len(tpl[m - 1].text)
<1> DEFINE sizes == [n \in DOMAIN tpl |-> Len(tpl[n].text)]
           f == CHOOSE h : h = [n \in DOMAIN tpl |->
                                   IF n = 1 THEN 1 ELSE h[n - 1] + Len(tpl[n - 1].text)]
<1>1. \A n : StartOf(n) = f[n]
  BY DEF StartOf
<1>2. Len(tpl) \in Nat /\ DOMAIN tpl = 1 .. Len(tpl)
  BY TemplateFacts
<1>3. PICK h : Starts(h, Len(tpl), sizes)
  BY <1>2, StartsExist
<1>4. h = [n \in DOMAIN tpl |-> IF n = 1 THEN 1 ELSE h[n - 1] + Len(tpl[n - 1].text)]
  <2>1. \A n \in DOMAIN tpl : n # 1 => n - 1 \in DOMAIN tpl
    BY <1>2
  <2> QED
    BY <1>2, <1>3, <2>1 DEF Starts
<1>5. f = [n \in DOMAIN tpl |-> IF n = 1 THEN 1 ELSE f[n - 1] + Len(tpl[n - 1].text)]
  BY <1>4
<1> HIDE DEF f
<1> QED
  BY <1>1, <1>5

\* Slices start at positions.
LEMMA StartType ==
    ASSUME tpl \in Templates, NEW m \in DOMAIN tpl
    PROVE  StartOf(m) \in Nat /\ StartOf(m) > 0
<1> DEFINE Fits(n) == StartOf(n) \in Nat /\ StartOf(n) > 0
           bad == {n \in DOMAIN tpl : ~Fits(n)}
<1> SUFFICES ASSUME bad # {} PROVE FALSE
  OBVIOUS
<1>1. DOMAIN tpl = 1 .. Len(tpl) /\ Len(tpl) \in Nat
      /\ \A n \in DOMAIN tpl : n \in Nat /\ Len(tpl[n].text) \in Nat
  BY TemplateFacts
<1>2. PICK n \in bad : \A l \in bad : n <= l
  <2>1. bad \subseteq Nat
    BY <1>1
  <2> HIDE DEF bad
  <2> QED
    BY <2>1, Least
<1>3. n # 1
  BY <1>2, StartFacts
<1>4. n - 1 \in DOMAIN tpl /\ n - 1 < n /\ n - 1 \in Nat
  BY <1>1, <1>2, <1>3
<1>5. Fits(n - 1)
  <2>1. n \in Nat /\ n - 1 \notin bad
    <3> HIDE DEF bad
    <3>1. n \in Nat
      BY <1>1, <1>2 DEF bad
    <3> QED
      BY <1>2, <1>4, <3>1
  <2> QED
    BY <1>4, <2>1
<1>6. StartOf(n) = StartOf(n - 1) + Len(tpl[n - 1].text) /\ Len(tpl[n - 1].text) \in Nat
  BY <1>1, <1>2, <1>3, <1>4, StartFacts
<1>7. Fits(n)
  BY <1>5, <1>6
<1> QED
  BY <1>2, <1>7

\* A slice ends before a later one starts.
LEMMA StartsApart ==
    ASSUME tpl \in Templates, NEW m \in DOMAIN tpl, NEW l \in DOMAIN tpl, m < l
    PROVE  StartOf(m) + Len(tpl[m].text) <= StartOf(l)
<1> DEFINE Behind(n) == StartOf(m) + Len(tpl[m].text) <= StartOf(n)
           bad == {n \in DOMAIN tpl : m < n /\ ~Behind(n)}
<1> SUFFICES ASSUME bad # {} PROVE FALSE
  OBVIOUS
<1>1. DOMAIN tpl = 1 .. Len(tpl) /\ Len(tpl) \in Nat
      /\ \A n \in DOMAIN tpl : n \in Nat /\ Len(tpl[n].text) \in Nat
  BY TemplateFacts
<1>2. PICK n \in bad : \A k \in bad : n <= k
  <2>1. bad \subseteq Nat
    BY <1>1
  <2> HIDE DEF bad
  <2> QED
    BY <2>1, Least
<1>3. n \in DOMAIN tpl /\ m < n /\ ~Behind(n)
  BY <1>2
<1>4. n # 1 /\ n - 1 \in DOMAIN tpl /\ n - 1 < n
  BY <1>1, <1>3
<1>5. StartOf(n) = StartOf(n - 1) + Len(tpl[n - 1].text) /\ Len(tpl[n - 1].text) \in Nat
  BY <1>1, <1>3, <1>4, StartFacts
<1>6. StartOf(m) \in Nat /\ StartOf(n - 1) \in Nat /\ Len(tpl[m].text) \in Nat
  BY <1>1, <1>4, StartType
<1>7. CASE m = n - 1
  BY <1>3, <1>5, <1>6, <1>7
<1>8. CASE m # n - 1
  <2>1. m < n - 1
    BY <1>1, <1>3, <1>4, <1>8
  <2>2. n - 1 \notin bad
    <3>1. n \in Int /\ n - 1 \in Int
      BY <1>1, <1>3
    <3> HIDE DEF bad
    <3> QED
      BY <1>2, <1>4, <3>1
  <2>3. Behind(n - 1)
    BY <1>4, <2>1, <2>2
  <2> QED
    BY <1>3, <1>5, <1>6, <2>3
<1> QED
  BY <1>7, <1>8

\* Cells from one place of the template are from one place of one slice.
LEMMA OnePlace ==
    ASSUME tpl \in Templates, NEW b, NEW c, b[3] = c[3],
           NEW m \in DOMAIN tpl, NEW p \in DOMAIN tpl[m].text, PlaceOf(b, m, p),
           NEW l \in DOMAIN tpl, NEW q \in DOMAIN tpl[l].text, PlaceOf(c, l, q)
    PROVE  m = l /\ p = q
<1>1. b[3] = StartOf(m) + p - 1 /\ c[3] = StartOf(l) + q - 1
  BY DEF PlaceOf
<1>3. /\ m \in Nat /\ l \in Nat /\ Len(tpl[m].text) \in Nat /\ Len(tpl[l].text) \in Nat
      /\ p \in 1 .. Len(tpl[m].text) /\ q \in 1 .. Len(tpl[l].text)
  BY TemplateFacts
<1>4. StartOf(m) \in Nat /\ StartOf(l) \in Nat
  BY StartType
<1>c. StartOf(m) + p - 1 = StartOf(l) + q - 1
  BY <1>1
<1>5. StartOf(m) + p = StartOf(l) + q
  <2>1. p \in Nat /\ q \in Nat
    BY <1>3
  <2> QED
    BY <1>4, <1>c, <2>1
<1>6. ~(m < l)
  <2>1. m < l => StartOf(m) + Len(tpl[m].text) <= StartOf(l)
    BY StartsApart
  <2> QED
    BY <1>3, <1>4, <1>5, <2>1
<1>7. ~(l < m)
  <2>1. l < m => StartOf(l) + Len(tpl[l].text) <= StartOf(m)
    BY StartsApart
  <2> QED
    BY <1>3, <1>4, <1>5, <2>1
<1>8. m = l
  BY <1>3, <1>6, <1>7
<1>9. p = q
  BY <1>3, <1>4, <1>5, <1>8
<1> QED
  BY <1>8, <1>9

\* They have the same symbol.
LEMMA OneSymbol ==
    ASSUME tpl \in Templates, NEW b, NEW c, Placed(b), Ran(c), b[3] = c[3]
    PROVE  b[2] = c[2]
<1>1. PICK m \in DOMAIN tpl : \E p \in DOMAIN tpl[m].text : PlaceOf(b, m, p)
  BY DEF Placed
<1>2. PICK p \in DOMAIN tpl[m].text : PlaceOf(b, m, p)
  BY <1>1
<1>3. PICK l \in DOMAIN tpl : \E q \in DOMAIN tpl[l].text : PlaceOf(c, l, q)
  BY DEF Ran
<1>4. PICK q \in DOMAIN tpl[l].text : PlaceOf(c, l, q)
  BY <1>3
<1>5. m = l /\ p = q
  BY <1>2, <1>4, OnePlace
<1>6. b[2] = tpl[m].text[p] /\ c[2] = tpl[l].text[q]
  BY <1>2, <1>4 DEF PlaceOf
<1> QED
  BY <1>5, <1>6
----------------------------------------------------------------------------
(* The blocks that are open behind a slice.                                *)

Weight(t, q) ==
    CASE t[q].type = BlockOpen  -> 1
      [] t[q].type = BlockClose -> -1
      [] OTHER -> 0

\* The depth is what it says, slice by slice.
LEMMA DepthSums ==
    ASSUME tpl \in Templates
    PROVE  /\ Depth(tpl, 0) = 0
           /\ \A q \in 1 .. Len(tpl) :
                 Depth(tpl, q - 1) \in Int /\ Depth(tpl, q) = Depth(tpl, q - 1) + Weight(tpl, q)
<1> DEFINE n == Len(tpl)
           step == [q \in 1 .. n |-> [v \in Int |-> v + Weight(tpl, q)]]
           d0 == CHOOSE h : h = [q \in 0 .. n |->
                                   IF q = 0 THEN 0
                                   ELSE h[q - 1] + (CASE tpl[q].type = BlockOpen  -> 1
                                                      [] tpl[q].type = BlockClose -> -1
                                                      [] OTHER -> 0)]
<1>1. \A q : Depth(tpl, q) = d0[q]
  BY DEF Depth
<1>2. n \in Nat
  BY TemplateFacts
<1>3. \A q \in 1 .. n : Weight(tpl, q) \in Int
  BY DEF Weight
<1>4. \A q \in 1 .. n : \A v \in Int : step[q][v] = v + Weight(tpl, q) /\ step[q][v] \in Int
  BY <1>3
<1> HIDE DEF step
<1>5. PICK f : FoldsTo(f, n, 0, step) /\ f \in [0 .. n -> Int]
  <2>1. 0 \in Int
    OBVIOUS
  <2> QED
    BY <1>2, <1>4, <2>1, FoldExists
<1>6. \A q \in 0 .. n : f[q] = IF q = 0 THEN 0 ELSE f[q - 1] + Weight(tpl, q)
  <2> SUFFICES ASSUME NEW q \in 0 .. n
               PROVE  f[q] = IF q = 0 THEN 0 ELSE f[q - 1] + Weight(tpl, q)
    OBVIOUS
  <2>1. f[q] = IF q = 0 THEN 0 ELSE step[q][f[q - 1]]
    BY <1>5 DEF FoldsTo
  <2>2. q # 0 => q \in 1 .. n /\ f[q - 1] \in Int
    BY <1>2, <1>5
  <2> QED
    BY <1>4, <2>1, <2>2
<1>7. f = [q \in 0 .. n |-> IF q = 0 THEN 0
                            ELSE f[q - 1] + (CASE tpl[q].type = BlockOpen  -> 1
                                               [] tpl[q].type = BlockClose -> -1
                                               [] OTHER -> 0)]
  BY <1>5, <1>6 DEF Weight
<1>8. d0 = [q \in 0 .. n |-> IF q = 0 THEN 0
                            ELSE d0[q - 1] + (CASE tpl[q].type = BlockOpen  -> 1
                                               [] tpl[q].type = BlockClose -> -1
                                               [] OTHER -> 0)]
  BY <1>7
<1> HIDE DEF d0
<1>9. \A q \in 0 .. n : d0[q] = IF q = 0 THEN 0 ELSE d0[q - 1] + Weight(tpl, q)
  BY <1>8 DEF Weight
<1> DEFINE bad == {q \in 0 .. n : d0[q] \notin Int}
<1>10. bad = {}
  <2> SUFFICES ASSUME bad # {} PROVE FALSE
    OBVIOUS
  <2>1. PICK q \in bad : \A l \in bad : q <= l
    <3>1. bad \subseteq Nat
      BY <1>2
    <3> HIDE DEF bad
    <3> QED
      BY <3>1, Least
  <2>2. q # 0
    BY <1>9, <2>1
  <2>3. q \in 1 .. n /\ q - 1 \in 0 .. n /\ q - 1 < q
    BY <1>2, <2>1, <2>2
  <2>4. d0[q - 1] \in Int
    BY <2>1, <2>3
  <2> QED
    BY <1>3, <1>9, <2>1, <2>2, <2>3, <2>4
<1> QED
  BY <1>1, <1>2, <1>9, <1>10
LEMMA DepthFacts ==
    ASSUME tpl \in Templates
    PROVE  /\ Depth(tpl, 0) = 0 /\ Depth(tpl, Len(tpl)) = 0 /\ Len(tpl) \in Nat
           /\ DOMAIN tpl = 1 .. Len(tpl)
           /\ \A q \in 0 .. Len(tpl) : Depth(tpl, q) \in Nat
           /\ \A q \in 1 .. Len(tpl) :
                 /\ tpl[q].type = BlockOpen => Depth(tpl, q) = Depth(tpl, q - 1) + 1
                 /\ tpl[q].type = BlockClose => Depth(tpl, q) = Depth(tpl, q - 1) - 1
                 /\ tpl[q].type \notin {BlockOpen, BlockClose} =>
                       Depth(tpl, q) = Depth(tpl, q - 1)
                 /\ tpl[q].type = BlockMid => Depth(tpl, q) > 0
<1>1. Len(tpl) \in Nat /\ DOMAIN tpl = 1 .. Len(tpl)
  BY TemplateFacts
<1>2. Bracketed(tpl)
  BY ParseAssumption
<1>3. BlockOpen # BlockClose
  BY DEF BlockOpen, BlockClose
<1>4. \A q \in 1 .. Len(tpl) :
          /\ Depth(tpl, q - 1) \in Int /\ Depth(tpl, q) = Depth(tpl, q - 1) + Weight(tpl, q)
          /\ Weight(tpl, q) \in Int
  BY DepthSums DEF Weight
<1>5. Depth(tpl, 0) = 0 /\ Depth(tpl, Len(tpl)) = 0
  BY <1>2, DepthSums DEF Bracketed
<1>6. \A q \in 0 .. Len(tpl) : Depth(tpl, q) \in Nat
  <2> SUFFICES ASSUME NEW q \in 0 .. Len(tpl) PROVE Depth(tpl, q) \in Nat
    OBVIOUS
  <2>1. CASE q = 0
    BY <1>5, <2>1
  <2>2. CASE q # 0
    <3>1. q \in 1 .. Len(tpl)
      BY <1>1, <2>2
    <3>2. Depth(tpl, q) \in Int
      BY <1>4, <3>1
    <3> QED
      BY <1>1, <1>2, <3>1, <3>2 DEF Bracketed
  <2> QED
    BY <2>1, <2>2
<1>7. ASSUME NEW q \in 1 .. Len(tpl)
      PROVE  /\ tpl[q].type = BlockOpen => Depth(tpl, q) = Depth(tpl, q - 1) + 1
             /\ tpl[q].type = BlockClose => Depth(tpl, q) = Depth(tpl, q - 1) - 1
             /\ tpl[q].type \notin {BlockOpen, BlockClose} => Depth(tpl, q) = Depth(tpl, q - 1)
  <2>1. Depth(tpl, q) = Depth(tpl, q - 1) + Weight(tpl, q) /\ Depth(tpl, q - 1) \in Int
    BY <1>4
  <2>2. tpl[q].type = BlockOpen => Weight(tpl, q) = 1
    BY <1>3 DEF Weight
  <2>3. tpl[q].type = BlockClose => Weight(tpl, q) = -1
    BY <1>3 DEF Weight
  <2>4. tpl[q].type \notin {BlockOpen, BlockClose} => Weight(tpl, q) = 0
    BY DEF Weight
  <2> HIDE DEF BlockOpen, BlockClose
  <2> QED
    BY <2>1, <2>2, <2>3, <2>4
<1>8. \A q \in 1 .. Len(tpl) : tpl[q].type = BlockMid => Depth(tpl, q) > 0
  BY <1>1, <1>2 DEF Bracketed
<1> QED
  BY <1>1, <1>5, <1>6, <1>7, <1>8

\* Neighbouring slices are at most one block apart.
LEMMA DepthSteps ==
    ASSUME tpl \in Templates, NEW q \in 1 .. Len(tpl)
    PROVE  /\ q - 1 \in 0 .. Len(tpl) /\ Depth(tpl, q) \in Nat /\ Depth(tpl, q - 1) \in Nat
           /\ Depth(tpl, q) <= Depth(tpl, q - 1) + 1
           /\ Depth(tpl, q - 1) <= Depth(tpl, q) + 1
<1>1. Len(tpl) \in Nat
  BY DepthFacts
<1>2. q \in 0 .. Len(tpl) /\ q - 1 \in 0 .. Len(tpl)
  BY <1>1
<1>3. Depth(tpl, q) \in Nat /\ Depth(tpl, q - 1) \in Nat
  BY <1>2, DepthFacts
<1>4. \/ Depth(tpl, q) = Depth(tpl, q - 1) + 1
      \/ Depth(tpl, q) = Depth(tpl, q - 1) - 1
      \/ Depth(tpl, q) = Depth(tpl, q - 1)
  BY DepthFacts
<1> QED
  BY <1>2, <1>3, <1>4

\* Of two blocks that are open behind a slice the outer one opened first.
LEMMA OneOpen ==
    ASSUME tpl \in Templates, NEW p \in 0 .. Len(tpl), NEW i, NEW j \in Nat, NEW k, NEW m,
           IsOpen(k, i, p), IsOpen(m, j, p), i \in Nat, i <= j
    PROVE  k <= m
<1>1. /\ Len(tpl) \in Nat /\ k \in 1 .. p /\ m \in 1 .. p
      /\ k \in 1 .. Len(tpl) /\ m \in 1 .. Len(tpl)
      /\ tpl[k].type = BlockOpen /\ tpl[m].type = BlockOpen
      /\ Depth(tpl, k) = i /\ Depth(tpl, m) = j
      /\ \A q \in k .. p : Depth(tpl, q) >= i
      /\ \A q \in m .. p : Depth(tpl, q) >= j
  BY DepthFacts DEF IsOpen
<1>2. /\ Depth(tpl, k) = Depth(tpl, k - 1) + 1 /\ Depth(tpl, k - 1) \in Nat
      /\ Depth(tpl, m) = Depth(tpl, m - 1) + 1 /\ Depth(tpl, m - 1) \in Nat
  <2> HIDE DEF BlockOpen
  <2> QED
    BY <1>1, DepthFacts, DepthSteps
<1>3. ~(m < k)
  <2> SUFFICES ASSUME m < k PROVE FALSE
    OBVIOUS
  <2>1. k - 1 \in m .. p
    BY <1>1
  <2>2. Depth(tpl, k - 1) >= j
    BY <1>1, <2>1
  <2> QED
    BY <1>1, <1>2, <2>2
<1> QED
  BY <1>1, <1>3

\* A block ends, and until there it is open.
LEMMA EndFacts ==
    ASSUME tpl \in Templates, NEW m \in 1 .. Len(tpl), tpl[m].type = BlockOpen
    PROVE  /\ End(m) \in m + 1 .. Len(tpl) /\ Depth(tpl, End(m)) = Depth(tpl, m - 1)
           /\ Depth(tpl, m - 1) + 1 = Depth(tpl, m) /\ Depth(tpl, m - 1) \in Nat
           /\ \A q \in m .. End(m) - 1 : Depth(tpl, q) >= Depth(tpl, m)
           /\ Depth(tpl, End(m) - 1) = Depth(tpl, m)
<1> DEFINE d0 == Depth(tpl, m - 1)
           ends == {p \in m .. Len(tpl) : Depth(tpl, p) = d0}
           low == {p \in m .. Len(tpl) : Depth(tpl, p) <= d0}
           e == End(m)
<1>1. Len(tpl) \in Nat /\ Depth(tpl, Len(tpl)) = 0 /\ \A q \in 0 .. Len(tpl) : Depth(tpl, q) \in Nat
  BY DepthFacts
<1>2. d0 \in Nat /\ Depth(tpl, m) = d0 + 1
  <2> HIDE DEF BlockOpen
  <2> QED
    BY DepthFacts, DepthSteps
<1>3. e = Min(ends)
  BY DEF End
<1>4. Len(tpl) \in low
  BY <1>1, <1>2
<1> HIDE DEF d0
<1>5. PICK p \in low : \A q \in low : p <= q
  <2>1. low \subseteq Nat
    BY <1>1
  <2> HIDE DEF low
  <2> QED
    BY <1>4, <2>1, Least
<1>6. p \in m .. Len(tpl) /\ p # m /\ p \in m + 1 .. Len(tpl)
  BY <1>1, <1>2, <1>5
<1>7. \A q \in m .. p - 1 : Depth(tpl, q) >= d0 + 1
  <2> SUFFICES ASSUME NEW q \in m .. p - 1 PROVE Depth(tpl, q) >= d0 + 1
    OBVIOUS
  <2>1. q \in m .. Len(tpl) /\ q < p
    BY <1>1, <1>6
  <2>2. q \notin low
    BY <1>5, <2>1
  <2>3. Depth(tpl, q) \in Nat
    BY <1>1, <2>1
  <2> QED
    BY <1>2, <2>1, <2>2, <2>3
<1>8. Depth(tpl, p) = d0 /\ Depth(tpl, p - 1) = d0 + 1
  <2>1. p \in 1 .. Len(tpl) /\ p - 1 \in m .. p - 1
    BY <1>1, <1>6
  <2>2. /\ Depth(tpl, p) \in Nat /\ Depth(tpl, p - 1) \in Nat
        /\ Depth(tpl, p - 1) <= Depth(tpl, p) + 1
    BY <2>1, DepthSteps
  <2>3. Depth(tpl, p - 1) >= d0 + 1 /\ Depth(tpl, p) <= d0
    BY <1>5, <1>7, <2>1
  <2> QED
    BY <1>2, <2>2, <2>3
<1>9. e = p
  <2>1. p \in ends /\ \A q \in ends : p <= q
    BY <1>2, <1>5, <1>6, <1>8
  <2>2. \A q \in ends : q \in Nat
    BY <1>1
  <2> HIDE DEF ends
  <2>3. Min(ends) \in ends /\ \A q \in ends : Min(ends) <= q
    BY <2>1 DEF Min
  <2>4. Min(ends) <= p /\ p <= Min(ends)
    BY <2>1, <2>3
  <2>5. p \in Nat /\ Min(ends) \in Nat
    BY <2>1, <2>2, <2>3
  <2> QED
    BY <1>3, <2>4, <2>5
<1> QED
  BY <1>2, <1>6, <1>7, <1>8, <1>9 DEF d0
----------------------------------------------------------------------------
(* The executor is in the blocks that are open at its slice.               *)

Frame == [open : Nat, round : Nat]

Nests(s, p) ==
    /\ s \in Seq(Frame) /\ Len(s) = Depth(tpl, p)
    /\ \A i \in 1 .. Len(s) : IsOpen(s[i].open, i, p)

FramesInv ==
    /\ tpl \in Templates
    /\ at \in 1 .. Len(tpl) + 1 /\ Nests(frames, at - 1)

LEMMA OpenOn ==
    ASSUME tpl \in Templates, NEW p \in 0 .. Len(tpl), NEW r \in 0 .. Len(tpl), NEW i, NEW k,
           IsOpen(k, i, p), k <= r, \A q \in k .. r : q > p => Depth(tpl, q) >= i
    PROVE  IsOpen(k, i, r)
<1>1. /\ k \in 1 .. p /\ tpl[k].type = BlockOpen /\ Depth(tpl, k) = i
      /\ \A q \in k .. p : Depth(tpl, q) >= i
  BY DEF IsOpen
<1>2. Len(tpl) \in Nat
  BY DepthFacts
<1>3. k \in 1 .. r
  BY <1>1, <1>2
<1>4. ASSUME NEW q \in k .. r PROVE Depth(tpl, q) >= i
  <2>1. q > p \/ q \in k .. p
    BY <1>1, <1>2
  <2> QED
    BY <1>1, <2>1
<1> QED
  BY <1>1, <1>3, <1>4 DEF IsOpen

\* Behind slices that close none of the blocks it is in.
LEMMA NestsOn ==
    ASSUME tpl \in Templates, NEW p \in 0 .. Len(tpl), NEW r \in p .. Len(tpl), NEW s,
           Nests(s, p), Depth(tpl, r) = Depth(tpl, p),
           \A q \in p .. r : Depth(tpl, q) >= Depth(tpl, p)
    PROVE  Nests(s, r)
<1>1. Len(tpl) \in Nat /\ r \in 0 .. Len(tpl) /\ Depth(tpl, p) \in Nat
      /\ \A q \in 0 .. Len(tpl) : Depth(tpl, q) \in Nat
  BY DepthFacts
<1>2. s \in Seq(Frame) /\ Len(s) = Depth(tpl, p) /\ \A i \in 1 .. Len(s) : IsOpen(s[i].open, i, p)
  BY DEF Nests
<1>3. ASSUME NEW i \in 1 .. Len(s) PROVE IsOpen(s[i].open, i, r)
  <2> DEFINE k == s[i].open
  <2>1. IsOpen(k, i, p)
    BY <1>2
  <2> HIDE DEF k
  <2>2. k <= r /\ k \in Nat
    BY <1>1, <2>1 DEF IsOpen
  <2>3. ASSUME NEW q \in k .. r, q > p PROVE Depth(tpl, q) >= i
    <3>1. q \in p .. r /\ q \in 0 .. Len(tpl)
      BY <1>1, <2>2, <2>3
    <3>2. Depth(tpl, q) >= Depth(tpl, p) /\ Depth(tpl, q) \in Nat
      BY <1>1, <3>1
    <3> QED
      BY <1>1, <1>2, <3>2
  <2>4. IsOpen(k, i, r)
    BY <1>1, <2>1, <2>2, <2>3, OpenOn
  <2> QED
    BY <2>4 DEF k
<1> QED
  BY <1>2, <1>3 DEF Nests

\* In a block that it has entered.
LEMMA NestsIn ==
    ASSUME tpl \in Templates, NEW m \in 1 .. Len(tpl), NEW r \in m .. Len(tpl), NEW s,
           NEW round \in Nat, tpl[m].type = BlockOpen,
           Nests(s, m - 1), Depth(tpl, r) = Depth(tpl, m),
           \A q \in m .. r : Depth(tpl, q) >= Depth(tpl, m)
    PROVE  Nests(Append(s, [open |-> m, round |-> round]), r)
<1> DEFINE f == [open |-> m, round |-> round]
           t == Append(s, f)
<1>1. /\ Len(tpl) \in Nat /\ r \in 0 .. Len(tpl) /\ m - 1 \in 0 .. Len(tpl) /\ m \in Nat
      /\ \A q \in 0 .. Len(tpl) : Depth(tpl, q) \in Nat
  BY DepthFacts
<1>2. /\ s \in Seq(Frame) /\ Len(s) = Depth(tpl, m - 1)
      /\ \A i \in 1 .. Len(s) : IsOpen(s[i].open, i, m - 1)
  BY DEF Nests
<1>3. Depth(tpl, m) = Len(s) + 1 /\ Len(s) \in Nat
  <2> HIDE DEF BlockOpen
  <2> QED
    BY <1>2, DepthFacts
<1>4. f \in Frame /\ f.open = m
  BY <1>1 DEF Frame
<1> HIDE DEF f
<1>5. /\ t \in Seq(Frame) /\ Len(t) = Len(s) + 1 /\ t[Len(s) + 1] = f
      /\ \A i \in 1 .. Len(s) : t[i] = s[i]
  BY <1>2, <1>4, AppendProperties
<1> HIDE DEF t
<1>6. ASSUME NEW i \in 1 .. Len(s) PROVE IsOpen(t[i].open, i, r)
  <2> DEFINE k == s[i].open
  <2>1. IsOpen(k, i, m - 1)
    BY <1>2
  <2> HIDE DEF k
  <2>2. k <= r /\ k \in Nat
    BY <1>1, <2>1 DEF IsOpen
  <2>3. ASSUME NEW q \in k .. r, q > m - 1 PROVE Depth(tpl, q) >= i
    <3>1. q \in m .. r /\ q \in 0 .. Len(tpl)
      BY <1>1, <2>2, <2>3
    <3>2. Depth(tpl, q) >= Depth(tpl, m) /\ Depth(tpl, q) \in Nat
      BY <1>1, <3>1
    <3> QED
      BY <1>3, <3>2
  <2>4. IsOpen(k, i, r)
    BY <1>1, <2>1, <2>2, <2>3, OpenOn
  <2> QED
    BY <1>5, <2>4 DEF k
<1>7. IsOpen(m, Len(s) + 1, r)
  BY <1>1, <1>3 DEF IsOpen
<1>8. \A i \in 1 .. Len(t) : i \in 1 .. Len(s) \/ i = Len(s) + 1
  BY <1>3, <1>5
<1> QED
  BY <1>3, <1>4, <1>5, <1>6, <1>7, <1>8 DEF Nests, t, f

\* Elsewhere in the innermost block, in whatever round.
LEMMA NestsBack ==
    ASSUME tpl \in Templates, NEW p \in 0 .. Len(tpl), NEW s, NEW t, Nests(s, p), s # <<>>,
           t \in Seq(Frame), Len(t) = Len(s), \A i \in 1 .. Len(s) : t[i].open = s[i].open,
           NEW r \in s[Len(s)].open .. Len(tpl), Depth(tpl, r) = Len(s),
           \A q \in s[Len(s)].open .. r : Depth(tpl, q) >= Len(s)
    PROVE  Nests(t, r)
<1> DEFINE m == s[Len(s)].open
<1>1. /\ s \in Seq(Frame) /\ Len(s) = Depth(tpl, p) /\ Len(s) \in Nat \ {0}
      /\ \A i \in 1 .. Len(s) : IsOpen(s[i].open, i, p)
  BY DEF Nests
<1>2. IsOpen(m, Len(s), p)
  BY <1>1
<1> HIDE DEF m
<1>3. m \in 1 .. p /\ Len(tpl) \in Nat /\ r \in 0 .. Len(tpl) /\ r \in m .. Len(tpl)
      /\ \A q \in 0 .. Len(tpl) : Depth(tpl, q) \in Nat
  <2>1. m \in 1 .. p /\ Len(tpl) \in Nat
    BY <1>2, DepthFacts DEF IsOpen
  <2>2. r \in m .. Len(tpl)
    BY DEF m
  <2> QED
    BY <2>1, <2>2, DepthFacts
<1>4. ASSUME NEW i \in 1 .. Len(s) PROVE IsOpen(s[i].open, i, r)
  <2> DEFINE k == s[i].open
  <2>1. IsOpen(k, i, p)
    BY <1>1
  <2> HIDE DEF k
  <2>2. k <= m /\ k \in Nat
    <3>1. i \in Nat /\ Len(s) \in Nat /\ i <= Len(s)
      BY <1>1
    <3>2. k \in Nat
      BY <2>1 DEF IsOpen
    <3> QED
      BY <1>2, <2>1, <3>1, <3>2, OneOpen
  <2>3. ASSUME NEW q \in k .. r, q > p PROVE Depth(tpl, q) >= i
    <3>1. q \in m .. r /\ q \in 0 .. Len(tpl)
      BY <1>3, <2>2, <2>3
    <3>2. Depth(tpl, q) >= Len(s) /\ Depth(tpl, q) \in Nat
      BY <1>3, <3>1 DEF m
    <3> QED
      BY <1>1, <3>2
  <2>4. k <= r
    BY <1>3, <2>2
  <2>5. IsOpen(k, i, r)
    BY <1>3, <2>1, <2>3, <2>4, OpenOn
  <2> QED
    BY <2>5 DEF k
<1> QED
  BY <1>1, <1>4 DEF Nests

\* Behind the end of the innermost block.
LEMMA NestsOut ==
    ASSUME tpl \in Templates, NEW p \in 1 .. Len(tpl), NEW s, Nests(s, p - 1),
           tpl[p].type = BlockClose
    PROVE  s # <<>> /\ Nests(Front(s), p)
<1>1. /\ s \in Seq(Frame) /\ Len(s) = Depth(tpl, p - 1)
      /\ \A i \in 1 .. Len(s) : IsOpen(s[i].open, i, p - 1)
  BY DEF Nests
<1>2. /\ Len(tpl) \in Nat /\ Depth(tpl, p) \in Nat /\ Depth(tpl, p) = Len(s) - 1
      /\ p - 1 \in 0 .. Len(tpl) /\ p \in 0 .. Len(tpl) /\ Len(s) \in Nat
  <2> HIDE DEF BlockClose
  <2> QED
    BY <1>1, DepthFacts
<1>3. Len(s) # 0
  BY <1>2
<1> DEFINE n == Len(s) - 1
           t == Front(s)
<1>4. t \in Seq(Frame) /\ Len(t) = n /\ \A i \in 1 .. n : t[i] = s[i]
  <2>1. n \in Int /\ n >= 0 /\ \A i \in 1 .. n : s[i] \in Frame
    BY <1>1, <1>2, <1>3
  <2>2. t = SubSeq(s, 1, n)
    BY DEF Front
  <2> HIDE DEF n, t
  <2>3. /\ SubSeq(s, 1, n) \in Seq(Frame)
        /\ Len(SubSeq(s, 1, n)) = IF 1 <= n THEN n - 1 + 1 ELSE 0
        /\ \A i \in 1 .. n - 1 + 1 : SubSeq(s, 1, n)[i] = s[1 + i - 1]
    BY <2>1, SubSeqProperties
  <2>4. \A i \in 1 .. n : i \in 1 .. n - 1 + 1 /\ 1 + i - 1 = i
    BY <2>1
  <2> QED
    BY <2>1, <2>2, <2>3, <2>4
<1> HIDE DEF t
<1>5. ASSUME NEW i \in 1 .. n PROVE IsOpen(t[i].open, i, p)
  <2> DEFINE k == s[i].open
  <2>1. IsOpen(k, i, p - 1) /\ i \in Nat /\ i <= Depth(tpl, p)
    BY <1>1, <1>2
  <2> HIDE DEF k
  <2>2. k <= p /\ k \in Nat
    BY <1>2, <2>1 DEF IsOpen
  <2>3. \A q \in k .. p : q > p - 1 => q = p
    BY <2>2
  <2>4. \A q \in k .. p : q > p - 1 => Depth(tpl, q) >= i
    BY <1>2, <2>1, <2>3
  <2>5. IsOpen(k, i, p)
    BY <1>2, <2>1, <2>2, <2>4, OpenOn
  <2> QED
    BY <1>4, <2>5 DEF k
<1>6. s # <<>>
  BY <1>3
<1> QED
  BY <1>2, <1>4, <1>5, <1>6 DEF Nests, t

LEMMA InitFrames == Init => FramesInv
<1> SUFFICES ASSUME Init PROVE FramesInv
  OBVIOUS
<1>1. tpl \in Templates /\ at = 1 /\ frames = <<>>
  BY DEF Init
<1>2. Len(tpl) \in Nat /\ Depth(tpl, 0) = 0
  BY <1>1, DepthFacts
<1>3. Nests(<<>>, 0)
  BY <1>2 DEF Nests
<1> QED
  BY <1>1, <1>2, <1>3 DEF FramesInv

LEMMA ExecuteFrames == FramesInv /\ Execute => FramesInv'
<1> SUFFICES ASSUME FramesInv, Execute PROVE FramesInv'
  OBVIOUS
<1>1. /\ tpl \in Templates /\ Nests(frames, at - 1) /\ frames \in Seq(Frame)
      /\ tpl' = tpl
  BY DEF FramesInv, Nests, Execute, WriteText, WriteData, WriteNothing, ExecuteFails, Enter, PassBy,
         Else, Leave, Again, Move, Written
<1>2. /\ Len(tpl) \in Nat /\ \A q \in 0 .. Len(tpl) : Depth(tpl, q) \in Nat
      /\ DOMAIN tpl = 1 .. Len(tpl)
  BY <1>1, DepthFacts
<1>3. at \in 1 .. Len(tpl) + 1 /\ at - 1 \in 0 .. Len(tpl)
  BY <1>2 DEF FramesInv
<1> DEFINE Goes(to, stack) == to \in 1 .. Len(tpl) + 1 /\ Nests(stack, to - 1)
<1>4. SUFFICES Goes(at', frames')
  BY <1>1 DEF FramesInv, Nests, IsOpen
<1>5. CASE ExecuteFails
  BY <1>1, <1>3, <1>5 DEF ExecuteFails, execVars
<1> SUFFICES ASSUME ~ExecuteFails PROVE Goes(at', frames')
  BY <1>5
<1>6. at \in 1 .. Len(tpl) /\ (at + 1) - 1 = at
  <2>1. at \in DOMAIN tpl
    BY DEF Execute, WriteText, WriteData, WriteNothing, Enter, PassBy, Else, Leave, Again,
           Executing
  <2> QED
    BY <1>2, <2>1
<1>7. CASE WriteText \/ WriteData \/ WriteNothing
  <2>1. at' = at + 1 /\ frames' = frames /\ tpl[at].type \notin {BlockOpen, BlockClose}
    BY <1>7 DEF WriteText, WriteData, WriteNothing, Written, Literal, Action, Comment, Define,
                BlockOpen, BlockClose
  <2>2. Depth(tpl, at) = Depth(tpl, at - 1)
    BY <1>1, <1>6, <2>1, DepthFacts
  <2>3. at \in at - 1 .. Len(tpl)
    BY <1>6
  <2>4. \A q \in at - 1 .. at : Depth(tpl, q) >= Depth(tpl, at - 1)
    <3>1. \A q \in at - 1 .. at : q = at - 1 \/ q = at
      BY <1>6
    <3>2. Depth(tpl, at - 1) \in Nat
      BY <1>2, <1>3
    <3> QED
      BY <2>2, <3>1, <3>2
  <2>5. Nests(frames, at)
    BY <1>1, <1>3, <2>2, <2>3, <2>4, NestsOn
  <2> QED
    BY <1>2, <1>6, <2>1, <2>5
<1>8. CASE Enter
  <2> DEFINE m == at
             f == [open |-> m, round |-> 1]
  <2>1. at' = m + 1 /\ frames' = Append(frames, f) /\ tpl[m].type = BlockOpen
    BY <1>8 DEF Enter, Move
  <2>2. m \in m .. Len(tpl) /\ \A q \in m .. m : q = m
    BY <1>6
  <2>3. Depth(tpl, m) >= Depth(tpl, m) /\ 1 \in Nat
    BY <1>2, <1>6
  <2>4. Nests(Append(frames, f), m)
    BY <1>1, <1>6, <2>1, <2>2, <2>3, NestsIn
  <2> QED
    BY <1>2, <1>6, <2>1, <2>4
<1>9. CASE PassBy
  <2> DEFINE m == at
             e == End(m)
  <2>1. tpl[m].type = BlockOpen
    BY <1>9 DEF PassBy
  <2>2. /\ e \in m + 1 .. Len(tpl) /\ Depth(tpl, e) = Depth(tpl, m - 1)
        /\ Depth(tpl, m - 1) + 1 = Depth(tpl, m) /\ Depth(tpl, m - 1) \in Nat
        /\ \A q \in m .. e - 1 : Depth(tpl, q) >= Depth(tpl, m)
    BY <1>1, <1>6, <2>1, EndFacts
  <2>3. CASE Elses(m) = {}
    <3>1. at' = e + 1 /\ frames' = frames
      BY <1>9, <2>3 DEF PassBy, Move
    <3>2. \A q \in m - 1 .. e : Depth(tpl, q) >= Depth(tpl, m - 1)
      <4> SUFFICES ASSUME NEW q \in m - 1 .. e PROVE Depth(tpl, q) >= Depth(tpl, m - 1)
        OBVIOUS
      <4>1. q = m - 1 \/ q = e \/ q \in m .. e - 1
        BY <1>6, <2>2
      <4>2. q \in 0 .. Len(tpl)
        BY <1>6, <2>2
      <4>3. Depth(tpl, q) \in Nat
        BY <1>2, <4>2
      <4>4. q \in m .. e - 1 => Depth(tpl, q) >= Depth(tpl, m)
        BY <2>2
      <4> QED
        BY <2>2, <4>1, <4>3, <4>4
    <3>3. e \in m - 1 .. Len(tpl) /\ e \in Nat
      BY <1>6, <2>2
    <3> HIDE DEF e
    <3>4. Nests(frames, e)
      BY <1>1, <1>3, <2>2, <3>2, <3>3, NestsOn
    <3>5. e + 1 \in 1 .. Len(tpl) + 1 /\ (e + 1) - 1 = e
      BY <1>2, <1>6, <3>3
    <3> QED
      BY <3>1, <3>4, <3>5
  <2>4. CASE Elses(m) # {}
    <3> DEFINE r == Min(Elses(m))
               f == [open |-> m, round |-> 0]
    <3>1. at' = r + 1 /\ frames' = Append(frames, f)
      BY <1>9, <2>4 DEF PassBy, Move
    <3>2. r \in m .. e /\ Depth(tpl, r) = Depth(tpl, m)
      <4> DEFINE S == Elses(m)
      <4>1. S \subseteq m .. e /\ \A q \in S : Depth(tpl, q) = Depth(tpl, m)
        BY DEF Elses
      <4>2. S \subseteq Nat
        BY <1>6, <2>2, <4>1
      <4> HIDE DEF S, e
      <4>3. Min(S) \in S
        BY <2>4, <4>2, MinType DEF S
      <4>4. Min(S) \in m .. e /\ Depth(tpl, Min(S)) = Depth(tpl, m)
        BY <4>1, <4>3
      <4> QED
        BY <4>4 DEF S
    <3> HIDE DEF r, e
    <3>3. r # e
      BY <2>2, <3>2
    <3>4. r \in m .. Len(tpl) /\ \A q \in m .. r : q \in m .. e - 1
      BY <1>6, <2>2, <3>2, <3>3
    <3>5. \A q \in m .. r : Depth(tpl, q) >= Depth(tpl, m)
      BY <2>2, <3>4
    <3>6. Nests(Append(frames, f), r)
      <4>1. 0 \in Nat
        OBVIOUS
      <4> QED
        BY <1>1, <1>6, <2>1, <3>2, <3>4, <3>5, <4>1, NestsIn
    <3>7. r + 1 \in 1 .. Len(tpl) + 1 /\ (r + 1) - 1 = r
      BY <1>2, <1>6, <3>4
    <3> QED
      BY <3>1, <3>6, <3>7
  <2> QED
    BY <2>3, <2>4
<1>10. ASSUME frames # <<>>
       PROVE  /\ Len(frames) \in Nat \ {0} /\ Last(frames) = frames[Len(frames)]
              /\ Last(frames) \in Frame
              /\ Last(frames).open \in 1 .. at - 1 /\ Last(frames).open \in 1 .. Len(tpl)
              /\ tpl[Last(frames).open].type = BlockOpen
              /\ Depth(tpl, Last(frames).open) = Len(frames)
              /\ \A q \in Last(frames).open .. at - 1 : Depth(tpl, q) >= Len(frames)
  <2>1. Len(frames) \in Nat \ {0} /\ Last(frames) = frames[Len(frames)]
    BY <1>1, <1>10 DEF Last
  <2>2. frames[Len(frames)] \in Frame /\ IsOpen(frames[Len(frames)].open, Len(frames), at - 1)
    BY <1>1, <2>1 DEF Nests
  <2>3. frames[Len(frames)].open \in 1 .. at - 1
    BY <2>2 DEF IsOpen
  <2>4. frames[Len(frames)].open \in 1 .. Len(tpl)
    BY <1>2, <1>3, <2>3
  <2> QED
    BY <2>1, <2>2, <2>3, <2>4 DEF IsOpen
<1>11. CASE Else
  <2>1. tpl[at].type = BlockMid /\ at' = End(Last(frames).open) /\ frames' = frames
    BY <1>11 DEF Else, Move
  <2>2. Depth(tpl, at - 1) = Depth(tpl, at) /\ Depth(tpl, at) > 0
    <3>1. tpl[at].type \notin {BlockOpen, BlockClose}
      BY <2>1 DEF BlockOpen, BlockClose, BlockMid
    <3> HIDE DEF BlockMid, BlockOpen, BlockClose
    <3> QED
      BY <1>1, <1>6, <2>1, <3>1, DepthFacts
  <2>3. frames # <<>>
    <3>1. Len(frames) = Depth(tpl, at - 1) /\ Depth(tpl, at - 1) \in Nat
      BY <1>1, <1>2, <1>3 DEF Nests
    <3> QED
      BY <2>2, <3>1
  <2> DEFINE m == Last(frames).open
             e == End(m)
             r == e - 1
  <2>4. m \in 1 .. Len(tpl) /\ Depth(tpl, m) = Len(frames)
    BY <1>10, <2>3
  <2>5. /\ e \in m + 1 .. Len(tpl)
        /\ \A q \in m .. r : Depth(tpl, q) >= Depth(tpl, m)
        /\ Depth(tpl, r) = Depth(tpl, m)
    BY <1>1, <1>10, <2>3, EndFacts
  <2>6. m = frames[Len(frames)].open
    BY <1>10, <2>3
  <2> HIDE DEF m, e
  <2>7. r \in m .. Len(tpl) /\ e \in 1 .. Len(tpl) + 1
    BY <1>2, <2>4, <2>5
  <2> HIDE DEF r
  <2>8. Nests(frames, r)
    BY <1>1, <1>3, <2>3, <2>4, <2>5, <2>6, <2>7, NestsBack
  <2> QED
    BY <2>1, <2>7, <2>8 DEF r, e, m
<1>12. CASE Leave
  <2>1. tpl[at].type = BlockClose /\ at' = at + 1 /\ frames' = Front(frames)
    BY <1>12 DEF Leave, Move
  <2>2. Nests(Front(frames), at)
    BY <1>1, <1>6, <2>1, NestsOut
  <2> QED
    BY <1>2, <1>6, <2>1, <2>2
<1>13. CASE Again
  <2> DEFINE f == Last(frames)
             m == f.open
             g == [f EXCEPT !.round = @ + 1]
             t == Append(Front(frames), g)
  <2>1. tpl[at].type = BlockClose /\ at' = m + 1 /\ frames' = t
    BY <1>13 DEF Again, Move
  <2>2. frames # <<>>
    BY <1>1, <1>6, <2>1, NestsOut
  <2>3. /\ Len(frames) \in Nat \ {0} /\ f = frames[Len(frames)] /\ f \in Frame
        /\ m \in 1 .. Len(tpl) /\ Depth(tpl, m) = Len(frames)
    BY <1>10, <2>2
  <2>4. g \in Frame /\ g.open = m
    <3> HIDE DEF f
    <3> QED
      BY <2>3 DEF Frame
  <2> HIDE DEF f, g
  <2> DEFINE n == Len(frames) - 1
             u == Front(frames)
  <2>5. u \in Seq(Frame) /\ Len(u) = n /\ \A i \in 1 .. n : u[i] = frames[i]
    <3>1. n \in Int /\ n >= 0 /\ \A i \in 1 .. n : frames[i] \in Frame
      BY <1>1, <2>3
    <3>2. u = SubSeq(frames, 1, n)
      BY DEF Front
    <3> HIDE DEF n, u
    <3>3. /\ SubSeq(frames, 1, n) \in Seq(Frame)
          /\ Len(SubSeq(frames, 1, n)) = IF 1 <= n THEN n - 1 + 1 ELSE 0
          /\ \A i \in 1 .. n - 1 + 1 : SubSeq(frames, 1, n)[i] = frames[1 + i - 1]
      BY <3>1, SubSeqProperties
    <3>4. \A i \in 1 .. n : i \in 1 .. n - 1 + 1 /\ 1 + i - 1 = i
      BY <3>1
    <3> QED
      BY <3>1, <3>2, <3>3, <3>4
  <2> HIDE DEF u
  <2>6. /\ t \in Seq(Frame) /\ Len(t) = n + 1 /\ t[n + 1] = g
        /\ \A i \in 1 .. n : t[i] = u[i]
    BY <2>4, <2>5, AppendProperties DEF u
  <2> HIDE DEF t
  <2>7. n + 1 = Len(frames) /\ n \in Nat
    BY <2>3
  <2> HIDE DEF n
  <2>8. \A i \in 1 .. Len(frames) : t[i].open = frames[i].open
    <3>1. \A i \in 1 .. Len(frames) : i \in 1 .. n \/ i = n + 1
      BY <2>7
    <3> QED
      BY <2>3, <2>4, <2>5, <2>6, <2>7, <3>1
  <2>9. m \in m .. Len(tpl) /\ \A q \in m .. m : q = m
    BY <1>2, <2>3
  <2>10. (\A q \in m .. m : Depth(tpl, q) >= Len(frames)) /\ m = frames[Len(frames)].open
    BY <2>3, <2>9
  <2> HIDE DEF m
  <2>11. Nests(t, m)
    <3>1. t \in Seq(Frame) /\ Len(t) = Len(frames) /\ Depth(tpl, m) = Len(frames)
      BY <2>3, <2>6, <2>7
    <3>2. m \in frames[Len(frames)].open .. Len(tpl)
      BY <2>9, <2>10
    <3>3. \A q \in frames[Len(frames)].open .. m : Depth(tpl, q) >= Len(frames)
      BY <2>10
    <3> QED
      BY <1>1, <1>3, <2>2, <2>8, <3>1, <3>2, <3>3, NestsBack
  <2>12. m + 1 \in 1 .. Len(tpl) + 1 /\ (m + 1) - 1 = m
    BY <1>2, <2>3
  <2> QED
    BY <2>1, <2>11, <2>12
<1> QED
  BY <1>7, <1>8, <1>9, <1>11, <1>12, <1>13 DEF Execute

LEMMA RestFrames == FramesInv /\ [Next]_vars /\ ~Execute => FramesInv'
<1> SUFFICES ASSUME FramesInv, [Next]_vars, ~Execute PROVE FramesInv'
  OBVIOUS
<1>1. UNCHANGED <<tpl, at, frames>>
  BY DEF Next, FormatRejects, Format, RangeLine, HeaderLine, RemovedLine, AddedLine, OtherLine,
         HunksDone, MapHunk, Report, Step, vars, execVars
<1> QED
  BY <1>1 DEF FramesInv, Nests, IsOpen

\* At every step of the executor the blocks it is in are those open behind the
\* slices before its own, whatever it passed by, left or ran again.
THEOREM FramesHold == Spec => []FramesInv
<1>1. Init => FramesInv
  BY InitFrames
<1>2. FramesInv /\ [Next]_vars => FramesInv'
  BY ExecuteFrames, RestFrames
<1> QED
  BY <1>1, <1>2, PTL DEF Spec
----------------------------------------------------------------------------
(* Cells.                                                                  *)

\* A slice's cells say where they are in the template, and what body they ran in.
LEMMA CellsPlaced ==
    ASSUME tpl \in Templates, NEW m \in DOMAIN tpl, NEW e \in Enclosing
    PROVE  /\ CellsOf(m, e) \in Seq(PlacedCell)
           /\ IsBody(m - 1, e) => CellsOf(m, e) \in Seq(RealCell)
<1> DEFINE cells == CellsOf(m, e)
           size == Len(tpl[m].text)
<1>1. /\ tpl[m].type \in SliceType /\ size \in Nat /\ DOMAIN tpl[m].text = 1 .. size
      /\ \A p \in 1 .. size : tpl[m].text[p] \in STRING
  BY TemplateFacts
<1>2. StartOf(m) \in Nat /\ StartOf(m) > 0
  BY StartType
<1>3. ASSUME NEW p \in 1 .. size
      PROVE  cells[p] \in PlacedCell /\ (IsBody(m - 1, e) => cells[p] \in RealCell)
  <2> DEFINE o == StartOf(m) + p - 1
             c == <<tpl[m].type, tpl[m].text[p], o, e>>
  <2>1. cells[p] = c
    BY <1>1 DEF CellsOf
  <2>2. o \in Nat /\ o # 0
    BY <1>1, <1>2
  <2>3. c \in Cell
    <3> HIDE DEF o
    <3> QED
      BY <1>1, <2>2 DEF Cell
  <2>4. PlaceOf(c, m, p) /\ p \in DOMAIN tpl[m].text
    BY <1>1 DEF PlaceOf
  <2>5. c[3] = o /\ c[4] = e
    OBVIOUS
  <2> HIDE DEF o, c
  <2>6. Placed(c) /\ (IsBody(m - 1, e) => Ran(c))
    BY <2>4, <2>5 DEF Placed, Ran
  <2> QED
    BY <2>1, <2>2, <2>3, <2>5, <2>6 DEF RealCell, PlacedCell
<1>4. cells = [p \in 1 .. size |-> cells[p]]
  BY <1>1 DEF CellsOf
<1> HIDE DEF cells, size
<1>5. cells \in Seq(PlacedCell)
  <2>1. cells \in [1 .. size -> PlacedCell]
    BY <1>3, <1>4
  <2> QED
    BY <1>1, <2>1, SeqDef
<1>6. IsBody(m - 1, e) => cells \in Seq(RealCell)
  <2> SUFFICES ASSUME IsBody(m - 1, e) PROVE cells \in Seq(RealCell)
    OBVIOUS
  <2>1. cells \in [1 .. size -> RealCell]
    BY <1>3, <1>4
  <2> QED
    BY <1>1, <2>1, SeqDef
<1> QED
  BY <1>5, <1>6 DEF cells

\* Data is from nowhere in the template.
LEMMA DataReal ==
    ASSUME NEW t \in Data, NEW e \in Enclosing
    PROVE  [p \in DOMAIN t |-> <<Action, t[p], 0, e>>] \in Seq(RealCell)
<1> DEFINE cells == [p \in DOMAIN t |-> <<Action, t[p], 0, e>>]
<1>1. t \in Seq(STRING)
  BY TextAssumption
<1>2. Len(t) \in Nat /\ DOMAIN t = 1 .. Len(t) /\ \A p \in 1 .. Len(t) : t[p] \in STRING
  BY <1>1
<1>3. ASSUME NEW p \in 1 .. Len(t)
      PROVE  cells[p] \in RealCell
  <2> DEFINE c == <<Action, t[p], 0, e>>
  <2>1. Action \in SliceType /\ 0 \in Nat
    BY DEF SliceType
  <2>2. c \in Cell
    <3> HIDE DEF Action
    <3> QED
      BY <1>2, <2>1 DEF Cell
  <2>3. c[3] = 0
    OBVIOUS
  <2>4. cells[p] = c
    BY <1>2
  <2> HIDE DEF c
  <2> QED
    BY <2>2, <2>3, <2>4 DEF RealCell
<1>4. cells \in [1 .. Len(t) -> RealCell]
  <2>1. cells = [p \in 1 .. Len(t) |-> cells[p]]
    BY <1>2
  <2> HIDE DEF cells
  <2> QED
    BY <1>3, <2>1
<1> HIDE DEF cells
<1>5. cells \in Seq(RealCell)
  BY <1>2, <1>4, SeqDef
<1> QED
  BY <1>5 DEF cells

\* The body being executed is one of three.
LEMMA RunningType == Running \in Enclosing
  BY DEF Running, enclosingFor, Enclosing

\* It is that of the innermost block open behind the slices before.
LEMMA RunningIs ==
    ASSUME FramesInv
    PROVE  IsBody(at - 1, Running)
<1>1. /\ tpl \in Templates /\ frames \in Seq(Frame) /\ Len(frames) = Depth(tpl, at - 1)
      /\ \A i \in 1 .. Len(frames) : IsOpen(frames[i].open, i, at - 1)
  BY DEF FramesInv, Nests
<1>2. CASE frames = <<>>
  <2>1. Depth(tpl, at - 1) = 0
    BY <1>1, <1>2
  <2> QED
    BY <1>2, <2>1 DEF IsBody, Running
<1>3. CASE frames # <<>>
  <2> DEFINE n == Len(frames)
             k == frames[n].open
  <2>1. n \in Nat \ {0} /\ n \in 1 .. n /\ Last(frames) = frames[n]
    BY <1>1, <1>3 DEF Last
  <2>2. IsOpen(k, Depth(tpl, at - 1), at - 1) /\ Depth(tpl, at - 1) # 0
    BY <1>1, <2>1
  <2>3. Running = enclosingFor(Keyword(k))
    BY <1>3, <2>1 DEF Running
  <2> HIDE DEF k
  <2> QED
    BY <2>2, <2>3 DEF IsBody
<1> QED
  BY <1>2, <1>3
----------------------------------------------------------------------------
(* Lines.                                                                  *)

\* The template's lines are made of its cells.
LEMMA SrcLinesType ==
    ASSUME tpl \in Templates
    PROVE  SrcLines \in Seq(Seq(PlacedCell))
<1> DEFINE cells == [m \in DOMAIN tpl |-> CellsOf(m, TopLevel)]
<1>1. Len(tpl) \in Nat /\ DOMAIN tpl = 1 .. Len(tpl)
  BY TemplateFacts
<1>2. TopLevel \in Enclosing
  BY DEF Enclosing
<1>3. cells \in [1 .. Len(tpl) -> Seq(PlacedCell)]
  BY <1>1, <1>2, CellsPlaced
<1> HIDE DEF cells
<1>4. cells \in Seq(Seq(PlacedCell))
  BY <1>1, <1>3, SeqDef
<1>5. FlattenSeq(cells) \in Seq(PlacedCell)
  BY <1>4, FlattenIs
<1>6. Lines(FlattenSeq(cells)) \in Seq(Seq(PlacedCell))
  BY <1>5, LinesType
<1> QED
  BY <1>6 DEF SrcLines, cells

\* The output's lines are made of what was written.
LEMMA RenderedType ==
    ASSUME rendered \in Seq(RealCell)
    PROVE  Rendered \in Seq(Seq(RealCell))
<1> DEFINE lines == Lines(rendered)
           T == Seq(RealCell)
<1>1. lines \in Seq(T)
  BY LinesType
<1>2. Front(lines) \in Seq(T)
  <2> HIDE DEF lines, T
  <2> DEFINE last == Len(lines) - 1
  <2>1. last \in Int /\ \A p \in 1 .. last : lines[p] \in T
    BY <1>1
  <2>2. SubSeq(lines, 1, last) \in Seq(T)
    BY <2>1, SubSeqProperties
  <2> QED
    BY <2>2 DEF Front
<1> QED
  BY <1>1, <1>2 DEF Rendered
----------------------------------------------------------------------------
(* The diff.                                                               *)

\* What is removed was written.
Fine(s) == Removes(s, RealCell)

\* A diff line of another mark, two pieces of a diff, and neighbouring lines.
LEMMA OneFine ==
    ASSUME NEW e, e.mark # "-"
    PROVE  Fine(<<e>>)
<1>1. <<e>> \in Seq({e})
  OBVIOUS
<1>2. IsSeq(<<e>>)
  BY <1>1, SeqIs
<1> QED
  BY <1>2 DEF Fine, Removes

LEMMA ConcatFine ==
    ASSUME NEW s, NEW t, Fine(s), Fine(t)
    PROVE  Fine(s \o t)
<1>1. IsSeq(s) /\ IsSeq(t)
  BY DEF Fine, Removes
<1> DEFINE u == s \o t
<1>2. IsSeq(u) /\ \A p \in DOMAIN u : (\E q \in DOMAIN s : u[p] = s[q]) \/ \E q \in DOMAIN t : u[p] = t[q]
  BY <1>1, ConcatIs
<1> HIDE DEF u
<1>3. Fine(u)
  BY <1>2 DEF Fine, Removes
<1> QED
  BY <1>3 DEF u

LEMMA MarkedFine ==
    ASSUME NEW mark, NEW lines, NEW from \in Int, NEW to \in Int,
           mark = "-" => \A q \in from .. to : lines[q] \in Seq(RealCell)
    PROVE  Fine(Marked(mark, lines, from, to))
<1> DEFINE size == to - from + 1
           f == Marked(mark, lines, from, to)
<1>1. f = [p \in 1 .. size |-> DiffLine(mark, lines[from + p - 1], 0)]
  BY DEF Marked
<1>2. size \in Int
  OBVIOUS
<1>3. ASSUME NEW p \in 1 .. size
      PROVE  from + p - 1 \in from .. to
  OBVIOUS
<1> HIDE DEF f, size
<1>4. f = [p \in 1 .. size |-> f[p]] /\ DOMAIN f = 1 .. size
  BY <1>1
<1>5. IsSeq(f)
  BY <1>2, <1>4, FunctionIs
<1>6. \A p \in 1 .. size : f[p].mark = mark /\ f[p].line = lines[from + p - 1]
  BY <1>1 DEF DiffLine
<1>7. Fine(f)
  BY <1>3, <1>4, <1>5, <1>6 DEF Fine, Removes
<1> QED
  BY <1>7 DEF f

\* The greater and the lesser of two numbers.
LEMMA OfTwo ==
    ASSUME NEW x \in Int, NEW y \in Int
    PROVE  /\ Max({x, y}) \in {x, y} /\ Max({x, y}) >= x
           /\ Min({x, y}) \in {x, y} /\ Min({x, y}) <= x /\ Min({x, y}) <= y
<1> DEFINE S == {x, y}
<1>1. \E m \in S : \A l \in S : m >= l
  BY Z3
<1>2. Max(S) \in S /\ \A l \in S : Max(S) >= l
  BY <1>1 DEF Max
<1>3. \E m \in S : \A l \in S : m <= l
  BY Z3
<1>4. Min(S) \in S /\ \A l \in S : Min(S) <= l
  BY <1>3 DEF Min
<1> QED
  BY <1>2, <1>4

\* A change is somewhere in the lines, it removes or adds something, and what
\* it adds is a sequence.
LEMMA ChangeFacts ==
    ASSUME NEW lines, IsSeq(lines), NEW c \in Changes(lines)
    PROVE  /\ c.from \in Nat \ {0} /\ c.to \in Nat /\ c.from <= c.to + 1
           /\ c.to <= Len(lines) /\ c.from <= Len(lines) + 1
           /\ IsSeq(c.added)
           /\ c.from <= c.to \/ c.added # <<>>
<1>1. Len(lines) \in Nat
  BY SeqFacts
<1> DEFINE Ends(m) == m - 1 .. Min({Len(lines), m + MaxRemoved - 1})
           From(m) == UNION {Rewrites(lines, m, n) : n \in Ends(m)}
<1>a. Changes(lines) = UNION {From(m) : m \in 1 .. Len(lines) + 1}
  BY DEF Changes
<1>2. PICK from \in 1 .. Len(lines) + 1 : c \in From(from)
  <2> HIDE DEF From
  <2> QED
    BY <1>a
<1>3. PICK to \in Ends(from) : c \in Rewrites(lines, from, to)
  <2> HIDE DEF Ends
  <2> QED
    BY <1>2
<1> DEFINE most == Min({Len(lines), from + MaxRemoved - 1})
<1>4. from \in Nat \ {0} /\ from <= Len(lines) + 1 /\ from + MaxRemoved - 1 \in Int
  BY <1>1, BoundsAssumption
<1>5. most \in Int /\ most <= Len(lines)
  <2> DEFINE x == Len(lines)
             y == from + MaxRemoved - 1
  <2>1. x \in Int /\ y \in Int
    BY <1>1, <1>4
  <2> HIDE DEF x, y
  <2>2. Min({x, y}) \in Int /\ Min({x, y}) <= x
    BY <2>1, OfTwo
  <2> QED
    BY <2>2 DEF x, y
<1> HIDE DEF most
<1>6. to \in Nat /\ from <= to + 1 /\ to <= Len(lines)
  BY <1>1, <1>3, <1>4, <1>5 DEF most
<1> DEFINE size == to - from + 1
           new == [p \in 1 .. size |-> Formatted(lines[from + p - 1])]
           blank == << <<>> >>
<1>7. PICK a \in IF new = <<>> THEN {blank} ELSE {new, blank \o new, Tail(new)} :
          c = [from |-> from, to |-> to, added |-> a]
  BY <1>3 DEF Rewrites
<1>8. IsSeq(new) /\ (size = 0 => new = <<>>)
  <2>1. new = [p \in 1 .. size |-> new[p]]
    OBVIOUS
  <2>2. size \in Int
    BY <1>4, <1>6
  <2> HIDE DEF new, size
  <2>3. IsSeq(new) /\ DOMAIN new = 1 .. size
    BY <2>1, <2>2, FunctionIs
  <2>4. size = 0 => Len(new) = 0
    BY <2>3, SeqFacts
  <2>5. size = 0 => new = <<>>
    BY <2>3, <2>4, EmptySeq DEF IsSeq
  <2> QED
    BY <2>3, <2>5
<1> HIDE DEF new
<1>9. IsSeq(blank) /\ blank # <<>>
  <2>1. blank \in Seq({<<>>}) /\ blank # <<>>
    OBVIOUS
  <2> QED
    BY <2>1, SeqIs
<1> HIDE DEF blank
<1>10. IsSeq(blank \o new)
  BY <1>8, <1>9, ConcatIs
<1>11. new # <<>> => IsSeq(Tail(new))
  <2> DEFINE S == {new[p] : p \in DOMAIN new}
  <2>1. new \in Seq(S)
    BY <1>8 DEF IsSeq
  <2> HIDE DEF S
  <2>2. new # <<>> => Tail(new) \in Seq(S)
    BY <2>1
  <2> QED
    BY <2>2, SeqIs
<1>12. IsSeq(a)
  BY <1>7, <1>8, <1>9, <1>10, <1>11
<1>13. from <= to \/ a # <<>>
  BY <1>4, <1>6, <1>7, <1>8, <1>9
<1>14. c.from = from /\ c.to = to /\ c.added = a
  BY <1>7
<1> QED
  BY <1>4, <1>6, <1>12, <1>13, <1>14

\* A script is changes in order, an unchanged line between any two.
LEMMA ScriptFacts ==
    ASSUME NEW lines, IsSeq(lines), NEW script \in Scripts(lines)
    PROVE  /\ IsSeq(script) /\ Len(script) \in Nat /\ DOMAIN script = 1 .. Len(script)
           /\ \A m \in 1 .. Len(script) : script[m] \in Changes(lines)
           /\ \A m \in 1 .. Len(script) - 1 : script[m].to + 1 < script[m + 1].from
<1> DEFINE most == IF Len(lines) <= MaxLines THEN MaxRegions ELSE 1
           S == Changes(lines)
<1>1. /\ script \in BoundedSeq(S, most)
      /\ \A m \in 1 .. Len(script) - 1 : script[m].to + 1 < script[m + 1].from
  BY DEF Scripts
<1>2. most \in Nat
  BY BoundsAssumption
<1> HIDE DEF most, S
<1>3. PICK n \in Nat : script \in [1 .. n -> S]
  BY <1>1, <1>2 DEF BoundedSeq, SeqOf
<1>4. script \in Seq(S)
  BY <1>3, SeqDef
<1>5. /\ IsSeq(script) /\ Len(script) \in Nat /\ DOMAIN script = 1 .. Len(script)
      /\ \A m \in 1 .. Len(script) : script[m] \in S
  BY <1>4, SeqIs
<1> QED
  BY <1>1, <1>5 DEF S

\* The parts of a diff: behind change m, before it and in front of the next.
EndOf(script, m) == IF m = 0 THEN 0 ELSE script[m].to

JoinedTo(script, m) == m > 1 /\ script[m].from - 1 - EndOf(script, m - 1) < 2 * Margin

FirstOf(script, m) ==
    IF JoinedTo(script, m) THEN EndOf(script, m - 1) + 1
    ELSE Max({EndOf(script, m - 1) + 1, script[m].from - Margin})

LastOf(lines, script, m) == Min({Len(lines), EndOf(script, m) + Margin})

TrailOf(lines, script, m) ==
    Marked(" ", lines, EndOf(script, m) + 1, LastOf(lines, script, m))

NoteOf(lines, script, m) ==
    IF Unended /\ EndOf(script, m) = Len(lines) THEN <<Header("\\")>> ELSE <<>>

LeadOf(lines, script, m) ==
    IF JoinedTo(script, m) THEN <<>>
    ELSE (IF m = 1 THEN <<>> ELSE TrailOf(lines, script, m - 1))
         \o <<DiffLine("@@", <<>>, FirstOf(script, m))>>

ChunkOf(lines, script, m) ==
    LeadOf(lines, script, m)
    \o Marked(" ", lines, FirstOf(script, m), script[m].from - 1)
    \o Marked("-", lines, script[m].from, EndOf(script, m)) \o NoteOf(lines, script, m)
    \o Marked("+", script[m].added, 1, Len(script[m].added))

ChunksOf(lines, script) == [m \in DOMAIN script |-> ChunkOf(lines, script, m)]

DiffTop == <<Header("diff"), Header("---"), Header("+++")>>

\* The diff is those parts.
LEMMA DiffIs ==
    ASSUME NEW lines, NEW script
    PROVE  Diff(lines, script) =
               DiffTop \o FlattenSeq(ChunksOf(lines, script))
               \o TrailOf(lines, script, Len(script)) \o <<Header("")>>
  BY DEF Diff, DiffTop, ChunksOf, ChunkOf, LeadOf, NoteOf, TrailOf, LastOf, FirstOf, JoinedTo, EndOf

\* Where the parts are.
LEMMA PartFacts ==
    ASSUME NEW lines, IsSeq(lines), NEW script \in Scripts(lines), NEW m \in 1 .. Len(script)
    PROVE  /\ script[m].from \in Nat \ {0} /\ script[m].to \in Nat
           /\ script[m].from <= script[m].to + 1 /\ EndOf(script, m) = script[m].to
           /\ IsSeq(script[m].added)
           /\ script[m].from <= script[m].to \/ script[m].added # <<>>
           /\ EndOf(script, m - 1) \in Nat /\ EndOf(script, m - 1) + 1 <= script[m].from
           /\ m # 1 => EndOf(script, m - 1) + 1 < script[m].from
           /\ FirstOf(script, m) \in Nat \ {0} /\ FirstOf(script, m) <= script[m].from
           /\ script[m].to <= Len(lines) /\ EndOf(script, m - 1) <= Len(lines)
           /\ m # 1 => EndOf(script, m - 1) < Len(lines)
<1> DEFINE e == EndOf(script, m - 1)
           c == script[m]
<1>1. Len(lines) \in Nat /\ Len(script) \in Nat /\ Margin \in Nat
  BY SeqFacts, ScriptFacts, BoundsAssumption
<1>2. ASSUME NEW l \in 1 .. Len(script)
      PROVE  /\ script[l].from \in Nat \ {0} /\ script[l].to \in Nat
             /\ script[l].from <= script[l].to + 1
             /\ script[l].to <= Len(lines) /\ script[l].from <= Len(lines) + 1
             /\ IsSeq(script[l].added)
             /\ script[l].from <= script[l].to \/ script[l].added # <<>>
  <2>1. script[l] \in Changes(lines)
    BY ScriptFacts
  <2> QED
    BY <2>1, ChangeFacts
<1>3. EndOf(script, m) = c.to
  BY <1>1 DEF EndOf
<1>4. CASE m = 1
  <2>1. e = 0
    BY <1>4 DEF EndOf
  <2>2. ~JoinedTo(script, m)
    BY <1>4 DEF JoinedTo
  <2> DEFINE x == e + 1
             y == c.from - Margin
  <2>3. x \in Int /\ y \in Int /\ x = 1 /\ y <= c.from /\ c.from \in Nat \ {0}
    BY <1>1, <1>2, <2>1
  <2>4. FirstOf(script, m) = Max({x, y})
    BY <2>2 DEF FirstOf
  <2> HIDE DEF x, y
  <2>a. Max({x, y}) \in {x, y} /\ Max({x, y}) >= x
    BY <2>3, OfTwo, Zenon
  <2>5. Max({x, y}) \in Nat \ {0} /\ Max({x, y}) <= c.from
    BY <2>3, <2>a
  <2> HIDE DEF e, c
  <2> QED
    BY <1>1, <1>2, <1>3, <1>4, <2>1, <2>4, <2>5 DEF c, e
<1>5. CASE m # 1
  <2>1. m - 1 \in 1 .. Len(script) - 1 /\ m - 1 \in 1 .. Len(script) /\ (m - 1) + 1 = m /\ m > 1
    BY <1>1, <1>5
  <2>2. e = script[m - 1].to
    BY <2>1 DEF EndOf
  <2>3. script[m - 1].to + 1 < c.from
    BY <2>1, ScriptFacts
  <2>4. e \in Nat /\ e + 1 < c.from /\ c.from \in Nat \ {0} /\ c.from <= Len(lines) + 1
    BY <1>2, <2>1, <2>2, <2>3
  <2>5. FirstOf(script, m) \in Nat \ {0} /\ FirstOf(script, m) <= c.from
    <3>1. CASE JoinedTo(script, m)
      BY <2>4, <3>1 DEF FirstOf
    <3>2. CASE ~JoinedTo(script, m)
      <4> DEFINE x == e + 1
                 y == c.from - Margin
      <4>1. x \in Nat \ {0} /\ y \in Int /\ x <= c.from /\ y <= c.from
        BY <1>1, <2>4
      <4>2. FirstOf(script, m) = Max({x, y})
        BY <3>2 DEF FirstOf
      <4> HIDE DEF x, y
      <4>3. Max({x, y}) \in {x, y} /\ Max({x, y}) >= x
        <5>1. x \in Int /\ y \in Int
          BY <4>1
        <5> QED
          BY <5>1, OfTwo, Zenon
      <4> QED
        BY <2>4, <4>1, <4>2, <4>3
    <3> QED
      BY <3>1, <3>2
  <2> HIDE DEF e, c
  <2> QED
    BY <1>1, <1>2, <1>3, <1>5, <2>4, <2>5 DEF e, c
<1> QED
  BY <1>4, <1>5

\* The context behind a change, or behind the top.
LEMMA TrailFacts ==
    ASSUME NEW lines, IsSeq(lines), NEW script, NEW m, EndOf(script, m) \in Nat,
           EndOf(script, m) <= Len(lines)
    PROVE  /\ LastOf(lines, script, m) \in Nat
           /\ EndOf(script, m) <= LastOf(lines, script, m)
           /\ LastOf(lines, script, m) <= Len(lines)
           /\ EndOf(script, m) < Len(lines) => EndOf(script, m) < LastOf(lines, script, m)
<1> DEFINE x == Len(lines)
           e == EndOf(script, m)
           y == e + Margin
<1>1. x \in Nat /\ y \in Nat /\ e <= y /\ e < y /\ e <= x /\ e \in Nat
  BY SeqFacts, BoundsAssumption
<1>2. LastOf(lines, script, m) = Min({x, y})
  BY DEF LastOf
<1> HIDE DEF x, y, e
<1>3. Min({x, y}) \in {x, y} /\ Min({x, y}) <= x
  <2>1. x \in Int /\ y \in Int
    BY <1>1
  <2> QED
    BY <2>1, OfTwo, Zenon
<1>4. Min({x, y}) \in Nat /\ e <= Min({x, y}) /\ (e < x => e < Min({x, y}))
  BY <1>1, <1>3
<1> QED
  BY <1>2, <1>3, <1>4 DEF x, e

\* Its parts are fine, and so is the diff of any script of changes.
LEMMA TrailFine ==
    ASSUME NEW lines, IsSeq(lines), NEW script, NEW m, EndOf(script, m) \in Nat,
           EndOf(script, m) <= Len(lines)
    PROVE  Fine(TrailOf(lines, script, m))
<1>1. EndOf(script, m) + 1 \in Int /\ LastOf(lines, script, m) \in Int
  BY TrailFacts
<1>2. " " # "-"
  OBVIOUS
<1> QED
  BY <1>1, <1>2, MarkedFine DEF TrailOf

LEMMA ChunkFine ==
    ASSUME NEW lines, IsSeq(lines), NEW script \in Scripts(lines), NEW m \in 1 .. Len(script),
           \A q \in DOMAIN lines : lines[q] \in Seq(RealCell)
    PROVE  Fine(ChunkOf(lines, script, m))
<1> DEFINE from == script[m].from
           to == script[m].to
           added == script[m].added
           first == FirstOf(script, m)
           t == IF m = 1 THEN <<>> ELSE TrailOf(lines, script, m - 1)
           e == DiffLine("@@", <<>>, first)
           lead == LeadOf(lines, script, m)
           before == Marked(" ", lines, first, from - 1)
           removed == Marked("-", lines, from, to)
           note == NoteOf(lines, script, m)
           more == Marked("+", added, 1, Len(added))
<1>1. /\ from \in Nat \ {0} /\ to \in Nat /\ EndOf(script, m) = to
      /\ IsSeq(added) /\ EndOf(script, m - 1) \in Nat /\ first \in Nat \ {0}
      /\ to <= Len(lines) /\ EndOf(script, m - 1) <= Len(lines)
  BY PartFacts
<1>2. Fine(<<>>)
  BY EmptyIs DEF Fine, Removes
<1>3. Fine(t)
  BY <1>1, <1>2, TrailFine
<1>4. lead = IF JoinedTo(script, m) THEN <<>> ELSE t \o <<e>>
  BY DEF LeadOf
<1>5. e.mark # "-"
  BY DEF DiffLine
<1>6. ChunkOf(lines, script, m) = lead \o before \o removed \o note \o more
  BY <1>1 DEF ChunkOf
<1> HIDE DEF t, e, lead, from, to, added, first
<1>7. Fine(lead)
  <2>1. Fine(<<e>>)
    BY <1>5, OneFine
  <2>2. Fine(t \o <<e>>)
    BY <1>3, <2>1, ConcatFine
  <2> QED
    BY <1>2, <1>4, <2>2
<1>8. Fine(before)
  <2>1. first \in Int /\ from - 1 \in Int /\ " " # "-"
    BY <1>1
  <2> QED
    BY <2>1, MarkedFine
<1>9. Fine(removed)
  <2>1. \A q \in from .. to : lines[q] \in Seq(RealCell)
    BY <1>1, SeqFacts
  <2>2. from \in Int /\ to \in Int
    BY <1>1
  <2> QED
    BY <2>1, <2>2, MarkedFine
<1>10. Fine(note)
  <2> DEFINE n == Header("\\")
  <2>1. n.mark # "-"
    BY DEF DiffLine, Header
  <2>2. note = <<>> \/ note = <<n>>
    BY DEF NoteOf
  <2> HIDE DEF n, note
  <2>3. Fine(<<n>>)
    BY <2>1, OneFine
  <2> QED
    BY <1>2, <2>2, <2>3
<1>11. Fine(more)
  <2>1. Len(added) \in Int
    BY <1>1, SeqFacts
  <2>2. "+" # "-" /\ 1 \in Int
    OBVIOUS
  <2> QED
    BY <2>1, <2>2, MarkedFine
<1> HIDE DEF before, removed, note, more
<1>12. Fine(lead \o before)
  BY <1>7, <1>8, ConcatFine
<1>13. Fine(lead \o before \o removed)
  BY <1>9, <1>12, ConcatFine
<1>14. Fine(lead \o before \o removed \o note)
  BY <1>10, <1>13, ConcatFine
<1> QED
  BY <1>6, <1>11, <1>14, ConcatFine

LEMMA DiffFine ==
    ASSUME NEW lines \in Seq(Seq(RealCell)), NEW script \in Scripts(lines)
    PROVE  Fine(Diff(lines, script))
<1> DEFINE count == Len(script)
           chunk(m) == ChunkOf(lines, script, m)
           chunks == ChunksOf(lines, script)
           flat == FlattenSeq(chunks)
           rest == TrailOf(lines, script, count)
           last == <<Header("")>>
<1>1. IsSeq(lines) /\ \A q \in DOMAIN lines : lines[q] \in Seq(RealCell)
  <2> DEFINE T == Seq(RealCell)
  <2> HIDE DEF T
  <2>1. lines \in Seq(T)
    BY DEF T
  <2>2. IsSeq(lines) /\ \A q \in DOMAIN lines : lines[q] \in T
    BY <2>1, SeqIs
  <2> QED
    BY <2>2 DEF T
<1>2. count \in Nat /\ DOMAIN script = 1 .. count
  BY <1>1, ScriptFacts
<1>3. \A m \in 1 .. count : Fine(chunk(m))
  BY <1>1, ChunkFine
<1>4. chunks = [m \in 1 .. count |-> chunk(m)]
  BY <1>2 DEF ChunksOf
<1> HIDE DEF count, chunk, chunks
<1>5. Fine(flat)
  <2> DEFINE parts(m) == {chunk(m)[p] : p \in DOMAIN chunk(m)}
             U == UNION {parts(m) : m \in 1 .. count}
  <2>1. \A m \in 1 .. count : chunk(m) \in Seq(parts(m))
    BY <1>3 DEF Fine, Removes, IsSeq
  <2>2. ASSUME NEW u \in U
        PROVE  u.mark = "-" => u.line \in Seq(RealCell)
    <3>1. PICK m \in 1 .. count : u \in parts(m)
      OBVIOUS
    <3>2. PICK p \in DOMAIN chunk(m) : u = chunk(m)[p]
      BY <3>1
    <3> QED
      BY <1>3, <3>2 DEF Fine, Removes
  <2>3. \A m \in 1 .. count : parts(m) \subseteq U
    OBVIOUS
  <2> HIDE DEF U, parts
  <2>4. \A m \in 1 .. count : chunk(m) \in Seq(U)
    BY <2>1, <2>3, SeqMonotonic
  <2>5. chunks \in [1 .. count -> Seq(U)]
    BY <1>4, <2>4
  <2>6. chunks \in Seq(Seq(U))
    BY <1>2, <2>5, SeqDef
  <2>7. flat \in Seq(U)
    BY <2>6, FlattenIs
  <2> HIDE DEF flat
  <2>8. IsSeq(flat) /\ \A p \in DOMAIN flat : flat[p] \in U
    BY <2>7, SeqIs
  <2> QED
    BY <2>2, <2>8 DEF Fine, Removes
<1>6. Fine(DiffTop)
  <2> DEFINE a == Header("diff")
             b == Header("---")
             c == Header("+++")
             top == DiffTop
  <2>1. a.mark # "-" /\ b.mark # "-" /\ c.mark # "-"
    BY DEF DiffLine, Header
  <2>2. top = <<a, b, c>>
    BY DEF DiffTop
  <2> HIDE DEF a, b, c, top
  <2>3. top \in Seq({a, b, c})
    BY <2>2
  <2>4. IsSeq(top) /\ \A p \in DOMAIN top : top[p] \in {a, b, c}
    BY <2>3, SeqIs
  <2>5. Fine(top)
    BY <2>1, <2>4 DEF Fine, Removes
  <2> QED
    BY <2>5 DEF top
<1>7. Fine(rest)
  <2>1. EndOf(script, count) \in Nat /\ EndOf(script, count) <= Len(lines)
    <3>1. CASE count = 0
      BY <1>1, <3>1, SeqFacts DEF EndOf
    <3>2. CASE count # 0
      <4>1. count \in 1 .. Len(script)
        BY <1>2, <3>2 DEF count
      <4> QED
        BY <1>1, <4>1, PartFacts
    <3> QED
      BY <3>1, <3>2
  <2> QED
    BY <1>1, <2>1, TrailFine
<1>8. Fine(last)
  <2> DEFINE e == Header("")
  <2>1. e.mark # "-"
    BY DEF DiffLine, Header
  <2> HIDE DEF e
  <2>2. Fine(<<e>>)
    BY <2>1, OneFine
  <2> QED
    BY <2>2 DEF e
<1>9. Diff(lines, script) = DiffTop \o flat \o rest \o last
  BY DiffIs DEF count, chunks
<1> HIDE DEF flat, rest, last
<1>10. Fine(DiffTop \o flat)
  BY <1>5, <1>6, ConcatFine
<1>11. Fine(DiffTop \o flat \o rest)
  BY <1>7, <1>10, ConcatFine
<1> QED
  BY <1>8, <1>9, <1>11, ConcatFine
----------------------------------------------------------------------------
(* The steps.                                                              *)

\* The template does not change, nor do its cells and keys.
LEMMA SameCells ==
    ASSUME tpl' = tpl
    PROVE  RealCell' = RealCell /\ Keys' = Keys
<1>1. RealCell' = RealCell
  BY DEF RealCell, Ran, PlaceOf, IsBody, IsOpen, Keyword, StartOf
<1>2. SrcLines' = SrcLines
  BY DEF SrcLines, CellsOf, StartOf
<1>3. Keys' = Keys
  BY <1>2 DEF Keys
<1> QED
  BY <1>1, <1>3

LEMMA MapIs == ASSUME NEW h PROVE mapHunk(h) = MapIn(index, h)
  BY DEF mapHunk, MapIn, Maps, MapsIn, LinesOf, LinesIn

LEMMA InitMapping == Init => MappingInv
<1> SUFFICES ASSUME Init PROVE MappingInv
  OBVIOUS
<1>1. /\ tpl \in Templates /\ rendered = <<>> /\ diff = <<>> /\ d = 1
      /\ cur = <<>> /\ hunks = <<>> /\ found = <<>> /\ stage = "execute"
  BY DEF Init
<1>2. <<>> \in Seq(RealCell) /\ DOMAIN <<>> = {}
  OBVIOUS
<1>3. Removes(<<>>, RealCell) /\ HunksOver(<<>>, RealCell) /\ FoundBy(<<>>, index, RealCell)
  BY <1>2, EmptyIs DEF Removes, HunksOver, FoundBy
<1>4. stage \notin {"findings", "done"}
  BY <1>1
<1> QED
  BY <1>1, <1>2, <1>3, <1>4 DEF MappingInv

\* Nothing is written but slices and data.
LEMMA ExecuteMapping == FramesInv /\ MappingInv /\ Execute => MappingInv'
<1> SUFFICES ASSUME FramesInv, MappingInv, Execute PROVE MappingInv'
  OBVIOUS
<1> USE DEF MappingInv
<1>1. UNCHANGED <<tpl, regions, diff, d, cur, oldLine, hunks, index, tiles, found>>
  BY DEF Execute, WriteText, WriteData, WriteNothing, ExecuteFails, Enter, PassBy, Else, Leave,
         Again, Move, Written, execVars, hunkVars, findVars
<1>2. stage = "execute" /\ stage' \in {"execute", "error"}
  BY DEF Execute, WriteText, WriteData, WriteNothing, ExecuteFails, Enter, PassBy, Else, Leave,
         Again, Move, Written, Executing
<1>3. RealCell' = RealCell
  BY <1>1, SameCells
<1>4. rendered' \in Seq(RealCell)
  <2>1. ASSUME NEW cells \in Seq(RealCell), Written(cells) PROVE rendered' \in Seq(RealCell)
    <3> DEFINE S == RealCell
    <3>1. rendered \in Seq(S) /\ cells \in Seq(S) /\ rendered' = rendered \o cells
      BY <2>1 DEF Written
    <3> HIDE DEF S, MappingInv
    <3>2. rendered' \in Seq(S)
      BY <3>1
    <3> QED
      BY <3>2 DEF S
  <2>2. CASE WriteText
    <3>1. at \in DOMAIN tpl /\ Written(CellsOf(at, Running))
      BY <2>2 DEF WriteText, Executing
    <3>4. CellsOf(at, Running) \in Seq(RealCell)
      BY <3>1, RunningType, RunningIs, CellsPlaced
    <3> QED
      BY <2>1, <3>1, <3>4
  <2>3. CASE WriteData
    <3>1. PICK t \in Data : Written([p \in DOMAIN t |-> <<Action, t[p], 0, Running>>])
      BY <2>3 DEF WriteData
    <3> DEFINE cells == [p \in DOMAIN t |-> <<Action, t[p], 0, Running>>]
    <3>2. cells \in Seq(RealCell) /\ Written(cells)
      BY <3>1, RunningType, DataReal
    <3> HIDE DEF cells
    <3> QED
      BY <2>1, <3>2
  <2>4. CASE WriteNothing
    <3>1. Written(<<>>) /\ <<>> \in Seq(RealCell)
      BY <2>4 DEF WriteNothing
    <3> QED
      BY <2>1, <3>1
  <2>5. CASE ExecuteFails \/ Enter \/ PassBy \/ Else \/ Leave \/ Again
    <3>1. rendered' = rendered
      BY <2>5 DEF ExecuteFails, Enter, PassBy, Else, Leave, Again, Move, execVars
    <3> QED
      BY <3>1
  <2> QED
    BY <2>2, <2>3, <2>4, <2>5 DEF Execute
<1> QED
  BY <1>1, <1>2, <1>3, <1>4

\* The diff removes lines of what was written.
LEMMA FormatMapping == MappingInv /\ (Format \/ FormatRejects) => MappingInv'
<1> SUFFICES ASSUME MappingInv, Format \/ FormatRejects PROVE MappingInv'
  OBVIOUS
<1> USE DEF MappingInv
<1>1. UNCHANGED <<tpl, rendered, d, cur, hunks, index, found>>
  BY DEF Format, FormatRejects, execVars, hunkVars, findVars
<1>2. stage = "execute" /\ stage' \in {"error", "clean", "hunks"}
  BY DEF Format, FormatRejects
<1>3. RealCell' = RealCell
  BY <1>1, SameCells
<1>4. Removes(diff', RealCell)
  <2>1. CASE FormatRejects
    BY <2>1 DEF FormatRejects
  <2>2. CASE Format
    <3>1. PICK script \in Scripts(Rendered) :
              diff' = IF script = <<>> THEN <<>> ELSE Diff(Rendered, script)
      BY <2>2 DEF Format
    <3>2. Rendered \in Seq(Seq(RealCell))
      BY RenderedType
    <3>3. Fine(Diff(Rendered, script))
      BY <3>2, DiffFine
    <3>4. Fine(<<>>)
      BY EmptyIs DEF Fine, Removes
    <3> QED
      BY <3>1, <3>3, <3>4 DEF Fine
  <2> QED
    BY <2>1, <2>2
<1> QED
  BY <1>1, <1>2, <1>3, <1>4

\* Hunks one behind the other.
LEMMA HunksJoined ==
    ASSUME NEW s, NEW t, NEW S, HunksOver(s, S), HunksOver(t, S)
    PROVE  HunksOver(s \o t, S)
<1>1. IsSeq(s) /\ IsSeq(t)
  BY DEF HunksOver
<1> DEFINE u == s \o t
<1>2. IsSeq(u) /\ \A p \in DOMAIN u : (\E q \in DOMAIN s : u[p] = s[q]) \/ \E q \in DOMAIN t : u[p] = t[q]
  BY <1>1, ConcatIs
<1> HIDE DEF u
<1>3. HunksOver(u, S)
  BY <1>2 DEF HunksOver
<1> QED
  BY <1>3 DEF u

LEMMA OneHunk ==
    ASSUME NEW h, NEW S, Replaces(h, S)
    PROVE  HunksOver(<<h>>, S)
<1> DEFINE one == <<h>>
<1>1. one \in Seq({h})
  OBVIOUS
<1> HIDE DEF one
<1>2. IsSeq(one) /\ \A m \in DOMAIN one : one[m] = h
  BY <1>1, SeqIs
<1>3. HunksOver(one, S)
  BY <1>2 DEF HunksOver
<1> QED
  BY <1>3 DEF one

LEMMA NoHunks == ASSUME NEW S PROVE HunksOver(<<>>, S)
<1>1. DOMAIN <<>> = {}
  OBVIOUS
<1> QED
  BY <1>1, EmptyIs DEF HunksOver

\* The open hunk replaces lines of the output.
LEMMA OpenedReplaces == ASSUME MappingInv PROVE Replaces(Opened, RealCell)
<1>1. CASE cur = <<>>
  <2> DEFINE h == [line |-> oldLine, before |-> <<>>, after |-> <<>>]
  <2>1. Opened = h
    BY <1>1 DEF Opened
  <2>2. "before" \in DOMAIN h /\ h.before = <<>>
    OBVIOUS
  <2>3. <<>> \in Seq(Seq(RealCell))
    OBVIOUS
  <2> HIDE DEF h
  <2> QED
    BY <2>1, <2>2, <2>3 DEF Replaces
<1>2. CASE cur # <<>>
  <2>1. Opened = cur[1]
    BY <1>2 DEF Opened
  <2>2. IsSeq(cur) /\ \A m \in DOMAIN cur : Replaces(cur[m], RealCell)
    BY DEF MappingInv, HunksOver
  <2>3. 1 \in DOMAIN cur
    <3> DEFINE S == {cur[m] : m \in DOMAIN cur}
    <3>1. cur \in Seq(S)
      BY <2>2 DEF IsSeq
    <3> HIDE DEF S
    <3> QED
      BY <1>2, <3>1
  <2> QED
    BY <2>1, <2>2, <2>3
<1> QED
  BY <1>1, <1>2

\* Lines are taken from the diff.
LEMMA HunkMapping ==
    MappingInv /\ (RangeLine \/ HeaderLine \/ RemovedLine \/ AddedLine \/ OtherLine)
        => MappingInv'
<1> SUFFICES ASSUME MappingInv,
                    RangeLine \/ HeaderLine \/ RemovedLine \/ AddedLine \/ OtherLine
             PROVE  MappingInv'
  OBVIOUS
<1>1. Step /\ InDiff
  BY DEF RangeLine, HeaderLine, RemovedLine, AddedLine, OtherLine
<1>2. UNCHANGED <<tpl, stage, rendered, diff, index, found>> /\ d' = d + 1
  BY <1>1 DEF Step, execVars, findVars
<1>3. RealCell' = RealCell /\ Keys' = Keys
  BY <1>2, SameCells
<1>4. d' \in Nat \ {0}
  BY <1>2 DEF MappingInv
<1>5. HunksOver(cur, RealCell) /\ HunksOver(hunks, RealCell)
  BY DEF MappingInv
<1>6. HunksOver(cur', RealCell) /\ HunksOver(hunks', RealCell)
  <2>1. CASE RangeLine \/ OtherLine
    <3>1. hunks' = hunks \o cur /\ cur' = <<>>
      BY <2>1 DEF RangeLine, OtherLine, Flush
    <3> QED
      BY <1>5, <3>1, HunksJoined, NoHunks
  <2>2. CASE HeaderLine
    BY <1>5, <2>2 DEF HeaderLine
  <2>3. CASE RemovedLine
    <3> DEFINE open == Opened
               line == diff[d].line
               h == [open EXCEPT !.before = Append(@, line)]
    <3>1. cur' = <<h>> /\ hunks' = hunks /\ diff[d].mark = "-"
      BY <2>3 DEF RemovedLine
    <3>2. line \in Seq(RealCell)
      <4>1. d \in Nat \ {0} /\ d <= Len(diff) /\ IsSeq(diff)
        BY <1>1 DEF MappingInv, Removes, InDiff
      <4>2. d \in DOMAIN diff
        BY <4>1, SeqFacts
      <4> QED
        BY <3>1, <4>2 DEF MappingInv, Removes
    <3>3. "before" \in DOMAIN open /\ open.before \in Seq(Seq(RealCell))
      BY OpenedReplaces DEF Replaces
    <3>4. "before" \in DOMAIN h /\ h.before = Append(open.before, line)
      <4> HIDE DEF open, line
      <4> QED
        BY <3>3
    <3>5. Append(open.before, line) \in Seq(Seq(RealCell))
      <4> DEFINE T == Seq(RealCell)
                 b == open.before
      <4>1. b \in Seq(T) /\ line \in T
        BY <3>2, <3>3
      <4> HIDE DEF T, b, line
      <4>2. Append(b, line) \in Seq(T)
        BY <4>1
      <4> QED
        BY <4>2 DEF T, b
    <3> HIDE DEF h
    <3>6. Replaces(h, RealCell)
      BY <3>4, <3>5 DEF Replaces
    <3> QED
      BY <1>5, <3>1, <3>6, OneHunk
  <2>4. CASE AddedLine
    <3> DEFINE open == Opened
               line == diff[d].line
               h == [open EXCEPT !.after = Append(@, line)]
    <3>1. cur' = <<h>> /\ hunks' = hunks
      BY <2>4 DEF AddedLine
    <3>2. "before" \in DOMAIN open /\ open.before \in Seq(Seq(RealCell))
      BY OpenedReplaces DEF Replaces
    <3>3. "before" \in DOMAIN h /\ h.before = open.before
      <4> HIDE DEF open, line
      <4> QED
        BY <3>2
    <3> HIDE DEF h
    <3>4. Replaces(h, RealCell)
      BY <3>2, <3>3 DEF Replaces
    <3> QED
      BY <1>5, <3>1, <3>4, OneHunk
  <2> QED
    BY <2>1, <2>2, <2>3, <2>4
<1> QED
  BY <1>2, <1>3, <1>4, <1>6 DEF MappingInv

\* The keys are made when the hunks are complete.
LEMMA DoneMapping == MappingInv /\ HunksDone => MappingInv'
<1> SUFFICES ASSUME MappingInv, HunksDone PROVE MappingInv'
  OBVIOUS
<1>1. /\ UNCHANGED <<tpl, rendered, diff, d, found>> /\ stage = "hunks" /\ stage' = "findings"
      /\ hunks' = hunks \o cur /\ cur' = <<>>
  BY DEF HunksDone, Flush, execVars
<1>2. RealCell' = RealCell /\ Keys' = Keys
  BY <1>1, SameCells
<1>3. HunksOver(cur', RealCell) /\ HunksOver(hunks', RealCell)
  BY <1>1, HunksJoined, NoHunks DEF MappingInv
<1>4. index' = Keys
  BY DEF HunksDone, Keys
<1>5. found = <<>>
  BY <1>1 DEF MappingInv
<1>6. FoundBy(found', index', RealCell)
  <2>1. DOMAIN <<>> = {}
    OBVIOUS
  <2> QED
    BY <1>1, <1>5, <2>1, EmptyIs DEF FoundBy
<1>7. stage' \in {"findings", "done"}
  BY <1>1
<1> QED
  BY <1>1, <1>2, <1>3, <1>4, <1>6, <1>7 DEF MappingInv

\* A finding has what mapHunk says of its hunk.
LEMMA FoundMapping == MappingInv /\ (MapHunk \/ Report) => MappingInv'
<1> SUFFICES ASSUME MappingInv, MapHunk \/ Report PROVE MappingInv'
  OBVIOUS
<1>1. /\ UNCHANGED <<tpl, rendered, diff, d, cur, hunks, index>>
      /\ stage = "findings" /\ stage' \in {"findings", "done"}
  BY DEF MapHunk, Report, execVars, hunkVars, findVars
<1>2. RealCell' = RealCell /\ Keys' = Keys
  BY <1>1, SameCells
<1>3. FoundBy(found', index, RealCell)
  <2>1. CASE Report
    BY <2>1 DEF Report, findVars, MappingInv
  <2>2. CASE MapHunk
    <3> DEFINE h == hunks[Len(found) + 1]
               n == mapHunk(h)
               e == [hunk |-> h, line |-> n,
                     enclosing |-> IF n = 0 THEN TopLevel ELSE enclosingAt(n)]
    <3>1. found' = Append(found, e) /\ Len(found) < Len(hunks)
      BY <2>2 DEF MapHunk
    <3>2. /\ IsSeq(found) /\ IsSeq(hunks) /\ \A m \in DOMAIN hunks : Replaces(hunks[m], RealCell)
          /\ \A f \in DOMAIN found : Replaces(found[f].hunk, RealCell)
                                     /\ found[f].line = MapIn(index, found[f].hunk)
      BY DEF MappingInv, FoundBy, HunksOver
    <3>3. Len(found) + 1 \in DOMAIN hunks
      BY <3>1, <3>2, SeqFacts
    <3>4. e.hunk = h /\ e.line = MapIn(index, h) /\ Replaces(h, RealCell)
      BY <3>2, <3>3, MapIs
    <3> HIDE DEF e, h
    <3> DEFINE more == Append(found, e)
    <3>5. /\ IsSeq(more)
          /\ \A p \in DOMAIN more : (p \in DOMAIN found /\ more[p] = found[p]) \/ more[p] = e
      BY <3>2, AppendIs
    <3> HIDE DEF more
    <3>6. FoundBy(more, index, RealCell)
      BY <3>2, <3>4, <3>5 DEF FoundBy
    <3> QED
      BY <3>1, <3>6 DEF more
  <2> QED
    BY <2>1, <2>2
<1>4. stage \in {"findings", "done"}
  BY <1>1
<1> QED
  BY <1>1, <1>2, <1>3, <1>4 DEF MappingInv

LEMMA StutterMapping == MappingInv /\ UNCHANGED vars => MappingInv'
<1> SUFFICES ASSUME MappingInv, UNCHANGED vars PROVE MappingInv'
  OBVIOUS
<1>1. UNCHANGED <<tpl, stage, rendered, diff, d, cur, hunks, index, found>>
  BY DEF vars, execVars, hunkVars, findVars
<1>2. RealCell' = RealCell /\ Keys' = Keys
  BY <1>1, SameCells
<1> QED
  BY <1>1, <1>2 DEF MappingInv

\* What is removed was written, what was written and says where it is from is
\* from there, and a finding has the line that the template's keys give it.
THEOREM MappingHolds == Spec => []MappingInv
<1>1. Init => MappingInv
  BY InitMapping
<1>2. FramesInv /\ MappingInv /\ [Next]_vars => MappingInv'
  BY ExecuteMapping, FormatMapping, HunkMapping, DoneMapping, FoundMapping, StutterMapping
     DEF Next
<1> QED
  BY <1>1, <1>2, FramesHold, PTL DEF Spec
----------------------------------------------------------------------------
(* What a finding is worth.                                                *)

\* A blank line has no key, and so no line of the template.
LEMMA BlankKey ==
    ASSUME NEW S, NEW line \in Seq(S), IsBlank(line)
    PROVE  collapseWS(line) = <<>>
<1> DEFINE s == Symbols(line)
           Ink(p) == p \in DOMAIN s /\ s[p] \notin Blank
           kept == {p \in DOMAIN s : Ink(p) \/ (Ink(p - 1) /\ \E q \in p .. Len(s) : Ink(q))}
           Kept(n) == CHOOSE p \in kept : Cardinality({q \in kept : q < p}) = n - 1
           solid == {p \in DOMAIN line : line[p][2] \notin Blank}
<1>1. Len(line) \in Nat /\ DOMAIN line = 1 .. Len(line)
  OBVIOUS
<1>2. solid = {}
  <2> SUFFICES ASSUME solid # {} PROVE FALSE
    OBVIOUS
  <2> DEFINE first == CHOOSE p \in solid : \A q \in solid : p <= q
             size == Len(line)
             ink == SubSeq(line, first, size)
  <2>1. ink = <<>>
    BY DEF IsBlank, TrimLeft
  <2>2. \E p \in solid : \A q \in solid : p <= q
    <3>1. solid \subseteq Nat
      BY <1>1
    <3> HIDE DEF solid
    <3> QED
      BY <3>1, Least
  <2>3. first \in solid
    BY <2>2
  <2>4. first \in 1 .. size /\ size \in Nat
    BY <1>1, <2>3
  <2> HIDE DEF first, size
  <2>5. \A p \in first .. size : line[p] \in S
    BY <1>1, <2>4 DEF size
  <2>6. Len(ink) = size - first + 1
    BY <2>4, <2>5, SubSeqProperties
  <2> HIDE DEF ink
  <2> QED
    BY <2>1, <2>4, <2>6
<1>3. \A p : ~Ink(p)
  BY <1>2 DEF Symbols
<1>4. kept = {}
  BY <1>3
<1>5. Cardinality(kept) = 0
  BY <1>4, FS_EmptySet
<1>6. collapseWS(line) = [n \in 1 .. Cardinality(kept) |-> IF Ink(Kept(n)) THEN s[Kept(n)] ELSE " "]
  BY DEF collapseWS
<1> HIDE DEF kept, Ink, Kept, s
<1>7. collapseWS(line) = [n \in 1 .. 0 |-> IF Ink(Kept(n)) THEN s[Kept(n)] ELSE " "]
  BY <1>5, <1>6
<1>8. 1 .. 0 = {}
  OBVIOUS
<1>9. \A f : DOMAIN f = {} /\ f = [n \in {} |-> f[n]] => f = <<>>
  <2> SUFFICES ASSUME NEW f, DOMAIN f = {}, f = [n \in {} |-> f[n]] PROVE f = <<>>
    OBVIOUS
  <2>1. f \in [1 .. 0 -> {}]
    BY <1>8
  <2>2. f \in Seq({})
    BY <2>1, SeqDef
  <2>3. Len(f) = 0
    BY <1>8, <2>2
  <2> QED
    BY <2>2, <2>3, EmptySeq
<1> QED
  BY <1>7, <1>8, <1>9

\* The keys are equal if the symbols are.
LEMMA SameKey ==
    ASSUME NEW a, NEW b, Symbols(a) = Symbols(b)
    PROVE  collapseWS(a) = collapseWS(b)
  BY DEF collapseWS

\* A line copied from the template has the key of the line it comes from.
LEMMA OriginKey ==
    ASSUME tpl \in Templates, NEW line \in Seq(RealCell), NEW n \in Origins(line)
    PROVE  n \in DOMAIN SrcLines /\ Keys[n] = collapseWS(line)
<1> DEFINE lines == SrcLines
           l == lines[n]
<1>1. /\ n \in DOMAIN lines /\ line # <<>> /\ Len(l) = Len(line)
      /\ \A p \in DOMAIN line : l[p][1] = Literal /\ l[p][3] = line[p][3]
  BY DEF Origins
<1>2. l \in Seq(PlacedCell)
  <2> DEFINE T == Seq(PlacedCell)
  <2>1. lines \in Seq(T)
    BY SrcLinesType
  <2> HIDE DEF T, lines
  <2>2. l \in T
    BY <1>1, <2>1
  <2> QED
    BY <2>2 DEF T
<1> HIDE DEF l
<1>3. /\ DOMAIN l = DOMAIN line
      /\ \A p \in DOMAIN line : l[p] \in PlacedCell /\ line[p] \in RealCell
  <2>1. DOMAIN l = 1 .. Len(l) /\ \A p \in 1 .. Len(l) : l[p] \in PlacedCell
    BY <1>2
  <2>2. DOMAIN line = 1 .. Len(line) /\ \A p \in 1 .. Len(line) : line[p] \in RealCell
    OBVIOUS
  <2> QED
    BY <1>1, <2>1, <2>2
<1>4. ASSUME NEW p \in DOMAIN line
      PROVE  l[p][2] = line[p][2]
  <2> DEFINE b == l[p]
             c == line[p]
  <2>1. b \in PlacedCell /\ c \in RealCell /\ b[3] = c[3]
    BY <1>1, <1>3
  <2> HIDE DEF b, c
  <2>2. Placed(b) /\ Ran(c)
    BY <2>1 DEF PlacedCell, RealCell
  <2>3. b[2] = c[2]
    BY <2>1, <2>2, OneSymbol
  <2> QED
    BY <2>3 DEF b, c
<1>5. Symbols(l) = Symbols(line)
  BY <1>3, <1>4 DEF Symbols
<1>6. collapseWS(l) = collapseWS(line)
  BY <1>5, SameKey
<1> QED
  BY <1>1, <1>6 DEF Keys, l

\* A key that one line has, and the line.
LEMMA OneLine ==
    ASSUME NEW keys, NEW key, Cardinality(LinesIn(keys, key)) = 1,
           DOMAIN keys \subseteq Nat \ {0}, IsFiniteSet(DOMAIN keys)
    PROVE  \E n \in DOMAIN keys :
              /\ LinesIn(keys, key) = {n} /\ Min(LinesIn(keys, key)) = n
              /\ n # 0 /\ key # <<>> /\ keys[n] = key
<1> DEFINE S == LinesIn(keys, key)
<1>1. IsFiniteSet(S)
  <2>1. S \subseteq DOMAIN keys
    BY DEF LinesIn
  <2> QED
    BY <2>1, FS_Subset
<1>2. PICK n : S = {n}
  BY <1>1, FS_Singleton
<1>3. n \in DOMAIN keys /\ key # <<>> /\ keys[n] = key
  BY <1>2 DEF LinesIn
<1>4. Min(S) = n
  <2>1. n \in Nat
    BY <1>3
  <2>2. S \subseteq Nat /\ S # {}
    BY <1>2, <2>1
  <2> HIDE DEF S
  <2>3. Min(S) \in S
    BY <2>2, MinType
  <2> QED
    BY <1>2, <2>3
<1> QED
  BY <1>2, <1>3, <1>4

\* What MappedToOrigin says of one finding.
FoundRight(h, line) ==
    Copied(h) =>
        LET origins == UNION {Origins(l) : l \in {h.before[p] : p \in DOMAIN h.before}}
        IN  IF line = 0
            THEN \A n \in origins : index[n] = <<>> \/ Twin(n)
            ELSE line \in origins

LEMMA FoundIsRight ==
    ASSUME tpl \in Templates, index = Keys, NEW h, Replaces(h, RealCell)
    PROVE  FoundRight(h, MapIn(index, h))
<1> DEFINE before == h.before
           line == MapIn(index, h)
           origins == UNION {Origins(l) : l \in {before[p] : p \in DOMAIN before}}
           mapped == {m \in DOMAIN before : MapsIn(index, before[m])}
<1> SUFFICES ASSUME Copied(h)
             PROVE  IF line = 0 THEN \A n \in origins : index[n] = <<>> \/ Twin(n)
                    ELSE line \in origins
  BY DEF FoundRight
<1>1. /\ \A m \in DOMAIN before : before[m] \in Seq(RealCell)
      /\ DOMAIN before = 1 .. Len(before) /\ Len(before) \in Nat
  <2> DEFINE T == Seq(RealCell)
  <2>1. before \in Seq(T)
    BY DEF Replaces
  <2> HIDE DEF T, before
  <2>2. /\ \A m \in DOMAIN before : before[m] \in T
        /\ DOMAIN before = 1 .. Len(before) /\ Len(before) \in Nat
    BY <2>1
  <2> QED
    BY <2>2 DEF T
<1>2. DOMAIN index \subseteq Nat \ {0} /\ IsFiniteSet(DOMAIN index)
  <2> DEFINE lines == SrcLines
             T == Seq(PlacedCell)
  <2>1. DOMAIN index = DOMAIN lines
    BY DEF Keys
  <2>2. lines \in Seq(T)
    BY SrcLinesType
  <2> HIDE DEF lines, T
  <2>3. Len(lines) \in Nat /\ DOMAIN lines = 1 .. Len(lines)
    BY <2>2
  <2>4. IsFiniteSet(1 .. Len(lines))
    BY <2>3, FS_Interval
  <2> QED
    BY <2>1, <2>3, <2>4
<1>3. \A m \in DOMAIN before : \A n : n \in Origins(before[m]) =>
          n \in DOMAIN index /\ index[n] = collapseWS(before[m])
  <2> SUFFICES ASSUME NEW m \in DOMAIN before, NEW n, n \in Origins(before[m])
               PROVE  n \in DOMAIN index /\ index[n] = collapseWS(before[m])
    OBVIOUS
  <2> DEFINE l == before[m]
  <2>1. l \in Seq(RealCell) /\ n \in Origins(l)
    BY <1>1
  <2> HIDE DEF l
  <2>2. n \in DOMAIN SrcLines /\ Keys[n] = collapseWS(l)
    BY <2>1, OriginKey
  <2>3. DOMAIN Keys = DOMAIN SrcLines
    BY DEF Keys
  <2> QED
    BY <2>2, <2>3 DEF l
<1>4. line = IF mapped = {} THEN 0 ELSE Min(LinesIn(index, collapseWS(before[Min(mapped)])))
  BY DEF MapIn
<1>5. CASE mapped = {}
  <2> SUFFICES ASSUME NEW n \in origins PROVE index[n] = <<>> \/ Twin(n)
    BY <1>4, <1>5
  <2>1. PICK m \in DOMAIN before : n \in Origins(before[m])
    OBVIOUS
  <2> DEFINE key == collapseWS(before[m])
             S == LinesIn(index, key)
  <2>2. n \in DOMAIN index /\ index[n] = key
    BY <1>3, <2>1
  <2>3. Cardinality(S) # 1
    BY <1>5 DEF MapsIn
  <2> HIDE DEF key
  <2>4. CASE key = <<>>
    BY <2>2, <2>4
  <2>5. CASE key # <<>>
    <3>1. n \in S
      BY <2>2, <2>5 DEF LinesIn
    <3>2. S # {n}
      BY <2>3, FS_Singleton
    <3>3. PICK k \in S : k # n
      BY <3>1, <3>2
    <3>4. k \in DOMAIN index \ {n} /\ index[k] = index[n]
      BY <2>2, <3>3 DEF LinesIn
    <3> QED
      BY <3>4 DEF Twin
  <2> QED
    BY <2>4, <2>5
<1>6. CASE mapped # {}
  <2> DEFINE m == Min(mapped)
             key == collapseWS(before[m])
  <2>1. m \in mapped
    <3>1. mapped \subseteq Nat
      BY <1>1
    <3> HIDE DEF mapped
    <3> QED
      BY <1>6, <3>1, MinType
  <2>2. m \in DOMAIN before /\ Cardinality(LinesIn(index, key)) = 1
    BY <2>1 DEF MapsIn
  <2>3. line = Min(LinesIn(index, key))
    BY <1>4, <1>6
  <2> HIDE DEF m, line, mapped
  <2>4. PICK n \in DOMAIN index : /\ LinesIn(index, key) = {n} /\ Min(LinesIn(index, key)) = n
                                  /\ n # 0 /\ key # <<>> /\ index[n] = key
    BY <1>2, <2>2, OneLine
  <2>5. ~IsBlank(before[m])
    <3> DEFINE l == before[m]
    <3>1. l \in Seq(RealCell) /\ collapseWS(l) # <<>>
      BY <1>1, <2>2, <2>4
    <3> HIDE DEF l
    <3>2. ~IsBlank(l)
      BY <3>1, BlankKey
    <3> QED
      BY <3>2 DEF l
  <2>6. PICK o : o \in Origins(before[m])
    BY <2>2, <2>5 DEF Copied
  <2>7. o \in DOMAIN index /\ index[o] = key
    BY <1>3, <2>2, <2>6
  <2>8. o = n
    BY <2>4, <2>7 DEF LinesIn
  <2>9. n \in origins
    BY <2>2, <2>6, <2>8
  <2> HIDE DEF origins
  <2> QED
    BY <2>3, <2>4, <2>9
<1> QED
  BY <1>5, <1>6

\* A change to lines that were copied from the template is mapped to one of
\* them, and it is left unmapped only if each of them occurs twice.
THEOREM MapsToOrigins == Spec => []MappedToOrigin
<1>1. MappingInv => MappedToOrigin
  <2> SUFFICES ASSUME MappingInv, NEW f \in DOMAIN found
               PROVE  FoundRight(found[f].hunk, found[f].line)
    BY DEF MappedToOrigin, FoundRight
  <2>1. stage \in {"findings", "done"}
    <3>1. DOMAIN <<>> = {}
      OBVIOUS
    <3> QED
      BY <3>1 DEF MappingInv
  <2>2. tpl \in Templates /\ index = Keys
    BY <2>1 DEF MappingInv
  <2>3. Replaces(found[f].hunk, RealCell) /\ found[f].line = MapIn(index, found[f].hunk)
    BY DEF MappingInv, FoundBy
  <2> QED
    BY <2>2, <2>3, FoundIsRight
<1> QED
  BY <1>1, MappingHolds, PTL
----------------------------------------------------------------------------
(* The body that a finding names.                                         *)

\* The template, as one text, has at position i the cell that says i.
LEMMA SourceInPlace ==
    ASSUME tpl \in Templates
    PROVE  LET cells == FlattenSeq([m \in DOMAIN tpl |-> CellsOf(m, TopLevel)])
           IN  cells \in Seq(PlacedCell) /\ \A i \in DOMAIN cells : cells[i][3] = i
<1> DEFINE n == Len(tpl)
           parts == [m \in DOMAIN tpl |-> CellsOf(m, TopLevel)]
           cells == FlattenSeq(parts)
<1>1. n \in Nat /\ DOMAIN tpl = 1 .. n
      /\ \A m \in 1 .. n : Len(tpl[m].text) \in Nat /\ DOMAIN tpl[m].text = 1 .. Len(tpl[m].text)
  BY TemplateFacts
<1>2. TopLevel \in Enclosing
  BY DEF Enclosing
<1>3. \A m \in 1 .. n : parts[m] = CellsOf(m, TopLevel) /\ parts[m] \in Seq(PlacedCell)
  BY <1>1, <1>2, CellsPlaced
<1>4. parts \in Seq(Seq(PlacedCell)) /\ Len(parts) = n
  <2> DEFINE T == Seq(PlacedCell)
  <2> HIDE DEF T
  <2>1. parts \in [1 .. n -> T]
    BY <1>1, <1>3 DEF T
  <2> HIDE DEF parts
  <2>2. parts \in Seq(T) /\ DOMAIN parts = 1 .. n
    BY <1>1, <2>1, SeqDef
  <2>3. Len(parts) = n
    BY <1>1, <2>2, LenProperties
  <2> QED
    BY <2>2, <2>3 DEF T
<1>5. \A m \in 1 .. n : Len(parts[m]) = Len(tpl[m].text)
          /\ \A p \in 1 .. Len(tpl[m].text) : parts[m][p][3] = StartOf(m) + p - 1
  <2> SUFFICES ASSUME NEW m \in 1 .. n
               PROVE  /\ Len(parts[m]) = Len(tpl[m].text)
                      /\ \A p \in 1 .. Len(tpl[m].text) : parts[m][p][3] = StartOf(m) + p - 1
    OBVIOUS
  <2> DEFINE c == parts[m]
  <2>1. /\ c = [p \in 1 .. Len(tpl[m].text) |->
                   <<tpl[m].type, tpl[m].text[p], StartOf(m) + p - 1, TopLevel>>]
        /\ c \in Seq(PlacedCell) /\ Len(tpl[m].text) \in Nat
    BY <1>1, <1>3 DEF CellsOf
  <2> HIDE DEF c
  <2>2. Len(c) = Len(tpl[m].text)
    <3>1. DOMAIN c = 1 .. Len(tpl[m].text)
      BY <2>1
    <3> QED
      BY <2>1, <3>1, LenProperties
  <2>3. \A p \in 1 .. Len(tpl[m].text) : c[p][3] = StartOf(m) + p - 1
    BY <2>1
  <2> QED
    BY <2>2, <2>3 DEF c
<1> HIDE DEF parts
<1>6. cells \in Seq(PlacedCell)
  BY <1>4, FlattenIs
<1>7. CASE n = 0
  <2>1. parts = <<>>
    BY <1>4, <1>7
  <2>2. cells = parts
    BY <1>4, <1>7 DEF FlattenSeq
  <2> QED
    BY <1>6, <2>1, <2>2 DEF parts
<1>8. CASE n # 0
  <2>1. PICK h : /\ cells = h[n]
                 /\ \A i \in 1 .. n : h[i] = IF i = 1 THEN parts[i] ELSE h[i - 1] \o parts[i]
    <3>1. Len(parts) \in Nat \ {0}
      BY <1>1, <1>4, <1>8
    <3> QED
      BY <1>4, <3>1, FlattenParts
  <2> DEFINE Fits(i) == /\ h[i] \in Seq(PlacedCell)
                        /\ Len(h[i]) + 1 = StartOf(i) + Len(tpl[i].text)
                        /\ \A p \in 1 .. Len(h[i]) : h[i][p][3] = p
             bad == {i \in 1 .. n : ~Fits(i)}
  <2>2. bad = {}
    <3> SUFFICES ASSUME bad # {} PROVE FALSE
      OBVIOUS
    <3>1. PICK i \in bad : \A l \in bad : i <= l
      <4>1. bad \subseteq Nat
        BY <1>1
      <4> HIDE DEF bad
      <4> QED
        BY <4>1, Least
    <3>2. /\ i \in 1 .. n /\ i \in DOMAIN tpl /\ ~Fits(i) /\ Len(tpl[i].text) \in Nat
          /\ StartOf(i) \in Nat /\ StartOf(i) > 0
          /\ parts[i] \in Seq(PlacedCell) /\ Len(parts[i]) = Len(tpl[i].text)
          /\ \A p \in 1 .. Len(tpl[i].text) : parts[i][p][3] = StartOf(i) + p - 1
      BY <1>1, <1>3, <1>5, <3>1, StartType
    <3>3. CASE i = 1
      <4>1. h[i] = parts[i] /\ StartOf(i) = 1
        BY <2>1, <3>2, <3>3, StartFacts
      <4> HIDE DEF bad
      <4>2. \A p \in 1 .. Len(tpl[i].text) : h[i][p][3] = p
        BY <3>2, <4>1
      <4> QED
        BY <3>2, <4>1, <4>2
    <3>4. CASE i # 1
      <4> DEFINE l == i - 1
                 a == h[l]
                 b == parts[i]
                 c == a \o b
      <4>1. l \in 1 .. n /\ l < i /\ l \in DOMAIN tpl
        BY <1>1, <3>2, <3>4
      <4>2. h[i] = c /\ StartOf(i) = StartOf(l) + Len(tpl[l].text)
        BY <2>1, <3>2, <3>4, StartFacts
      <4> HIDE DEF l
      <4>3. Fits(l)
        <5>1. l \notin bad
          <6> HIDE DEF bad
          <6>1. i \in Nat /\ l \in Nat
            BY <1>1, <3>2, <4>1
          <6> QED
            BY <3>1, <4>1, <6>1
        <5> QED
          BY <4>1, <5>1
      <4>4. a \in Seq(PlacedCell) /\ b \in Seq(PlacedCell) /\ Len(a) + 1 = StartOf(i)
            /\ Len(b) = Len(tpl[i].text)
            /\ (\A p \in 1 .. Len(a) : a[p][3] = p)
            /\ \A p \in 1 .. Len(b) : b[p][3] = StartOf(i) + p - 1
        BY <3>2, <4>2, <4>3
      <4> HIDE DEF a, b, bad, Fits
      <4>5. c \in Seq(PlacedCell) /\ Len(c) = Len(a) + Len(b) /\ Len(a) \in Nat /\ Len(b) \in Nat
            /\ \A p \in 1 .. Len(a) + Len(b) : c[p] = IF p <= Len(a) THEN a[p] ELSE b[p - Len(a)]
        <5>1. c \in Seq(PlacedCell) /\ Len(c) = Len(a) + Len(b)
              /\ \A p \in 1 .. Len(a) + Len(b) : c[p] = IF p <= Len(a) THEN a[p] ELSE b[p - Len(a)]
          <6>1. a \in Seq(PlacedCell) /\ b \in Seq(PlacedCell)
            BY <4>4
          <6> QED
            BY <6>1, ConcatProperties
        <5>2. Len(a) \in Nat /\ Len(b) \in Nat
          BY <4>4, LenProperties
        <5> QED
          BY <5>1, <5>2
      <4> HIDE DEF c
      <4>6. Len(c) + 1 = StartOf(i) + Len(tpl[i].text)
        <5>1. \A x, y, z, s, t : x \in Nat /\ y \in Nat /\ s = x + 1 /\ t = y /\ z = x + y => z + 1 = s + t
          OBVIOUS
        <5>2. /\ Len(a) \in Nat /\ Len(b) \in Nat /\ StartOf(i) = Len(a) + 1
              /\ Len(tpl[i].text) = Len(b) /\ Len(c) = Len(a) + Len(b)
          BY <4>4, <4>5
        <5> QED
          BY <5>1, <5>2
      <4>7. ASSUME NEW p \in 1 .. Len(c) PROVE c[p][3] = p
        <5>1. CASE p <= Len(a)
          BY <4>4, <4>5, <5>1
        <5>2. CASE ~(p <= Len(a))
          <6>1. p - Len(a) \in 1 .. Len(b) /\ c[p] = b[p - Len(a)]
            BY <4>5, <5>2
          <6>2. c[p][3] = StartOf(i) + (p - Len(a)) - 1
            BY <4>4, <6>1
          <6> QED
            BY <4>4, <4>5, <6>2
        <5> QED
          BY <5>1, <5>2
      <4>8. Fits(i)
        BY <4>2, <4>5, <4>6, <4>7 DEF Fits
      <4> QED
        BY <3>2, <4>8
    <3> QED
      BY <3>3, <3>4
  <2>3. Fits(n)
    BY <1>1, <1>8, <2>2
  <2>4. \A i \in 1 .. Len(cells) : cells[i][3] = i
    BY <2>1, <2>3
  <2>5. DOMAIN cells = 1 .. Len(cells)
    BY <1>6
  <2> QED
    BY <1>6, <2>4, <2>5 DEF parts
<1> QED
  BY <1>1, <1>7, <1>8

\* A line's first cell is at the line's offset, in the template.
LEMMA OffsetIs ==
    ASSUME tpl \in Templates, NEW n \in DOMAIN SrcLines, SrcLines[n] # <<>>
    PROVE  SrcLines[n][1][3] = lineStartOffset(n)
<1> DEFINE cells == FlattenSeq([m \in DOMAIN tpl |-> CellsOf(m, TopLevel)])
           lines == SrcLines
           sizes == [m \in DOMAIN lines |-> Len(lines[m]) + 1]
           f == CHOOSE h : h = [m \in DOMAIN lines |->
                                   IF m = 1 THEN 1 ELSE h[m - 1] + Len(lines[m - 1]) + 1]
<1>1. cells \in Seq(PlacedCell) /\ \A i \in DOMAIN cells : cells[i][3] = i
  BY SourceInPlace
<1>2. lines = Lines(cells)
  BY DEF SrcLines
<1>3. lineStartOffset(n) = f[n]
  BY DEF lineStartOffset
<1>4. lines \in Seq(Seq(PlacedCell))
  BY SrcLinesType
<1> HIDE DEF cells, lines
<1>5. Len(lines) \in Nat /\ DOMAIN lines = 1 .. Len(lines)
      /\ \A m \in 1 .. Len(lines) : lines[m] \in Seq(PlacedCell)
  <2> DEFINE T == Seq(PlacedCell)
  <2>1. lines \in Seq(T)
    BY <1>4
  <2> HIDE DEF T
  <2>2. /\ Len(lines) \in Nat /\ DOMAIN lines = 1 .. Len(lines)
        /\ \A m \in 1 .. Len(lines) : lines[m] \in T
    BY <2>1
  <2> QED
    BY <2>2 DEF T
<1>6. PICK h : Starts(h, Len(lines), sizes)
  BY <1>5, StartsExist
<1>7. h = [m \in DOMAIN lines |-> IF m = 1 THEN 1 ELSE h[m - 1] + Len(lines[m - 1]) + 1]
  <2>a. h = [m \in DOMAIN lines |-> IF m = 1 THEN 1 ELSE h[m - 1] + sizes[m - 1]]
    BY <1>5, <1>6 DEF Starts
  <2>d. \A m \in DOMAIN lines : sizes[m] = Len(lines[m]) + 1 /\ sizes[m] \in Int
    BY <1>5
  <2> HIDE DEF sizes
  <2>b. \A m \in DOMAIN lines : h[m] = IF m = 1 THEN 1 ELSE h[m - 1] + sizes[m - 1]
    BY <2>a
  <2>c. \A m \in DOMAIN lines : Len(lines[m]) \in Nat
    BY <1>5
  <2> DEFINE bad == {m \in DOMAIN lines : h[m] \notin Int}
  <2>1. bad = {}
    <3> SUFFICES ASSUME bad # {} PROVE FALSE
      OBVIOUS
    <3>1. PICK m \in bad : \A l \in bad : m <= l
      <4>1. bad \subseteq Nat
        BY <1>5
      <4> HIDE DEF bad
      <4> QED
        BY <4>1, Least
    <3>2. m # 1
      BY <2>b, <3>1
    <3>3. m - 1 \in DOMAIN lines /\ m - 1 < m /\ m \in Int
      BY <1>5, <3>1, <3>2
    <3>4. h[m - 1] \in Int
      BY <3>1, <3>3
    <3> QED
      BY <2>b, <2>d, <3>1, <3>2, <3>3, <3>4
  <2>2. ASSUME NEW m \in DOMAIN lines, m # 1
        PROVE  h[m - 1] + sizes[m - 1] = h[m - 1] + Len(lines[m - 1]) + 1
    <3>1. m - 1 \in DOMAIN lines
      BY <1>5, <2>2
    <3>2. h[m - 1] \in Int /\ Len(lines[m - 1]) \in Nat
      BY <2>1, <2>c, <3>1
    <3> QED
      BY <2>d, <3>1, <3>2
  <2> QED
    BY <2>a, <2>2
<1>8. f = [m \in DOMAIN lines |-> IF m = 1 THEN 1 ELSE f[m - 1] + Len(lines[m - 1]) + 1]
  BY <1>7
<1> HIDE DEF f, sizes
<1>9. n \in DOMAIN lines /\ lines[n] # <<>>
  BY DEF lines
<1>10. /\ f[n] \in Nat \ {0}
       /\ \A p \in DOMAIN lines[n] : f[n] + p - 1 \in DOMAIN cells /\ lines[n][p] = cells[f[n] + p - 1]
  <2>1. \A m \in DOMAIN Lines(cells) :
           f[m] = IF m = 1 THEN 1 ELSE f[m - 1] + Len(Lines(cells)[m - 1]) + 1
    <3>1. \A m \in DOMAIN lines : f[m] = IF m = 1 THEN 1 ELSE f[m - 1] + Len(lines[m - 1]) + 1
      BY <1>8
    <3> QED
      BY <1>2, <3>1
  <2>2. n \in DOMAIN Lines(cells)
    BY <1>2, <1>9
  <2>4. cells \in Seq(PlacedCell)
    BY <1>1
  <2>3. /\ f[n] \in Nat \ {0}
        /\ \A p \in DOMAIN Lines(cells)[n] :
              f[n] + p - 1 \in DOMAIN cells /\ Lines(cells)[n][p] = cells[f[n] + p - 1]
    BY <2>1, <2>2, <2>4, LinesInPlace
  <2> QED
    BY <1>2, <2>3
<1>11. 1 \in DOMAIN lines[n]
  <2> DEFINE l == lines[n]
  <2>1. l \in Seq(PlacedCell) /\ l # <<>>
    BY <1>5, <1>9
  <2> HIDE DEF l
  <2>2. 1 \in DOMAIN l
    BY <2>1
  <2> QED
    BY <2>2 DEF l
<1>12. f[n] + 1 - 1 = f[n]
  BY <1>10
<1>13. lines[n][1][3] = f[n]
  BY <1>1, <1>10, <1>11, <1>12
<1> QED
  BY <1>3, <1>13 DEF lines

\* The keywords of the blocks s is in.
KeywordsOf(s) == [i \in 1 .. Len(s) |-> controlKeyword(tpl[s[i].open].text)]

KeywordSet == {controlKeyword(tpl[m].text) : m \in DOMAIN tpl}

LEMMA KeywordsFacts ==
    ASSUME tpl \in Templates, NEW p \in 0 .. Len(tpl), NEW s, Nests(s, p)
    PROVE  /\ KeywordsOf(s) \in Seq(KeywordSet) /\ Len(KeywordsOf(s)) = Len(s) /\ Len(s) \in Nat
           /\ \A i \in 1 .. Len(s) : s[i].open \in DOMAIN tpl
<1>1. /\ s \in Seq(Frame) /\ \A i \in 1 .. Len(s) : IsOpen(s[i].open, i, p)
  BY DEF Nests
<1>2. Len(s) \in Nat
  BY <1>1
<1>3. ASSUME NEW i \in 1 .. Len(s) PROVE s[i].open \in DOMAIN tpl
  <2> DEFINE k == s[i].open
  <2>1. IsOpen(k, i, p)
    BY <1>1
  <2> HIDE DEF k
  <2> QED
    BY <2>1, DepthFacts DEF IsOpen, k
<1> DEFINE w == KeywordsOf(s)
<1>4. w \in [1 .. Len(s) -> KeywordSet]
  BY <1>3 DEF KeywordsOf, KeywordSet
<1> HIDE DEF w
<1>5. w \in Seq(KeywordSet)
  BY <1>2, <1>4, SeqDef
<1>6. DOMAIN w = 1 .. Len(s)
  BY <1>4
<1>7. Len(w) = Len(s)
  BY <1>2, <1>5, <1>6, LenProperties
<1> QED
  BY <1>2, <1>3, <1>5, <1>7 DEF w

\* One more slice: openControlStack does what the nesting does.
LEMMA PushOrPopIs ==
    ASSUME tpl \in Templates, NEW q \in 1 .. Len(tpl), NEW s, Nests(s, q - 1)
    PROVE  \E t : Nests(t, q) /\ PushOrPop(KeywordsOf(s), tpl[q]) = KeywordsOf(t)
<1>1. /\ Len(tpl) \in Nat /\ q \in Nat /\ q - 1 \in 0 .. Len(tpl) /\ q \in 0 .. Len(tpl)
      /\ q \in q .. Len(tpl) /\ q \in q - 1 .. Len(tpl) /\ q \in DOMAIN tpl
      /\ (\A p \in q .. q : p = q) /\ (\A p \in q - 1 .. q : p = q \/ p = q - 1)
      /\ Depth(tpl, q) \in Nat /\ Depth(tpl, q - 1) \in Nat
  BY DepthFacts, DepthSteps
<1>2. /\ KeywordsOf(s) \in Seq(KeywordSet) /\ Len(KeywordsOf(s)) = Len(s) /\ Len(s) \in Nat
      /\ s \in Seq(Frame) /\ \A i \in 1 .. Len(s) : s[i].open \in DOMAIN tpl
  BY <1>1, KeywordsFacts DEF Nests
<1>3. BlockOpen # BlockClose
  BY DEF BlockOpen, BlockClose
<1> DEFINE w == KeywordsOf(s)
<1> HIDE DEF BlockOpen, BlockClose
<1>4. CASE tpl[q].type = BlockOpen
  <2> DEFINE f == [open |-> q, round |-> 0]
             t == Append(s, f)
             key == controlKeyword(tpl[q].text)
  <2>1. Nests(t, q)
    <3>1. \A p \in q .. q : Depth(tpl, p) >= Depth(tpl, q)
      BY <1>1
    <3>2. 0 \in Nat
      OBVIOUS
    <3> QED
      BY <1>1, <1>4, <3>1, <3>2, NestsIn
  <2>2. PushOrPop(w, tpl[q]) = Append(w, key)
    BY <1>3, <1>4 DEF PushOrPop
  <2>3. f \in Frame /\ f.open = q
    BY <1>1 DEF Frame
  <2> HIDE DEF f
  <2>4. /\ t \in Seq(Frame) /\ Len(t) = Len(s) + 1 /\ t[Len(s) + 1] = f
        /\ \A i \in 1 .. Len(s) : t[i] = s[i]
    BY <1>2, <2>3, AppendProperties
  <2>5. key \in KeywordSet
    BY <1>1 DEF KeywordSet
  <2> HIDE DEF key, t
  <2>6. w = [i \in 1 .. Len(s) |-> controlKeyword(tpl[s[i].open].text)]
    BY DEF KeywordsOf
  <2>7. Append(w, key) = KeywordsOf(t)
    <3> DEFINE u == Append(w, key)
               v == KeywordsOf(t)
    <3> HIDE DEF w
    <3>1. u \in Seq(KeywordSet) /\ Len(u) = Len(s) + 1 /\ u[Len(s) + 1] = key
          /\ \A i \in 1 .. Len(s) : u[i] = w[i]
      BY <1>2, <2>5, AppendProperties DEF w
    <3>2. v = [i \in 1 .. Len(s) + 1 |-> controlKeyword(tpl[t[i].open].text)]
      BY <2>4 DEF KeywordsOf
    <3> HIDE DEF u, v
    <3>3. DOMAIN u = 1 .. Len(s) + 1 /\ u = [i \in DOMAIN u |-> u[i]]
      BY <1>2, <3>1
    <3>4. ASSUME NEW i \in 1 .. Len(s) + 1 PROVE u[i] = v[i]
      <4>1. CASE i = Len(s) + 1
        BY <2>3, <2>4, <3>1, <3>2, <4>1 DEF key
      <4>2. CASE i # Len(s) + 1
        <5>1. i \in 1 .. Len(s)
          BY <1>2, <4>2
        <5> QED
          BY <2>4, <2>6, <3>1, <3>2, <5>1
      <4> QED
        BY <4>1, <4>2
    <3>5. v = [i \in 1 .. Len(s) + 1 |-> v[i]]
      BY <3>2
    <3>6. u = v
      BY <3>3, <3>4, <3>5
    <3> QED
      BY <3>6 DEF u, v
  <2> QED
    BY <2>1, <2>2, <2>7
<1>5. CASE tpl[q].type = BlockClose
  <2> DEFINE t == Front(s)
             n == Len(s) - 1
  <2>1. s # <<>> /\ Nests(t, q)
    BY <1>5, NestsOut
  <2>2. Len(s) # 0 /\ n \in Nat /\ n + 1 = Len(s)
    BY <1>2, <2>1
  <2>3. w # <<>>
    <3>1. Len(w) # 0
      BY <1>2, <2>2
    <3> HIDE DEF w
    <3> QED
      BY <3>1
  <2>4. PushOrPop(w, tpl[q]) = Front(w)
    BY <1>3, <1>5, <2>3 DEF PushOrPop
  <2>5. Front(w) = KeywordsOf(t)
    <3> DEFINE u == Front(w)
               v == KeywordsOf(t)
    <3>1. w = [i \in 1 .. Len(s) |-> controlKeyword(tpl[s[i].open].text)]
      BY DEF KeywordsOf
    <3>2. w \in Seq(KeywordSet) /\ Len(w) = Len(s)
      BY <1>2
    <3> HIDE DEF w, n
    <3>3. /\ t = SubSeq(s, 1, n) /\ u = SubSeq(w, 1, n)
      BY <3>2 DEF Front, n
    <3>4. /\ n \in Int /\ (\A i \in 1 .. n : s[i] \in Frame /\ w[i] \in KeywordSet /\ i \in 1 .. Len(s))
          /\ \A i \in 1 .. n : i \in 1 .. n - 1 + 1 /\ 1 + i - 1 = i
      BY <1>2, <2>2, <3>2
    <3> HIDE DEF t, u
    <3>5. /\ SubSeq(s, 1, n) \in Seq(Frame)
          /\ Len(SubSeq(s, 1, n)) = IF 1 <= n THEN n - 1 + 1 ELSE 0
          /\ \A i \in 1 .. n - 1 + 1 : SubSeq(s, 1, n)[i] = s[1 + i - 1]
      BY <3>4, SubSeqProperties
    <3>6. /\ SubSeq(w, 1, n) \in Seq(KeywordSet)
          /\ Len(SubSeq(w, 1, n)) = IF 1 <= n THEN n - 1 + 1 ELSE 0
          /\ \A i \in 1 .. n - 1 + 1 : SubSeq(w, 1, n)[i] = w[1 + i - 1]
      BY <3>4, SubSeqProperties
    <3>7. Len(t) = n /\ \A i \in 1 .. n : t[i] = s[i]
      BY <2>2, <3>3, <3>4, <3>5
    <3>8. u \in Seq(KeywordSet) /\ Len(u) = n /\ \A i \in 1 .. n : u[i] = w[i]
      BY <2>2, <3>3, <3>4, <3>6
    <3>9. v = [i \in 1 .. n |-> controlKeyword(tpl[t[i].open].text)]
      BY <3>7 DEF KeywordsOf
    <3> HIDE DEF v
    <3>10. DOMAIN u = 1 .. n /\ u = [i \in DOMAIN u |-> u[i]]
      BY <2>2, <3>8
    <3>11. \A i \in 1 .. n : u[i] = v[i]
      BY <3>1, <3>4, <3>7, <3>8, <3>9
    <3>12. v = [i \in 1 .. n |-> v[i]]
      BY <3>9
    <3>13. u = v
      BY <3>10, <3>11, <3>12
    <3> QED
      BY <3>13 DEF u, v
  <2> QED
    BY <2>1, <2>4, <2>5
<1>6. CASE tpl[q].type \notin {BlockOpen, BlockClose}
  <2>1. Depth(tpl, q) = Depth(tpl, q - 1)
    BY <1>6, DepthFacts
  <2>2. Nests(s, q)
    <3>1. \A p \in q - 1 .. q : Depth(tpl, p) >= Depth(tpl, q - 1)
      BY <1>1, <2>1
    <3> QED
      BY <1>1, <2>1, <3>1, NestsOn
  <2>3. PushOrPop(w, tpl[q]) = w
    BY <1>6 DEF PushOrPop
  <2> QED
    BY <2>2, <2>3
<1> QED
  BY <1>4, <1>5, <1>6

\* openControlStack is the recursive function it is written as.
LEMMA StackFolds ==
    ASSUME tpl \in Templates, NEW offset
    PROVE  \E f : /\ openControlStack(offset) = f[Len(tpl)] /\ f[0] = <<>>
                  /\ \A q \in 1 .. Len(tpl) :
                        f[q] = IF StartOf(q) < offset THEN PushOrPop(f[q - 1], tpl[q])
                               ELSE f[q - 1]
<1> DEFINE n == Len(tpl)
           S == Seq(KeywordSet)
           step == [q \in 1 .. n |-> [v \in S |->
                       IF StartOf(q) < offset THEN PushOrPop(v, tpl[q]) ELSE v]]
           g == CHOOSE h : h = [m \in 0 .. n |->
                   IF m = 0 THEN <<>>
                   ELSE IF StartOf(m) < offset THEN PushOrPop(h[m - 1], tpl[m]) ELSE h[m - 1]]
<1>1. n \in Nat /\ DOMAIN tpl = 1 .. n
  BY TemplateFacts
<1>2. openControlStack(offset) = g[n]
  BY DEF openControlStack
<1>3. ASSUME NEW q \in 1 .. n, NEW v \in S PROVE step[q][v] \in S
  <2>1. controlKeyword(tpl[q].text) \in KeywordSet
    BY <1>1 DEF KeywordSet
  <2>2. Append(v, controlKeyword(tpl[q].text)) \in S
    BY <2>1, AppendProperties
  <2>3. v # <<>> => Front(v) \in S
    <3> DEFINE l == Len(v) - 1
    <3> SUFFICES ASSUME v # <<>> PROVE Front(v) \in S
      OBVIOUS
    <3>1. l \in Int /\ \A i \in 1 .. l : v[i] \in KeywordSet
      OBVIOUS
    <3>2. SubSeq(v, 1, l) \in S
      BY <3>1, SubSeqProperties
    <3> QED
      BY <3>2 DEF Front
  <2>4. PushOrPop(v, tpl[q]) \in S
    <3> HIDE DEF BlockOpen, BlockClose, S
    <3> QED
      BY <2>2, <2>3 DEF PushOrPop
  <2>5. step[q][v] = IF StartOf(q) < offset THEN PushOrPop(v, tpl[q]) ELSE v
    OBVIOUS
  <2> QED
    BY <2>4, <2>5
<1>4. <<>> \in S
  OBVIOUS
<1> HIDE DEF S
<1>5. PICK f : FoldsTo(f, n, <<>>, step) /\ f \in [0 .. n -> S]
  <2>1. \A q \in 1 .. n : \A v \in S : step[q][v] \in S
    BY <1>3
  <2> HIDE DEF step, n
  <2> QED
    BY <1>1, <1>4, <2>1, FoldExists
<1>6. ASSUME NEW m \in 0 .. n
      PROVE  f[m] = IF m = 0 THEN <<>>
                    ELSE IF StartOf(m) < offset THEN PushOrPop(f[m - 1], tpl[m]) ELSE f[m - 1]
  <2>1. f[m] = IF m = 0 THEN <<>> ELSE step[m][f[m - 1]]
    BY <1>5 DEF FoldsTo
  <2>2. CASE m = 0
    BY <2>1, <2>2
  <2>3. CASE m # 0
    <3>1. m \in 1 .. n /\ m - 1 \in 0 .. n
      BY <1>1, <2>3
    <3>2. f[m - 1] \in S
      BY <1>5, <3>1
    <3>3. step[m][f[m - 1]] =
              IF StartOf(m) < offset THEN PushOrPop(f[m - 1], tpl[m]) ELSE f[m - 1]
      BY <3>1, <3>2
    <3> QED
      BY <2>1, <2>3, <3>3
  <2> QED
    BY <2>2, <2>3
<1>7. f = [m \in 0 .. n |->
              IF m = 0 THEN <<>>
              ELSE IF StartOf(m) < offset THEN PushOrPop(f[m - 1], tpl[m]) ELSE f[m - 1]]
  <2>1. f = [m \in 0 .. n |-> f[m]]
    BY <1>5
  <2> QED
    BY <1>6, <2>1
<1>8. g = [m \in 0 .. n |->
              IF m = 0 THEN <<>>
              ELSE IF StartOf(m) < offset THEN PushOrPop(g[m - 1], tpl[m]) ELSE g[m - 1]]
  BY <1>7
<1> HIDE DEF g
<1>9. ASSUME NEW q \in 1 .. n
      PROVE  g[q] = IF StartOf(q) < offset THEN PushOrPop(g[q - 1], tpl[q]) ELSE g[q - 1]
  <2>1. q \in 0 .. n /\ q # 0
    BY <1>1
  <2> QED
    BY <1>8, <2>1
<1>10. g[0] = <<>>
  <2>1. 0 \in 0 .. n
    BY <1>1
  <2> QED
    BY <1>8, <2>1
<1> QED
  BY <1>2, <1>9, <1>10

\* The stack before slice k + 1 holds the keywords of the blocks open there.
LEMMA StackIs ==
    ASSUME tpl \in Templates, NEW offset, NEW k \in 0 .. Len(tpl),
           \A m \in 1 .. Len(tpl) : StartOf(m) < offset <=> m <= k
    PROVE  \E s : Nests(s, k) /\ openControlStack(offset) = KeywordsOf(s)
<1> DEFINE n == Len(tpl)
           To(q) == IF q <= k THEN q ELSE k
<1>1. n \in Nat /\ k \in Nat /\ k <= n /\ Depth(tpl, 0) = 0
  BY DepthFacts
<1>2. PICK f : /\ openControlStack(offset) = f[n] /\ f[0] = <<>>
               /\ \A q \in 1 .. n :
                     f[q] = IF StartOf(q) < offset THEN PushOrPop(f[q - 1], tpl[q]) ELSE f[q - 1]
  BY StackFolds
<1> DEFINE Is(q) == \E s : Nests(s, To(q)) /\ f[q] = KeywordsOf(s)
           bad == {q \in 0 .. n : ~Is(q)}
<1>3. bad = {}
  <2> SUFFICES ASSUME bad # {} PROVE FALSE
    OBVIOUS
  <2>1. PICK q \in bad : \A l \in bad : q <= l
    <3>1. bad \subseteq Nat
      BY <1>1
    <3> HIDE DEF bad
    <3> QED
      BY <3>1, Least
  <2>2. q \in 0 .. n /\ ~Is(q)
    BY <2>1
  <2>3. q # 0
    <3> SUFFICES ASSUME q = 0 PROVE Is(0)
      BY <2>2
    <3>1. Nests(<<>>, 0)
      BY <1>1 DEF Nests
    <3>2. KeywordsOf(<<>>) = <<>> /\ To(0) = 0
      BY <1>1 DEF KeywordsOf
    <3> QED
      BY <1>2, <3>1, <3>2
  <2>4. q \in 1 .. n /\ q - 1 \in 0 .. n /\ q - 1 < q
    BY <1>1, <2>2, <2>3
  <2>5. Is(q - 1)
    <3>1. q - 1 \notin bad
      <4> HIDE DEF bad
      <4>1. q \in Nat
        BY <1>1, <2>4
      <4> QED
        BY <2>1, <2>4, <4>1
    <3> QED
      BY <2>4, <3>1
  <2>6. PICK s : Nests(s, To(q - 1)) /\ f[q - 1] = KeywordsOf(s)
    BY <2>5
  <2>7. CASE q <= k
    <3>1. To(q - 1) = q - 1 /\ To(q) = q
      BY <1>1, <2>4, <2>7
    <3>2. f[q] = PushOrPop(KeywordsOf(s), tpl[q])
      BY <1>2, <2>4, <2>6, <2>7
    <3>3. Nests(s, q - 1)
      BY <2>6, <3>1
    <3>4. \E t : Nests(t, q) /\ PushOrPop(KeywordsOf(s), tpl[q]) = KeywordsOf(t)
      BY <2>4, <3>3, PushOrPopIs
    <3> QED
      BY <2>2, <3>1, <3>2, <3>4
  <2>8. CASE ~(q <= k)
    <3>1. To(q - 1) = k /\ To(q) = k
      BY <1>1, <2>4, <2>8
    <3>2. f[q] = f[q - 1]
      BY <1>2, <2>4, <2>8
    <3> QED
      BY <2>2, <2>6, <3>1, <3>2
  <2> QED
    BY <2>7, <2>8
<1>4. Is(n) /\ To(n) = k
  <2>1. n \in 0 .. n
    BY <1>1
  <2> QED
    BY <1>1, <1>3, <2>1
<1> QED
  BY <1>2, <1>4

\* One body is behind a slice.
LEMMA OneBody ==
    ASSUME tpl \in Templates, NEW p \in 0 .. Len(tpl), NEW a, NEW b, IsBody(p, a), IsBody(p, b)
    PROVE  a = b
<1> DEFINE i == Depth(tpl, p)
<1>1. i \in Nat
  BY DepthFacts
<1> HIDE DEF i
<1>2. CASE i = 0
  BY <1>2 DEF IsBody, i
<1>3. CASE i # 0
  <2>1. PICK x : IsOpen(x, i, p) /\ a = enclosingFor(Keyword(x))
    BY <1>3 DEF IsBody, i
  <2>2. PICK y : IsOpen(y, i, p) /\ b = enclosingFor(Keyword(y))
    BY <1>3 DEF IsBody, i
  <2>3. x = y
    <3>1. i \in Nat /\ i <= i
      BY <1>1
    <3>2. IsOpen(x, i, p) /\ IsOpen(y, i, p)
      BY <2>1, <2>2
    <3>3. x <= y
      BY <3>1, <3>2, OneOpen, Zenon
    <3>4. y <= x
      BY <3>1, <3>2, OneOpen, Zenon
    <3>5. x \in Nat /\ y \in Nat
      BY <3>2 DEF IsOpen
    <3> QED
      BY <3>3, <3>4, <3>5
  <2> QED
    BY <2>1, <2>2, <2>3
<1> QED
  BY <1>2, <1>3

\* A literal is in the body that is behind the slice before it.
LEMMA BodyOn ==
    ASSUME tpl \in Templates, NEW m \in 1 .. Len(tpl), tpl[m].type = Literal,
           NEW e, IsBody(m - 1, e)
    PROVE  IsBody(m, e)
<1>1. Literal \notin {BlockOpen, BlockClose}
  BY DEF Literal, BlockOpen, BlockClose
<1>2. /\ Depth(tpl, m) = Depth(tpl, m - 1) /\ Depth(tpl, m) \in Nat
      /\ m - 1 \in 0 .. Len(tpl) /\ m \in 0 .. Len(tpl)
  <2> HIDE DEF Literal, BlockOpen, BlockClose
  <2>1. tpl[m].type \notin {BlockOpen, BlockClose}
    BY <1>1
  <2>2. Depth(tpl, m) = Depth(tpl, m - 1)
    BY <2>1, DepthFacts
  <2>3. m \in 0 .. Len(tpl)
    BY DepthFacts
  <2> QED
    BY <2>2, <2>3, DepthSteps
<1>3. CASE Depth(tpl, m) = 0
  BY <1>2, <1>3 DEF IsBody
<1>4. CASE Depth(tpl, m) # 0
  <2> DEFINE i == Depth(tpl, m)
  <2>1. PICK k : IsOpen(k, i, m - 1) /\ e = enclosingFor(Keyword(k))
    BY <1>2, <1>4 DEF IsBody
  <2>2. k \in Nat /\ k <= m
    BY <1>2, <2>1 DEF IsOpen
  <2>3. \A q \in k .. m : q > m - 1 => Depth(tpl, q) >= i
    <3>1. \A q \in k .. m : q > m - 1 => q = m
      BY <2>2
    <3> QED
      BY <1>2, <3>1
  <2>4. IsOpen(k, i, m)
    BY <1>2, <2>1, <2>2, <2>3, OpenOn
  <2> QED
    BY <1>4, <2>1, <2>4 DEF IsBody
<1> QED
  BY <1>3, <1>4

\* What enclosingAt says is the body behind the slices before the line's offset.
LEMMA StackBody ==
    ASSUME tpl \in Templates, tiles, SpacedByBlanks, NEW n, NEW k \in 0 .. Len(tpl),
           \A m \in 1 .. Len(tpl) : StartOf(m) < lineStartOffset(n) <=> m <= k
    PROVE  IsBody(k, enclosingAt(n))
<1> DEFINE stack == openControlStack(lineStartOffset(n))
<1>1. PICK s : Nests(s, k) /\ stack = KeywordsOf(s)
  <2> DEFINE offset == lineStartOffset(n)
  <2>1. \A m \in 1 .. Len(tpl) : StartOf(m) < offset <=> m <= k
    OBVIOUS
  <2> HIDE DEF offset
  <2>2. \E s : Nests(s, k) /\ openControlStack(offset) = KeywordsOf(s)
    BY <2>1, StackIs
  <2> QED
    BY <2>2 DEF offset
<1>2. /\ stack \in Seq(KeywordSet) /\ Len(stack) = Len(s) /\ Len(s) \in Nat
      /\ \A i \in 1 .. Len(s) : s[i].open \in DOMAIN tpl
  BY <1>1, KeywordsFacts
<1>3. Len(s) = Depth(tpl, k) /\ \A i \in 1 .. Len(s) : IsOpen(s[i].open, i, k)
  BY <1>1 DEF Nests
<1>4. enclosingAt(n) = IF stack = <<>> THEN TopLevel ELSE enclosingFor(Last(stack))
  BY DEF enclosingAt
<1> HIDE DEF stack
<1>5. CASE Len(s) = 0
  <2>1. stack = <<>>
    BY <1>2, <1>5
  <2> QED
    BY <1>3, <1>4, <1>5, <2>1 DEF IsBody
<1>6. CASE Len(s) # 0
  <2> DEFINE top == s[Len(s)].open
  <2>1. Len(s) \in 1 .. Len(s)
    BY <1>2, <1>6
  <2>2. stack # <<>> /\ Last(stack) = stack[Len(s)]
    BY <1>2, <1>6 DEF Last
  <2>3. stack[Len(s)] = controlKeyword(tpl[top].text)
    BY <1>1, <2>1 DEF KeywordsOf
  <2>4. IsOpen(top, Depth(tpl, k), k) /\ top \in DOMAIN tpl /\ tpl[top].type = BlockOpen
    BY <1>2, <1>3, <2>1 DEF IsOpen
  <2>5. controlKeyword(tpl[top].text) = Keyword(top)
    BY <2>4 DEF SpacedByBlanks
  <2> HIDE DEF top
  <2>6. enclosingAt(n) = enclosingFor(Keyword(top))
    BY <1>4, <2>2, <2>3, <2>5
  <2> QED
    BY <1>3, <1>6, <2>4, <2>6 DEF IsBody
<1> QED
  BY <1>5, <1>6

\* A slice is not empty.
LEMMA SliceSolid ==
    ASSUME tpl \in Templates, NEW m \in DOMAIN tpl
    PROVE  Len(tpl[m].text) \in Nat \ {0}
<1> DEFINE t == tpl[m].text
<1>1. tpl[m] \in Slice
  BY TemplateFacts
<1>2. t \in Seq(STRING) /\ t # <<>>
  BY <1>1 DEF Slice
<1> HIDE DEF t
<1>3. Len(t) \in Nat \ {0}
  BY <1>2
<1> QED
  BY <1>3 DEF t

\* The slices that start before position p of slice m.
LEMMA StartsBefore ==
    ASSUME tpl \in Templates, NEW m \in DOMAIN tpl, NEW p \in DOMAIN tpl[m].text,
           NEW j \in DOMAIN tpl
    PROVE  StartOf(j) < StartOf(m) + p - 1 <=> j <= (IF p = 1 THEN m - 1 ELSE m)
<1>1. /\ m \in Nat /\ j \in Nat /\ p \in Nat /\ p > 0 /\ p <= Len(tpl[m].text)
      /\ Len(tpl[m].text) \in Nat /\ Len(tpl[j].text) \in Nat \ {0}
      /\ StartOf(m) \in Nat /\ StartOf(j) \in Nat
  <2>1. m \in Nat /\ j \in Nat /\ Len(tpl[m].text) \in Nat /\ p \in 1 .. Len(tpl[m].text)
    BY TemplateFacts
  <2>2. StartOf(m) \in Nat /\ StartOf(j) \in Nat /\ Len(tpl[j].text) \in Nat \ {0}
    BY StartType, SliceSolid
  <2> QED
    BY <2>1, <2>2
<1>2. CASE j < m
  <2>1. StartOf(j) + Len(tpl[j].text) <= StartOf(m)
    BY <1>2, StartsApart
  <2> QED
    BY <1>1, <1>2, <2>1
<1>3. CASE j = m
  BY <1>1, <1>3
<1>4. CASE j > m
  <2>1. StartOf(m) + Len(tpl[m].text) <= StartOf(j)
    BY <1>1, <1>4, StartsApart
  <2> QED
    BY <1>1, <1>4, <2>1
<1> QED
  BY <1>1, <1>2, <1>3, <1>4

\* A line that was written whole from template line n ran in the body that
\* enclosingAt finds there.
LEMMA EnclosedIs ==
    ASSUME tpl \in Templates, tiles, SpacedByBlanks, NEW line \in Seq(RealCell),
           NEW n \in Origins(line)
    PROVE  enclosingAt(n) = line[1][4]
<1> DEFINE source == SrcLines[n]
           b == source[1]
           c == line[1]
<1>1. /\ n \in DOMAIN SrcLines /\ line # <<>> /\ Len(source) = Len(line)
      /\ \A p \in DOMAIN line : source[p][1] = Literal /\ source[p][3] = line[p][3]
  BY DEF Origins
<1>2. 1 \in DOMAIN line /\ c \in RealCell /\ Len(line) # 0 /\ DOMAIN line = 1 .. Len(line)
  BY <1>1
<1>3. source \in Seq(PlacedCell)
  <2> DEFINE T == Seq(PlacedCell)
  <2>1. SrcLines \in Seq(T)
    BY SrcLinesType
  <2> HIDE DEF T
  <2>2. source \in T
    BY <1>1, <2>1
  <2> QED
    BY <2>2 DEF T
<1>4. /\ b[1] = Literal /\ b[3] = c[3]
  BY <1>1, <1>2
<1>5. source # <<>> /\ b \in PlacedCell
  <2> HIDE DEF source, b
  <2>1. source # <<>>
    BY <1>1, <1>2, <1>3
  <2>2. 1 \in DOMAIN source
    BY <1>3, <2>1
  <2> QED
    BY <1>3, <2>1, <2>2 DEF b
<1>6. lineStartOffset(n) = b[3]
  BY <1>1, <1>5, OffsetIs
<1> HIDE DEF b, c, source
<1>7. Placed(b) /\ b[3] # 0
  BY <1>5 DEF PlacedCell
<1>8. Ran(c)
  BY <1>2, <1>4, <1>7 DEF RealCell
<1>9. PICK m \in DOMAIN tpl : \E p \in DOMAIN tpl[m].text : PlaceOf(b, m, p)
  BY <1>7 DEF Placed
<1>10. PICK p \in DOMAIN tpl[m].text : PlaceOf(b, m, p)
  BY <1>9
<1>11. PICK l \in DOMAIN tpl :
          \E q \in DOMAIN tpl[l].text : PlaceOf(c, l, q) /\ IsBody(l - 1, c[4])
  BY <1>8 DEF Ran
<1>12. m = l
  BY <1>4, <1>10, <1>11, OnePlace
<1>13. IsBody(m - 1, c[4])
  BY <1>11, <1>12
<1>14. tpl[m].type = Literal /\ lineStartOffset(n) = StartOf(m) + p - 1
  BY <1>4, <1>6, <1>10 DEF PlaceOf
<1> DEFINE k == IF p = 1 THEN m - 1 ELSE m
<1>15. m \in 1 .. Len(tpl) /\ Len(tpl) \in Nat /\ k \in 0 .. Len(tpl)
  BY TemplateFacts
<1>16. \A j \in 1 .. Len(tpl) : StartOf(j) < lineStartOffset(n) <=> j <= k
  <2>1. DOMAIN tpl = 1 .. Len(tpl)
    BY TemplateFacts
  <2> QED
    BY <1>14, <2>1, StartsBefore
<1>17. IsBody(k, c[4])
  <2> HIDE DEF Literal
  <2>1. CASE p = 1
    BY <1>13, <2>1
  <2>2. CASE p # 1
    BY <1>13, <1>14, <1>15, <2>2, BodyOn
  <2> QED
    BY <2>1, <2>2
<1> HIDE DEF k
<1>18. IsBody(k, enclosingAt(n))
  BY <1>15, <1>16, StackBody
<1>19. enclosingAt(n) = c[4]
  BY <1>15, <1>17, <1>18, OneBody
<1> QED
  BY <1>19 DEF c

\* A finding has what enclosingAt says of its line.
EnclosingInv ==
    \A f \in DOMAIN found :
        found[f].line # 0 => found[f].enclosing = enclosingAt(found[f].line)

LEMMA SameEnclosing ==
    ASSUME UNCHANGED <<tpl, tiles>>, NEW CONSTANT n
    PROVE  enclosingAt(n)' = enclosingAt(n)
<1>1. tpl' = tpl /\ tiles' = tiles
  OBVIOUS
<1>2. SrcLines' = SrcLines
  BY <1>1 DEF SrcLines, CellsOf, StartOf
<1>3. lineStartOffset(n)' = lineStartOffset(n)
  BY <1>2 DEF lineStartOffset
<1>4. openControlStack(lineStartOffset(n))' = openControlStack(lineStartOffset(n))
  BY <1>1, <1>3 DEF openControlStack, StartOf
<1> QED
  BY <1>1, <1>4 DEF enclosingAt

LEMMA FoundEnclosing == MappingInv /\ EnclosingInv /\ MapHunk => EnclosingInv'
<1> SUFFICES ASSUME MappingInv, EnclosingInv, MapHunk PROVE EnclosingInv'
  OBVIOUS
<1> DEFINE h == hunks[Len(found) + 1]
           n == mapHunk(h)
           e == [hunk |-> h, line |-> n, enclosing |-> IF n = 0 THEN TopLevel ELSE enclosingAt(n)]
           more == Append(found, e)
<1>1. found' = more /\ UNCHANGED <<tpl, tiles>>
  BY DEF MapHunk
<1>2. IsSeq(found)
  BY DEF MappingInv, FoundBy
<1>3. e.line # 0 => e.enclosing = enclosingAt(e.line)
  OBVIOUS
<1> HIDE DEF e
<1>4. \A p \in DOMAIN more : (p \in DOMAIN found /\ more[p] = found[p]) \/ more[p] = e
  BY <1>2, AppendIs
<1> HIDE DEF more
<1>5. \A f \in DOMAIN more : more[f].line # 0 => more[f].enclosing = enclosingAt(more[f].line)
  BY <1>3, <1>4 DEF EnclosingInv
<1>6. \A m : enclosingAt(m)' = enclosingAt(m)
  BY <1>1, SameEnclosing
<1> QED
  BY <1>1, <1>5, <1>6 DEF EnclosingInv

LEMMA RestEnclosing == MappingInv /\ EnclosingInv /\ [Next]_vars /\ ~MapHunk => EnclosingInv'
<1> SUFFICES ASSUME MappingInv, EnclosingInv, [Next]_vars, ~MapHunk PROVE EnclosingInv'
  OBVIOUS
<1>1. found' = found
  BY DEF Next, Execute, WriteText, WriteData, WriteNothing, ExecuteFails, Enter, PassBy, Else, Leave,
         Again, Move, Written, FormatRejects, Format, RangeLine, HeaderLine, RemovedLine, AddedLine,
         OtherLine, HunksDone, Report, Step, vars, findVars
<1>2. CASE HunksDone
  <2>1. found = <<>>
    BY <1>2 DEF HunksDone, MappingInv
  <2>2. DOMAIN <<>> = {}
    OBVIOUS
  <2> QED
    BY <1>1, <2>1, <2>2 DEF EnclosingInv
<1>3. CASE ~HunksDone
  <2>1. UNCHANGED <<tpl, tiles>>
    BY <1>3 DEF Next, Execute, WriteText, WriteData, WriteNothing, ExecuteFails, Enter, PassBy, Else,
                Leave, Again, Move, Written, FormatRejects, Format, RangeLine, HeaderLine,
                RemovedLine, AddedLine, OtherLine, Report, Step, vars, findVars
  <2>2. \A m : enclosingAt(m)' = enclosingAt(m)
    BY <2>1, SameEnclosing
  <2> QED
    BY <1>1, <2>2 DEF EnclosingInv
<1> QED
  BY <1>2, <1>3

\* Every finding says of its line what enclosingAt finds there, whatever is found
\* after it.
THEOREM EnclosingHolds == Spec => []EnclosingInv
<1>1. Init => EnclosingInv
  BY DEF Init, EnclosingInv
<1>2. MappingInv /\ EnclosingInv /\ [Next]_vars => EnclosingInv'
  BY FoundEnclosing, RestEnclosing
<1> QED
  BY <1>1, <1>2, MappingHolds, PTL DEF Spec

\* A mapped line is said to be in a loop or under a condition exactly if the
\* body it was executed in is one, whatever blocks were opened, closed, passed by
\* or run again before it.
THEOREM EnclosedHolds == Spec => []EnclosedAsExecuted
<1>1. MappingInv /\ EnclosingInv => EnclosedAsExecuted
  <2> SUFFICES ASSUME MappingInv, EnclosingInv, tiles, SpacedByBlanks,
                      NEW f \in DOMAIN found, NEW p \in DOMAIN found[f].hunk.before,
                      found[f].line # 0, Origins(found[f].hunk.before[p]) = {found[f].line}
               PROVE  found[f].enclosing = found[f].hunk.before[p][1][4]
    BY DEF EnclosedAsExecuted
  <2> DEFINE line == found[f].hunk.before[p]
             n == found[f].line
             T == Seq(RealCell)
  <2>1. tpl \in Templates
    BY DEF MappingInv
  <2>2. line \in Seq(RealCell)
    <3>1. found[f].hunk.before \in Seq(T)
      BY DEF MappingInv, FoundBy, Replaces
    <3> DEFINE before == found[f].hunk.before
    <3> HIDE DEF T, before
    <3>2. before[p] \in T
      BY <3>1 DEF before
    <3> QED
      BY <3>2 DEF T, before
  <2>3. n \in Origins(line) /\ found[f].enclosing = enclosingAt(n)
    BY DEF EnclosingInv
  <2> HIDE DEF line, n
  <2>4. enclosingAt(n) = line[1][4]
    BY <2>1, <2>2, <2>3, EnclosedIs
  <2> QED
    BY <2>3, <2>4 DEF line
<1> QED
  BY <1>1, EnclosingHolds, MappingHolds, PTL
----------------------------------------------------------------------------
(* unifiedHunks.                                                           *)

\* What unifiedHunks makes of a line of the diff: the open hunk, the old line
\* and the hunks before and after it.
Hunk(line, before, after) == [line |-> line, before |-> before, after |-> after]
OpenHunk(c, line) == IF c = <<>> THEN Hunk(line, <<>>, <<>>) ELSE c[1]

Removing(h, l) == [h EXCEPT !.before = Append(@, l)]
Adding(h, l)   == [h EXCEPT !.after = Append(@, l)]

LikeHeader(e) ==
    \/ e.mark \in {"---", "+++"}
    \/ e.mark = "-" /\ Begins(e.line, "--")
    \/ e.mark = "+" /\ Begins(e.line, "++")

Fed(s, e) ==
    IF e.mark = "@@" THEN <<<<>>, e.start, s[3] \o s[1]>>
    ELSE IF LikeHeader(e) THEN s
    ELSE IF e.mark = "-"
         THEN << <<Removing(OpenHunk(s[1], s[2]), e.line)>>, s[2] + 1, s[3]>>
    ELSE IF e.mark = "+"
         THEN << <<Adding(OpenHunk(s[1], s[2]), e.line)>>, s[2], s[3]>>
    ELSE <<<<>>, s[2] + 1, s[3] \o s[1]>>

\* h goes through the lines t one by one, from a to b.
Through(h, a, t, b) ==
    /\ h[1] = a /\ h[Len(t) + 1] = b
    /\ \A p \in DOMAIN t : h[p + 1] = Fed(h[p], t[p])

Leads(a, t, b) == IsSeq(t) /\ \E h : Through(h, a, t, b)

\* No line, one line, and one piece of a diff behind another.
LEMMA LeadsNowhere == ASSUME NEW a PROVE Leads(a, <<>>, a)
<1> DEFINE h == [p \in {1} |-> a]
<1>1. Len(<<>>) + 1 = 1 /\ DOMAIN <<>> = {} /\ h[1] = a
  OBVIOUS
<1> HIDE DEF h
<1>2. Through(h, a, <<>>, a)
  BY <1>1 DEF Through
<1> QED
  BY <1>2, EmptyIs DEF Leads

LEMMA LeadsOnce == ASSUME NEW a, NEW e PROVE Leads(a, <<e>>, Fed(a, e))
<1> DEFINE h == [p \in {1, 2} |-> IF p = 1 THEN a ELSE Fed(a, e)]
           one == <<e>>
           b == Fed(a, e)
<1>1. one \in Seq({e}) /\ Len(one) = 1 /\ DOMAIN one = {1} /\ one[1] = e
  OBVIOUS
<1>2. h[1] = a /\ h[2] = b
  OBVIOUS
<1> HIDE DEF h, one
<1>3. Through(h, a, one, b)
  BY <1>1, <1>2 DEF Through
<1>4. IsSeq(one)
  BY <1>1, SeqIs
<1> QED
  BY <1>3, <1>4 DEF Leads, one

LEMMA LeadsOn ==
    ASSUME NEW a, NEW b, NEW c, NEW s, NEW t, Leads(a, s, b), Leads(b, t, c)
    PROVE  Leads(a, s \o t, c)
<1> DEFINE u == s \o t
           n == Len(s)
           l == Len(t)
<1>1. PICK f : Through(f, a, s, b)
  BY DEF Leads
<1>2. PICK g : Through(g, b, t, c)
  BY DEF Leads
<1>3. IsSeq(s) /\ IsSeq(t)
  BY DEF Leads
<1>4. /\ n \in Nat /\ l \in Nat /\ DOMAIN s = 1 .. n /\ DOMAIN t = 1 .. l
  BY <1>3, SeqFacts
<1>5. /\ IsSeq(u) /\ Len(u) = n + l /\ DOMAIN u = 1 .. n + l
      /\ \A p \in 1 .. n + l : u[p] = IF p <= n THEN s[p] ELSE t[p - n]
  <2> DEFINE S == {s[p] : p \in DOMAIN s}
             T == {t[p] : p \in DOMAIN t}
             U == S \cup T
  <2>1. s \in Seq(S) /\ t \in Seq(T)
    BY <1>3 DEF IsSeq
  <2> HIDE DEF S, T
  <2>2. s \in Seq(U) /\ t \in Seq(U)
    BY <2>1, SeqMonotonic
  <2> HIDE DEF U
  <2>3. /\ u \in Seq(U) /\ Len(u) = n + l
        /\ \A p \in 1 .. n + l : u[p] = IF p <= n THEN s[p] ELSE t[p - n]
    BY <2>2, ConcatProperties
  <2> HIDE DEF u
  <2>4. DOMAIN u = 1 .. n + l
    BY <2>3, LenProperties
  <2> QED
    BY <2>3, <2>4, SeqIs
<1> DEFINE h == [p \in 1 .. n + l + 1 |-> IF p <= n + 1 THEN f[p] ELSE g[p - n]]
<1> HIDE DEF u, n, l
<1>6. \A p \in 1 .. n + 1 : h[p] = f[p]
  BY <1>4
<1>7. \A p \in 1 .. l + 1 : h[n + p] = g[p]
  <2> SUFFICES ASSUME NEW p \in 1 .. l + 1 PROVE h[n + p] = g[p]
    OBVIOUS
  <2>1. CASE p = 1
    <3>1. h[n + 1] = f[n + 1]
      BY <1>4
    <3>2. f[n + 1] = b /\ g[1] = b
      BY <1>1, <1>2 DEF Through, n
    <3> QED
      BY <2>1, <3>1, <3>2
  <2>2. CASE p # 1
    <3> DEFINE q == n + p
    <3>1. q \in 1 .. n + l + 1 /\ ~(q <= n + 1) /\ q - n = p
      BY <1>4, <2>2
    <3> HIDE DEF q
    <3>2. h[q] = g[q - n]
      BY <3>1
    <3> QED
      BY <3>1, <3>2 DEF q
  <2> QED
    BY <2>1, <2>2
<1>8. h[1] = a /\ h[n + l + 1] = c
  <2>1. h[1] = f[1] /\ h[n + (l + 1)] = g[l + 1] /\ n + (l + 1) = n + l + 1
    BY <1>4, <1>6, <1>7
  <2> QED
    BY <1>1, <1>2, <2>1 DEF Through, l
<1>9. ASSUME NEW p \in 1 .. n + l PROVE h[p + 1] = Fed(h[p], u[p])
  <2>1. CASE p <= n
    <3>1. p \in DOMAIN s /\ h[p] = f[p] /\ h[p + 1] = f[p + 1] /\ u[p] = s[p]
      BY <1>4, <1>5, <1>6, <2>1
    <3> QED
      BY <1>1, <3>1 DEF Through
  <2>2. CASE ~(p <= n)
    <3> DEFINE q == p - n
    <3>1. q \in 1 .. l /\ n + q = p /\ n + (q + 1) = p + 1 /\ q + 1 \in 1 .. l + 1
          /\ q \in 1 .. l + 1
      BY <1>4, <2>2
    <3>2. u[p] = t[q]
      BY <1>5, <2>2
    <3> HIDE DEF q, h
    <3>3. h[p] = g[q] /\ h[p + 1] = g[q + 1] /\ q \in DOMAIN t
      BY <1>4, <1>7, <3>1
    <3> QED
      BY <1>2, <3>2, <3>3 DEF Through
  <2> QED
    BY <2>1, <2>2
<1> HIDE DEF h
<1>10. Through(h, a, u, c)
  BY <1>5, <1>8, <1>9 DEF Through
<1> QED
  BY <1>5, <1>10 DEF Leads, u

\* Lines with one mark: f is what there is before each of them.
LEMMA LeadsMarked ==
    ASSUME NEW mark, NEW lines, NEW from \in Int, NEW to \in Int, from <= to + 1, NEW f,
           \A q \in from .. to : f[q + 1] = Fed(f[q], DiffLine(mark, lines[q], 0))
    PROVE  Leads(f[from], Marked(mark, lines, from, to), f[to + 1])
<1> DEFINE size == to - from + 1
           t == Marked(mark, lines, from, to)
           h == [p \in 1 .. size + 1 |-> f[from + p - 1]]
           a == f[from]
           b == f[to + 1]
<1>1. t = [p \in 1 .. size |-> DiffLine(mark, lines[from + p - 1], 0)]
  BY DEF Marked
<1>2. size \in Nat /\ from + size = to + 1
  OBVIOUS
<1> HIDE DEF t
<1>3. IsSeq(t) /\ DOMAIN t = 1 .. size
  <2>1. t = [p \in 1 .. size |-> t[p]]
    BY <1>1
  <2> HIDE DEF size
  <2> QED
    BY <1>2, <2>1, FunctionIs
<1>4. Len(t) = size
  <2>1. Len(t) \in Nat /\ DOMAIN t = 1 .. Len(t)
    BY <1>3, SeqFacts
  <2> HIDE DEF size
  <2> QED
    BY <1>2, <1>3, <2>1
<1>5. h[1] = a /\ h[size + 1] = b
  <2>1. 1 \in 1 .. size + 1 /\ size + 1 \in 1 .. size + 1 /\ from + 1 - 1 = from
        /\ from + (size + 1) - 1 = to + 1
    BY <1>2
  <2> QED
    BY <2>1
<1>6. ASSUME NEW p \in 1 .. size PROVE h[p + 1] = Fed(h[p], t[p])
  <2> DEFINE q == from + p - 1
  <2>1. q \in from .. to /\ q + 1 = from + (p + 1) - 1 /\ p \in 1 .. size + 1 /\ p + 1 \in 1 .. size + 1
    BY <1>2
  <2>2. h[p] = f[q] /\ h[p + 1] = f[from + (p + 1) - 1]
    BY <2>1
  <2>3. t[p] = DiffLine(mark, lines[q], 0)
    BY <1>1
  <2> HIDE DEF q, h
  <2> QED
    BY <2>1, <2>2, <2>3
<1> HIDE DEF h, size
<1>7. Through(h, a, t, b)
  BY <1>3, <1>4, <1>5, <1>6 DEF Through
<1> QED
  BY <1>3, <1>7 DEF Leads, t

\* Context closes the open hunk; where there is none nothing may be open.
LEMMA LeadsContext ==
    ASSUME NEW lines, NEW from \in Int, NEW to \in Int, from <= to + 1,
           NEW c, NEW hs, IsSeq(hs), IsSeq(c), from <= to \/ c = <<>>
    PROVE  Leads(<<c, from, hs>>, Marked(" ", lines, from, to), <<<<>>, to + 1, hs \o c>>)
<1> DEFINE all == hs \o c
           f == [q \in from .. to + 1 |-> IF q = from THEN <<c, from, hs>> ELSE <<<<>>, q, all>>]
<1>1. \A h : IsSeq(h) => h \o <<>> = h
  BY ConcatEmptySeq DEF IsSeq
<1>2. IsSeq(all)
  BY ConcatIs
<1>3. ASSUME NEW q \in from .. to
      PROVE  f[q + 1] = Fed(f[q], DiffLine(" ", lines[q], 0))
  <2> DEFINE e == DiffLine(" ", lines[q], 0)
             s == f[q]
  <2>1. f[q + 1] = <<<<>>, q + 1, all>>
    <3>1. q + 1 \in from .. to + 1 /\ q + 1 # from
      OBVIOUS
    <3> QED
      BY <3>1
  <2>2. e.mark = " "
    BY DEF DiffLine
  <2>3. s[2] = q /\ s[3] \o s[1] = all
    <3>1. CASE q = from
      BY <3>1
    <3>2. CASE q # from
      <4>1. s = <<<<>>, q, all>>
        BY <3>2
      <4> HIDE DEF s, all
      <4> QED
        BY <1>1, <1>2, <4>1
    <3> QED
      BY <3>1, <3>2
  <2> HIDE DEF f, e, s, all
  <2>4. Fed(s, e) = <<<<>>, s[2] + 1, s[3] \o s[1]>>
    BY <2>2 DEF Fed, LikeHeader
  <2>5. f[q + 1] = Fed(s, e)
    BY <2>1, <2>3, <2>4
  <2> QED
    BY <2>5 DEF s, e
<1>4. f[from] = <<c, from, hs>>
  <2>1. from \in from .. to + 1
    OBVIOUS
  <2> QED
    BY <2>1
<1>5. f[to + 1] = <<<<>>, to + 1, all>>
  <2>1. CASE from = to + 1
    <3>1. c = <<>>
      BY <2>1
    <3>2. all = hs
      BY <1>1, <3>1
    <3> HIDE DEF all
    <3> QED
      BY <1>4, <2>1, <3>1, <3>2
  <2>2. CASE from # to + 1
    <3>1. to + 1 \in from .. to + 1
      OBVIOUS
    <3> HIDE DEF all
    <3> QED
      BY <2>2, <3>1
  <2> QED
    BY <2>1, <2>2
<1> HIDE DEF f
<1>6. Leads(f[from], Marked(" ", lines, from, to), f[to + 1])
  BY <1>3, LeadsMarked
<1> QED
  BY <1>4, <1>5, <1>6

\* A part of a sequence, and one element more.
LEMMA PartGrows ==
    ASSUME NEW S, NEW s \in Seq(S), NEW from \in Nat \ {0}, NEW q \in Nat, from <= q, q <= Len(s)
    PROVE  Append(SubSeq(s, from, q - 1), s[q]) = SubSeq(s, from, q)
<1> DEFINE part == SubSeq(s, from, q - 1)
           whole == SubSeq(s, from, q)
<1>1. from \in 1 .. Len(s) /\ q \in from .. Len(s)
  OBVIOUS
<1>2. whole = part \o <<s[q]>>
  BY <1>1, SubSeqRecursiveSecond
<1>3. s[q] \in S
  BY <1>1
<1>4. part \in Seq(S)
  <2>1. \A p \in from .. q - 1 : s[p] \in S
    BY <1>1
  <2>2. q - 1 \in Int
    OBVIOUS
  <2> QED
    BY <2>1, <2>2, SubSeqProperties
<1> HIDE DEF part, whole
<1>5. Append(part, s[q]) = part \o <<s[q]>>
  BY <1>3, <1>4, AppendIsConcat
<1>6. Append(part, s[q]) = whole
  BY <1>2, <1>5
<1> QED
  BY <1>6 DEF part, whole

\* A hunk with one line more.
LEMMA MoreRemoved ==
    ASSUME NEW line, NEW before, NEW after, NEW l
    PROVE  Removing(Hunk(line, before, after), l) = Hunk(line, Append(before, l), after)
  BY DEF Removing, Hunk

LEMMA MoreAdded ==
    ASSUME NEW line, NEW before, NEW after, NEW l
    PROVE  Adding(Hunk(line, before, after), l) = Hunk(line, before, Append(after, l))
  BY DEF Adding, Hunk

\* Removed lines open a hunk and are what it replaces.
LEMMA LeadsRemoved ==
    ASSUME NEW lines, IsSeq(lines), NEW from \in Nat \ {0}, NEW to \in Nat,
           from <= to, to <= Len(lines), NEW hs,
           \A q \in from .. to : ~Begins(lines[q], "--")
    PROVE  Leads(<<<<>>, from, hs>>, Marked("-", lines, from, to),
                 << <<Hunk(from, SubSeq(lines, from, to), <<>>)>>,
                    to + 1, hs>>)
<1> DEFINE H(q) == Hunk(from, SubSeq(lines, from, q - 1), <<>>)
           f == [q \in from .. to + 1 |-> IF q = from THEN <<<<>>, from, hs>> ELSE << <<H(q)>>, q, hs>>]
<1>1. ASSUME NEW q \in from .. to PROVE Append(SubSeq(lines, from, q - 1), lines[q]) = SubSeq(lines, from, q)
  <2> DEFINE S == {lines[p] : p \in DOMAIN lines}
  <2>1. lines \in Seq(S)
    BY DEF IsSeq
  <2> HIDE DEF S
  <2>2. q \in Nat /\ from <= q /\ q <= Len(lines)
    BY SeqFacts
  <2> QED
    BY <2>1, <2>2, PartGrows
<1>2. ASSUME NEW q \in from .. to
      PROVE  f[q + 1] = Fed(f[q], DiffLine("-", lines[q], 0))
  <2> DEFINE e == DiffLine("-", lines[q], 0)
             s == f[q]
             g == OpenHunk(s[1], s[2])
             x == Removing(g, lines[q])
  <2>1. f[q + 1] = << <<H(q + 1)>>, q + 1, hs>>
    <3>1. q + 1 \in from .. to + 1 /\ q + 1 # from
      OBVIOUS
    <3> HIDE DEF H
    <3> QED
      BY <3>1
  <2>2. e.mark = "-" /\ e.line = lines[q]
    BY DEF DiffLine
  <2>3. s[2] = q /\ s[3] = hs /\ g = H(q)
    <3>1. CASE q = from
      <4>1. s = <<<<>>, from, hs>>
        BY <3>1
      <4>2. SubSeq(lines, from, q - 1) = <<>>
        BY <3>1, SubSeqEmpty
      <4>3. H(q) = Hunk(from, <<>>, <<>>)
        BY <4>2, Zenon
      <4> HIDE DEF s, H
      <4> QED
        BY <3>1, <4>1, <4>3 DEF OpenHunk
    <3>2. CASE q # from
      <4> HIDE DEF H
      <4>1. s = << <<H(q)>>, q, hs>>
        BY <3>2
      <4> HIDE DEF s
      <4> QED
        BY <4>1 DEF OpenHunk
    <3> QED
      BY <3>1, <3>2
  <2>4. q + 1 - 1 = q
    OBVIOUS
  <2>5. x = H(q + 1)
    <3> DEFINE part == SubSeq(lines, from, q - 1)
               l == lines[q]
    <3>1. Removing(Hunk(from, part, <<>>), l) = Hunk(from, Append(part, l), <<>>)
      BY MoreRemoved
    <3>2. Append(part, l) = SubSeq(lines, from, q + 1 - 1)
      BY <1>1, <2>4
    <3>3. g = Hunk(from, part, <<>>)
      BY <2>3
    <3> HIDE DEF g, part, l
    <3> QED
      BY <3>1, <3>2, <3>3 DEF l
  <2> HIDE DEF f, e, s, H
  <2>6. Fed(s, e) = << <<x>>, s[2] + 1, s[3]>>
    BY <2>2 DEF Fed, LikeHeader
  <2> HIDE DEF x
  <2>7. f[q + 1] = Fed(s, e)
    BY <2>1, <2>3, <2>5, <2>6
  <2> QED
    BY <2>7 DEF s, e
<1>3. f[from] = <<<<>>, from, hs>>
  <2>1. from \in from .. to + 1
    OBVIOUS
  <2> QED
    BY <2>1
<1>4. f[to + 1] = << <<Hunk(from, SubSeq(lines, from, to), <<>>)>>, to + 1, hs>>
  <2>1. to + 1 \in from .. to + 1 /\ to + 1 # from /\ to + 1 - 1 = to
    OBVIOUS
  <2>2. H(to + 1) = Hunk(from, SubSeq(lines, from, to), <<>>)
    BY <2>1
  <2> HIDE DEF H
  <2> QED
    BY <2>1, <2>2
<1> HIDE DEF f
<1>5. Leads(f[from], Marked("-", lines, from, to), f[to + 1])
  BY <1>2, LeadsMarked
<1> QED
  BY <1>3, <1>4, <1>5

\* Added lines are what the open hunk puts in their place, or open one.
LEMMA LeadsAdded ==
    ASSUME NEW added, IsSeq(added), added # <<>>, NEW c, NEW old, NEW hs, NEW before,
           NEW line,
           OpenHunk(c, old) = Hunk(line, before, <<>>),
           \A q \in DOMAIN added : ~Begins(added[q], "++")
    PROVE  Leads(<<c, old, hs>>, Marked("+", added, 1, Len(added)),
                 << <<Hunk(line, before, added)>>, old, hs>>)
<1> DEFINE to == Len(added)
           H(q) == Hunk(line, before, SubSeq(added, 1, q - 1))
           f == [q \in 1 .. to + 1 |-> IF q = 1 THEN <<c, old, hs>> ELSE << <<H(q)>>, old, hs>>]
<1>0. to \in Nat /\ to > 0 /\ DOMAIN added = 1 .. to
  <2> DEFINE S == {added[p] : p \in DOMAIN added}
  <2>1. added \in Seq(S)
    BY DEF IsSeq
  <2> HIDE DEF S
  <2> QED
    BY <2>1, EmptySeq
<1> HIDE DEF to
<1>1. ASSUME NEW q \in 1 .. to PROVE Append(SubSeq(added, 1, q - 1), added[q]) = SubSeq(added, 1, q)
  <2> DEFINE S == {added[p] : p \in DOMAIN added}
  <2>1. added \in Seq(S)
    BY DEF IsSeq
  <2> HIDE DEF S
  <2>2. q \in Nat /\ 1 <= q /\ q <= Len(added) /\ 1 \in Nat \ {0}
    BY <1>0 DEF to
  <2> QED
    BY <2>1, <2>2, PartGrows
<1>2. ASSUME NEW q \in 1 .. to
      PROVE  f[q + 1] = Fed(f[q], DiffLine("+", added[q], 0))
  <2> DEFINE e == DiffLine("+", added[q], 0)
             s == f[q]
             g == OpenHunk(s[1], s[2])
             x == Adding(g, added[q])
  <2>1. f[q + 1] = << <<H(q + 1)>>, old, hs>>
    <3>1. q + 1 \in 1 .. to + 1 /\ q + 1 # 1
      BY <1>0
    <3> HIDE DEF H
    <3> QED
      BY <3>1
  <2>2. e.mark = "+" /\ e.line = added[q]
    BY DEF DiffLine
  <2>3. s[2] = old /\ s[3] = hs /\ g = H(q)
    <3>1. CASE q = 1
      <4>1. s = <<c, old, hs>>
        BY <1>0, <3>1
      <4>2. SubSeq(added, 1, q - 1) = <<>>
        BY <3>1, SubSeqEmpty
      <4>3. H(q) = Hunk(line, before, <<>>)
        BY <4>2, Zenon
      <4> HIDE DEF s, H
      <4> QED
        BY <3>1, <4>1, <4>3
    <3>2. CASE q # 1
      <4> HIDE DEF H
      <4>1. s = << <<H(q)>>, old, hs>>
        BY <1>0, <3>2
      <4> HIDE DEF s
      <4> QED
        BY <4>1 DEF OpenHunk
    <3> QED
      BY <3>1, <3>2
  <2>4. q + 1 - 1 = q
    BY <1>0
  <2>5. x = H(q + 1)
    <3> DEFINE part == SubSeq(added, 1, q - 1)
               l == added[q]
    <3>1. Adding(Hunk(line, before, part), l) = Hunk(line, before, Append(part, l))
      BY MoreAdded
    <3>2. Append(part, l) = SubSeq(added, 1, q + 1 - 1)
      BY <1>1, <2>4
    <3>3. g = Hunk(line, before, part)
      BY <2>3
    <3> HIDE DEF g, part, l
    <3> QED
      BY <3>1, <3>2, <3>3 DEF l
  <2>6. ~LikeHeader(e)
    <3> HIDE DEF e
    <3> QED
      BY <1>0, <2>2 DEF LikeHeader
  <2> HIDE DEF f, e, s, H
  <2>7. Fed(s, e) = << <<x>>, s[2], s[3]>>
    BY <2>2, <2>6 DEF Fed
  <2> HIDE DEF x
  <2>8. f[q + 1] = Fed(s, e)
    BY <2>1, <2>3, <2>5, <2>7
  <2> QED
    BY <2>8 DEF s, e
<1>3. f[1] = <<c, old, hs>>
  <2>1. 1 \in 1 .. to + 1
    BY <1>0
  <2> QED
    BY <2>1
<1>4. f[to + 1] = << <<Hunk(line, before, added)>>, old, hs>>
  <2>1. to + 1 \in 1 .. to + 1 /\ to + 1 # 1 /\ to + 1 - 1 = to
    BY <1>0
  <2>2. SubSeq(added, 1, to) = added
    <3> DEFINE S == {added[p] : p \in DOMAIN added}
    <3>1. added \in Seq(S)
      BY DEF IsSeq
    <3> HIDE DEF S
    <3> QED
      BY <3>1, SubSeqFull DEF to
  <2>3. H(to + 1) = Hunk(line, before, added)
    <3>1. (to + 1) - 1 = to
      BY <1>0
    <3> QED
      BY <2>2, <3>1, Zenon
  <2> HIDE DEF H
  <2> QED
    BY <2>1, <2>3
<1> HIDE DEF f
<1>5. Leads(f[1], Marked("+", added, 1, to), f[to + 1])
  BY <1>0, <1>2, LeadsMarked
<1> QED
  BY <1>3, <1>4, <1>5 DEF to
----------------------------------------------------------------------------
(* What the diff leads to.                                                 *)

\* What is told of change m, of all up to it, and what unifiedHunks has behind it.
ToldOf(lines, script, m) ==
    Hunk(script[m].from, SubSeq(lines, script[m].from, script[m].to), script[m].added)

ToldTo(lines, script, m) == [k \in 1 .. m |-> ToldOf(lines, script, k)]

OpenAt(lines, script, m) == IF m = 0 THEN <<>> ELSE <<ToldOf(lines, script, m)>>

StateAt(lines, script, m) ==
    <<OpenAt(lines, script, m), EndOf(script, m) + 1, ToldTo(lines, script, m - 1)>>

\* No line that is removed or added is taken for a header.
Plain(lines, script) ==
    \A m \in DOMAIN script :
        /\ \A p \in script[m].from .. script[m].to : ~Begins(lines[p], "--")
        /\ \A p \in DOMAIN script[m].added : ~Begins(script[m].added[p], "++")

\* With the hunk that is open, one change more is told.
LEMMA ToldGrows ==
    ASSUME NEW lines, NEW script, NEW m \in Nat
    PROVE  /\ IsSeq(ToldTo(lines, script, m - 1)) /\ IsSeq(OpenAt(lines, script, m))
           /\ ToldTo(lines, script, m - 1) \o OpenAt(lines, script, m) = ToldTo(lines, script, m)
<1> DEFINE T(k) == ToldOf(lines, script, k)
           old == ToldTo(lines, script, m - 1)
           all == ToldTo(lines, script, m)
           c == OpenAt(lines, script, m)
<1> HIDE DEF T
<1>1. ASSUME NEW n \in Int
      PROVE  LET s == ToldTo(lines, script, n)
             IN  IsSeq(s) /\ DOMAIN s = 1 .. n /\ \A k \in 1 .. n : s[k] = T(k)
  <2> DEFINE s == ToldTo(lines, script, n)
  <2>1. s = [k \in 1 .. n |-> T(k)]
    BY DEF ToldTo, T
  <2> HIDE DEF s
  <2>2. s = [k \in 1 .. n |-> s[k]]
    BY <2>1
  <2>3. IsSeq(s) /\ DOMAIN s = 1 .. n
    BY <2>2, FunctionIs
  <2> QED
    BY <2>1, <2>3 DEF s
<1>2. IsSeq(old) /\ DOMAIN old = 1 .. m - 1 /\ \A k \in 1 .. m - 1 : old[k] = T(k)
  <2>1. m - 1 \in Int
    OBVIOUS
  <2> QED
    BY <1>1, <2>1
<1>3. IsSeq(all) /\ DOMAIN all = 1 .. m /\ \A k \in 1 .. m : all[k] = T(k)
  BY <1>1
<1>4. CASE m = 0
  <2>1. c = <<>>
    BY <1>4 DEF OpenAt
  <2> HIDE DEF old, all, c
  <2>2. Len(old) = 0 /\ Len(all) = 0
    BY <1>2, <1>3, <1>4, SeqFacts
  <2>3. old = <<>> /\ all = <<>>
    BY <1>2, <1>3, <2>2, EmptySeq DEF IsSeq
  <2>4. <<>> \o <<>> = <<>>
    OBVIOUS
  <2> QED
    BY <1>2, <2>1, <2>3, <2>4, EmptyIs DEF old, all, c
<1>5. CASE m # 0
  <2> DEFINE S == {T(k) : k \in 1 .. m}
             n == m - 1
  <2>0. n \in Nat /\ n + 1 = m
    BY <1>5
  <2>1. c = <<T(m)>>
    BY <1>5 DEF OpenAt, T
  <2>2. T(m) \in S
    BY <1>5
  <2>3. \A k \in 1 .. m : T(k) \in S
    OBVIOUS
  <2> HIDE DEF old, all, c, S, n
  <2>4. Len(old) = n /\ Len(all) = m
    <3>1. /\ Len(old) \in Nat /\ DOMAIN old = 1 .. Len(old)
          /\ Len(all) \in Nat /\ DOMAIN all = 1 .. Len(all)
      BY <1>2, <1>3, SeqFacts
    <3> QED
      BY <1>2, <1>3, <2>0, <3>1 DEF n
  <2>5. old \in Seq(S) /\ all \in Seq(S)
    <3>1. \A k \in 1 .. n : old[k] \in S
      BY <1>2, <2>0, <2>3 DEF n
    <3>2. \A k \in 1 .. m : all[k] \in S
      BY <1>3, <2>3
    <3> DEFINE O == {old[k] : k \in DOMAIN old}
               A == {all[k] : k \in DOMAIN all}
    <3>3. old \in Seq(O) /\ all \in Seq(A)
      BY <1>2, <1>3 DEF IsSeq
    <3>4. O \subseteq S /\ A \subseteq S
      BY <1>2, <1>3, <3>1, <3>2 DEF n
    <3> HIDE DEF O, A
    <3> QED
      BY <3>3, <3>4, SeqMonotonic
  <2>6. c \in Seq(S) /\ Len(c) = 1 /\ c[1] = T(m)
    BY <2>1, <2>2
  <2> DEFINE u == old \o c
  <2>7. /\ u \in Seq(S) /\ Len(u) = n + 1
        /\ \A k \in 1 .. n + 1 : u[k] = IF k <= n THEN old[k] ELSE c[k - n]
    <3>1. /\ u \in Seq(S) /\ Len(u) = Len(old) + Len(c)
          /\ \A k \in 1 .. Len(old) + Len(c) :
                u[k] = IF k <= Len(old) THEN old[k] ELSE c[k - Len(old)]
      BY <2>5, <2>6, ConcatProperties
    <3> QED
      BY <2>4, <2>6, <3>1
  <2> HIDE DEF u
  <2>8. ASSUME NEW k \in 1 .. m PROVE u[k] = all[k]
    <3>1. CASE k <= n
      BY <1>2, <1>3, <2>0, <2>7, <3>1 DEF n
    <3>2. CASE ~(k <= n)
      <4>1. k = m /\ k - n = 1
        BY <2>0, <3>2
      <4> QED
        BY <1>3, <2>0, <2>6, <2>7, <3>2, <4>1
    <3> QED
      BY <3>1, <3>2
  <2>9. u = all
    <3>1. Len(u) = Len(all)
      BY <2>0, <2>4, <2>7
    <3>2. \A k \in 1 .. Len(u) : u[k] = all[k]
      BY <2>0, <2>7, <2>8
    <3> QED
      BY <2>5, <2>7, <3>1, <3>2, SeqEqual
  <2>10. IsSeq(c)
    BY <2>6, SeqIs
  <2> QED
    BY <1>2, <2>9, <2>10 DEF u, old, all, c
<1> QED
  BY <1>4, <1>5

\* Nothing at all leaves all as it is, and context where nothing is open.
LEMMA LeadsEmpty ==
    ASSUME NEW mark, NEW lines, NEW from \in Int, NEW to \in Int, from = to + 1, NEW a
    PROVE  Leads(a, Marked(mark, lines, from, to), a)
<1> DEFINE f == [q \in {from} |-> a]
<1>1. f[from] = a /\ f[to + 1] = a
  OBVIOUS
<1>2. from .. to = {} /\ from <= to + 1
  OBVIOUS
<1> HIDE DEF f
<1>3. Leads(f[from], Marked(mark, lines, from, to), f[to + 1])
  BY <1>2, LeadsMarked
<1> QED
  BY <1>1, <1>3

\* A chunk of the diff tells of its change.
LEMMA LeadsChunk ==
    ASSUME NEW lines, IsSeq(lines), NEW script \in Scripts(lines), ~Unended, Plain(lines, script),
           NEW m \in 1 .. Len(script)
    PROVE  Leads(StateAt(lines, script, m - 1), ChunkOf(lines, script, m),
                 StateAt(lines, script, m))
<1> DEFINE from == script[m].from
           to == script[m].to
           added == script[m].added
           e == EndOf(script, m - 1)
           first == FirstOf(script, m)
           c == OpenAt(lines, script, m - 1)
           past == ToldTo(lines, script, (m - 1) - 1)
           hs == ToldTo(lines, script, m - 1)
           a == StateAt(lines, script, m - 1)
           lead == LeadOf(lines, script, m)
           context == Marked(" ", lines, first, from - 1)
           removed == Marked("-", lines, from, to)
           note == NoteOf(lines, script, m)
           more == Marked("+", added, 1, Len(added))
           b == <<<<>>, from, hs>>
           gone == SubSeq(lines, from, to)
           z == StateAt(lines, script, m)
<1>1. /\ from \in Nat \ {0} /\ to \in Nat /\ from <= to + 1 /\ EndOf(script, m) = to
      /\ IsSeq(added) /\ (from <= to \/ added # <<>>)
      /\ e \in Nat /\ e + 1 <= from /\ (m # 1 => e + 1 < from)
      /\ first \in Nat \ {0} /\ first <= from
      /\ to <= Len(lines) /\ e <= Len(lines) /\ (m # 1 => e < Len(lines))
  BY PartFacts
<1>2. IsSeq(past) /\ IsSeq(c) /\ past \o c = hs
  <2>1. m - 1 \in Nat
    BY ScriptFacts
  <2> QED
    BY <2>1, ToldGrows
<1>3. IsSeq(hs)
  BY <1>2, ConcatIs
<1>4. a = <<c, e + 1, past>>
  BY DEF StateAt
<1>5. z = << <<Hunk(from, gone, added)>>, to + 1, hs>>
  <2>1. m # 0
    BY ScriptFacts
  <2> QED
    BY <1>1, <2>1 DEF StateAt, OpenAt, ToldOf
<1>6. ChunkOf(lines, script, m) = lead \o context \o removed \o note \o more
  BY <1>1 DEF ChunkOf
<1>7. /\ \A p \in from .. to : ~Begins(lines[p], "--")
      /\ \A p \in DOMAIN added : ~Begins(added[p], "++")
  BY ScriptFacts DEF Plain
<1>8. note = <<>>
  BY DEF NoteOf
<1>9. \A s : IsSeq(s) => s \o <<>> = s
  BY ConcatEmptySeq DEF IsSeq
<1> DEFINE t == IF m = 1 THEN <<>> ELSE TrailOf(lines, script, m - 1)
           range == DiffLine("@@", <<>>, first)
<1>10. lead = IF JoinedTo(script, m) THEN <<>> ELSE t \o <<range>>
  BY DEF LeadOf
<1>11. JoinedTo(script, m) => first = e + 1 /\ m # 1
  BY ScriptFacts DEF JoinedTo, FirstOf
<1>12. m = 1 => c = <<>>
  BY DEF OpenAt
<1>13. m # 1 => t = Marked(" ", lines, e + 1, LastOf(lines, script, m - 1))
  BY DEF TrailOf
<1>14. /\ LastOf(lines, script, m - 1) \in Nat
       /\ e <= LastOf(lines, script, m - 1)
       /\ e < Len(lines) => e < LastOf(lines, script, m - 1)
  BY <1>1, TrailFacts
<1> HIDE DEF from, to, added, e, first, c, past, hs, a, lead, removed, note, more, gone, z, t
<1>15. Leads(a, lead \o context, b)
  <2>0. from - 1 \in Int /\ (from - 1) + 1 = from
    BY <1>1
  <2>1. CASE JoinedTo(script, m)
    <3>1. lead = <<>>
      BY <1>10, <2>1
    <3>2. first <= (from - 1) + 1 /\ first <= from - 1
      BY <1>1, <1>11, <2>1
    <3>3. Leads(<<c, first, past>>, context, <<<<>>, (from - 1) + 1, past \o c>>)
      <4> DEFINE stop == from - 1
      <4>1. first \in Int /\ stop \in Int /\ first <= stop + 1 /\ first <= stop
        BY <1>1, <2>0, <3>2
      <4> HIDE DEF stop
      <4>2. Leads(<<c, first, past>>, Marked(" ", lines, first, stop), <<<<>>, stop + 1, past \o c>>)
        BY <1>2, <4>1, LeadsContext
      <4> QED
        BY <4>2 DEF stop
    <3>4. <<c, first, past>> = a
      BY <1>4, <1>11, <2>1
    <3>5. <<<<>>, (from - 1) + 1, past \o c>> = b
      BY <1>2, <2>0
    <3> HIDE DEF context, b
    <3>6. Leads(a, context, b)
      BY <3>3, <3>4, <3>5
    <3>7. Leads(a, lead, a)
      BY <3>1, LeadsNowhere
    <3> QED
      BY <3>6, <3>7, LeadsOn
  <2>2. CASE ~JoinedTo(script, m)
    <3>1. \E x : Leads(a, t, x) /\ x[3] \o x[1] = hs
      <4>1. CASE m = 1
        <5>1. t = <<>>
          BY <4>1 DEF t
        <5>2. Leads(a, t, a)
          BY <5>1, LeadsNowhere
        <5>3. a[3] = past /\ a[1] = c
          BY <1>4
        <5>4. a[3] \o a[1] = hs
          BY <1>2, <5>3
        <5> QED
          BY <5>2, <5>4
      <4>2. CASE m # 1
        <5> DEFINE last == LastOf(lines, script, m - 1)
                   x == <<<<>>, last + 1, hs>>
        <5>1. last \in Int /\ e + 1 \in Int /\ e + 1 <= last
          BY <1>1, <1>14, <4>2
        <5>2. e + 1 <= last + 1
          BY <5>1
        <5>3. Leads(<<c, e + 1, past>>, Marked(" ", lines, e + 1, last), <<<<>>, last + 1, past \o c>>)
          BY <1>2, <5>1, <5>2, LeadsContext
        <5>4. Leads(a, t, x)
          BY <1>2, <1>4, <1>13, <4>2, <5>3
        <5>5. x[3] \o x[1] = hs
          BY <1>3, <1>9
        <5> QED
          BY <5>4, <5>5
      <4> QED
        BY <4>1, <4>2
    <3>2. PICK x : Leads(a, t, x) /\ x[3] \o x[1] = hs
      BY <3>1
    <3> DEFINE y == <<<<>>, first, hs>>
    <3>3. Fed(x, range) = y
      BY <3>2 DEF Fed, DiffLine
    <3> HIDE DEF range
    <3>4. Leads(x, <<range>>, Fed(x, range))
      BY LeadsOnce
    <3>5. Leads(x, <<range>>, y)
      BY <3>3, <3>4
    <3>6. first <= (from - 1) + 1
      BY <1>1
    <3>7. Leads(<<<<>>, first, hs>>, context, <<<<>>, (from - 1) + 1, hs \o <<>>>>)
      <4> DEFINE stop == from - 1
      <4>1. first \in Int /\ stop \in Int /\ first <= stop + 1
        BY <1>1, <2>0, <3>6
      <4> HIDE DEF stop
      <4>2. Leads(<<<<>>, first, hs>>, Marked(" ", lines, first, stop), <<<<>>, stop + 1, hs \o <<>>>>)
        BY <1>3, <4>1, EmptyIs, LeadsContext
      <4> QED
        BY <4>2 DEF stop
    <3>8. <<<<>>, (from - 1) + 1, hs \o <<>>>> = b
      BY <1>3, <1>9, <2>0
    <3>9. Leads(y, context, b)
      BY <3>7, <3>8
    <3> HIDE DEF y, context, b
    <3> DEFINE one == <<range>>
    <3>10. Leads(x, one, y)
      BY <3>5
    <3>11. lead = t \o one
      BY <1>10, <2>2
    <3> HIDE DEF one
    <3>12. Leads(a, lead, y)
      BY <3>2, <3>10, <3>11, LeadsOn
    <3> QED
      BY <3>9, <3>12, LeadsOn
  <2> QED
    BY <2>1, <2>2
<1> HIDE DEF context
<1>16. \E open : /\ Leads(b, removed, <<open, to + 1, hs>>)
                 /\ OpenHunk(open, to + 1) = Hunk(from, gone, <<>>)
                 /\ from <= to => open = <<Hunk(from, gone, <<>>)>>
  <2>1. CASE from <= to
    <3> DEFINE open == <<Hunk(from, gone, <<>>)>>
    <3>1. Leads(b, removed, <<open, to + 1, hs>>)
      BY <1>1, <1>7, <2>1, LeadsRemoved DEF removed, gone
    <3>2. OpenHunk(open, to + 1) = Hunk(from, gone, <<>>)
      BY DEF OpenHunk
    <3> QED
      BY <3>1, <3>2
  <2>2. CASE ~(from <= to)
    <3>1. from = to + 1 /\ from \in Int /\ to \in Int
      BY <1>1, <2>2
    <3> HIDE DEF b
    <3>2. Leads(b, removed, b)
      BY <3>1, LeadsEmpty DEF removed
    <3>3. gone = <<>>
      BY <3>1, SubSeqEmpty DEF gone
    <3>4. b = <<<<>>, to + 1, hs>>
      BY <3>1 DEF b
    <3>5. OpenHunk(<<>>, to + 1) = Hunk(from, gone, <<>>)
      BY <3>1, <3>3 DEF OpenHunk
    <3> QED
      BY <2>2, <3>2, <3>4, <3>5
  <2> QED
    BY <2>1, <2>2
<1> HIDE DEF b
<1>17. PICK open : /\ Leads(b, removed, <<open, to + 1, hs>>)
                   /\ OpenHunk(open, to + 1) = Hunk(from, gone, <<>>)
                   /\ from <= to => open = <<Hunk(from, gone, <<>>)>>
  BY <1>16
<1> DEFINE y == <<open, to + 1, hs>>
<1>18. Leads(y, more, z)
  <2>1. CASE added # <<>>
    <3>1. Leads(y, more, << <<Hunk(from, gone, added)>>, to + 1, hs>>)
      BY <1>1, <1>7, <1>17, <2>1, LeadsAdded DEF more
    <3> QED
      BY <1>5, <3>1
  <2>2. CASE added = <<>>
    <3>1. y = z
      BY <1>1, <1>5, <1>17, <2>2
    <3>2. Len(added) = 0 /\ 1 = Len(added) + 1 /\ Len(added) \in Int /\ 1 \in Int
      BY <2>2
    <3> HIDE DEF y
    <3>3. Leads(y, more, y)
      BY <3>2, LeadsEmpty DEF more
    <3> QED
      BY <3>1, <3>3
  <2> QED
    BY <2>1, <2>2
<1> HIDE DEF y
<1>19. Leads(b, removed, y)
  BY <1>17 DEF y
<1>20. Leads(y, note, y)
  BY <1>8, LeadsNowhere
<1>21. Leads(a, lead \o context \o removed, y)
  BY <1>15, <1>19, LeadsOn
<1>22. Leads(a, lead \o context \o removed \o note, y)
  BY <1>20, <1>21, LeadsOn
<1>23. Leads(a, lead \o context \o removed \o note \o more, z)
  BY <1>18, <1>22, LeadsOn
<1> QED
  BY <1>6, <1>23 DEF a, z

NoneTold == <<<<>>, 0, <<>>>>

\* The file headers open nothing.
LEMMA LeadsTop ==
    ASSUME NEW lines, NEW script
    PROVE  Leads(NoneTold, DiffTop, StateAt(lines, script, 0))
<1> DEFINE x == Header("diff")
           y == Header("---")
           z == Header("+++")
           b == <<<<>>, 1, <<>>>>
           h == <<NoneTold, b, b, b>>
           top == <<x, y, z>>
<1>1. Fed(NoneTold, x) = b /\ Fed(b, y) = b /\ Fed(b, z) = b
  <2>1. x.mark = "diff" /\ y.mark = "---" /\ z.mark = "+++"
    BY DEF Header, DiffLine
  <2>2. NoneTold[2] + 1 = 1 /\ NoneTold[3] \o NoneTold[1] = <<>>
    BY DEF NoneTold
  <2> HIDE DEF x, y, z, b
  <2>3. Fed(b, y) = b /\ Fed(b, z) = b
    BY <2>1 DEF Fed, LikeHeader
  <2>4. Fed(NoneTold, x) = <<<<>>, NoneTold[2] + 1, NoneTold[3] \o NoneTold[1]>>
    BY <2>1 DEF Fed, LikeHeader
  <2> QED
    BY <2>2, <2>3, <2>4 DEF b
<1>2. DiffTop = top
  BY DEF DiffTop
<1>3. StateAt(lines, script, 0) = b
  <2> DEFINE s == ToldTo(lines, script, 0 - 1)
  <2>1. IsSeq(s)
    BY ToldGrows
  <2>2. DOMAIN s = 1 .. 0 - 1
    BY DEF ToldTo
  <2> HIDE DEF s
  <2>3. Len(s) = 0
    BY <2>1, <2>2, SeqFacts
  <2>4. s = <<>>
    BY <2>1, <2>3, EmptySeq DEF IsSeq
  <2>5. OpenAt(lines, script, 0) = <<>> /\ EndOf(script, 0) + 1 = 1
    BY DEF OpenAt, EndOf
  <2> QED
    BY <2>4, <2>5 DEF StateAt, s
<1>4. Leads(NoneTold, <<x>>, b)
  <2>1. Leads(NoneTold, <<x>>, Fed(NoneTold, x))
    BY LeadsOnce
  <2> HIDE DEF x, b
  <2> QED
    BY <1>1, <2>1
<1>5. Leads(b, <<y>>, b) /\ Leads(b, <<z>>, b)
  <2>1. Leads(b, <<y>>, Fed(b, y)) /\ Leads(b, <<z>>, Fed(b, z))
    BY LeadsOnce
  <2> HIDE DEF y, z, b
  <2> QED
    BY <1>1, <2>1
<1>6. top = <<x>> \o <<y>> \o <<z>>
  <2> DEFINE S == {x, y, z}
             two == <<x>> \o <<y>>
             w == <<z>>
             all == two \o w
  <2>1. x \in S /\ y \in S /\ z \in S
    OBVIOUS
  <2> HIDE DEF x, y, z, S
  <2>2. two \in Seq(S) /\ Len(two) = 2 /\ two[1] = x /\ two[2] = y
    BY <2>1
  <2>a. w \in Seq(S) /\ Len(w) = 1 /\ w[1] = z
    BY <2>1
  <2> HIDE DEF two, w
  <2>3. all \in Seq(S) /\ Len(all) = 3 /\ all[1] = x /\ all[2] = y /\ all[3] = z
    <3>1. /\ all \in Seq(S) /\ Len(all) = Len(two) + Len(w)
          /\ \A i \in 1 .. Len(two) + Len(w) :
                all[i] = IF i <= Len(two) THEN two[i] ELSE w[i - Len(two)]
      BY <2>2, <2>a, ConcatProperties
    <3>2. \A i \in 1 .. 3 : all[i] = IF i <= 2 THEN two[i] ELSE w[i - 2]
      BY <2>2, <2>a, <3>1
    <3> HIDE DEF all
    <3>3. all[1] = two[1] /\ all[2] = two[2] /\ all[3] = w[1]
      <4>1. 1 \in 1 .. 3 /\ 2 \in 1 .. 3 /\ 3 \in 1 .. 3 /\ 1 <= 2 /\ 2 <= 2 /\ ~(3 <= 2) /\ 3 - 2 = 1
        OBVIOUS
      <4> QED
        BY <3>2, <4>1
    <3> QED
      BY <2>2, <2>a, <3>1, <3>3
  <2>4. top \in Seq(S) /\ Len(top) = 3 /\ top[1] = x /\ top[2] = y /\ top[3] = z
    BY <2>1
  <2> HIDE DEF all, top
  <2>5. Len(top) = Len(all) /\ \A i \in 1 .. Len(top) : top[i] = all[i]
    BY <2>3, <2>4
  <2>6. top = all
    BY <2>3, <2>4, <2>5, SeqEqual
  <2> QED
    BY <2>6 DEF all, two, w
<1> HIDE DEF x, y, z, b, top
<1> DEFINE ox == <<x>>
           oy == <<y>>
           oz == <<z>>
<1> HIDE DEF ox, oy, oz
<1>7. Leads(NoneTold, ox \o oy, b)
  BY <1>4, <1>5, LeadsOn DEF ox, oy
<1>8. Leads(NoneTold, ox \o oy \o oz, b)
  BY <1>5, <1>7, LeadsOn DEF oz
<1> QED
  BY <1>2, <1>3, <1>6, <1>8 DEF ox, oy, oz

\* The diff of changes that can be told tells them.
LEMMA LeadsDiff ==
    ASSUME NEW lines, IsSeq(lines), NEW script \in Scripts(lines), ~Unended, Plain(lines, script),
           script # <<>>
    PROVE  \E b : /\ Leads(NoneTold, Diff(lines, script), b)
                  /\ b[1] = <<>> /\ b[3] = ToldTo(lines, script, Len(script))
<1> DEFINE count == Len(script)
           S(m) == StateAt(lines, script, m)
           chunks == ChunksOf(lines, script)
           flat == FlattenSeq(chunks)
           trail == TrailOf(lines, script, count)
           all == ToldTo(lines, script, count)
           past == ToldTo(lines, script, count - 1)
           c == OpenAt(lines, script, count)
           e == EndOf(script, count)
<1>1. count \in Nat \ {0} /\ DOMAIN script = 1 .. count
  <2>1. IsSeq(script) /\ Len(script) \in Nat /\ DOMAIN script = 1 .. Len(script)
    BY ScriptFacts
  <2>2. Len(script) # 0
    BY <2>1, EmptySeq DEF IsSeq
  <2> QED
    BY <2>1, <2>2
<1>2. Leads(S(0), flat, S(count))
  <2>1. Len(chunks) = count /\ \A m \in 1 .. count : chunks[m] = ChunkOf(lines, script, m)
    <3>1. chunks = [m \in 1 .. count |-> ChunkOf(lines, script, m)]
      BY <1>1 DEF ChunksOf
    <3> HIDE DEF chunks, count
    <3>2. chunks = [m \in 1 .. count |-> chunks[m]]
      BY <3>1
    <3>3. IsSeq(chunks) /\ DOMAIN chunks = 1 .. count
      BY <1>1, <3>2, FunctionIs
    <3>4. Len(chunks) \in Nat /\ DOMAIN chunks = 1 .. Len(chunks)
      BY <3>3, SeqFacts
    <3> QED
      BY <1>1, <3>1, <3>3, <3>4
  <2> HIDE DEF chunks, count
  <2>2. PICK h : /\ flat = h[count]
                 /\ \A i \in 1 .. count : h[i] = IF i = 1 THEN chunks[i] ELSE h[i - 1] \o chunks[i]
    BY <1>1, <2>1, FlattenParts
  <2> DEFINE bad == {i \in 1 .. count : ~Leads(S(0), h[i], S(i))}
  <2>3. bad = {}
    <3> SUFFICES ASSUME bad # {} PROVE FALSE
      OBVIOUS
    <3>1. PICK i \in bad : \A l \in bad : i <= l
      <4>1. bad \subseteq Nat
        BY <1>1
      <4> HIDE DEF bad
      <4> QED
        BY <4>1, Least
    <3>2. i \in 1 .. count /\ i \in Nat
      BY <1>1, <3>1
    <3>3. Leads(S(i - 1), chunks[i], S(i))
      BY <2>1, <3>2, LeadsChunk DEF count
    <3>4. CASE i = 1
      <4>1. h[i] = chunks[i] /\ i - 1 = 0
        BY <2>2, <3>2, <3>4
      <4> QED
        BY <3>1, <3>3, <4>1
    <3>5. CASE i # 1
      <4>1. i - 1 \in 1 .. count /\ ~(i <= i - 1)
        BY <1>1, <3>2, <3>5
      <4>2. Leads(S(0), h[i - 1], S(i - 1))
        BY <3>1, <4>1
      <4> DEFINE u == h[i - 1]
                 v == chunks[i]
                 x == S(i - 1)
                 y == S(i)
                 o == S(0)
      <4>3. h[i] = u \o v
        BY <2>2, <3>2, <3>5
      <4>4. Leads(o, u, x) /\ Leads(x, v, y)
        BY <3>3, <4>2
      <4> HIDE DEF u, v, x, y, o
      <4>5. Leads(o, u \o v, y)
        BY <4>4, LeadsOn
      <4> QED
        BY <3>1, <4>3, <4>5 DEF o, y
    <3> QED
      BY <3>4, <3>5
  <2>4. count \in 1 .. count
    BY <1>1
  <2> QED
    BY <2>2, <2>3, <2>4
<1>3. IsSeq(past) /\ IsSeq(c) /\ past \o c = all
  BY <1>1, ToldGrows
<1>4. S(count) = <<c, e + 1, past>>
  BY DEF StateAt
<1>5. e \in Nat /\ e <= Len(lines) /\ Len(lines) \in Nat
  <2>1. count \in 1 .. Len(script)
    BY <1>1
  <2> QED
    BY <2>1, PartFacts, SeqFacts
<1> DEFINE last == LastOf(lines, script, count)
<1>6. last \in Nat /\ e <= last /\ last <= Len(lines) /\ (e < Len(lines) => e < last)
  BY <1>5, TrailFacts
<1>7. trail = Marked(" ", lines, e + 1, last)
  BY DEF TrailOf
<1>8. \E x : Leads(S(count), trail, x) /\ x[3] \o x[1] = all
  <2> HIDE DEF count, trail, all, past, c, e, last
  <2>1. CASE e < Len(lines)
    <3> DEFINE from == e + 1
               x == <<<<>>, last + 1, past \o c>>
    <3>1. from \in Int /\ last \in Int /\ from <= last + 1 /\ from <= last
      BY <1>5, <1>6, <2>1
    <3>2. S(count) = <<c, from, past>> /\ trail = Marked(" ", lines, from, last)
      BY <1>4, <1>7
    <3> HIDE DEF from, S
    <3>3. Leads(<<c, from, past>>, Marked(" ", lines, from, last), <<<<>>, last + 1, past \o c>>)
      BY <1>3, <3>1, LeadsContext
    <3>4. x[3] \o x[1] = all
      <4>1. IsSeq(all)
        BY <1>3, ConcatIs
      <4>2. x[3] = all /\ x[1] = <<>>
        BY <1>3
      <4>3. all \o <<>> = all
        BY <4>1, ConcatEmptySeq DEF IsSeq
      <4> QED
        BY <4>2, <4>3
    <3> QED
      BY <3>2, <3>3, <3>4
  <2>2. CASE ~(e < Len(lines))
    <3> DEFINE from == e + 1
               x == S(count)
    <3>1. from \in Int /\ last \in Int /\ from = last + 1
      BY <1>5, <1>6, <2>2
    <3>2. trail = Marked(" ", lines, from, last)
      BY <1>7
    <3>3. x[3] \o x[1] = all
      BY <1>3, <1>4
    <3> HIDE DEF from, x
    <3>4. Leads(x, trail, x)
      BY <3>1, <3>2, LeadsEmpty
    <3> QED
      BY <3>3, <3>4 DEF x
  <2> QED
    BY <2>1, <2>2
<1>9. PICK x : Leads(S(count), trail, x) /\ x[3] \o x[1] = all
  BY <1>8
<1> DEFINE end == Header("")
           b == <<<<>>, x[2] + 1, x[3] \o x[1]>>
<1>10. Fed(x, end) = b
  BY DEF Fed, LikeHeader, Header, DiffLine
<1>11. b[1] = <<>> /\ b[3] = all
  BY <1>9
<1> DEFINE bottom == <<end>>
<1>12. Leads(x, bottom, b)
  <2>1. Leads(x, <<end>>, Fed(x, end))
    BY LeadsOnce
  <2> HIDE DEF end, b
  <2> QED
    BY <1>10, <2>1
<1>13. Leads(NoneTold, DiffTop, S(0))
  BY LeadsTop
<1>14. Diff(lines, script) = DiffTop \o flat \o trail \o bottom
  BY DiffIs
<1> DEFINE o == S(0)
           y == S(count)
<1> HIDE DEF o, y, S, flat, trail, b, bottom, all
<1>15. Leads(NoneTold, DiffTop \o flat, y)
  BY <1>2, <1>13, LeadsOn DEF o, y
<1>16. Leads(NoneTold, DiffTop \o flat \o trail, x)
  BY <1>9, <1>15, LeadsOn DEF y
<1>17. Leads(NoneTold, DiffTop \o flat \o trail \o bottom, b)
  BY <1>12, <1>16, LeadsOn
<1> QED
  BY <1>11, <1>14, <1>17 DEF all
----------------------------------------------------------------------------
(* The hunks.                                                              *)

ToldAll == ToldTo(Rendered, regions, Len(regions))

\* What unifiedHunks has seen of the diff and what is to come lead from nothing
\* to the changes, one for one.
HunksInv ==
    /\ stage = "execute" => d = 1 /\ <<cur, oldLine, hunks>> = NoneTold
    /\ stage \in {"hunks", "findings"} => IsSeq(regions)
    /\ (stage = "hunks" /\ Tellable) =>
          \E h, b : /\ Through(h, NoneTold, diff, b) /\ b[1] = <<>> /\ b[3] = ToldAll
                    /\ d <= Len(diff) + 1 /\ h[d] = <<cur, oldLine, hunks>>
    /\ (stage = "findings" /\ Tellable) => hunks = ToldAll

\* What is to be told does not change with the diff's lines.
LEMMA SameChanges ==
    ASSUME UNCHANGED <<rendered, regions>>
    PROVE  Tellable' = Tellable /\ ToldAll' = ToldAll
<1>1. Rendered' = Rendered /\ Unended' = Unended
  BY DEF Rendered, Unended
<1>2. Tellable' = Tellable
  BY <1>1 DEF Tellable
<1>3. ToldAll' = ToldAll
  BY <1>1 DEF ToldAll
<1> QED
  BY <1>2, <1>3

\* The steps, for the hunks.
LEMMA InitHunks == Init => HunksInv
  BY DEF Init, HunksInv, NoneTold

LEMMA ExecuteHunks == HunksInv /\ Execute => HunksInv'
<1> SUFFICES ASSUME HunksInv, Execute PROVE HunksInv'
  OBVIOUS
<1>1. UNCHANGED <<d, cur, oldLine, hunks>>
  BY DEF Execute, WriteText, WriteData, WriteNothing, ExecuteFails, Enter, PassBy, Else, Leave,
         Again, Move, Written, hunkVars
<1>2. stage = "execute" /\ stage' \in {"execute", "error"}
  BY DEF Execute, WriteText, WriteData, WriteNothing, ExecuteFails, Enter, PassBy, Else, Leave,
         Again, Move, Written, Executing
<1> QED
  BY <1>1, <1>2 DEF HunksInv, NoneTold

\* What is tellable has no line that looks like a header.
LEMMA FormatHunks == MappingInv /\ HunksInv /\ (Format \/ FormatRejects) => HunksInv'
<1> SUFFICES ASSUME MappingInv, HunksInv, Format \/ FormatRejects PROVE HunksInv'
  OBVIOUS
<1>1. /\ UNCHANGED <<rendered, d, cur, oldLine, hunks>> /\ stage = "execute"
      /\ d = 1 /\ <<cur, oldLine, hunks>> = NoneTold
  BY DEF Format, FormatRejects, execVars, hunkVars, HunksInv
<1>2. CASE FormatRejects
  BY <1>2 DEF FormatRejects, HunksInv
<1>3. CASE Format
  <2>1. PICK script \in Scripts(Rendered) :
            /\ regions' = script
            /\ diff' = IF script = <<>> THEN <<>> ELSE Diff(Rendered, script)
            /\ stage' = IF script = <<>> THEN "clean" ELSE "hunks"
    BY <1>3 DEF Format
  <2>2. CASE script = <<>>
    BY <2>1, <2>2 DEF HunksInv
  <2>3. CASE script # <<>>
    <3>1. IsSeq(Rendered)
      <4> DEFINE T == Seq(RealCell)
      <4>1. Rendered \in Seq(T)
        BY RenderedType DEF MappingInv
      <4> HIDE DEF T
      <4> QED
        BY <4>1, SeqIs
    <3>2. IsSeq(script)
      BY <3>1, ScriptFacts
    <3>3. Rendered' = Rendered /\ Unended' = Unended
      BY <1>1 DEF Rendered, Unended
    <3>4. ASSUME Tellable'
          PROVE  \E h, b : /\ Through(h, NoneTold, diff', b) /\ b[1] = <<>> /\ b[3] = ToldAll'
                           /\ d' <= Len(diff') + 1 /\ h[d'] = <<cur', oldLine', hunks'>>
      <4>1. ~Unended /\ Plain(Rendered, script)
        BY <2>1, <3>3, <3>4 DEF Tellable, Plain
      <4>2. PICK b : /\ Leads(NoneTold, Diff(Rendered, script), b)
                     /\ b[1] = <<>> /\ b[3] = ToldTo(Rendered, script, Len(script))
        BY <2>3, <3>1, <4>1, LeadsDiff
      <4>3. diff' = Diff(Rendered, script) /\ ToldAll' = ToldTo(Rendered, script, Len(script))
        BY <2>1, <2>3, <3>3 DEF ToldAll
      <4>4. PICK h : Through(h, NoneTold, diff', b)
        BY <4>2, <4>3 DEF Leads
      <4>5. h[1] = NoneTold
        BY <4>4 DEF Through
      <4>6. IsSeq(diff')
        BY <4>2, <4>3 DEF Leads
      <4>7. 1 <= Len(diff') + 1
        BY <4>6, SeqFacts
      <4> QED
        BY <1>1, <4>2, <4>3, <4>4, <4>5, <4>7
    <3> QED
      BY <2>1, <2>3, <3>2, <3>4 DEF HunksInv
  <2> QED
    BY <2>2, <2>3
<1> QED
  BY <1>2, <1>3

\* Each step takes a line as Fed does.
LEMMA TakesLine ==
    ASSUME InDiff, RangeLine \/ HeaderLine \/ RemovedLine \/ AddedLine \/ OtherLine
    PROVE  <<cur', oldLine', hunks'>> = Fed(<<cur, oldLine, hunks>>, diff[d])
<1> DEFINE e == diff[d]
           s == <<cur, oldLine, hunks>>
           t == <<cur', oldLine', hunks'>>
<1>1. s[1] = cur /\ s[2] = oldLine /\ s[3] = hunks
  OBVIOUS
<1>2. IsHeader <=> LikeHeader(e)
  BY DEF IsHeader, LikeHeader
<1>3. Opened = OpenHunk(cur, oldLine)
  BY DEF Opened, OpenHunk, Hunk
<1>4. CASE RangeLine
  <2>1. e.mark = "@@" /\ t = <<<<>>, e.start, hunks \o cur>>
    BY <1>4 DEF RangeLine, IsRange, Flush
  <2> HIDE DEF e, s, t
  <2> QED
    BY <1>1, <2>1 DEF Fed, e, s, t
<1>5. CASE HeaderLine
  <2>1. LikeHeader(e) /\ t = s
    BY <1>2, <1>5 DEF HeaderLine
  <2>2. e.mark # "@@"
    BY <2>1 DEF LikeHeader
  <2> HIDE DEF e, s, t
  <2> QED
    BY <2>1, <2>2 DEF Fed, e, s, t
<1>6. CASE RemovedLine
  <2>1. /\ ~LikeHeader(e) /\ e.mark = "-"
        /\ t = << <<Removing(Opened, e.line)>>, oldLine + 1, hunks>>
    BY <1>2, <1>6 DEF RemovedLine, Removing
  <2> HIDE DEF e, s, t
  <2> QED
    BY <1>1, <1>3, <2>1 DEF Fed, e, s, t
<1>7. CASE AddedLine
  <2>1. /\ ~LikeHeader(e) /\ e.mark = "+"
        /\ t = << <<Adding(Opened, e.line)>>, oldLine, hunks>>
    BY <1>2, <1>7 DEF AddedLine, Adding
  <2> HIDE DEF e, s, t
  <2> QED
    BY <1>1, <1>3, <2>1 DEF Fed, e, s, t
<1>8. CASE OtherLine
  <2>1. /\ e.mark \in {" ", "diff", "\\", ""}
        /\ t = <<<<>>, oldLine + 1, hunks \o cur>>
    BY <1>8 DEF OtherLine, Flush
  <2>2. ~LikeHeader(e) /\ e.mark \notin {"@@", "-", "+"}
    BY <2>1 DEF LikeHeader
  <2> HIDE DEF e, s, t
  <2>3. t = Fed(s, e)
    BY <1>1, <2>1, <2>2 DEF Fed
  <2> QED
    BY <2>3 DEF e, s, t
<1> QED
  BY <1>4, <1>5, <1>6, <1>7, <1>8

\* A line taken is a line less to come.
LEMMA LineHunks ==
    MappingInv /\ HunksInv
    /\ (RangeLine \/ HeaderLine \/ RemovedLine \/ AddedLine \/ OtherLine)
        => HunksInv'
<1> SUFFICES ASSUME MappingInv, HunksInv,
                    RangeLine \/ HeaderLine \/ RemovedLine \/ AddedLine \/ OtherLine
             PROVE  HunksInv'
  OBVIOUS
<1>1. Step /\ InDiff
  BY DEF RangeLine, HeaderLine, RemovedLine, AddedLine, OtherLine
<1>2. UNCHANGED <<stage, rendered, regions, diff>> /\ d' = d + 1 /\ stage = "hunks" /\ d <= Len(diff)
  BY <1>1 DEF Step, InDiff, execVars
<1>3. Tellable' = Tellable /\ ToldAll' = ToldAll
  BY <1>2, SameChanges
<1>4. d \in DOMAIN diff /\ d' <= Len(diff') + 1
  <2>1. d \in Nat \ {0} /\ IsSeq(diff)
    BY DEF MappingInv, Removes
  <2>2. Len(diff) \in Nat /\ DOMAIN diff = 1 .. Len(diff)
    BY <2>1, SeqFacts
  <2> QED
    BY <1>2, <2>1, <2>2
<1>5. ASSUME Tellable
      PROVE  \E h, b : /\ Through(h, NoneTold, diff', b) /\ b[1] = <<>> /\ b[3] = ToldAll'
                       /\ d' <= Len(diff') + 1 /\ h[d'] = <<cur', oldLine', hunks'>>
  <2>1. PICK h, b : /\ Through(h, NoneTold, diff, b) /\ b[1] = <<>> /\ b[3] = ToldAll
                    /\ h[d] = <<cur, oldLine, hunks>>
    BY <1>2, <1>5 DEF HunksInv
  <2>2. h[d + 1] = Fed(h[d], diff[d])
    BY <1>4, <2>1 DEF Through
  <2>3. h[d'] = <<cur', oldLine', hunks'>>
    BY <1>1, <1>2, <2>1, <2>2, TakesLine
  <2> QED
    BY <1>2, <1>3, <1>4, <2>1, <2>3
<1> QED
  BY <1>2, <1>3, <1>5 DEF HunksInv

\* Behind the last line nothing is open.
LEMMA DoneHunks == MappingInv /\ HunksInv /\ HunksDone => HunksInv'
<1> SUFFICES ASSUME MappingInv, HunksInv, HunksDone PROVE HunksInv'
  OBVIOUS
<1>1. /\ UNCHANGED <<rendered, regions>> /\ stage = "hunks" /\ stage' = "findings"
      /\ hunks' = hunks \o cur /\ d > Len(diff)
  BY DEF HunksDone, Flush, execVars
<1>2. Tellable' = Tellable /\ ToldAll' = ToldAll
  BY <1>1, SameChanges
<1>3. ASSUME Tellable PROVE hunks' = ToldAll
  <2>1. PICK h, b : /\ Through(h, NoneTold, diff, b) /\ b[1] = <<>> /\ b[3] = ToldAll
                    /\ d <= Len(diff) + 1 /\ h[d] = <<cur, oldLine, hunks>>
    BY <1>1, <1>3 DEF HunksInv
  <2>2. d = Len(diff) + 1
    <3>1. d \in Nat /\ IsSeq(diff)
      BY DEF MappingInv, Removes
    <3>2. Len(diff) \in Nat
      BY <3>1, SeqFacts
    <3> QED
      BY <1>1, <2>1, <3>1, <3>2
  <2>3. h[d] = b
    BY <2>1, <2>2 DEF Through
  <2>4. cur = <<>> /\ hunks = ToldAll
    <3>1. <<cur, oldLine, hunks>>[1] = cur /\ <<cur, oldLine, hunks>>[3] = hunks
      OBVIOUS
    <3> QED
      BY <2>1, <2>3, <3>1
  <2>5. IsSeq(hunks)
    BY DEF MappingInv, HunksOver
  <2>6. hunks \o <<>> = hunks
    BY <2>5, ConcatEmptySeq DEF IsSeq
  <2> QED
    BY <1>1, <2>4, <2>6
<1> QED
  BY <1>1, <1>2, <1>3 DEF HunksInv

\* The findings leave the hunks alone.
LEMMA FoundHunks == HunksInv /\ (MapHunk \/ Report \/ UNCHANGED vars) => HunksInv'
<1> SUFFICES ASSUME HunksInv, MapHunk \/ Report \/ UNCHANGED vars PROVE HunksInv'
  OBVIOUS
<1>1. /\ UNCHANGED <<rendered, regions, diff, d, cur, oldLine, hunks>>
      /\ stage' = stage \/ stage' = "done"
  BY DEF MapHunk, Report, vars, execVars, hunkVars
<1>2. Tellable' = Tellable /\ ToldAll' = ToldAll
  BY <1>1, SameChanges
<1> QED
  BY <1>1, <1>2 DEF HunksInv

\* The hunks that unifiedHunks reads from the diff are gofumpt's changes, one
\* for one, however close they are and however much context is left out.
THEOREM ChangesAreTold == Spec => []HunksAreChanges
<1>1. Init => HunksInv
  BY InitHunks
<1>2. MappingInv /\ HunksInv /\ [Next]_vars => HunksInv'
  BY ExecuteHunks, FormatHunks, LineHunks, DoneHunks, FoundHunks DEF Next
<1>3. HunksInv => HunksAreChanges
  <2> SUFFICES ASSUME HunksInv, stage = "findings", Tellable
               PROVE  /\ Len(hunks) = Len(regions)
                      /\ \A m \in DOMAIN hunks :
                            /\ hunks[m].line = regions[m].from
                            /\ hunks[m].before = SubSeq(Rendered, regions[m].from, regions[m].to)
                            /\ hunks[m].after = regions[m].added
    BY DEF HunksAreChanges
  <2> DEFINE n == Len(regions)
  <2>1. hunks = [k \in 1 .. n |-> ToldOf(Rendered, regions, k)]
    BY DEF HunksInv, ToldAll, ToldTo
  <2>2. n \in Nat
    BY SeqFacts DEF HunksInv
  <2> HIDE DEF n
  <2>3. hunks = [k \in 1 .. n |-> hunks[k]]
    BY <2>1
  <2>4. IsSeq(hunks) /\ DOMAIN hunks = 1 .. n
    BY <2>2, <2>3, FunctionIs
  <2>5. Len(hunks) = n
    <3>1. Len(hunks) \in Nat /\ DOMAIN hunks = 1 .. Len(hunks)
      BY <2>4, SeqFacts
    <3> QED
      BY <2>2, <2>4, <3>1
  <2>6. ASSUME NEW m \in DOMAIN hunks
        PROVE  /\ hunks[m].line = regions[m].from
               /\ hunks[m].before = SubSeq(Rendered, regions[m].from, regions[m].to)
               /\ hunks[m].after = regions[m].added
    <3>1. hunks[m] = ToldOf(Rendered, regions, m)
      BY <2>1, <2>4
    <3> DEFINE x == regions[m].from
               y == SubSeq(Rendered, x, regions[m].to)
               z == regions[m].added
    <3>2. hunks[m] = Hunk(x, y, z)
      BY <3>1, Zenon DEF ToldOf
    <3> HIDE DEF x, y, z
    <3>3. hunks[m].line = x /\ hunks[m].before = y /\ hunks[m].after = z
      BY <3>2 DEF Hunk
    <3> QED
      BY <3>3 DEF x, y, z
  <2> QED
    BY <2>5, <2>6 DEF n
<1> QED
  BY <1>1, <1>2, <1>3, MappingHolds, PTL DEF Spec
=============================================================================
