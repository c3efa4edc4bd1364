---------------------------- MODULE StubRestore ----------------------------
(***************************************************************************)
(* formatViaGofumpt (internal/format/format.go) over internal/tiling:      *)
(* stub -> gofumpt -> verify -> restore, first with identifier sentinels,  *)
(* then with standalone actions held as comments, then the fallback.       *)
(*                                                                         *)
(* Text is a sequence of tokens <<kind, k, cont>>: a token of Go text or   *)
(* white space (k = 0), the sentinel of slice k ("ident" or "remark"), or  *)
(* the source bytes of slice k ("slice"), whose cont holds the indents of  *)
(* its second and later lines.                                             *)
(***************************************************************************)
EXTENDS Source, FiniteSets

CONSTANTS
    Tilings,        \* the tilings ScanTiling may have produced
    Gofumpt(_)      \* the texts gofumpt may return for a stub

VARIABLES
    til,                \* the slices of the template
    commentStandalone,  \* the second attempt is on
    formatted,          \* gofumpt's output
    k,                  \* the slice the verify or restore loop is at
    prevPos,            \* VerifyFormatted: where the previous sentinel is
    cur,                \* Restore: what of formatted is consumed
    out,                \* Restore: the text written so far
    pc

vars == <<til, commentStandalone, formatted, k, prevPos, cur, out, pc>>

Text(c) == <<c, 0, <<>>>>
White == {Text(" "), Text("\n")}

\* A continuation line of a slice: its indent, and what the line before it holds
\* behind its own indent.
Line == [indent : Nat, before : Seq(Byte)]

\* The tokens a text is made of.
Token == (Byte \cup {"ident", "remark", "slice"}) \X Nat \X Seq(Nat)

RawSlice == [type : SliceType, text : Seq({Text(c) : c \in Byte}),
             cont : Seq(Line), standalone : BOOLEAN]

Indents(s) == [j \in DOMAIN s.cont |-> s.cont[j].indent]
Raw(t, j) == <<"slice", j, Indents(t[j])>>

\* The template itself: the concatenation of its slices.
SourceOf(t) ==
    LET upTo[j \in 0 .. Len(t)] ==
            IF j = 0 THEN <<>>
            ELSE upTo[j - 1] \o (IF t[j].type = Literal THEN t[j].text ELSE <<Raw(t, j)>>)
    IN  upTo[Len(t)]

sentinelFor(t, comments, j) ==
    IF t[j].type = Action /\ (~comments \/ ~t[j].standalone)
    THEN <<"ident", j, <<>>>>
    ELSE <<"remark", j, <<>>>>

Stub(t, comments) ==
    LET upTo[j \in 0 .. Len(t)] ==
            IF j = 0 THEN <<>>
            ELSE upTo[j - 1] \o (IF t[j].type = Literal THEN t[j].text
                                 ELSE <<sentinelFor(t, comments, j)>>)
    IN  upTo[Len(t)]

ASSUME TilingsAssumption == Tilings \subseteq Seq(RawSlice)

ASSUME GofumptAssumption ==
    \A t \in Tilings, comments \in BOOLEAN :
        Gofumpt(Stub(t, comments)) \subseteq Seq(Token)

IsRaw(c) == c[1] = "slice"
IsSentinel(c) == c[1] \in {"ident", "remark"}

\* gofumpt may drop, move or repeat a sentinel but makes none up: their prefix
\* is one the template does not hold (see module Sentinel), and the source bytes
\* of a slice are never in its input.
ASSUME SentinelsAssumption ==
    \A t \in Tilings, comments \in BOOLEAN :
        \A s \in Gofumpt(Stub(t, comments)) : \A p \in DOMAIN s :
            /\ ~IsRaw(s[p])
            /\ IsSentinel(s[p]) => \E j \in DOMAIN t : /\ t[j].type # Literal
                                                    /\ s[p] = sentinelFor(t, comments, j)

Needle == sentinelFor(til, commentStandalone, k)

Occurrences(s, c) == {p \in 1 .. Len(s) : s[p] = c}

\* strings.Index from position p on: the first occurrence.
IndexFrom(s, c, p) ==
    CHOOSE q \in Occurrences(s, c) :
        q >= p /\ \A r \in Occurrences(s, c) : r >= p => q <= r

\* Slips: no slice, or every slice, is taken to follow a literal.
NeverPreceded(t, j) == FALSE
AlwaysPreceded(t, j) == TRUE

precededByLiteral(t, j) == j > 1 /\ t[j - 1].type = Literal

\* The text between the last newline before position p and p.
LinePrefix(s, p) ==
    LET starts == {q \in 1 .. p : \A r \in q .. p - 1 : s[r] # Text("\n")}
        first  == CHOOSE q \in starts : \A r \in starts : q <= r
    IN  SubSeq(s, first, p - 1)

isAllSpaceOrTab(s) == \A p \in DOMAIN s : s[p] = Text(" ")

\* The Go literal that is open, by its quote, and whether a backslash escapes the
\* next byte of the line.
Code == [open |-> "code", escaped |-> FALSE]

updateStringState(st, c) ==
    IF c = "\n" \/ st.escaped THEN [st EXCEPT !.escaped = FALSE]
    ELSE IF st.open = "code" THEN [Code EXCEPT !.open = IF c \in Quote THEN c ELSE "code"]
    ELSE [open    |-> IF c = st.open THEN "code" ELSE st.open,
          escaped |-> c = "\\" /\ st.open # "raw"]

StringState(s) ==
    LET upTo[p \in 0 .. Len(s)] ==
            IF p = 0 THEN Code ELSE updateStringState(upTo[p - 1], s[p])
    IN  upTo[Len(s)]

\* For each continuation line, whether it begins inside a literal.
stringLineMask(cont) ==
    LET upTo[l \in 0 .. Len(cont)] ==
            IF l = 0 THEN <<>> ELSE upTo[l - 1] \o Append(cont[l].before, "\n")
    IN  [l \in DOMAIN cont |-> StringState(upTo[l]).open # "code"]

\* A slice's bytes at sentinel position p: continuation lines move to the
\* sentinel's column when nothing but white space precedes it on its line,
\* except those that begin inside a string literal.
reindentContinuation(s, p, t, j) ==
    LET prefix == LinePrefix(s, p)
        inString == stringLineMask(t[j].cont)
    IN  IF ~isAllSpaceOrTab(prefix) THEN Raw(t, j)
        ELSE <<"slice", j, [l \in DOMAIN t[j].cont |->
                            IF inString[l] THEN t[j].cont[l].indent
                            ELSE Len(prefix)]>>

\* Slip: a define block is re-indented like an action.
RestoredDefine(s, p, t, j) ==
    IF t[j].cont # <<>> THEN reindentContinuation(s, p, t, j) ELSE Raw(t, j)

Restored(s, p, t, j) ==
    IF t[j].type # Define /\ t[j].cont # <<>>
    THEN reindentContinuation(s, p, t, j)
    ELSE Raw(t, j)
----------------------------------------------------------------------------
Init ==
    /\ til \in Tilings
    /\ commentStandalone = FALSE
    /\ formatted = <<>> /\ k = 1 /\ prevPos = 0 /\ cur = 1 /\ out = <<>>
    /\ pc = "format"

\* Slip: the second attempt is followed by another one.
RetryForever ==
    /\ commentStandalone' = TRUE
    /\ pc' = "format"
    /\ UNCHANGED <<til, formatted, k, prevPos, cur, out>>

\* An attempt that fails is followed by the second one, or by the fallback.
GiveUp ==
    /\ commentStandalone' = TRUE
    /\ pc' = IF commentStandalone THEN "fallback" ELSE "format"
    /\ UNCHANGED <<til, formatted, k, prevPos, cur, out>>

\* formatStub: gofumpt accepts the stub, as a file or wrapped in a package
\* clause that is stripped again ...
GofumptAccepts ==
    /\ pc = "format"
    /\ formatted' \in Gofumpt(Stub(til, commentStandalone))
    /\ k' = 1 /\ prevPos' = 0 /\ cur' = 1 /\ out' = <<>>
    /\ pc' = "verify"
    /\ UNCHANGED <<til, commentStandalone>>

\* ... or it is not Go either way.
GofumptRejects == pc = "format" /\ GiveUp

AtSlice(at) == pc = at /\ k <= Len(til)

\* Literal slices have no sentinel: both loops step over them.
SkipLiteral ==
    /\ AtSlice("verify") \/ AtSlice("restore")
    /\ til[k].type = Literal
    /\ k' = k + 1
    /\ UNCHANGED <<til, commentStandalone, formatted, prevPos, cur, out, pc>>

\* Slips: a sentinel twice is accepted; the order is not looked at.
AtLeastOnce == Cardinality(Occurrences(formatted, Needle)) >= 1
AnyOrder == TRUE

Once == Cardinality(Occurrences(formatted, Needle)) = 1
InOrder == IndexFrom(formatted, Needle, 1) >= prevPos

VerifySlice ==
    /\ AtSlice("verify") /\ til[k].type # Literal
    /\ Once /\ InOrder
    /\ prevPos' = IndexFrom(formatted, Needle, 1)
    /\ k' = k + 1
    /\ UNCHANGED <<til, commentStandalone, formatted, cur, out, pc>>

VerifyFails ==
    /\ AtSlice("verify") /\ til[k].type # Literal
    /\ ~(Once /\ InOrder)
    /\ GiveUp

VerifyDone ==
    /\ pc = "verify" /\ k > Len(til)
    /\ pc' = "restore" /\ k' = 1
    /\ UNCHANGED <<til, commentStandalone, formatted, prevPos, cur, out>>

Found == \E p \in Occurrences(formatted, Needle) : p >= cur

\* The gap before the sentinel is kept only when the source had text there.
\* A sentinel that is not found is Restore's error.
RestoreSlice ==
    /\ AtSlice("restore") /\ til[k].type # Literal
    /\ IF Found
       THEN LET p == IndexFrom(formatted, Needle, cur)
                gap == IF precededByLiteral(til, k)
                       THEN SubSeq(formatted, cur, p - 1) ELSE <<>>
            IN  /\ out' = out \o gap \o <<Restored(formatted, p, til, k)>>
                /\ cur' = p + 1
                /\ k' = k + 1
                /\ UNCHANGED <<til, commentStandalone, formatted, prevPos, pc>>
       ELSE GiveUp

\* Slip: the text after the last action is forgotten.
RestoreNoTail ==
    /\ pc = "restore" /\ k > Len(til)
    /\ pc' = "done"
    /\ UNCHANGED <<til, commentStandalone, formatted, k, prevPos, cur, out>>

RestoreDone ==
    /\ pc = "restore" /\ k > Len(til)
    /\ out' = out \o SubSeq(formatted, cur, Len(formatted))
    /\ pc' = "done"
    /\ UNCHANGED <<til, commentStandalone, formatted, k, prevPos, cur>>

Next ==
    \/ GofumptAccepts \/ GofumptRejects
    \/ SkipLiteral \/ VerifySlice \/ VerifyFails \/ VerifyDone
    \/ RestoreSlice \/ RestoreDone

Spec == Init /\ [][Next]_vars

\* One goroutine; gofumpt is taken to return.
FairSpec == Spec /\ WF_vars(Next)
=============================================================================
