----------------------- MODULE StubRestoreInvariants -----------------------
(* What the sentinel round trip owes to the template.                       *)
EXTENDS StubRestore

TypeOK ==
    /\ til \in Tilings
    /\ commentStandalone \in BOOLEAN
    /\ k \in 1 .. Len(til) + 1
    /\ prevPos \in 0 .. Len(formatted)
    /\ cur \in 1 .. Len(formatted) + 1
    /\ pc \in {"format", "verify", "restore", "done", "fallback"}

Actions == {j \in DOMAIN til : til[j].type # Literal}
IsGo(c) == c \notin White /\ ~IsRaw(c) /\ ~IsSentinel(c)
GoText == {c \in Token : IsGo(c)}

\* The tokens of s that are in T, in their order.
Only(s, T) ==
    LET upTo[j \in 0 .. Len(s)] ==
            IF j = 0 THEN <<>>
            ELSE upTo[j - 1] \o (IF s[j] \in T THEN <<s[j]>> ELSE <<>>)
    IN  upTo[Len(s)]

\* VerifyFormatted's nil error is enough for Restore: every sentinel it looks
\* for is there, beyond what it consumed, so tryFormat's second error branch
\* never runs (verify.go:15-17).
VerifiedRestores ==
    pc = "restore" /\ k <= Len(til) /\ til[k].type # Literal => Found

\* A template that comes back holds every action, tag, comment and define
\* block exactly once and in the source's order (format.go:75-76), and no
\* sentinel, whatever gofumpt did to the sentinels.
EachSliceOnce ==
    pc = "done" =>
        /\ {out[p][2] : p \in {q \in DOMAIN out : IsRaw(out[q])}} = Actions
        /\ \A p, q \in DOMAIN out :
              IsRaw(out[p]) /\ IsRaw(out[q]) /\ p < q => out[p][2] < out[q][2]
        /\ \A p \in DOMAIN out : ~IsSentinel(out[p])

SentinelAt(j) == Occurrences(formatted, sentinelFor(til, commentStandalone, j))

\* What gofumpt put between the sentinels of two slices that touch in the source,
\* or before the first one where the source begins with it.
Between ==
    {p \in DOMAIN formatted :
        \E j \in Actions :
            /\ j = 1 \/ j - 1 \in Actions
            /\ \A q \in SentinelAt(j) : p < q
            /\ j > 1 => \A q \in SentinelAt(j - 1) : q < p}

Spared == [p \in DOMAIN formatted |-> IF p \in Between THEN Text(" ") ELSE formatted[p]]

\* Of gofumpt's Go tokens exactly those between slices that touch are dropped
\* (stubrestore.go:62), so a template loses none if gofumpt keeps them all and
\* moves none there.  It does move one: a comma that ends a line goes ahead of the
\* comments before it, and the template then comes back without the comma.
GoTextKept ==
    pc = "done" =>
        /\ Only(out, GoText) = Only(Spared, GoText)
        /\ /\ Only(formatted, GoText) = Only(SourceOf(til), GoText)
           /\ \A p \in Between : ~IsGo(formatted[p])
           => Only(out, GoText) = Only(SourceOf(til), GoText)

\* Actions adjacent in the source stay adjacent: white space gofumpt puts
\* between their sentinels does not reach the template, where it would be
\* output (stubrestore.go:37-39).
AdjacentStayAdjacent ==
    pc = "done" =>
        \A p \in DOMAIN out : \A j \in Actions :
            IsRaw(out[p]) /\ out[p][2] = j /\ j - 1 \in Actions
                => p > 1 /\ IsRaw(out[p - 1])

\* Continuation lines move only where moving is safe: never in a define
\* block, never inside a string literal, never when the action is inline
\* (reindent.go:13-19, stubrestore.go:66-68).
VerbatimKept ==
    pc = "done" =>
        \A p \in DOMAIN out : IsRaw(out[p]) =>
            LET j == out[p][2]
            IN  /\ til[j].type = Define => out[p] = Raw(til, j)
                /\ \A l \in DOMAIN til[j].cont :
                      stringLineMask(til[j].cont)[l]
                          => out[p][3][l] = til[j].cont[l].indent
                /\ precededByLiteral(til, j) /\ (\E q \in 1 .. p - 1 :
                      IsGo(out[q]) /\ \A r \in q .. p - 1 : out[r] # Text("\n"))
                      => out[p] = Raw(til, j)

\* The continuation lines already stand at their action's column, or the
\* action does not start its line.
Aligned ==
    LET s == SourceOf(til)
    IN  \A p \in DOMAIN s : IsRaw(s[p]) => Restored(s, p, til, s[p][2]) = s[p]

\* A formatter that changes nothing gives the template back
\* (stubrestore.go:5, :42-43), when the continuation lines are aligned.
AlignedRoundTrip ==
    pc = "done" /\ formatted = Stub(til, commentStandalone) /\ Aligned
        => out = SourceOf(til)

\* No delimiter appears that the template did not have: no "{" ends up right
\* before an action's "{{" or before another "{" (verify.go:15-17: on a nil
\* error Restore reconstructs the original template structure).
NoNewDelimiter ==
    pc = "done" =>
        \A p \in 1 .. Len(out) - 1 :
            out[p] = Text("{") => out[p + 1] # Text("{") /\ ~IsRaw(out[p + 1])

\* Both attempts together end: with a template or with the fallback.
Ends == <>(pc \in {"done", "fallback"})
----------------------------------------------------------------------------
(* The inductive invariant behind VerifiedRestores: what VerifyFormatted has *)
(* seen so far, and that what Restore still looks for lies ahead of it.      *)

\* The sentinels of the slices before n occur once each, in order.
VerifiedUpTo(n) ==
    \A j \in Actions : j < n =>
        \E p \in 1 .. Len(formatted) :
            /\ SentinelAt(j) = {p}
            /\ \A l \in Actions : l < j => \A q \in SentinelAt(l) : q < p

IInv ==
    /\ TypeOK
    /\ formatted \in Seq(Token)
    /\ pc = "verify" =>
          /\ cur = 1 /\ VerifiedUpTo(k)
          /\ \A j \in Actions : j < k => \A q \in SentinelAt(j) : q <= prevPos
    /\ pc = "restore" =>
          /\ VerifiedUpTo(Len(til) + 1)
          /\ \A j \in Actions : j >= k => \A q \in SentinelAt(j) : q >= cur
=============================================================================
