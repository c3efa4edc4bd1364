------------------------------ MODULE Sentinel ------------------------------
(***************************************************************************)
(* The placeholders of internal/tiling/sentinel.go, byte by byte, and the  *)
(* stub they stand in.  StubRestore treats a sentinel as one token; here   *)
(* is why it may.                                                          *)
(***************************************************************************)
EXTENDS ScannerInvariants, SequencesExt

\* strings.Contains and strings.Index, all of the matches.
Matches(s, t) == {p \in 1 .. Len(s) - Len(t) + 1 : SubSeq(s, p, p + Len(t) - 1) = t}

\* %d, in base two so that small ids have several digits.
Numeral[n \in Nat] ==
    IF n < 2 THEN <<IF n = 0 THEN "0" ELSE "1">> ELSE Numeral[n \div 2] \o Numeral[n % 2]

sentinelBase == <<"_", "_", "gtmpl">>

candidate(n) == sentinelBase \o <<"_", "hash", "_">> \o Numeral[n]

\* Slip: the source is not looked at.
BasePrefix == sentinelBase

\* The base, or the first candidate the source does not hold.
uniquePrefix ==
    IF Matches(src, sentinelBase) = {} THEN sentinelBase
    ELSE LET free == {n \in 0 .. Len(src) : Matches(src, candidate(n)) = {}}
         IN  candidate(CHOOSE n \in free : \A m \in free : n <= m)

actionSentinel(prefix, id)  == prefix \o <<"_", "a">> \o Numeral[id] \o <<"_">>
commentSentinel(prefix, id) == <<"/", "*">> \o prefix \o <<"_", "b">> \o Numeral[id] \o <<"*", "/">>

IsIdentifier(k, commentStandalone) ==
    slices[k].type = Action /\ (~commentStandalone \/ ~slices[k].standalone)

\* Slice k has the id k - 1.
sentinelFor(k, commentStandalone) ==
    IF IsIdentifier(k, commentStandalone)
    THEN actionSentinel(uniquePrefix, k - 1)
    ELSE commentSentinel(uniquePrefix, k - 1)

RawOf(k) == SubSeq(src, slices[k].start, slices[k].stop - 1)

StubUpTo(k, commentStandalone) ==
    FlattenSeq([m \in 1 .. k |->
        IF slices[m].type = Literal THEN RawOf(m) ELSE sentinelFor(m, commentStandalone)])

\* The literal behind the identifier of slice k goes on as a sentinel would
\* behind its first underscore.
Echoes(k, commentStandalone) ==
    /\ IsIdentifier(k, commentStandalone)
    /\ k < Len(slices) /\ slices[k + 1].type = Literal
    /\ IsPrefix(Tail(uniquePrefix), RawOf(k + 1))

\* A sentinel is found at its own place in the stub and at no other, whatever
\* the template mentions and however many slices it has: "no sentinel built
\* from it can collide with source text", "one sentinel is never a prefix of
\* another" (sentinel.go:5-7, :19-22) -- unless a literal echoes it, which the
\* comment does not consider.
SentinelsUnique ==
    pc = "done" =>
        \A comments \in BOOLEAN :
            LET stub == StubUpTo(Len(slices), comments)
                starts == [k \in DOMAIN slices |-> Len(StubUpTo(k - 1, comments)) + 1]
            IN  \A k \in DOMAIN slices : slices[k].type # Literal =>
                    LET found == Matches(stub, sentinelFor(k, comments))
                    IN  /\ starts[k] \in found
                        /\ \A p \in found \ {starts[k]} :
                              \E l \in DOMAIN slices :
                                  Echoes(l, comments) /\ starts[l + 1] = p + 1
=============================================================================
