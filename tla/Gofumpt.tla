------------------------------ MODULE Gofumpt ------------------------------
(***************************************************************************)
(* gofumpt, as far as the formatter depends on it (external code, modelled *)
(* from what format.go and stubrestore.go expect of it): it keeps the      *)
(* tokens of the text and owns the white space between them.  Comments are *)
(* no tokens to it, so a sentinel may also come back moved, twice or not   *)
(* at all, which is what VerifyFormatted is for, and a comma at the end of *)
(* a line moves ahead of the comments before it, which VerifyFormatted     *)
(* does not see.                                                           *)
(***************************************************************************)
EXTENDS Integers, Sequences

LOCAL Tok(c) == <<c, 0, <<>>>>
LOCAL White == {Tok(" "), Tok("\n")}
LOCAL Ident(c) == c[1] \in {"x", "1", "ident"}
LOCAL Sentinel(c) == c[1] \in {"ident", "remark"}

LOCAL Spaces == {<<>>, <<Tok(" ")>>, <<Tok("\n"), Tok(" ")>>}

LOCAL IsSolid(c) == c \notin White
Solid(s) == SelectSeq(s, IsSolid)

\* Whether the n-th token of s follows the one before it without a space.
LOCAL Glued(s, n) ==
    \E p \in 2 .. Len(s) :
        /\ s[p] \notin White /\ s[p - 1] \notin White
        /\ Len(Solid(SubSeq(s, 1, p))) = n

\* The white space gofumpt may put before the n-th token: none at the start
\* of the file, none inside one identifier, some between two identifiers and
\* before a comment.
LOCAL Gaps(s, n) ==
    LET c == Solid(s)
    IN  CASE n = 1 -> {<<>>}
          [] n > 1 /\ Ident(c[n]) /\ Ident(c[n - 1]) ->
                IF Glued(s, n) THEN {<<>>} ELSE Spaces \ {<<>>}
          [] n > 1 /\ c[n][1] = "remark" -> Spaces \ {<<>>}
          [] OTHER -> Spaces

\* Every layout of s: its tokens in order, each after some allowed gap, and
\* one newline at the end of the file.
Reflow(s) ==
    LET c == Solid(s)
        gaps == [n \in DOMAIN c |-> Gaps(s, n)]
        upTo[n \in 0 .. Len(c)] ==
            IF n = 0 THEN {<<>>}
            ELSE {t \o g \o <<c[n]>> : t \in upTo[n - 1], g \in gaps[n]}
    IN  {Append(t, Tok("\n")) : t \in upTo[Len(c)]}

LOCAL Without(s, p) == SubSeq(s, 1, p - 1) \o SubSeq(s, p + 1, Len(s))
LOCAL Swapped(s, p, q) == [s EXCEPT ![p] = s[q], ![q] = s[p]]

\* The comma at p, which ends its line, ahead of the comments from q on.
LOCAL CommaAhead(s, q, p) ==
    SubSeq(s, 1, q - 1) \o <<Tok(","), Tok(" ")>> \o SubSeq(s, q, p - 1)
        \o SubSeq(s, p + 1, Len(s))

LOCAL CommasAhead(s) ==
    {CommaAhead(s, q, p) :
        <<q, p>> \in {<<i, j>> \in (1 .. Len(s)) \X (1 .. Len(s)) :
            /\ i < j /\ s[j] = Tok(",") /\ (j < Len(s) => s[j + 1] = Tok("\n"))
            /\ \A r \in i .. j - 1 : s[r][1] = "remark"
            /\ i > 1 => s[i - 1][1] # "remark"}}

\* One sentinel dropped, duplicated, passed by a comma, or two of them exchanged.
Damaged(s) ==
    LET at == {p \in DOMAIN s : Sentinel(s[p])}
    IN  {Without(s, p) : p \in at}
        \cup {Append(s, s[p]) : p \in at}
        \cup ({Swapped(s, p, q) : p, q \in at} \ {s})
        \cup CommasAhead(s)

\* The identity: what gofumpt does to a stub in its canonical form.
Unchanged(s) == {s}
=============================================================================
