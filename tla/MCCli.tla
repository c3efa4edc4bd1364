------------------------------- MODULE MCCli -------------------------------
(* Two templates and another file in a directory; a second directory holds an *)
(* entry nobody can read, and one template by itself cannot be read either.   *)
EXTENDS CliInvariants, TLC

CONSTANTS a, b, other, secret, locked, dir, guarded, missing, ugly, good, bad, brace, glued,
          loose, half, tidy, cut

MCWalk == (dir :> <<a, other, b>>) @@ (guarded :> <<b, locked>>)

\* Formatting `[]T{ {{.X}} }' gives `[]T{{{.X}}}', which does not parse; a loose
\* file takes two rounds.  A file that is cut may parse, and is then formatted by
\* the next run.
MCFormat(c) ==
    CASE c = ugly -> good [] c = brace -> glued [] c = loose -> ugly [] c = half -> tidy
      [] c \in {bad, glued, cut} -> Error [] OTHER -> c

Flags(paths, w, l, d) ==
    [parse |-> "ok", version |-> FALSE, w |-> w, l |-> l, d |-> d, paths |-> paths]

MCDisks ==
    {d \in [{a, b, other, secret} -> {ugly, good, bad, brace, loose}] :
        d[b] \in {ugly, bad} /\ d[other] = ugly /\ d[secret] = ugly}

\* Named once, in a directory, twice, before and after what fails.
PathLists == {<<>>, <<a>>, <<dir>>, <<a, missing>>}
WriteLists == {<<a, dir>>, <<b, secret>>, <<other, dir>>, <<guarded, a>>}

MCCommands ==
    {Flags(ps, w, l, d) : ps \in PathLists, w \in BOOLEAN, l \in BOOLEAN, d \in BOOLEAN} \cup
    {Flags(ps, TRUE, FALSE, FALSE) : ps \in WriteLists} \cup
    {[Flags(<<a>>, TRUE, FALSE, FALSE) EXCEPT !.parse = p] : p \in {"bad", "help"}} \cup
    {[Flags(<<a>>, TRUE, FALSE, FALSE) EXCEPT !.version = TRUE]}
=============================================================================
