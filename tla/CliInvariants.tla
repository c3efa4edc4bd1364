--------------------------- MODULE CliInvariants ---------------------------
(* What the command promises about the user's files and its exit code.      *)
EXTENDS Cli

\* With -l, with -d or without -w no file ever changes, -w beside them or not
\* (processFile's switch).
OnlyWriteModeWrites == (cmd.l \/ cmd.d \/ ~cmd.w) => disk = saved

Damaged == {p \in Files : disk[p] \in Torn}

\* What formatting c, and the result again, any number of times, may give.
Rewritings ==
    [c \in Contents |->
        {d \in Contents :
            \A S \in SUBSET Contents :
                c \in S /\ (\A x \in S : Format(x) # Error => Format(x) \in S) => d \in S}]

\* A file is what the user last saved or what formatting made of that, unless
\* the save came between processFile's read and its write, or a failed write or
\* a kill left it torn.  In particular a template that does not parse is kept.
SavesSurvive ==
    \A p \in Files \ (lost \cup Damaged) : disk[p] \in Rewritings[saved[p]]

\* Every torn file is the work of a run that did not end well: at most one for
\* each, and none after runs that exit 0.
OneTornFilePerFailure ==
    Cardinality(Damaged) <= unclean + (IF exit = "running" /\ pc = "write" THEN 1 ELSE 0)

\* The files that the arguments ps ask to format: those named, and the
\* templates of the directories named.
AskedBy(ps) ==
    {p \in Files :
        \E k \in DOMAIN ps :
            \/ p = ps[k]
            \/ /\ ps[k] \in Directories /\ p \in Templates
               /\ \E j \in DOMAIN Walk[ps[k]] : p = Walk[ps[k]][j]}

Asked == AskedBy(cmd.paths)

Writes == cmd.parse = "ok" /\ ~cmd.version /\ ~cmd.l /\ ~cmd.d /\ cmd.w

\* What p may have held: the user's content, formatted or not, or a torn one;
\* once a save was written over, anything.
Held(p) == IF p \in lost THEN Contents ELSE Torn \cup Rewritings[saved[p]]

\* Exit code 0 of -w: every file it was asked to format could be read, parsed,
\* and holds what Format made of it, except where the user saved it since.  That
\* Format's result parses is not promised, here or in processFile.
ExitZeroMeansDone ==
    exit = "0" /\ Writes =>
        \A p \in Asked \ stale :
            p \notin Unreadable /\ \E c \in Held(p) : disk[p] = Format(c)

\* Exit code 0 of -l: the files listed are those that formatting would change,
\* unless nobody could read the list.
ListIsExact ==
    exit = "0" /\ cmd.parse = "ok" /\ ~cmd.version /\ cmd.l /\ saves = 0 /\ ~muted =>
        {stdout[k][2] : k \in DOMAIN stdout} = {p \in Asked : Format(disk[p]) # disk[p]}

\* Formatting a result again changes it: an input that README.md:16 asks a bug
\* report for.
Drifts(c) ==
    \E d \in Rewritings[c] : Format(d) # Error /\ Format(Format(d)) \notin {Error, Format(d)}

\* A second run after a clean one writes only the files whose contents drift.
SecondRunIsQuiet ==
    [][runs' = runs /\ runs > 1 /\ unclean = 0 /\ saves' = 0 =>
          \A p \in Files : disk'[p] # disk[p] => Drifts(saved[p])]_disk

\* Every run of the command ends, killed or not, on every path list; on standard
\* input, once the input ends.
Ends == (<>~stdinOpen \/ cmd.paths # <<>>) => (exit = "running" ~> exit # "running")
=============================================================================
