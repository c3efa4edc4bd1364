-------------------------------- MODULE Cli --------------------------------
(***************************************************************************)
(* The gotmplfumpt command (main.go): what it reads, reports and writes,   *)
(* file by file, while the user's editor saves files beside it and the     *)
(* process may be killed.  A file is its path and its content; formatting  *)
(* is the operator Format, whose insides are the other modules.            *)
(***************************************************************************)
EXTENDS Naturals, Sequences, FiniteSets

CONSTANTS
    Commands,       \* command lines: [parse, version, w, l, d, paths]
    Paths,          \* what command lines and walks may name
    Files,          \* paths that are files
    Disks,          \* what they may hold at first
    Walk,           \* for a directory, its entries in WalkDir's order
    Templates,      \* the files with a template suffix (isTemplateFile)
    Unreadable,     \* entries that ReadFile, or the walk, cannot read
    ReadOnly,       \* files that cannot be opened for writing
    Contents,       \* file contents
    Format(_),      \* format.Format: a content, which need not parse, or Error
    Error,
    Empty, Parts,   \* a truncated file, and files written in part
    MaxRuns, MaxSaves

Directories == DOMAIN Walk
Torn == {Empty} \cup Parts

\* os.Stat tells files from directories, and only files are given to
\* processFile; standard input has no path.
ASSUME PathsAssumption ==
    /\ Files \cup Directories \subseteq Paths /\ Files \cap Directories = {}
    /\ Templates \subseteq Files /\ IsFiniteSet(Files)
    /\ Walk \in [Directories -> Seq(Paths)]
    /\ \A c \in Commands : c.paths \in Seq(Paths)
    /\ "stdin" \notin Paths

\* Contents are told apart by where they come from: what an interrupted write
\* left, and what formatting makes of that, is torn, and nothing else is.
ASSUME ContentsAssumption ==
    /\ Disks \subseteq [Files -> Contents \ Torn]
    /\ Torn \subseteq Contents /\ Error \notin Contents
    /\ \A c \in Torn : Format(c) \in Torn \cup {Error}
    /\ \A c \in Contents \ Torn : Format(c) \in (Contents \ Torn) \cup {Error}

VARIABLES
    cmd,            \* the command line
    pc, exit,       \* where run is; "running", "0", "1" or "killed"
    args, queue,    \* arguments, and walk entries, still to process
    path, text,     \* processFile's path and src
    stdout,         \* what was written to standard output
    disk,           \* the content of every file
    detached,       \* the file being written was replaced by another
    stdinOpen,
    \* history
    saved,          \* what the user last saved in each file
    stale,          \* files saved after this run read them
    lost,           \* files whose last save this command wrote over
    runs, saves, unclean, muted

proc == <<pc, args, queue, path, text>>
history == <<saved, stale, lost, saves>>
vars == <<cmd, proc, exit, stdout, disk, detached, stdinOpen, history, runs, unclean, muted>>

Stdin == "stdin"

Init ==
    /\ cmd \in Commands
    /\ pc = "flags" /\ exit = "running"
    /\ args = cmd.paths /\ queue = <<>>
    /\ path = Stdin /\ text = Empty
    /\ stdout = <<>> /\ detached = FALSE /\ stdinOpen = TRUE
    /\ disk \in Disks
    /\ saved = disk /\ stale = {} /\ lost = {}
    /\ runs = 1 /\ saves = 0 /\ unclean = 0 /\ muted = FALSE

At(label) == exit = "running" /\ pc = label
Goto(label) == pc' = label

\* realMain: run returned, with an error or without one.
Exit(code) ==
    /\ exit' = code
    /\ unclean' = IF code = "0" THEN unclean ELSE unclean + 1

Running == UNCHANGED <<exit, unclean>>
NoOutput == UNCHANGED <<stdout, muted>>
NoDisk == UNCHANGED <<disk, detached>>
Fixed == UNCHANGED <<cmd, stdinOpen, history, runs>>

ParseFlags ==
    /\ At("flags")
    /\ UNCHANGED <<args, queue, path, text, muted>>
    /\ \/ /\ cmd.parse = "bad" /\ Exit("1") /\ UNCHANGED <<pc, stdout>>
       \/ /\ cmd.parse = "help" /\ Exit("0") /\ UNCHANGED <<pc, stdout>>
       \/ /\ cmd.parse = "ok" /\ cmd.version
          /\ stdout' = Append(stdout, "version") /\ Exit("0") /\ UNCHANGED pc
       \/ /\ cmd.parse = "ok" /\ ~cmd.version /\ args = <<>>
          /\ UNCHANGED stdout
          /\ IF cmd.w \/ cmd.l THEN Exit("1") /\ UNCHANGED pc ELSE Goto("stdin") /\ Running
       \/ /\ cmd.parse = "ok" /\ ~cmd.version /\ args # <<>>
          /\ Goto("arg") /\ Running /\ UNCHANGED stdout
    /\ NoDisk /\ Fixed

\* processReader: the whole of standard input first, whatever -d says; a read
\* that fails does not wait for its end.
ReadStdin ==
    /\ At("stdin")
    /\ \/ /\ ~stdinOpen /\ text' \in Contents
          /\ Goto("format") /\ Running
       \/ Exit("1") /\ UNCHANGED <<pc, text>>
    /\ UNCHANGED <<args, queue, path>> /\ NoOutput /\ NoDisk /\ Fixed

\* run's loop over the arguments, and processPath.
NextArg ==
    /\ At("arg")
    /\ \/ /\ args = <<>> /\ Exit("0") /\ UNCHANGED <<pc, args, queue, path>>
       \/ /\ args # <<>> /\ Head(args) \in Directories
          /\ args' = Tail(args) /\ queue' = Walk[Head(args)]
          /\ Goto("walk") /\ Running /\ UNCHANGED path
       \/ /\ args # <<>> /\ Head(args) \in Files
          /\ args' = Tail(args) /\ path' = Head(args)
          /\ Goto("read") /\ Running /\ UNCHANGED queue
       \/ /\ args # <<>> /\ Head(args) \notin Directories \cup Files      \* os.Stat fails
          /\ Exit("1") /\ UNCHANGED <<pc, args, queue, path>>
    /\ UNCHANGED text /\ NoOutput /\ NoDisk /\ Fixed

\* Slip: the walk does not get past a file without a template suffix.
NextEntryStays ==
    /\ At("walk")
    /\ \/ /\ queue = <<>> /\ Goto("arg") /\ Running /\ UNCHANGED <<queue, path>>
       \/ /\ queue # <<>> /\ Head(queue) \in Templates
          /\ queue' = Tail(queue) /\ path' = Head(queue) /\ Goto("read") /\ Running
       \/ /\ queue # <<>> /\ Head(queue) \notin Templates
          /\ UNCHANGED <<queue, exit, unclean, pc, path>>
    /\ UNCHANGED <<args, text>> /\ NoOutput /\ NoDisk /\ Fixed

\* The callback of processPath's walk.
NextEntry ==
    /\ At("walk")
    /\ \/ /\ queue = <<>> /\ Goto("arg") /\ Running /\ UNCHANGED <<queue, path>>
       \/ /\ queue # <<>> /\ Head(queue) \notin Files /\ Head(queue) \in Unreadable
          /\ Exit("1") /\ UNCHANGED <<pc, queue, path>>
       \/ /\ queue # <<>> /\ Head(queue) \in Templates
          /\ queue' = Tail(queue) /\ path' = Head(queue) /\ Goto("read") /\ Running
       \/ /\ queue # <<>> /\ Head(queue) \notin Templates \cup (Unreadable \ Files)
          /\ queue' = Tail(queue) /\ Running /\ UNCHANGED <<pc, path>>
    /\ UNCHANGED <<args, text>> /\ NoOutput /\ NoDisk /\ Fixed

\* Slip: the buffer of the file before is used again.
ReadFileCached ==
    /\ At("read") /\ path \notin Unreadable
    /\ text' = IF text = Empty THEN disk[path] ELSE text
    /\ Goto("format") /\ Running
    /\ stale' = stale \ {path}
    /\ UNCHANGED <<cmd, args, queue, path, stdinOpen, saved, lost, saves, runs>>
    /\ NoOutput /\ NoDisk

ReadFile ==
    /\ At("read")
    /\ \/ /\ path \in Unreadable /\ Exit("1") /\ UNCHANGED <<pc, text>>
       \/ /\ path \notin Unreadable
          /\ text' = disk[path] /\ Goto("format") /\ Running
    /\ stale' = stale \ {path}
    /\ UNCHANGED <<cmd, args, queue, path, stdinOpen, saved, lost, saves, runs>>
    /\ NoOutput /\ NoDisk

\* Slip: a file that does not parse is skipped.
FormatErrorSkips ==
    /\ At("format")
    /\ Goto(IF Format(text) = Error THEN "walk" ELSE "emit") /\ Running
    /\ UNCHANGED <<args, queue, path, text>> /\ NoOutput /\ NoDisk /\ Fixed

FormatText ==
    /\ At("format")
    /\ IF Format(text) = Error THEN Exit("1") /\ UNCHANGED pc ELSE Goto("emit") /\ Running
    /\ UNCHANGED <<args, queue, path, text>> /\ NoOutput /\ NoDisk /\ Fixed

\* Slip: -w is looked at first.
WriteFirst ==
    IF path = Stdin THEN "print"
    ELSE IF cmd.w THEN "write"
    ELSE IF cmd.l THEN "list"
    ELSE IF cmd.d THEN "diff"
    ELSE "print"

\* processFile's switch: -l before -d before -w.
Mode ==
    IF path = Stdin THEN "print"
    ELSE IF cmd.l THEN "list"
    ELSE IF cmd.d THEN "diff"
    ELSE IF cmd.w THEN "write"
    ELSE "print"

Changed == Format(text) # text

\* emitListLine, emitDiff, emitStdout; only -l does not look at the write's error.
Done == IF path = Stdin THEN Exit("0") /\ UNCHANGED pc ELSE Goto("walk") /\ Running

Report(entry) ==
    \/ /\ stdout' = Append(stdout, entry) /\ Done /\ UNCHANGED muted
    \/ /\ muted' = TRUE /\ UNCHANGED stdout
       /\ IF Mode = "list" THEN Done ELSE Exit("1") /\ UNCHANGED pc

\* Slip: a file is listed whether formatting changes it or not.
EmitUnchanged ==
    /\ At("emit") /\ Mode # "write"
    /\ Report(IF Mode = "print" THEN <<"text", Format(text)>> ELSE <<Mode, path>>)
    /\ UNCHANGED <<args, queue, path, text>> /\ NoDisk /\ Fixed

Emit ==
    /\ At("emit") /\ Mode # "write"
    /\ IF Mode = "print" THEN Report(<<"text", Format(text)>>)
       ELSE IF Changed THEN Report(<<Mode, path>>)
       ELSE Done /\ NoOutput
    /\ UNCHANGED <<args, queue, path, text>> /\ NoDisk /\ Fixed

\* Slip: a file that formatting does not change is written too.
TruncateUnchanged ==
    /\ At("emit") /\ Mode = "write" /\ path \notin ReadOnly
    /\ disk' = [disk EXCEPT ![path] = Empty] /\ detached' = FALSE
    /\ lost' = IF path \in stale THEN lost \cup {path} ELSE lost
    /\ Goto("write") /\ Running
    /\ UNCHANGED <<cmd, args, queue, path, text, stdinOpen, saved, stale, saves, runs>>
    /\ NoOutput

\* writeIfChanged: os.WriteFile truncates the file ...
Truncate ==
    /\ At("emit") /\ Mode = "write"
    /\ \/ /\ ~Changed /\ Goto("walk") /\ Running /\ NoDisk /\ UNCHANGED lost
       \/ /\ Changed /\ path \in ReadOnly /\ Exit("1") /\ UNCHANGED pc /\ NoDisk /\ UNCHANGED lost
       \/ /\ Changed /\ path \notin ReadOnly
          /\ disk' = [disk EXCEPT ![path] = Empty] /\ detached' = FALSE
          /\ lost' = IF path \in stale THEN lost \cup {path} ELSE lost
          /\ Goto("write") /\ Running
    /\ UNCHANGED <<cmd, args, queue, path, text, stdinOpen, saved, stale, saves, runs>>
    /\ NoOutput

\* What reaches the path through the open file.
Through(content) == IF detached THEN disk ELSE [disk EXCEPT ![path] = content]

\* Slip: an error of the write is ignored.
WriteErrorIgnored ==
    /\ At("write")
    /\ \E c \in Torn \cup {Format(text)} : disk' = Through(c)
    /\ Goto("walk") /\ Running
    /\ UNCHANGED <<args, queue, path, text, detached>> /\ NoOutput /\ Fixed

\* ... and then writes it, all of it or, with an error, a part.
WriteBytes ==
    /\ At("write")
    /\ \/ disk' = Through(Format(text)) /\ Goto("walk") /\ Running
       \/ /\ \E c \in Torn : disk' = Through(c)
          /\ Exit("1") /\ UNCHANGED pc
    /\ UNCHANGED <<args, queue, path, text, detached>> /\ NoOutput /\ Fixed

Program ==
    \/ ParseFlags \/ ReadStdin \/ NextArg \/ NextEntry
    \/ ReadFile \/ FormatText \/ Emit \/ Truncate \/ WriteBytes
----------------------------------------------------------------------------
\* SIGKILL, or power loss, at any step.
Kill ==
    /\ exit = "running" /\ exit' = "killed" /\ unclean' = unclean + 1
    /\ IF pc = "write" THEN \E c \in Torn : disk' = Through(c) ELSE disk' = disk
    /\ UNCHANGED <<proc, detached>> /\ NoOutput /\ Fixed

\* The editor replaces a file by a new one with the saved content.
Save ==
    /\ saves < MaxSaves
    /\ \E p \in Files, c \in Contents \ Torn :
        /\ disk' = [disk EXCEPT ![p] = c] /\ saved' = [saved EXCEPT ![p] = c]
        /\ stale' = stale \cup {p} /\ lost' = lost \ {p}
        /\ detached' = (detached \/ (pc = "write" /\ p = path))
    /\ saves' = saves + 1
    /\ UNCHANGED <<cmd, proc, exit, stdout, stdinOpen, runs, unclean, muted>>

CloseStdin ==
    /\ stdinOpen /\ stdinOpen' = FALSE
    /\ UNCHANGED <<cmd, proc, exit, stdout, disk, detached, history, runs, unclean, muted>>

\* The user runs the same command again.
Rerun ==
    /\ exit # "running" /\ runs < MaxRuns
    /\ exit' = "running" /\ pc' = "flags" /\ runs' = runs + 1
    /\ args' = cmd.paths /\ queue' = <<>> /\ path' = Stdin /\ text' = Empty
    /\ stdout' = <<>> /\ detached' = FALSE
    /\ stale' = {}
    /\ UNCHANGED <<cmd, disk, stdinOpen, saved, lost, saves, unclean, muted>>

Next == Program \/ Kill \/ Save \/ CloseStdin \/ Rerun

Spec == Init /\ [][Next]_vars

\* The program takes its next step whenever it has one; nothing is assumed of
\* the user, of the terminal or of the killer.
FairSpec == Spec /\ WF_vars(Program)
=============================================================================
