------------------------------ MODULE CliProof ------------------------------
(***************************************************************************)
(* Proofs about the command line, for every set of commands, files,        *)
(* contents and directories and whatever Format is.                        *)
(***************************************************************************)
EXTENDS CliInvariants, FiniteSetTheorems, TLAPS

Entry == {"version"} \cup ({"text"} \X Contents) \cup ({"list", "diff"} \X Files)

TypeOK ==
    /\ cmd \in Commands
    /\ pc \in {"flags", "stdin", "arg", "walk", "read", "format", "emit", "write"}
    /\ exit \in {"running", "0", "1", "killed"}
    /\ args \in Seq(Paths) /\ queue \in Seq(Paths)
    /\ path \in Files \cup {Stdin} /\ text \in Contents
    /\ stdout \in Seq(Entry)
    /\ disk \in [Files -> Contents] /\ saved \in [Files -> Contents \ Torn]
    /\ stale \subseteq Files /\ lost \subseteq Files
    /\ runs \in Nat /\ saves \in Nat /\ unclean \in Nat

Processing == pc \in {"format", "emit", "write"}

(* Where run may be with which flags and which file. *)
Control ==
    /\ pc # "flags" => cmd.parse = "ok" /\ ~cmd.version
    /\ pc \in {"flags", "stdin", "arg"} => queue = <<>>
    /\ exit = "running" /\ pc = "flags" => args = cmd.paths /\ stdout = <<>> /\ path = Stdin
    /\ pc = "read" => path \in Files
    /\ pc = "stdin" => path = Stdin /\ ~cmd.w /\ ~cmd.l
    /\ Processing /\ path = Stdin => ~cmd.w /\ ~cmd.l
    /\ Processing /\ path \in Files => path \notin Unreadable
    /\ pc \in {"emit", "write"} => Format(text) # Error
    /\ pc = "write" => path \in Files /\ cmd.w /\ ~cmd.l /\ ~cmd.d
    /\ exit \in {"1", "killed"} => unclean > 0
    /\ saves = 0 => stale = {} /\ lost = {}

(* What processFile holds against what the disk and the user hold. *)
Provenance ==
    /\ \A p \in Files \ lost : disk[p] \in Torn \cup Rewritings[saved[p]]
    /\ pc \in {"format", "emit"} /\ path \in Files \ stale => text = disk[path]
    /\ pc = "write" /\ path \notin lost /\ ~detached =>
          text \in Torn \cup Rewritings[saved[path]]
    /\ pc = "write" /\ detached => path \in stale /\ disk[path] \notin Torn

(* Torn files, and the one that is being made from a torn text. *)
Suspect ==
    Damaged \cup {p \in Files : Processing /\ p = path /\ text \in Torn}

Excused == {p \in Files : exit = "running" /\ pc = "write" /\ p = path /\ text \notin Torn}

Charged == Suspect \ Excused

Budget == Cardinality(Charged) <= unclean

(* The files that the run has still to look at. *)
Remaining ==
    {p \in Files :
        /\ exit = "running"
        /\ \/ p \in AskedBy(args)
           \/ p \in Templates /\ \E k \in DOMAIN queue : p = queue[k]
           \/ pc \in {"read", "format", "emit", "write"} /\ p = path}

Formatted(p) == Format(disk[p]) = disk[p]

Rewritten(p) == \E c \in Held(p) : disk[p] = Format(c)

Listing == cmd.parse = "ok" /\ ~cmd.version /\ cmd.l /\ saves = 0 /\ ~muted

Progress ==
    /\ Remaining \subseteq Asked
    /\ exit \in {"running", "0"} /\ Writes =>
          \A p \in Asked \ (stale \cup Remaining) : p \notin Unreadable /\ Rewritten(p)
    /\ exit \in {"running", "0"} /\ Listing =>
          /\ \A k \in DOMAIN stdout : stdout[k][2] \in Asked /\ ~Formatted(stdout[k][2])
          /\ \A p \in Asked \ Remaining :
                ~Formatted(p) => \E k \in DOMAIN stdout : stdout[k][2] = p

(* A run after clean runs, with no saves, finds what Format made of what the *)
(* user saved.                                                               *)
Settled(p) == \E c \in Rewritings[saved[p]] : disk[p] = Format(c)

Quiet ==
    runs > 1 /\ unclean = 0 /\ saves = 0 =>
        /\ Writes => \A p \in Asked : (p = path /\ pc = "write") \/ Settled(p)
        /\ pc = "write" => text \in Rewritings[saved[path]] /\ Drifts(saved[path])

CommandInv ==
    TypeOK /\ Control /\ OnlyWriteModeWrites /\ Provenance /\ Budget /\ Progress /\ Quiet
----------------------------------------------------------------------------
LEMMA FormatType ==
    ASSUME NEW c \in Contents
    PROVE  Format(c) # Error => Format(c) \in Contents
BY ContentsAssumption

(* Formatting once more stays among the rewritings, and among the torn contents. *)
LEMMA RewritingsHold ==
    ASSUME NEW c \in Contents
    PROVE  /\ c \in Rewritings[c] /\ Rewritings[c] \subseteq Contents
           /\ \A d \in Rewritings[c] : Format(d) # Error => Format(d) \in Rewritings[c]
<1> DEFINE Closed(S) == c \in S /\ \A x \in S : Format(x) # Error => Format(x) \in S
<1>1. Rewritings[c] = {d \in Contents : \A S \in SUBSET Contents : Closed(S) => d \in S}
  BY DEF Rewritings
<1>2. ASSUME NEW d \in Rewritings[c], Format(d) # Error
      PROVE  Format(d) \in Rewritings[c]
  <2>1. d \in Contents /\ \A S \in SUBSET Contents : Closed(S) => d \in S
    BY <1>1
  <2>2. Format(d) \in Contents
    BY <1>2, <2>1, FormatType
  <2>3. \A S \in SUBSET Contents : Closed(S) => Format(d) \in S
    BY <1>2, <2>1
  <2>. QED
    BY <1>1, <2>2, <2>3
<1>3. c \in Rewritings[c] /\ Rewritings[c] \subseteq Contents
  BY <1>1
<1>. QED
  BY <1>2, <1>3

LEMMA WalkType ==
    ASSUME NEW d \in Directories
    PROVE  Walk[d] \in Seq(Paths)
BY PathsAssumption

LEMMA Pop ==
    ASSUME NEW S, NEW s \in Seq(S), s # <<>>
    PROVE  /\ Tail(s) \in Seq(S) /\ Head(s) = s[1] /\ s[1] \in S
           /\ DOMAIN s = 1 .. Len(s) /\ DOMAIN Tail(s) = 1 .. Len(s) - 1
           /\ Len(s) \in Nat \ {0}
           /\ \A k \in 1 .. Len(s) - 1 : Tail(s)[k] = s[k + 1]
<1>1. Len(s) \in Nat \ {0}
  OBVIOUS
<1>. QED
  BY <1>1

LEMMA InitType == Init => TypeOK
<1> SUFFICES ASSUME Init PROVE TypeOK
  OBVIOUS
<1>1. cmd.paths \in Seq(Paths)
  BY PathsAssumption DEF Init
<1>2. disk \in [Files -> Contents \ Torn]
  BY ContentsAssumption DEF Init
<1>3. disk \in [Files -> Contents] /\ saved \in [Files -> Contents \ Torn]
  BY <1>2, ContentsAssumption DEF Init
<1>4. Empty \in Contents
  BY ContentsAssumption DEF Torn
<1>. QED
  BY <1>1, <1>3, <1>4 DEF Init, TypeOK

LEMMA NextType == TypeOK /\ Control /\ [Next]_vars => TypeOK'
<1> SUFFICES ASSUME TypeOK, Control, [Next]_vars PROVE TypeOK'
  OBVIOUS
<1> USE DEF TypeOK, At, Goto, Exit, Running, NoOutput, NoDisk, Fixed, history
<1>1. CASE ParseFlags
  <2>1. stdout' \in Seq(Entry)
    <3>1. "version" \in Entry
      BY DEF Entry
    <3>2. Append(stdout, "version") \in Seq(Entry)
      BY <3>1
    <3>. QED
      BY <1>1, <3>2 DEF ParseFlags
  <2>. QED
    BY <1>1, <2>1 DEF ParseFlags
<1>2. CASE ReadStdin
  BY <1>2 DEF ReadStdin
<1>3. CASE NextArg
  <2>1. args' \in Seq(Paths) /\ queue' \in Seq(Paths)
    BY <1>3, WalkType, Pop DEF NextArg
  <2>2. path' \in Files \cup {Stdin}
    BY <1>3 DEF NextArg
  <2>. QED
    BY <1>3, <2>1, <2>2 DEF NextArg
<1>4. CASE NextEntry
  <2>1. queue' \in Seq(Paths)
    <3>1. CASE queue = <<>>
      BY <1>4, <3>1 DEF NextEntry
    <3>2. CASE queue # <<>>
      <4>1. Tail(queue) \in Seq(Paths)
        BY <3>2, Pop
      <4>2. queue' \in {queue, Tail(queue)}
        BY <1>4 DEF NextEntry
      <4>. QED
        BY <4>1, <4>2
    <3>. QED
      BY <3>1, <3>2
  <2>2. path' \in Files \cup {Stdin}
    BY <1>4, PathsAssumption DEF NextEntry
  <2>. QED
    BY <1>4, <2>1, <2>2 DEF NextEntry
<1>5. CASE ReadFile
  BY <1>5 DEF ReadFile, Control
<1>6. CASE FormatText
  BY <1>6 DEF FormatText
<1>7. CASE Emit
  <2>1. Format(text) \in Contents
    BY <1>7, FormatType DEF Emit, Control
  <2>2. <<"text", Format(text)>> \in Entry
    BY <2>1 DEF Entry
  <2>3. ASSUME Mode \in {"list", "diff"} PROVE <<Mode, path>> \in Entry
    BY <2>3 DEF Entry, Mode
  <2>4. Mode \in {"print", "list", "diff", "write"}
    BY DEF Mode
  <2>5. \A e \in Entry : Append(stdout, e) \in Seq(Entry)
    OBVIOUS
  <2>6. stdout' \in Seq(Entry)
    BY <1>7, <2>2, <2>3, <2>4, <2>5 DEF Emit, Report
  <2>7. UNCHANGED <<cmd, args, queue, path, text, disk, saved, stale, lost, runs, saves>>
    BY <1>7 DEF Emit
  <2>8. pc' \in {pc, "walk"} /\ exit' \in {exit, "0", "1"} /\ unclean' \in {unclean, unclean + 1}
    BY <1>7 DEF Emit, Report, Done
  <2>. QED
    BY <2>6, <2>7, <2>8
<1>8. CASE Truncate
  BY <1>8, ContentsAssumption DEF Truncate, Torn, Mode
<1>9. CASE WriteBytes
  <2>1. Format(text) \in Contents /\ path \in Files
    BY <1>9, FormatType DEF WriteBytes, Control
  <2>2. PICK c \in Contents : disk' = Through(c)
    BY <1>9, <2>1, ContentsAssumption DEF WriteBytes
  <2>3. disk' \in [Files -> Contents]
    BY <2>1, <2>2 DEF Through
  <2>. QED
    BY <1>9, <2>3 DEF WriteBytes
<1>10. CASE Kill
  BY <1>10, ContentsAssumption DEF Kill, Through, proc
<1>11. CASE Save
  BY <1>11 DEF Save, proc
<1>12. CASE CloseStdin
  BY <1>12 DEF CloseStdin, proc
<1>13. CASE Rerun
  BY <1>13, PathsAssumption, ContentsAssumption DEF Rerun, Torn
<1>14. CASE UNCHANGED vars
  BY <1>14 DEF vars, proc
<1>. QED
  BY <1>1, <1>2, <1>3, <1>4, <1>5, <1>6, <1>7, <1>8, <1>9, <1>10, <1>11, <1>12, <1>13, <1>14
     DEF Next, Program

LEMMA InitControl == Init => Control
BY DEF Init, Control, Processing

LEMMA NextControl == TypeOK /\ Control /\ [Next]_vars => Control'
<1> SUFFICES ASSUME TypeOK, Control, [Next]_vars PROVE Control'
  OBVIOUS
<1> USE DEF TypeOK, Control, Processing, At, Goto, Exit, Running, NoOutput, NoDisk, Fixed, history
<1>. "stdin" \notin Files
  BY PathsAssumption
<1>1. CASE ParseFlags
  BY <1>1 DEF ParseFlags
<1>2. CASE ReadStdin
  BY <1>2 DEF ReadStdin, Stdin
<1>3. CASE NextArg
  BY <1>3 DEF NextArg
<1>4. CASE NextEntry
  BY <1>4, PathsAssumption DEF NextEntry
<1>5. CASE ReadFile
  BY <1>5 DEF ReadFile, Stdin
<1>6. CASE FormatText
  BY <1>6 DEF FormatText
<1>7. CASE Emit
  BY <1>7 DEF Emit, Report, Done
<1>8. CASE Truncate
  BY <1>8 DEF Truncate, Mode
<1>9. CASE WriteBytes
  BY <1>9 DEF WriteBytes
<1>10. CASE Kill
  BY <1>10 DEF Kill, proc
<1>11. CASE Save
  BY <1>11 DEF Save, proc
<1>12. CASE CloseStdin
  BY <1>12 DEF CloseStdin, proc
<1>13. CASE Rerun
  BY <1>13 DEF Rerun
<1>14. CASE UNCHANGED vars
  BY <1>14 DEF vars, proc
<1>. QED
  BY <1>1, <1>2, <1>3, <1>4, <1>5, <1>6, <1>7, <1>8, <1>9, <1>10, <1>11, <1>12, <1>13, <1>14
     DEF Next, Program

LEMMA NextOnlyWriteModeWrites ==
    TypeOK /\ Control /\ OnlyWriteModeWrites /\ [Next]_vars => OnlyWriteModeWrites'
<1> SUFFICES ASSUME TypeOK, Control, OnlyWriteModeWrites, [Next]_vars,
                    (cmd.l \/ cmd.d \/ ~cmd.w)'
             PROVE  disk' = saved'
  BY DEF OnlyWriteModeWrites
<1>1. cmd' = cmd /\ disk = saved
  BY DEF OnlyWriteModeWrites, Next, Program, ParseFlags, ReadStdin, NextArg, NextEntry, ReadFile,
         FormatText, Emit, Truncate, WriteBytes, Kill, Save, CloseStdin, Rerun, Fixed, vars
<1>2. pc # "write"
  BY <1>1 DEF Control
<1>3. CASE Truncate
  BY <1>1, <1>3 DEF Truncate, Mode, NoDisk
<1>4. CASE WriteBytes \/ Kill
  BY <1>1, <1>2, <1>4 DEF WriteBytes, Kill, At, Fixed, history
<1>5. CASE Save
  BY <1>1, <1>5 DEF Save
<1>. QED
  BY <1>1, <1>3, <1>4, <1>5
     DEF Next, Program, ParseFlags, ReadStdin, NextArg, NextEntry, ReadFile, FormatText, Emit,
         CloseStdin, Rerun, NoDisk, Fixed, history, vars

LEMMA InitProvenance == Init => Provenance
<1> SUFFICES ASSUME Init PROVE Provenance
  OBVIOUS
<1>1. \A p \in Files : disk[p] \in Contents /\ saved[p] = disk[p]
  BY ContentsAssumption DEF Init
<1>2. \A p \in Files : disk[p] \in Rewritings[saved[p]]
  BY <1>1, RewritingsHold
<1>. QED
  BY <1>2 DEF Init, Provenance

LEMMA NextProvenance == TypeOK /\ Control /\ Provenance /\ [Next]_vars => Provenance'
<1> SUFFICES ASSUME TypeOK, Control, Provenance, [Next]_vars PROVE Provenance'
  OBVIOUS
<1> USE DEF At, Goto, Exit, Running, NoOutput, NoDisk, Fixed, history
<1>. "stdin" \notin Files
  BY PathsAssumption
<1>1. CASE ParseFlags \/ NextArg \/ NextEntry \/ FormatText \/ CloseStdin \/ UNCHANGED vars
  BY <1>1 DEF ParseFlags, NextArg, NextEntry, FormatText, CloseStdin, vars, proc, Provenance
<1>2. CASE ReadStdin
  BY <1>2 DEF ReadStdin, Control, Stdin, Provenance
<1>3. CASE ReadFile
  BY <1>3 DEF ReadFile, Provenance
<1>4. CASE Emit
  BY <1>4 DEF Emit, Report, Done, Provenance
<1>5. CASE Truncate
  <2>1. path \in Files
    BY <1>5 DEF Truncate, Mode, TypeOK, Stdin
  <2>2. CASE pc' # "write"
    BY <1>5, <2>2 DEF Truncate, Provenance
  <2>3. CASE pc' = "write"
    <3>1. disk' = [disk EXCEPT ![path] = Empty] /\ ~detached' /\ pc' = "write"
      BY <1>5, <2>3 DEF Truncate
    <3>2. \A p \in Files \ lost' : disk'[p] \in Torn \cup Rewritings[saved'[p]]
      BY <1>5, <3>1 DEF Truncate, Provenance, TypeOK, Torn
    <3>3. path \notin lost' => text \in Torn \cup Rewritings[saved'[path]]
      BY <1>5, <2>1, <2>3 DEF Truncate, Provenance
    <3>. QED
      BY <1>5, <3>1, <3>2, <3>3 DEF Truncate, Provenance
  <2>. QED
    BY <2>2, <2>3
<1>6. CASE WriteBytes
  <2>1. path \in Files /\ text \in Contents /\ Format(text) # Error
    BY <1>6 DEF WriteBytes, Control, TypeOK
  <2>2. PICK c \in Torn \cup {Format(text)} : disk' = Through(c)
    BY <1>6 DEF WriteBytes
  <2>3. UNCHANGED <<path, text, detached, saved, stale, lost>> /\ pc' \in {"write", "walk"}
    BY <1>6 DEF WriteBytes
  <2>4. ASSUME NEW p \in Files \ lost
        PROVE  disk'[p] \in Torn \cup Rewritings[saved[p]]
    <3>1. CASE detached \/ p # path
      BY <2>1, <2>2, <3>1 DEF Through, Provenance, TypeOK
    <3>2. CASE ~detached /\ p = path
      <4>1. disk'[p] = c
        BY <2>1, <2>2, <3>2 DEF Through, TypeOK
      <4>2. text \in Torn \cup Rewritings[saved[p]]
        BY <1>6, <3>2 DEF WriteBytes, Provenance
      <4>3. saved[p] \in Contents
        BY <2>1, <3>2 DEF TypeOK
      <4>4. Format(text) \in Torn \cup Rewritings[saved[p]]
        BY <2>1, <4>2, <4>3, ContentsAssumption, RewritingsHold
      <4>. QED
        BY <2>2, <4>1, <4>4
    <3>. QED
      BY <3>1, <3>2
  <2>5. detached => disk' = disk
    BY <2>2 DEF Through
  <2>. QED
    BY <1>6, <2>3, <2>4, <2>5 DEF WriteBytes, Provenance
<1>7. CASE Kill
  <2>1. CASE pc = "write"
    <3>1. PICK c \in Torn : disk' = Through(c)
      BY <1>7, <2>1 DEF Kill
    <3>2. \A p \in Files \ lost : disk'[p] \in Torn \cup Rewritings[saved[p]]
      BY <3>1 DEF Through, Provenance, TypeOK
    <3>3. detached => disk' = disk
      BY <3>1 DEF Through
    <3>. QED
      BY <1>7, <2>1, <3>2, <3>3 DEF Kill, Provenance, proc
  <2>2. CASE pc # "write"
    BY <1>7, <2>2 DEF Kill, Provenance, proc
  <2>. QED
    BY <2>1, <2>2
<1>8. CASE Save
  <2>1. PICK q \in Files, c \in Contents \ Torn :
          /\ disk' = [disk EXCEPT ![q] = c] /\ saved' = [saved EXCEPT ![q] = c]
          /\ stale' = stale \cup {q} /\ lost' = lost \ {q}
          /\ detached' = (detached \/ (pc = "write" /\ q = path))
          /\ UNCHANGED <<pc, path, text>>
    BY <1>8 DEF Save, proc
  <2>2. \A p \in Files \ lost' : disk'[p] \in Torn \cup Rewritings[saved'[p]]
    <3>1. c \in Rewritings[c]
      BY RewritingsHold
    <3>. QED
      BY <2>1, <3>1 DEF Provenance, TypeOK
  <2>3. pc \in {"format", "emit"} /\ path \in Files \ stale' => text = disk'[path]
    BY <2>1 DEF Provenance, TypeOK
  <2>4. pc = "write" /\ path \notin lost' /\ ~detached' =>
          text \in Torn \cup Rewritings[saved'[path]]
    BY <2>1 DEF Provenance, TypeOK, Control
  <2>5. pc = "write" /\ detached' => path \in stale' /\ disk'[path] \notin Torn
    BY <2>1 DEF Provenance, TypeOK
  <2>. QED
    BY <2>1, <2>2, <2>3, <2>4, <2>5 DEF Provenance
<1>9. CASE Rerun
  BY <1>9 DEF Rerun, Provenance
<1>. QED
  BY <1>1, <1>2, <1>3, <1>4, <1>5, <1>6, <1>7, <1>8, <1>9 DEF Next, Program

LEMMA OneMore ==
    ASSUME NEW S, NEW T, NEW x, IsFiniteSet(S), T \subseteq S \cup {x}
    PROVE  Cardinality(T) <= Cardinality(S) + 1
<1>1. IsFiniteSet(S \cup {x}) /\ Cardinality(S \cup {x}) <= Cardinality(S) + 1
  <2>1. Cardinality(S) \in Nat
    BY FS_CardinalityType
  <2>. QED
    BY <2>1, FS_AddElement
<1>2. Cardinality(T) <= Cardinality(S \cup {x}) /\ Cardinality(T) \in Nat
  BY <1>1, FS_Subset, FS_CardinalityType
<1>3. Cardinality(S) \in Nat /\ Cardinality(S \cup {x}) \in Nat
  BY <1>1, FS_CardinalityType
<1>. QED
  BY <1>1, <1>2, <1>3

LEMMA InitBudget == Init => Budget
<1> SUFFICES ASSUME Init PROVE Budget
  OBVIOUS
<1>1. Charged = {}
  BY ContentsAssumption DEF Init, Charged, Suspect, Excused, Damaged, Processing
<1>. QED
  BY <1>1, FS_EmptySet DEF Budget, Init

(* A step tears one more file only if it counts as an unclean end. *)
LEMMA Charge ==
    ASSUME TypeOK, Control, Provenance, [Next]_vars
    PROVE  \/ Charged' \subseteq Charged /\ unclean' >= unclean
           \/ Charged' \subseteq Charged \cup {path} /\ unclean' = unclean + 1
<1> USE DEF TypeOK, At, Goto, Exit, Running, NoOutput, NoDisk, Fixed, history, Processing,
            Charged, Suspect, Excused, Damaged
<1>. "stdin" \notin Files
  BY PathsAssumption
<1>1. CASE ParseFlags \/ NextArg \/ NextEntry \/ FormatText \/ CloseStdin \/ UNCHANGED vars
  BY <1>1 DEF ParseFlags, NextArg, NextEntry, FormatText, CloseStdin, vars, proc
<1>2. CASE ReadStdin
  BY <1>2 DEF ReadStdin, Control, Stdin
<1>3. CASE ReadFile
  BY <1>3 DEF ReadFile
<1>4. CASE Emit
  BY <1>4 DEF Emit, Report, Done
<1>5. CASE Truncate
  <2>1. CASE pc' # "write"
    BY <1>5, <2>1 DEF Truncate
  <2>2. CASE pc' = "write"
    BY <1>5, <2>2 DEF Truncate
  <2>. QED
    BY <2>1, <2>2
<1>6. CASE WriteBytes
  <2>1. path \in Files /\ text \in Contents /\ Format(text) # Error
    BY <1>6 DEF WriteBytes, Control
  <2>2. CASE pc' = "walk"
    <3>1. disk' = Through(Format(text)) /\ UNCHANGED <<path, text, unclean>> /\ pc = "write"
      BY <1>6, <2>2 DEF WriteBytes
    <3>2. Format(text) \in Torn <=> text \in Torn
      BY <2>1, ContentsAssumption
    <3>. QED
      BY <2>1, <2>2, <3>1, <3>2 DEF Through, Provenance
  <2>3. CASE pc' # "walk"
    <3>1. unclean' = unclean + 1 /\ UNCHANGED <<pc, path, text>>
      BY <1>6, <2>3 DEF WriteBytes
    <3>2. \A p \in Files : p # path => disk'[p] = disk[p]
      BY <1>6, <2>1 DEF WriteBytes, Through
    <3>. QED
      BY <3>1, <3>2
  <2>. QED
    BY <2>2, <2>3
<1>7. CASE Kill
  <2>1. unclean' = unclean + 1 /\ UNCHANGED <<pc, path, text>>
    BY <1>7 DEF Kill, proc
  <2>2. \A p \in Files : p # path => disk'[p] = disk[p]
    BY <1>7 DEF Kill, Through
  <2>. QED
    BY <2>1, <2>2
<1>8. CASE Save
  BY <1>8 DEF Save, proc
<1>9. CASE Rerun
  BY <1>9 DEF Rerun
<1>. QED
  BY <1>1, <1>2, <1>3, <1>4, <1>5, <1>6, <1>7, <1>8, <1>9 DEF Next, Program

LEMMA NextBudget ==
    TypeOK /\ TypeOK' /\ Control /\ Provenance /\ Budget /\ [Next]_vars => Budget'
<1> SUFFICES ASSUME TypeOK, TypeOK', Control, Provenance, Budget, [Next]_vars PROVE Budget'
  OBVIOUS
<1>1. IsFiniteSet(Charged) /\ IsFiniteSet(Charged')
  <2>1. Charged \subseteq Files /\ Charged' \subseteq Files
    BY DEF Charged, Suspect, Damaged
  <2>. QED
    BY <2>1, FS_Subset, PathsAssumption
<1>2. Cardinality(Charged) \in Nat /\ Cardinality(Charged') \in Nat /\ unclean \in Nat /\ unclean' \in Nat
  BY <1>1, FS_CardinalityType DEF TypeOK
<1>3. CASE Charged' \subseteq Charged /\ unclean' >= unclean
  BY <1>1, <1>2, <1>3, FS_Subset DEF Budget
<1>4. CASE Charged' \subseteq Charged \cup {path} /\ unclean' = unclean + 1
  <2>1. Cardinality(Charged') <= Cardinality(Charged) + 1
    BY <1>1, <1>4, OneMore
  <2>. QED
    BY <1>2, <1>4, <2>1 DEF Budget
<1>. QED
  BY <1>3, <1>4, Charge

(* Taking an argument, or an entry of the walk, changes nothing about what *)
(* is still to do.                                                         *)
LEMMA AskedByNone == AskedBy(<<>>) = {}
BY DEF AskedBy

LEMMA AskedByFirst ==
    ASSUME NEW ps \in Seq(Paths), ps # <<>>, NEW p \in Files
    PROVE  p \in AskedBy(ps) <=>
              \/ p = Head(ps)
              \/ /\ Head(ps) \in Directories /\ p \in Templates
                 /\ \E j \in DOMAIN Walk[Head(ps)] : p = Walk[Head(ps)][j]
              \/ p \in AskedBy(Tail(ps))
<1> DEFINE Names(d) == \/ p = d
                       \/ /\ d \in Directories /\ p \in Templates
                          /\ \E j \in DOMAIN Walk[d] : p = Walk[d][j]
<1>1. \A s : p \in AskedBy(s) <=> \E k \in DOMAIN s : Names(s[k])
  BY DEF AskedBy
<1> HIDE DEF Names
<1>2. (\E k \in DOMAIN ps : Names(ps[k])) <=> Names(ps[1]) \/ \E k \in 2 .. Len(ps) : Names(ps[k])
  BY Pop
<1>3. (\E k \in 2 .. Len(ps) : Names(ps[k])) <=> \E k \in DOMAIN Tail(ps) : Names(Tail(ps)[k])
  <2>1. ASSUME NEW k \in 2 .. Len(ps), Names(ps[k]) PROVE \E j \in DOMAIN Tail(ps) : Names(Tail(ps)[j])
    <3>1. k - 1 \in 1 .. Len(ps) - 1 /\ Tail(ps)[k - 1] = ps[k]
      BY Pop
    <3>. QED
      BY <2>1, <3>1, Pop
  <2>2. ASSUME NEW k \in DOMAIN Tail(ps), Names(Tail(ps)[k]) PROVE \E j \in 2 .. Len(ps) : Names(ps[j])
    <3>1. k + 1 \in 2 .. Len(ps) /\ Tail(ps)[k] = ps[k + 1]
      BY Pop
    <3>. QED
      BY <2>2, <3>1
  <2>. QED
    BY <2>1, <2>2
<1>4. p \in AskedBy(ps) <=> Names(Head(ps)) \/ p \in AskedBy(Tail(ps))
  BY <1>1, <1>2, <1>3, Pop
<1>. QED
  BY <1>4 DEF Names

LEMMA QueueFirst ==
    ASSUME NEW s \in Seq(Paths), s # <<>>, NEW p
    PROVE  (\E k \in DOMAIN s : p = s[k]) <=> p = Head(s) \/ \E k \in DOMAIN Tail(s) : p = Tail(s)[k]
<1>1. ASSUME NEW k \in DOMAIN s, p = s[k], k # 1 PROVE \E j \in DOMAIN Tail(s) : p = Tail(s)[j]
  <2>1. k - 1 \in DOMAIN Tail(s) /\ Tail(s)[k - 1] = s[k]
    BY <1>1, Pop
  <2>. QED
    BY <1>1, <2>1
<1>2. ASSUME NEW k \in DOMAIN Tail(s), p = Tail(s)[k] PROVE \E j \in DOMAIN s : p = s[j]
  <2>1. k + 1 \in DOMAIN s /\ Tail(s)[k] = s[k + 1]
    BY <1>2, Pop
  <2>. QED
    BY <1>2, <2>1
<1>. QED
  BY <1>1, <1>2, Pop

LEMMA NextArgRemaining ==
    ASSUME TypeOK, Control, NextArg
    PROVE  (exit' = "running" => Remaining' = Remaining) /\ (exit' = "0" => Remaining = {})
<1> USE DEF TypeOK, Control, NextArg, At, Goto, Exit, Running
<1>1. exit = "running" /\ pc = "arg" /\ queue = <<>>
  OBVIOUS
<1>2. CASE args = <<>>
  BY <1>1, <1>2, AskedByNone DEF Remaining
<1>3. CASE args # <<>> /\ exit' = "running"
  <2> SUFFICES ASSUME NEW p \in Files PROVE p \in Remaining' <=> p \in Remaining
    BY <1>3 DEF Remaining
  <2>1. p \in Remaining <=> p \in AskedBy(args)
    BY <1>1 DEF Remaining
  <2>2. args' = Tail(args)
    BY <1>3
  <2>3. CASE Head(args) \in Directories /\ queue' = Walk[Head(args)] /\ pc' = "walk"
    <3>1. p # Head(args)
      BY <2>3, PathsAssumption
    <3>2. p \in Remaining' <=> p \in AskedBy(Tail(args)) \/ (p \in Templates /\ \E k \in DOMAIN queue' : p = queue'[k])
      BY <1>3, <2>2, <2>3 DEF Remaining
    <3>. QED
      BY <1>3, <2>1, <2>3, <3>1, <3>2, AskedByFirst
  <2>4. CASE Head(args) \in Files /\ path' = Head(args) /\ pc' = "read" /\ queue' = queue
    <3>1. Head(args) \notin Directories
      BY <2>4, PathsAssumption
    <3>2. p \in Remaining' <=> p \in AskedBy(Tail(args)) \/ p = Head(args)
      BY <1>1, <1>3, <2>2, <2>4 DEF Remaining
    <3>. QED
      BY <1>3, <2>1, <3>1, <3>2, AskedByFirst
  <2>. QED
    BY <1>3, <2>3, <2>4
<1>4. CASE args # <<>> /\ exit' # "running"
  BY <1>4
<1>. QED
  BY <1>2, <1>3, <1>4

LEMMA NextEntryRemaining ==
    ASSUME TypeOK, Control, NextEntry
    PROVE  (exit' = "running" => Remaining' = Remaining) /\ exit' # "0"
<1> USE DEF TypeOK, At, Goto, Exit, Running, NextEntry
<1>1. CASE queue = <<>>
  BY <1>1 DEF Remaining
<1>2. CASE queue # <<>> /\ exit' = "running"
  <2> SUFFICES ASSUME NEW p \in Files PROVE p \in Remaining' <=> p \in Remaining
    BY <1>2 DEF Remaining
  <2>1. p \in Remaining <=> p \in AskedBy(args) \/ (p \in Templates /\ \E k \in DOMAIN queue : p = queue[k])
    BY DEF Remaining
  <2>2. queue' = Tail(queue) /\ args' = args
    BY <1>2
  <2>3. CASE Head(queue) \in Templates /\ path' = Head(queue) /\ pc' = "read"
    <3>1. p \in Remaining' <=> \/ p \in AskedBy(args)
                               \/ p \in Templates /\ \E k \in DOMAIN Tail(queue) : p = Tail(queue)[k]
                               \/ p = Head(queue)
      BY <1>2, <2>2, <2>3 DEF Remaining
    <3>. QED
      BY <1>2, <2>1, <2>3, <3>1, QueueFirst
  <2>4. CASE Head(queue) \notin Templates /\ pc' = "walk"
    <3>1. p \in Remaining' <=> \/ p \in AskedBy(args)
                               \/ p \in Templates /\ \E k \in DOMAIN Tail(queue) : p = Tail(queue)[k]
      BY <1>2, <2>2, <2>4 DEF Remaining
    <3>2. (\E k \in DOMAIN queue : p = queue[k])
            <=> p = Head(queue) \/ \E k \in DOMAIN Tail(queue) : p = Tail(queue)[k]
      BY <1>2, QueueFirst
    <3>. QED
      BY <2>1, <2>4, <3>1, <3>2
  <2>. QED
    BY <1>2, <2>3, <2>4
<1>3. CASE queue # <<>> /\ exit' # "running"
  BY <1>3
<1>. QED
  BY <1>1, <1>2, <1>3

LEMMA InitProgress == Init => Progress /\ Quiet
<1> SUFFICES ASSUME Init PROVE Progress /\ Quiet
  OBVIOUS
<1>1. Remaining = Asked
  BY PathsAssumption DEF Init, Remaining, Asked, AskedBy, Stdin
<1>. QED
  BY <1>1 DEF Init, Progress, Quiet

(* What is on the disk of a file, unless it is being written: what was held. *)
LEMMA OnDisk ==
    ASSUME TypeOK, Provenance, NEW p \in Files
    PROVE  disk[p] \in Held(p) /\ Held(p) \subseteq Contents
<1>1. disk[p] \in Contents /\ saved[p] \in Contents
  BY DEF TypeOK
<1>2. Rewritings[saved[p]] \subseteq Contents /\ Torn \subseteq Contents
  BY <1>1, RewritingsHold, ContentsAssumption
<1>. QED
  BY <1>1, <1>2 DEF Held, Provenance

LEMMA NextProgress ==
    TypeOK /\ Control /\ OnlyWriteModeWrites /\ Provenance /\ Progress /\ [Next]_vars => Progress'
<1> SUFFICES ASSUME TypeOK, Control, OnlyWriteModeWrites, Provenance, Progress, [Next]_vars
             PROVE  Progress'
  OBVIOUS
<1> USE DEF At, Goto, Exit, Running, NoOutput, NoDisk, Fixed, history, Asked, Writes, Listing,
            Formatted
<1>. "stdin" \notin Files
  BY PathsAssumption
<1>. \A p : UNCHANGED <<disk[p], saved[p]>> /\ (p \in lost' <=> p \in lost)
               => Rewritten(p)' = Rewritten(p)
  BY DEF Rewritten, Held
<1>1. CASE ParseFlags
  <2>1. Remaining' = IF exit' = "running" THEN Remaining ELSE {}
    BY <1>1 DEF ParseFlags, Remaining, Control, Stdin
  <2>. QED
    BY <1>1, <2>1 DEF ParseFlags, Progress
<1>2. CASE ReadStdin
  <2>1. Remaining' = IF exit' = "running" THEN Remaining ELSE {}
    BY <1>2 DEF ReadStdin, Remaining, Control, Stdin
  <2>2. exit' # "0"
    BY <1>2 DEF ReadStdin
  <2>. QED
    BY <1>2, <2>1, <2>2 DEF ReadStdin, Progress
<1>3. CASE NextArg
  <2>1. /\ exit' = "running" => Remaining' = Remaining
        /\ exit' = "0" => Remaining = {}
        /\ exit' # "running" => Remaining' = {}
    BY <1>3, NextArgRemaining DEF Remaining
  <2>. QED
    BY <1>3, <2>1 DEF NextArg, Progress
<1>4. CASE NextEntry
  <2>1. /\ exit' = "running" => Remaining' = Remaining
        /\ exit' # "0"
        /\ exit' # "running" => Remaining' = {}
    BY <1>4, NextEntryRemaining DEF Remaining
  <2>. QED
    BY <1>4, <2>1 DEF NextEntry, Progress
<1>5. CASE ReadFile
  <2>1. exit' # "0" /\ Remaining' = IF exit' = "running" THEN Remaining ELSE {}
    BY <1>5 DEF ReadFile, Remaining
  <2>2. exit' = "running" => path \in Remaining
    BY <1>5 DEF ReadFile, Remaining, Control
  <2>. QED
    BY <1>5, <2>1, <2>2 DEF ReadFile, Progress
<1>6. CASE FormatText
  <2>1. exit' # "0" /\ Remaining' = IF exit' = "running" THEN Remaining ELSE {}
    BY <1>6 DEF FormatText, Remaining
  <2>. QED
    BY <1>6, <2>1 DEF FormatText, Progress
<1>7. CASE Emit
  <2>1. Remaining' \subseteq Remaining
    BY <1>7 DEF Emit, Report, Done, Remaining
  <2>2. UNCHANGED <<cmd, disk, stale, saves, path, text>> /\ exit = "running" /\ pc = "emit"
    BY <1>7 DEF Emit
  <2>3. CASE path = Stdin
    <3>1. ~cmd.w /\ ~cmd.l
      BY <2>2, <2>3 DEF Control, Processing
    <3>. QED
      BY <2>1, <2>2, <3>1 DEF Progress
  <2>4. CASE path \in Files /\ Mode = "list" /\ Listing'
    <3>1. exit' = "running" /\ Remaining \subseteq Remaining' \cup {path} /\ path \in Remaining
      BY <1>7, <2>4 DEF Emit, Report, Done, Remaining, Stdin
    <3>2. Listing /\ text = disk[path] /\ path \in Asked
      <4>1. stale = {} /\ Listing /\ path \in Asked
        BY <1>7, <2>2, <2>4, <3>1 DEF Control, Progress, Emit, Report
      <4>. QED
        BY <2>2, <2>4, <4>1 DEF Provenance
    <3>3. CASE Changed
      <4>1. stdout' = Append(stdout, <<"list", path>>)
        BY <1>7, <2>4, <3>3 DEF Emit, Report
      <4>2. /\ DOMAIN stdout' = 1 .. Len(stdout) + 1 /\ DOMAIN stdout = 1 .. Len(stdout)
            /\ Len(stdout) \in Nat
            /\ \A k \in 1 .. Len(stdout) : stdout'[k] = stdout[k]
            /\ stdout'[Len(stdout) + 1] = <<"list", path>>
        BY <4>1 DEF TypeOK
      <4>3. \A k \in DOMAIN stdout : stdout[k][2] \in Asked /\ ~Formatted(stdout[k][2])
        BY <2>2, <3>2 DEF Progress
      <4>4. \A p \in Asked \ Remaining : ~Formatted(p) => \E k \in DOMAIN stdout : stdout[k][2] = p
        BY <2>2, <3>2 DEF Progress
      <4>5. ~Formatted(path)
        BY <3>2, <3>3 DEF Changed
      <4>6. \A k \in DOMAIN stdout' : stdout'[k][2] \in Asked /\ ~Formatted(stdout'[k][2])
        BY <3>2, <4>2, <4>3, <4>5
      <4>7. \A p \in Asked \ Remaining' : ~Formatted(p) => \E k \in DOMAIN stdout' : stdout'[k][2] = p
        <5> SUFFICES ASSUME NEW p \in Asked \ Remaining', ~Formatted(p)
                     PROVE  \E k \in DOMAIN stdout' : stdout'[k][2] = p
          OBVIOUS
        <5>1. CASE p = path
          BY <4>2, <5>1
        <5>2. CASE p # path
          <6>1. PICK k \in DOMAIN stdout : stdout[k][2] = p
            BY <3>1, <4>4, <5>2
          <6>. QED
            BY <4>2, <6>1
        <5>. QED
          BY <5>1, <5>2
      <4>8. ~Writes'
        BY <2>4
      <4>. QED
        BY <2>1, <2>2, <4>6, <4>7, <4>8 DEF Progress
    <3>4. CASE ~Changed
      <4>1. UNCHANGED stdout /\ Formatted(path)
        BY <1>7, <2>4, <3>2, <3>4 DEF Emit, Changed
      <4>. QED
        BY <2>1, <2>2, <2>4, <3>1, <3>2, <4>1 DEF Progress
    <3>. QED
      BY <3>3, <3>4
  <2>5. CASE path \in Files /\ (Mode # "list" \/ ~Listing')
    <3>1. ~Writes /\ ~Listing'
      BY <1>7, <2>2, <2>5 DEF Emit, Mode, Stdin
    <3>. QED
      BY <2>1, <2>2, <3>1 DEF Progress
  <2>. QED
    BY <2>3, <2>4, <2>5 DEF TypeOK
<1>8. CASE Truncate
  <2>1. path \in Files /\ ~Listing'
    BY <1>8 DEF Truncate, Mode, TypeOK
  <2>2. CASE pc' = "walk"
    <3>1. /\ ~Changed /\ exit = "running" /\ exit' = "running"
          /\ UNCHANGED <<cmd, disk, stale, args, queue, path>>
      BY <1>8, <2>2 DEF Truncate
    <3>2. Remaining' \subseteq Remaining /\ Remaining \subseteq Remaining' \cup {path}
      BY <2>2, <3>1 DEF Remaining
    <3>3. path \notin stale => path \notin Unreadable /\ Format(disk[path]) = disk[path]
      BY <1>8, <2>1, <3>1 DEF Truncate, Changed, Control, Processing, Provenance
    <3>4. path \notin stale => path \notin Unreadable /\ Rewritten(path)
      BY <2>1, <3>3, OnDisk DEF Rewritten
    <3>5. UNCHANGED <<saved, lost>>
      BY <1>8, <2>2 DEF Truncate
    <3>6. \A p \in Files : Rewritten(p)' = Rewritten(p)
      BY <3>1, <3>5 DEF Rewritten, Held
    <3>7. Asked \subseteq Files
      BY DEF AskedBy
    <3>. QED
      BY <2>1, <3>1, <3>2, <3>4, <3>6, <3>7 DEF Progress
  <2>3. CASE pc' = "write"
    <3>1. /\ exit = "running" /\ exit' = "running" /\ UNCHANGED <<cmd, stale>>
          /\ \A p \in Files : p # path => Rewritten(p)' = Rewritten(p)
      BY <1>8, <2>3 DEF Truncate, TypeOK
    <3>2. Remaining' = Remaining /\ path \in Remaining
      BY <1>8, <2>1, <2>3 DEF Truncate, Remaining
    <3>3. Asked \subseteq Files
      BY DEF AskedBy
    <3>. QED
      BY <2>1, <3>1, <3>2, <3>3 DEF Progress
  <2>4. CASE pc' \notin {"walk", "write"}
    BY <1>8, <2>4 DEF Truncate, Progress, Remaining
  <2>. QED
    BY <2>2, <2>3, <2>4
<1>9. CASE WriteBytes
  <2>1. /\ path \in Files /\ ~Listing' /\ text \in Contents /\ Format(text) # Error
        /\ path \notin Unreadable /\ UNCHANGED <<cmd, stale, path, text>>
    BY <1>9 DEF WriteBytes, Control, TypeOK, Processing
  <2>2. CASE pc' = "walk"
    <3>1. exit = "running" /\ exit' = "running" /\ disk' = Through(Format(text))
      BY <1>9, <2>2 DEF WriteBytes
    <3>2. Remaining' \subseteq Remaining /\ Remaining \subseteq Remaining' \cup {path}
      BY <1>9, <2>2 DEF WriteBytes, Remaining
    <3>3. path \notin stale => Rewritten(path)'
      <4> SUFFICES ASSUME path \notin stale PROVE \E c \in Held(path)' : disk'[path] = Format(c)
        BY <2>1 DEF Rewritten
      <4>1. disk'[path] = Format(text)
        BY <1>9, <2>1, <3>1 DEF WriteBytes, Provenance, Through, TypeOK
      <4>2. text \in Held(path)
        BY <1>9, <2>1 DEF WriteBytes, Provenance, Held
      <4>3. Held(path)' = Held(path)
        BY <1>9, <2>1 DEF WriteBytes, Held
      <4>. QED
        BY <4>1, <4>2, <4>3
    <3>4. \A p \in Files : p # path => Rewritten(p)' = Rewritten(p)
      <4>1. \A p \in Files : p # path => disk'[p] = disk[p]
        BY <2>1, <3>1 DEF Through, TypeOK
      <4>. QED
        BY <1>9, <4>1 DEF WriteBytes
    <3>5. Asked \subseteq Files
      BY DEF AskedBy
    <3>. QED
      BY <2>1, <3>1, <3>2, <3>3, <3>4, <3>5 DEF Progress
  <2>3. CASE pc' # "walk"
    BY <1>9, <2>1, <2>3 DEF WriteBytes, Progress, Remaining
  <2>. QED
    BY <2>2, <2>3
<1>10. CASE Kill
  BY <1>10 DEF Kill, Progress, Remaining
<1>11. CASE Save
  <2>1. PICK q \in Files, c \in Contents :
          /\ disk' = [disk EXCEPT ![q] = c] /\ saved' = [saved EXCEPT ![q] = c]
          /\ stale' = stale \cup {q} /\ lost' = lost \ {q}
    BY <1>11 DEF Save
  <2>2. ~Listing' /\ Remaining' = Remaining /\ UNCHANGED <<cmd, exit>>
    BY <1>11 DEF Save, Remaining, proc, TypeOK
  <2>3. \A p \in Asked \ stale' : Rewritten(p)' = Rewritten(p)
    <3>1. \A p \in Asked \ stale' : p \in Files \ {q}
      BY <2>1 DEF AskedBy
    <3>. QED
      BY <2>1, <3>1 DEF TypeOK
  <2>. QED
    BY <2>1, <2>2, <2>3 DEF Progress
<1>12. CASE CloseStdin \/ UNCHANGED vars
  BY <1>12 DEF CloseStdin, vars, proc, Progress, Remaining
<1>13. CASE Rerun
  <2>1. Remaining' = Asked
    BY <1>13 DEF Rerun, Remaining, AskedBy, Stdin
  <2>. QED
    BY <1>13, <2>1 DEF Rerun, Progress
<1>. QED
  BY <1>1, <1>2, <1>3, <1>4, <1>5, <1>6, <1>7, <1>8, <1>9, <1>10, <1>11, <1>12, <1>13
     DEF Next, Program

LEMMA NextQuiet ==
    TypeOK /\ Control /\ Provenance /\ Budget /\ Progress /\ Quiet /\ [Next]_vars
        => Quiet' /\ [runs' = runs /\ runs > 1 /\ unclean = 0 /\ saves' = 0 =>
                         \A p \in Files : disk'[p] # disk[p] => Drifts(saved[p])]_disk
<1> SUFFICES ASSUME TypeOK, Control, Provenance, Budget, Progress, Quiet, [Next]_vars
             PROVE  /\ Quiet'
                    /\ runs' = runs /\ runs > 1 /\ unclean = 0 /\ saves' = 0 =>
                          \A p \in Files : disk'[p] # disk[p] => Drifts(saved[p])
  OBVIOUS
<1> USE DEF TypeOK, At, Goto, Exit, Running, NoOutput, NoDisk, Fixed, history, Asked, Writes
<1>. \A p : UNCHANGED <<disk[p], saved[p]>> => Settled(p)' = Settled(p)
  BY DEF Settled
<1>1. CASE ParseFlags \/ ReadStdin \/ NextArg \/ NextEntry \/ ReadFile \/ FormatText \/ Emit
           \/ CloseStdin \/ UNCHANGED vars
  <2>1. /\ UNCHANGED <<cmd, disk, saved, saves, runs>> /\ unclean' \in {unclean, unclean + 1}
        /\ pc' = "write" <=> pc = "write"
        /\ pc = "write" => UNCHANGED <<path, text>>
    BY <1>1 DEF ParseFlags, ReadStdin, NextArg, NextEntry, ReadFile, FormatText, Emit, Report, Done,
                CloseStdin, vars, proc
  <2>2. Drifts(saved[path])' = Drifts(saved'[path'])
    OBVIOUS
  <2>. QED
    BY <2>1, <2>2 DEF Quiet
<1>2. CASE Truncate
  <2>1. CASE pc' # "write"
    BY <1>2, <2>1 DEF Truncate, Quiet
  <2>2. CASE pc' = "write"
    <3>1. path \in Files /\ Writes /\ Changed
      BY <1>2, <2>2 DEF Truncate, Mode, Control
    <3>2. path \in Asked
      BY <1>2, <3>1 DEF Truncate, Progress, Remaining
    <3>3. /\ pc = "emit" /\ UNCHANGED <<cmd, path, text, saved, saves, runs, unclean>>
          /\ \A p \in Files : p # path => disk'[p] = disk[p]
      BY <1>2, <2>2 DEF Truncate
    <3>4. ASSUME runs > 1, unclean = 0, saves = 0
          PROVE  text \in Rewritings[saved[path]] /\ Drifts(saved[path])
      <4>1. text = disk[path] /\ Format(text) # Error
        BY <3>1, <3>3, <3>4 DEF Control, Provenance
      <4>2. PICK c \in Rewritings[saved[path]] : text = Format(c)
        BY <3>1, <3>2, <3>3, <3>4, <4>1 DEF Quiet, Settled
      <4>3. Format(c) # Error
        BY <4>2, ContentsAssumption
      <4>4. text \in Rewritings[saved[path]]
        BY <3>1, <4>2, <4>3, RewritingsHold
      <4>5. Format(Format(c)) \notin {Error, Format(c)}
        BY <3>1, <4>1, <4>2 DEF Changed
      <4>. QED
        BY <4>3, <4>4, <4>5 DEF Drifts
    <3>5. Drifts(saved[path])' = Drifts(saved'[path'])
      OBVIOUS
    <3>6. Asked \subseteq Files
      BY DEF AskedBy
    <3>7. Quiet'
      BY <2>2, <3>3, <3>4, <3>5, <3>6 DEF Quiet
    <3>. QED
      BY <3>3, <3>4, <3>7
  <2>. QED
    BY <2>1, <2>2
<1>3. CASE WriteBytes
  <2>1. /\ path \in Files /\ pc = "write" /\ UNCHANGED <<cmd, path, text, saved, saves, runs>>
        /\ \A p \in Files : p # path => disk'[p] = disk[p]
    BY <1>3 DEF WriteBytes, Control, Through
  <2>2. runs > 1 /\ unclean = 0 /\ saves = 0 =>
           text \in Rewritings[saved[path]] /\ Drifts(saved[path])
    BY <2>1 DEF Quiet
  <2>3. Quiet'
    <3>1. CASE pc' = "walk"
      <4>1. unclean' = unclean /\ disk' = Through(Format(text))
        BY <1>3, <3>1 DEF WriteBytes
      <4>2. runs > 1 /\ unclean = 0 /\ saves = 0 => Settled(path)'
        <5> SUFFICES ASSUME runs > 1, unclean = 0, saves = 0
                     PROVE  \E c \in Rewritings[saved[path]] : disk'[path] = Format(c)
          BY <2>1 DEF Settled
        <5>1. ~detached
          BY <2>1 DEF Control, Provenance
        <5>2. disk'[path] = Format(text)
          BY <2>1, <4>1, <5>1 DEF Through
        <5>. QED
          BY <2>2, <5>2
      <4>3. Asked \subseteq Files
        BY DEF AskedBy
      <4>. QED
        BY <2>1, <3>1, <4>1, <4>2, <4>3 DEF Quiet
    <3>2. CASE pc' # "walk"
      BY <1>3, <3>2 DEF WriteBytes, Quiet
    <3>. QED
      BY <3>1, <3>2
  <2>. QED
    BY <2>1, <2>2, <2>3
<1>4. CASE Kill
  <2>1. unclean' = unclean + 1 /\ UNCHANGED <<pc, path, saves>>
    BY <1>4 DEF Kill, proc
  <2>2. \A p \in Files : disk'[p] # disk[p] => pc = "write" /\ p = path
    BY <1>4 DEF Kill, Through
  <2>. QED
    BY <2>1, <2>2 DEF Quiet
<1>5. CASE Save
  BY <1>5 DEF Save, proc, Quiet
<1>6. CASE Rerun
  <2>1. UNCHANGED <<cmd, disk, saved, saves, unclean>> /\ runs' # runs /\ pc' = "flags"
    BY <1>6 DEF Rerun
  <2>2. ASSUME unclean = 0, saves = 0, Writes, NEW p \in Asked
        PROVE  Settled(p)
    <3>1. exit = "0" /\ Remaining = {}
      BY <1>6, <2>2 DEF Rerun, Control, Remaining
    <3>2. p \in Files /\ stale = {} /\ lost = {}
      BY <2>2 DEF Control, AskedBy
    <3>3. PICK c \in Torn \cup Rewritings[saved[p]] : disk[p] = Format(c)
      BY <2>2, <3>1, <3>2 DEF Progress, Rewritten, Held
    <3>4. disk[p] \notin Torn
      <4>1. IsFiniteSet(Charged)
        BY FS_Subset, PathsAssumption DEF Charged, Suspect, Damaged
      <4>2. Cardinality(Charged) = 0
        BY <2>2, <4>1, FS_CardinalityType DEF Budget
      <4>3. Charged = {}
        BY <4>1, <4>2, FS_EmptySet
      <4>. QED
        BY <3>1, <3>2, <4>3 DEF Charged, Suspect, Excused, Damaged
    <3>5. c \notin Torn
      BY <3>2, <3>3, <3>4, ContentsAssumption
    <3>. QED
      BY <3>3, <3>5 DEF Settled
  <2>. QED
    BY <2>1, <2>2 DEF Quiet
<1>. QED
  BY <1>1, <1>2, <1>3, <1>4, <1>5, <1>6 DEF Next, Program

(* The inductive invariant of the command. *)
THEOREM Inductive == Spec => []CommandInv
<1>1. Init => CommandInv
  BY InitType, InitControl, InitProvenance, InitBudget, InitProgress
     DEF Init, CommandInv, OnlyWriteModeWrites
<1>2. CommandInv /\ [Next]_vars => CommandInv'
  BY NextType, NextControl, NextOnlyWriteModeWrites, NextProvenance, NextBudget, NextProgress,
     NextQuiet DEF CommandInv
<1>. QED
  BY <1>1, <1>2, PTL DEF Spec

(* No file changes unless -w is given, alone: whatever paths are named, fail *)
(* or are named twice, no write is reached behind -l or -d.                  *)
THEOREM WritesOnlyOnRequest == Spec => []OnlyWriteModeWrites
<1>1. CommandInv => OnlyWriteModeWrites
  BY DEF CommandInv
<1>. QED
  BY <1>1, Inductive, PTL

(* A file that is neither torn nor was saved between the read and the write *)
(* holds what the user saved or what formatting made of that.               *)
THEOREM NothingIsLost == Spec => []SavesSurvive
<1>1. CommandInv => SavesSurvive
  BY DEF CommandInv, Provenance, SavesSurvive, Damaged
<1>. QED
  BY <1>1, Inductive, PTL

(* There are never more torn files than runs that failed or were killed, but *)
(* for the one being written.                                                *)
THEOREM TornFilesAreAccounted == Spec => []OneTornFilePerFailure
<1>1. CommandInv => OneTornFilePerFailure
  <2> SUFFICES ASSUME CommandInv PROVE OneTornFilePerFailure
    OBVIOUS
  <2>1. Charged \subseteq Files /\ Damaged \subseteq Files
    BY DEF Charged, Suspect, Damaged
  <2>2. IsFiniteSet(Charged) /\ IsFiniteSet(Damaged)
    BY <2>1, FS_Subset, PathsAssumption
  <2>3. Cardinality(Charged) \in Nat /\ Cardinality(Damaged) \in Nat /\ unclean \in Nat
    BY <2>2, FS_CardinalityType DEF CommandInv, TypeOK
  <2>4. CASE exit = "running" /\ pc = "write"
    <3>1. Damaged \subseteq Charged \cup {path}
      BY DEF Charged, Suspect, Excused
    <3>2. Cardinality(Damaged) <= Cardinality(Charged) + 1
      BY <2>2, <3>1, OneMore
    <3>. QED
      BY <2>3, <2>4, <3>2 DEF CommandInv, Budget, OneTornFilePerFailure
  <2>5. CASE ~(exit = "running" /\ pc = "write")
    <3>1. Damaged \subseteq Charged
      BY <2>5 DEF Charged, Suspect, Excused
    <3>2. Cardinality(Damaged) <= Cardinality(Charged)
      BY <2>2, <3>1, FS_Subset
    <3>. QED
      BY <2>3, <2>5, <3>2 DEF CommandInv, Budget, OneTornFilePerFailure
  <2>. QED
    BY <2>4, <2>5
<1>. QED
  BY <1>1, Inductive, PTL

(* With -w, exit code 0 is reached only when every file asked for was read,  *)
(* parsed, and holds what Format made of it, whatever Format is: nothing says *)
(* that what it made parses.                                                  *)
THEOREM CleanExitIsDone == Spec => []ExitZeroMeansDone
<1>1. CommandInv => ExitZeroMeansDone
  BY DEF CommandInv, Progress, Remaining, Rewritten, ExitZeroMeansDone
<1>. QED
  BY <1>1, Inductive, PTL

(* With -l, exit code 0 is reached only with the exact list. *)
THEOREM CleanListIsExact == Spec => []ListIsExact
<1>1. CommandInv => ListIsExact
  <2> SUFFICES ASSUME CommandInv, exit = "0", Listing
               PROVE  {stdout[k][2] : k \in DOMAIN stdout} = {p \in Asked : Format(disk[p]) # disk[p]}
    BY DEF ListIsExact, Listing
  <2>1. Remaining = {}
    BY DEF Remaining
  <2>2. \A k \in DOMAIN stdout : stdout[k][2] \in Asked /\ ~Formatted(stdout[k][2])
    BY DEF CommandInv, Progress
  <2>3. \A p \in Asked : ~Formatted(p) => \E k \in DOMAIN stdout : stdout[k][2] = p
    BY <2>1 DEF CommandInv, Progress
  <2>. QED
    BY <2>2, <2>3 DEF Formatted
<1>. QED
  BY <1>1, Inductive, PTL

(* After clean runs, and without saves, a further run writes only those files *)
(* whose contents formatting changes twice.                                   *)
THEOREM SecondRunWritesNothing == Spec => SecondRunIsQuiet
<1>1. CommandInv /\ [Next]_vars =>
        [runs' = runs /\ runs > 1 /\ unclean = 0 /\ saves' = 0 =>
            \A p \in Files : disk'[p] # disk[p] => Drifts(saved[p])]_disk
  BY NextQuiet DEF CommandInv
<1>. QED
  BY <1>1, Inductive, PTL DEF Spec, SecondRunIsQuiet
=============================================================================
