# Verification of gotmplfumpt

TLA+ specifications of gotmplfumpt, a formatter for Go templates that emit Go
code, with TLC runs on small instances and TLAPS proofs for all of them.  File
and line references are to the repository's `src/`.

## The system

`gotmplfumpt` is a sequential program: one goroutine, no shared memory, no
persistent state but the files it formats.  What is hard in it is text that
passes through several hands: a scanner cuts a template into slices, each
`{{...}}` becomes a sentinel, gofumpt formats the result as it likes, and the
slices must come back where they were.

| Component | Source | State and operations | What makes it correct |
|---|---|---|---|
| tiling scanner | `internal/tiling/scan.go`, `tiling.go` | cursor, literal start, block id, slices; `ScanTiling` with `defineBlockEnd`, `actionEnd`, `skipQuoted`, `commentEnd`; `Check` | every byte in one slice; literals hold no delimiter and are maximal; block ids and `Standalone` are right; every scan ends |
| sentinels | `internal/tiling/sentinel.go` | the prefix; `uniquePrefix`, `sentinelFor` | no sentinel occurs in the source or in another sentinel |
| stub, verify, restore | `internal/tiling/stubrestore.go`, `verify.go`, `reindent.go` | positions in the formatted stub; `Stub`, `VerifyFormatted`, `Restore`, `reindentContinuation` | slices exactly once and in order, Go text kept, adjacency kept, strings not moved |
| gofumpt path | `internal/format/format.go`, `gofumpt.go` | none; `Format`, `formatViaGofumpt`, `tryFormat`, `formatStub` | two attempts, then the fallback; nothing damaged is returned |
| define bodies | `internal/format/define.go` | the slice at hand, the text built so far; `formatDefineBodies` and helpers | no tag changes, the result still parses |
| fallback indenter | `internal/format/indent.go` | depth, bracket stack, per-line deltas, Go lexical state; one handler per kind of byte | idempotent, moves nothing but indentation, depth and brackets balanced |
| template lexer | `internal/parse/lex.go` | `pos`, `line`, `parenDepth`, `insideAction`; the state functions of `nextItem` | line numbers are right; parentheses close inside their action |
| template parser | `internal/parse/parse.go`, the numbers of `node_terms.go` | items read ahead, the call stack, the tree; a fork of `text/template/parse` that keeps comments | what it accepts is bracketed and is what the scanner tiles |
| AST printer | `internal/parse/node.go`, `node_terms.go` | what is written, `prefix`, `inOneLiner`, `branchDepth`, `rightTrimPending`; the `writeTo` of every node | what it prints parses to the same tree and prints the same again; dead outside the parser's tests (`TODO.md`) |
| diagnose | `render/render.go`, `mapping.go` | hunks of a diff, line index, control stack | findings are the changes; a mapped line is where the text came from, in the body it ran in |
| render equivalence | `render/verify.go` | none | compares two renders |
| helpers | `tmplfunc/tmplfunc.go` | none | pads a string |
| command line | `main.go` | flags, arguments, the walk, the user's files | a file is what the user saved or that formatted, also after failures |

They interact by calls: `main` calls `format.Format` once per file; `Format`
parses, formats define bodies, tiles, and tries gofumpt (`Stub` -> gofumpt ->
`VerifyFormatted` -> `Restore`) with two kinds of stub, then the indenter on the
same tiling.  `render` calls `Format`, `text/template` and gofumpt.

The hard behaviours are those of `hazards` in `PROJECT.json`: state that is read
in one place and used after another program (gofumpt) or another process (an
editor) had its turn; long sequences of legal slices, brackets and tags that
reach a boundary case; partial failure of a list of files; a kill inside a
truncating write; ends of inputs and of escapes.

## The modules

`Source.tla`
: The alphabet.  A source is a sequence of symbols; every byte the scanners test
is a symbol, a run of letters is one symbol, because only its being a keyword
matters.  `classify` and `standaloneOnLine` are here.

`Scanner.tla`
: `ScanTiling`.  The loops of `ScanTiling`, `defineBlockEnd`, `actionEnd`,
`skipQuoted` and `commentEnd` read one symbol or one delimiter per step of one
machine.  `mode` is the loop the cursor is in, `depth` says whether it is the
define loop.  `i`, `litStart`, `block`, `slices` are the code's variables, `open`
and `typ` the results `scanAction` has so far.  Constant: the set of templates.

`Sentinel.tla`
: `sentinel.go` and `Stub` byte by byte over what `Scanner` tiles: the prefix, its
replacements when the template mentions it, both forms of a sentinel, and where
`strings.Index` would find one.  Numerals are written in base two, so that few
slices have ids of several digits; the source's hash is one symbol.

`Partition.tla`
: What a caller may rely on: cut the template left to right into non-empty
pieces; deliver a cover or refuse.

`ScannerInvariants.tla`, `ScannerProof.tla`, `MCScanner.tla`
: Properties and inductive invariant; proofs, of `Sentinel` too; the instance.

`Lexer.tla`
: `lex.go`, one action for each state function: an action is a call of `nextItem`
and is named for the function that emits the item.  Between two calls
`start = pos` and `startLine = line`, so those two are not kept.  `nil` stands for
`nil`, `true` and `false`, `_` for an underscore or a letter that is not ASCII, `"1"` for
the digits; hexadecimal, exponent and imaginary numbers and unprintable bytes
are outside the alphabet.

`Parser.tla`
: `parse.go` over the lexer.  The recursive descent is a machine: `at` is the
function it is in, `branches` the calls of `branchControl` it will return to,
`pipe` and `outer` the calls of `pipeline`, one for every open parenthesis.  The
tree is the sequence of its nodes in source order with their type, position and
line; variables, which this fork does not look up, and the text of nodes are
left out.  Items are read up to four ahead; the lexer does not depend on the
parser, so when they are read makes no difference.

`FrontEnd.tla`
: `Format` up to the tiling it hands to the stub: parse, stop at an ignore-all
comment, tile and format the bodies of the define blocks (`define.go`, one slice
per step: copied, given to gofumpt, or tiled and re-indented), parse again if
that changed the text, tile.  It composes `Parser`, `Scanner` (for the template, for
each body and for the result) and `Reindent`; `Gofumpt` is a constant, the layouts
gofumpt may give to each text it accepts.

`Reindent.tla`
: The contract of the fallback indenter, line by line: what may become of a line
whatever the depths.  `FrontEnd` uses it for define bodies and `OnlyIndents`
shows that `Indenter` keeps it.

`FrontEndInvariants.tla`, `FrontEndProof.tla`, `MCFrontEnd.tla`
: Properties; proofs about the parser's blocks and about its line numbers; the
instance.

`Printer.tla`
: The printer in the loop of `FuzzParseString`: parse, print, parse what was
printed, print again.  A step writes one node of the parser's sequence; the
recursion of `BranchNode.writeTo` is the stack `open`.  A pipeline is the items of
its tag, kept by `items`: the printer spells them as they were and decides on
spaces, line breaks and parentheses only.

`PrinterInvariants.tla`, `PrinterProof.tla`, `MCPrint.tla`
: Properties; the proof about pending trims; the instance.

`Diagnose.tla`
: `render.Diagnose`: the executor walks the slices (external: which branch is
taken and what an action prints is any choice), gofumpt re-indents, removes or
adds lines (external), the diff library shows it (external), and `unifiedHunks`,
`mapHunk` and `openControlStack` work on that, a diff line or a hunk per step.  A
rendered symbol carries the template position it was copied from and the body
that was running, which is what the findings are measured against.  The
scanner is not run again here: whether it refuses the template is a choice.
`Depth` counts the blocks open behind a slice; `Bracketed` is what parsing makes sure
of.

`DiagnoseInvariants.tla`, `DiagnoseProof.tla`, `MCDiagnose.tla`
: Properties; proofs about the hunks, about what a change is mapped to and about
the body it is said to be in; the instance.

`StubRestore.tla`
: `formatViaGofumpt` over a tiling, on tokens: a Go token or white space, the
sentinel of slice k ("ident" or "remark"), or the source bytes of slice k
("slice") with the indents of its continuation lines.  One step per slice of the verify and the restore loop.
A continuation line is its indent and the bytes of the line before it, which
`stringLineMask` reads one at a time to say whether it begins in a literal.
Constants: the tilings and `Gofumpt(_)`, the set of texts gofumpt may return.

`Gofumpt.tla` (external)
: gofumpt as format.go and stubrestore.go need it: `Reflow`, every layout of the
same tokens (none before the first token, none inside a glued identifier, at
least one space between two identifiers and before a comment); `Damaged`, a
sentinel dropped, duplicated or exchanged with another, or a comma that ends a
line moved ahead of the comment sentinels before it, as gofmt does with the last
comma of a list; `Unchanged`.

`StubRestoreInvariants.tla`, `StubRestoreProof.tla`, `MCStubRestore.tla`
: Properties; proofs about every formatter and about the one that changes
nothing; the instance.

`TextLemmas.tla`
: Lemmas about sequences and about `Reindent`'s lines, for the proofs of
`Scanner`, `Diagnose` and `Indenter`.

`Indenter.tla`, `IndenterInvariants.tla`, `IndenterProof.tla`, `MCIndenter.tla`
: `tilingIndent`, run on a text and then on its own output.  A cell is a symbol
with the type of its slice.  The second pass takes the slices of the first:
only blanks moved.  `Reindent` has the parts it shares with its contract.  `case` stands for `case` and `default`, `switch` for
`switch` and `select`.

`Cli.tla`, `CliInvariants.tla`, `CliProof.tla`, `MCCli.tla`
: The command: flag parsing, the argument loop, the walk, `processFile` and the
four outputs, with `os.WriteFile` as a truncation followed by a write that may
fail.  The environment saves files (by replacing them, so that a write in
progress goes to the file that was replaced), kills the process at any step,
closes standard input, and runs the command again.  `saved`, `stale` and `lost`
are history variables: the user's last save, saves since this run's read, saves
this command wrote over.  A content is torn when it is what an interrupted write
left (`Empty`, `Parts`) or what formatting makes of that; torn contents are told
apart from what a user saves.

A definition named in a comment as a *slip* is a plausible mistake: the
definition after it with the mistake made.  It is used by no specification;
`mutants` in `PROJECT.json` names the property that tells the two apart.

## The runs

| Run | Instance | What it shows |
|---|---|---|
| `scan` | every interior of up to 5 of `{ } " raw \ x` after `{{`; every comment of up to 5 pieces; every template of up to 4 of five tags, a trimmed comment, a new line, a brace and a digit; every template of up to 3 pieces that are tags or look like sentinels | the properties of the scanner, the refinement of `Partition`, and that a sentinel is found in the stub only where it was put |
| `parse` | every action of one of 5 beginnings, up to 2 of 16 tokens and one of two ends; every template of up to 3 of eleven tags and texts; define blocks of 3 names and bodies of up to 2 of 8 pieces; what the lexer refuses before a close | what the parser keeps is bracketed; the scanner cuts what the parser accepts into exactly its nodes; define bodies keep every tag; lines are never too high; `Format` ends |
| `print` | every template of up to 3 of eleven tags and texts, of up to 5 of the six that nest and break lines, and every pipeline of up to 3 of 12 words in three frames | what is printed parses, to the same tree, and is stable; a pending trim reaches past `{{else}}`, `{{end}}` and ignore blocks and no further |
| `diagnose` | every bracketed template of up to 3 of four texts and ten tags; two bodies and nested blocks of every kind; three texts an action may print; up to two rounds of a loop; up to two changes of up to two lines | findings are the changes, mapped to their origin, with the body they ran in |
| `stub_restore` | every tiling of up to 3 slices of 4 literals and 4 other slices (one with a moved and an in-string continuation line); gofumpt reflows, damages or leaves the stub; `MaskIsRight`: every text of up to 5 quotes, backslashes, newlines and letters | what the round trip keeps and which Go tokens it drops; `stringLineMask` finds the open literal as a definition by matching quotes does |
| `indent` | every text of up to 3 of 21 lines (brackets, labels, literals, comments, an action, a define block or a comment over two lines) and of up to 4 of the 7 bracket lines | idempotence, the contract `Reindent`, balance |
| `cli` | two templates, another file, an unreadable template, two directories; single, repeated, missing and read-only paths with every flag combination; contents that are formatted, need one round or two, do not parse, or are formatted into what does not parse; one save, two runs | files and exit codes |
| `delimiter`, `raw_string`, `glued`, `reparse`, `literal` | small parts of the instances above | statements of the comments that do not hold, see below |

Why the bounds are enough.  The scanner's decisions look at two symbols and at
`depth`; 5 symbols put a quote, an escape and a delimiter next to each other in
every order, 4 pieces open a define block, open and close a block in it and
leave one more.  Two mentions of the prefix and an action show every border a sentinel
can straddle; three ids need two digits.  The parser decides on an item and the
two behind it: one of the five beginnings, two tokens and an end hold every
neighbourhood; three tags hold a block and what is in it or behind it, and a
define block adds one around two pieces.  A define body is formatted on its own;
two pieces put an action, a comment, a brace or another define block next to each
other.  The printer keeps one flag and one depth per branch: five tags hold a
block with an {{else}} in another one, three words a parenthesis with a break on
either side.  A change in a diff has a neighbour on either side at most, so two
changes with one line of context between or apart hold every case.  Verify and restore relate a slice to its neighbour, so three
slices contain every pair with something on one side.  The indenter relates the
line that opened a bracket with the one that closes it and one between; the
fourth plain line lets two brackets of one line close on two.  The command is
the same for every file; two templates make a first, a failing and a later one.
What the command knows of `Format` is its result, so five contents hold every way
two runs can go: nothing to do, done after one round, changed again, refused,
refused after the first round.
`MaxSaves` and `MaxRuns` in `Cli`, `MaxRounds`, `MaxRemoved`, `MaxRegions` and `MaxLines`
in `Diagnose` (all of them bound what is external) and the `Max...` constants of the
MC modules are the only bounds; nothing in the specifications of the scanner, the
sentinels, the parser, the define path, the printer, the round trip and the
indenter is capped.  In `MCFrontEnd` gofumpt takes only bodies of up to `MaxGo`
tokens whose braces pair up, and of its layouts those with up to `MaxGaps` gaps.

Deadlock checking is off: every program here stops.

Fairness.  `Scanner`, `FrontEnd`, `StubRestore` and `Indenter` are loops in one goroutine, and
`WF_vars(Next)` says that the goroutine runs (and, in `StubRestore`, that gofumpt
returns).  `Cli` assumes it of the program's steps only: not of the user, the
writer of standard input, or the killer.

`Printer` and `Diagnose` have safety properties only: their
loops advance by one node or one line per step.

### Statements of the repository that do not hold

- `delimiter`: `[]T{ {{.X}} }` comes back as `[]T{{{.X}}}`, because the gap before
  a sentinel is gofumpt's.  `verify.go:16-17` promises the template structure.
- `raw_string`: lines inside a raw string are re-indented; `indent.go:6`.
- `glued`: the parser takes `{{define_x}}` or `{{end1}}` for an action whose
  identifier begins with a keyword, the scanner, which reads letters only, for
  the keyword; such a template parses and does not tile, or tiles as other
  slices.  `format.go:45-48` says that what parses always tiles.
  `SameSlices` is what holds.
- `reparse`: gofumpt formats `T{ {x} }` in a define body as `T{{x}}`, which is an
  action, or a parse error that `Format` reports for a valid template.
  `format.go:36-37` says that this cannot fail.  `StructureKept` is what holds.
- `literal`: the inner lines of an action that spans lines have no delimiter, and
  a rendered line may equal one.  `render.go:88-90` says a mapped line holds no
  action.  `MappedToOrigin` is what holds.

Seen while modelling, and what the properties except because of it:

- `stubrestore.go:5` and `:43-44`: for an identity formatter `Restore` is no inverse
  of `Stub` if a continuation line does not stand at its action's column
  (`AlignedRoundTrip`).
- `indent.go:191-192`: a verbatim line pushes and pops brackets but its depth
  change is dropped (`BalancedWithoutOpaque`).  `indent.go:49`, `:293-294`: only
  brackets end the leading zone, so the closer of `x}` dedents its own line.
- `node.go:73`: `lexComment` skips the comment without counting its lines, so
  every node behind it, and every error message, has a line that is too low
  (`LinesOnlyLag`).
- `sentinel.go:5-7`, `:19-22`: a literal right behind an action that begins with
  the prefix less its first underscore makes the sentinel before it and itself
  look like a sentinel once more (`Echoes`).  The token model of `StubRestore` does
  not hold of such a template.
- `define.go:51`: the name of a define block may hold a `}}`; the body then begins
  inside the name, and what follows there is re-indented (`PlainName`).
  `define.go:47-48` says that the white space around a body is preserved: a body
  that goes to the indenter loses the blanks at the beginning of its lines, the
  first and the last included, and the lines inside its actions, raw strings
  among them, are re-indented.
- `fuzz_test.go:31-38`: a template is printed to something else the second time
  if a branch over several lines stands in an indented list of another one
  (`IndentedBranch`) or an ignore block stands behind blanks (`IndentedIgnore`); an
  ignore-end comment with a `}}` in it is cut short and does not parse (`CutShort`);
  a declaration or a `|` that no command follows is dropped (`Dangling`).
- `node.go:414-416`: a pending trim survives an {{else}}, an {{end}} and an ignore
  block and reaches the text behind them, which is not the "immediately adjacent
  text" of the comment; `TrimReach` says how far it does reach.
- `verify.go:15-17`: Go text can be lost although the verification passes.  In a
  composite literal whose last line ends in an action, a comment action right behind it and
  a comma, gofmt moves the comma ahead of the comment sentinel; the sentinels are in
  order, and `stubrestore.go:62` drops what stands between two slices that touch, the
  comma too.  The run `stub_restore` reaches it; `GoTextKept` says that nothing else
  is dropped.
- `mapping.go:76-78`, `:107`: the line "\ No newline at end of file" ends a hunk, so
  one change is reported as two; a removed line that begins with `--`, or an added
  one that begins with `++`, is taken for a file header (`Tellable`).
- `mapping.go:195-197`: a keyword on the line behind its delimiter is not read and
  the block counts as none (`SpacedByBlanks`).
- `README.md:16`: formatting is not idempotent for every input (`delimiter`,
  `reparse`), and `-w` exits 0 over a file that it made one that does not parse.
  `ExitZeroMeansDone` therefore says that a file holds what `Format` made of it, and
  `SecondRunIsQuiet` names the contents that a second run changes (`Drifts`).
- Exit code 0 does not mean that the list of `-l` was
  written (`main.go:207`), `-d` has no effect on standard input (`main.go:146`), `-w`
  has none beside `-l` or `-d`, and a signal has no effect at all (`main.go:62-66`,
  `:102`).

## The proofs

Eight modules of theorems.  In each, the inductive invariant was model-checked on
the component's run before it was proved; each action of the component has a
lemma of its own that the action keeps it; the theorems about `Spec` combine
them.  A theorem about the parser's tree or the formatted text speaks of every
template, not of the ones of `MC...`.

What the proofs assume of the constants is named in the modules that declare
them, and TLC evaluates it on every run.

| Assumption | Says | Used by |
|---|---|---|
| `SourcesAssumption` | templates are sequences of symbols | `ScannerProof` |
| `TilingsAssumption`, `GofumptAssumption` | tilings and gofumpt's texts are sequences of slices and of tokens | `StubRestoreProof` |
| `SentinelsAssumption` | gofumpt makes up no sentinel and no source bytes: it may drop, move, repeat and exchange those it was given.  `SentinelsUnique`, proved for every template, is why nothing else in a stub looks like one | `RestoreInductive` and what follows from it |
| `TextAssumption` | templates are sequences of slices, none of them empty (`ScanTiling` cuts none: a literal is flushed only if it has a byte), data are texts | `DiagnoseProof` |
| `ParseAssumption` | blocks end, and an `{{else}}` is in one: `execTemplate` parses the template before it executes it, and returns if that fails | `FramesHold`, `EnclosedHolds` |
| `BoundsAssumption` | the bounds of `Diagnose` are numbers | `DiagnoseProof` |
| `TextsAssumption` | texts are sequences of cells | `IndenterProof` |
| `SlicesAssumption` | a define block or a comment begins with its delimiter | `LinesAreReindented` |
| `PathsAssumption` | files are not directories, standard input is neither | `CliProof` |
| `ContentsAssumption` | an interrupted write, and what formatting makes of one, is told apart from what users save | `CliProof` |

### `ScannerProof`

- `Inductive`: `Spec => []IInv`.  `TilesSource` and the others speak about the
  slices alone and are not inductive: a step appends a slice whose start is
  `open` or `litStart`.  `IInv` therefore says where the emitted slices end
  (`Covered(slices)` is `open` inside a slice and `litStart` outside), that the text
  since then is free of delimiters, that no literal is pending behind a
  literal, and what the next block id is, together with a good tiling of the
  part emitted.  `AppendGood` is the lemma that one more slice keeps a good
  tiling good.
- `Tiled`, `CheckNeverFails`, `StubIsClean`, `NoEmptyLiteral`, `BlockIds`: the
  invariants of the run for every template.
- `StandaloneIsAlone`: beside a slice marked `Standalone`, on the lines it starts
  and ends on, there are only blanks, and they belong to literals.  The mark is
  computed from the source once the tiling is complete, and knows nothing of the
  other slices.  An action, comment or define block that owned a byte beside it would end
  or begin on the same line (`OneOwner`: slices do not overlap), and it ends in a
  `}` and begins with a `{` (`Braced`), which are no blanks.
- `ImplementsPartition`: every step of the scanner is a `Cut`, a `Deliver`, a
  `Refuse` or a stutter of `Partition`.
- `PrefixIsFree`: the prefix of the sentinels does not occur in the source.
  `uniquePrefix` has len(src) + 1 candidates and calls what comes after them
  unreachable.  They are different (`NumeralUnique`: two numbers have two numerals),
  and end at different places (`CandidateEnds`: the base has a `gtmpl` and what
  stands behind it has none, so two candidates that end together begin together),
  and there are only len(src) places to end at (`CandidateFree`).
- `SentinelsHold`: `SentinelsUnique`, for any number of slices.  The stub is texts laid
  end to end, and where the k-th begins is a sum (`FlatIs`, `Begins`).  The proof looks
  for the one `gtmpl` of a prefix: if the prefix occurs in a stub, that mark is in
  a literal or in a sentinel (`Occurs`).  In a literal, the occurrence would be in
  the source, unless it leaves the literal.  It cannot leave it at the end: a
  sentinel begins with `__` or `/*`, and a prefix has two underscores together only at
  its beginning, ends in none and has no slash.  If it begins before the literal,
  the literal holds all of the prefix but its first underscore, which is the one
  that ends an identifier (`Echo`).  In a sentinel, it is the sentinel's own prefix
  (`MarkInSentinel`).  So an occurrence of a whole sentinel begins where some
  sentinel or an echo does, and the `a` or `b` behind the prefix and the numeral behind
  that, which ends where something else than a digit follows, say which
  (`SameNumeral`, `FoundOnce`).  `RawIs` and `TextsStubbed` give the lemmas the
  scanner's slices.  The echo is no gap of the proof: `SentinelsUnique` names it, and the
  run `scan` reaches it.

### `StubRestoreProof`

For every tiling and every formatter:

- `Inductive` and `VerifyIsEnough`: what `VerifyFormatted` checks, one sentinel at
  a time against the previous position only, is enough for `Restore` never to
  miss one.  The invariant carries that the sentinels verified so far occur once
  each and in order, and during the restore that those still to come lie at or
  after `cur`.
- `RestoreInductive`: `Spec => []RestoreInv`, about the text `Restore` has written.
  `Stubbed` ties the sentinels of `formatted` to the slices; `Consumed` says that no
  sentinel of a slice still to come is left behind `cur`; `Written` says that
  `out` holds the slices before `k`, each once, in order, and no sentinel;
  `Adjacent` and `AllVerbatim` say of that much of the output what the properties
  say at the end.
- `EverySliceComesBack`, `NothingBetweenNeighbours`, `BytesKeptWhereUnsafe`: the run's
  invariants `EachSliceOnce`, `AdjacentStayAdjacent` and `VerbatimKept`.
- `IdentityGivesItBack`: `AlignedRoundTrip` for every tiling.  `Stub` and `SourceOf`
  are recursive functions over the slices; `StubIs` and `SourceIs` say that each is
  its prefixes put together, and `StubMirrorsSource` that the stub is the template
  with a sentinel where the template has the slice.  The invariant `RoundTripInv` says
  that what `Restore` has written is the template as far as `cur` is in the stub
  (`Copied`), and that the sentinels still to come are the ones `Stub` put there.
  The invariants above give the rest: that each is found where it is expected.
- `GoTextComesBack`: `GoTextKept` for every tiling and every formatter, also one that
  moves comments about.  `Between` are the places of `formatted` between the
  sentinels of slices that touch; the Go tokens of the output are exactly those of the
  formatted text at other places (`Spared`), so the template has all of its tokens if
  the formatter kept them and moved none to such a place.  `Only` is a recursive
  function, its prefixes exist (`OnlyCuts`) and it distributes over concatenation
  (`OnlyJoined`).  `DroppedIsBetween`: the gap that `Restore` drops before a slice lies
  in `Between`, and one that it keeps does not touch it; `GoInv` carries the equality
  up to `cur`, and `TailIsKept` is the end.
- `OnlySpaceIsDropped`: the corollary for a formatter that changes white space only
  (`Reflowed`).  `Only` gives each token it keeps a `Rank`; the sentinels of two
  touching slices have consecutive ranks in the stub, so they do in `formatted`
  (`GapIsWhite`), and `Between` holds no token.

### `IndenterProof`

- `Inductive`, `DepthIsBalanced`: without opaque slices the depth is the number of
  open brackets that raised it, in both passes.  `BalancedWithoutOpaque` alone is
  not inductive for two reasons.  A closer in the leading zone lowers `linePre`, one
  behind it `linePost`, and the clamp at zero would forget the difference:
  `DepthInv` says that `depth + linePre` never falls below zero and that in the
  leading zone no bracket of this line counts yet.  And `flush` applies a line's
  changes only if the line is not blank: `Solid` says that a line that changed
  anything has a byte that is not blank.
- `LinesAreReindented`: `OnlyIndents` for every text.  The contract speaks of the
  lines of the finished text, the code of cells, so `LineInv` says three things:
  what is written is, up to the newline before the line, the text re-indented
  (`Written`); within a line a newline is one an escape passed over, and the line is
  verbatim exactly from its first opaque byte on (`InLine`; this is where
  `SlicesAssumption` is needed); and no line raises the depth by more than it has
  bytes, so that depths stay within the text.  `FlushedFollows` is the step: the three
  ways to flush, each for a line with escaped newlines in it.

### `CliProof`

- `Inductive`: `Spec => []CommandInv`, for any files, directories, arguments, saves,
  kills, failed writes and runs.  `Control` says where in `run` which flags and paths
  can be.  `Provenance` says where the text in hand comes from, saves and
  replaced files included.  `Budget` counts the torn files, the one being written
  from a torn text among them, against the runs that did not end well.
  `Progress` says that what is asked for and no longer ahead (`Remaining`: the
  arguments, the queue of the walk and the file in hand) is done, or listed.
  `Quiet` is the second run.  Nothing is assumed of `Format` but that it tells torn
  contents apart: `Rewritings` are the contents that formatting once, twice or
  more often makes of one (the least set, so `RewritingsHold` says all that is
  needed of it), `Provenance` says that files hold those, and `Progress` that
  a file done holds a result of `Format`.
- `WritesOnlyOnRequest`, `NothingIsLost`, `TornFilesAreAccounted`, `CleanExitIsDone`,
  `CleanListIsExact`: the run's invariants.  `CleanExitIsDone` is about what
  `processFile` did, not about its result: that the result parses, or that it would not
  change again, does not follow from exit code 0.
- `SecondRunWritesNothing`: the run's action property; a step that changes the disk
  is a save or one of the two steps of a write, and `Quiet` allows the second only
  for a file whose content drifts.

### `FrontEndProof`

- `BalanceInductive`, `TreeIsBalanced`: whatever the template, the define bodies
  and gofumpt, a tree that the parser returns is bracketed.  The parser's
  recursion is the variable `branches`; the invariant says that it has one call for
  every block the nodes leave open (`Depth`), and that no prefix of the nodes
  closes more than it opens.  Of the several dozen actions of the parser and the
  lexer, all but a few leave the nodes and the calls alone.  Nothing is assumed of
  the constants.
- `LinesInductive`, `LinesAreRight`: no line is too high, and one is too low only
  behind a comment over several lines, of which `lexComment` does not count the
  newlines (`LinesOnlyLag`).  The lexer counts runes, slices and ignored text in
  three ways; a lemma for each way says that the count is the number of newlines
  between the old and the new position.  The invariant follows a line from the lexer to
  the items read ahead, to the tag being parsed, to the node, and says each time that
  it is at most the true line and that, if it is less, a comment stands before.
- They are stated for `ParserSpec`: the parser called on any text, again and again.
  `Format` calls it on its template and on what `formatDefineBodies` made of it; that
  this second text is a sequence of bytes is a statement about a fold over the
  lines of a body, and no installed theorem says what a fold returns.  Since every text is
  allowed, nothing about the parser is lost.

### `PrinterProof`

- `TrimInductive`, `TrimReaches`: `TrimReach` for every set of templates.  It is not
  the adjacency of `node.go:414-416`, which the code does not keep.
  The property looks back from a text to the {{end -}} it is trimmed for, over
  any number of nodes; `TrimInv` says of every step that a trim which is
  pending has such an {{end -}}, that the tree is finished (the parser never
  runs while a trim is pending), and that whatever was written since is an
  {{else}}, an {{end}} or inside an ignore block.  `StaysInReach` carries that
  over a step, over all nodes of an ignore block at once.  Nothing is assumed of
  the constants.

### `DiagnoseProof`

- `MappingHolds`, `MapsToOrigins`: `MappedToOrigin` for every template, every text an action prints and every way to format the output.  `RealCell`
  says of a written cell that names a place of the template that the symbol
  there is its symbol (and which body it ran in, see below); since slices do not overlap (`StartsApart`), two cells of
  one place have one symbol (`OneSymbol`).  `MappingInv` follows the cells from
  what was written to the removed lines of the diff and to the hunks, and says
  that `index` has the keys of the template's lines and that a finding has what `mapHunk`
  says of its hunk.  A line copied from the template then has the key of the line
  it comes from (`OriginKey`), and a blank one has none (`BlankKey`), so a unique
  key names the origin.  `DiffFine` takes the diff apart: only lines of the output are
  marked as removed.
- `FramesHold`, `EnclosedHolds`: `EnclosedAsExecuted` for every template that
  parses, every text an action prints and every way to format the output.  Two
  walks over the same slices are held against each other: the executor's, which
  passes bodies by, leaves them and runs them again, and `openControlStack`'s, which
  goes straight on.  What they share is the nesting of the template:
  `Nests(s, p)` says that s holds the blocks that are open behind slice p, the i-th of
  them opened at depth i and not closed since (`IsOpen`).  `FramesInv` says it of the
  executor's `frames` at every step; the steps that jump need that a block ends, at
  the depth it opened at (`EndFacts`), and that of two open blocks the outer one
  opened first (`OneOpen`).  `StackIs` says it of `openControlStack`, slice by slice.  A
  literal that is written has the body of that nesting (`RunningIs`), and
  `MappingInv` carries it to the hunks.  What is left is that the line a finding
  names starts where its first symbol stood: line n of the template begins
  at `lineStartOffset(n)` (`LinesInPlace`, `OffsetIs`), and the slices that start
  before it are those before the literal, or the literal too if the line starts
  inside of it (`StartsBefore`); in either case the body is the same (`BodyOn`),
  and there is only one (`OneBody`).  `SpacedByBlanks` is used where the
  code needs it: a keyword on the next line is not read, and the stack holds an empty one.
- `ChangesAreTold`: `HunksAreChanges` for every output, script of changes and
  margin.  `Fed` is what one line of the diff does to `unifiedHunks`, and `Leads(a,
  t, b)` says that the lines t lead it from a to b; that holds of one piece behind another
  (`LeadsOn`), so the proof goes through `Diff` piece by piece: context closes
  the open hunk (`LeadsContext`), removed and added lines are one hunk
  (`LeadsRemoved`, `LeadsAdded`), and a chunk leads from what is open behind one
  change to what is open behind the next (`LeadsChunk`), whether a range line or
  only an unchanged line is between them.  `HunksInv` says of the step reached
  that what it has and what is to come lead to all changes.  That no line looks
  like a header and that the last one ends are used where the code needs them:
  otherwise a line is skipped, or the note about the newline splits a hunk.

### `TextLemmas`

What the three proofs about texts share: joining sequences; `Lines`, of which the
model says only by counting where line m ends (`LinesAre`), so that its lines are
those of the text before a newline and those of the text behind it (`LinesJoin`, by
a least counterexample), and start where the one before ended (`LinesInPlace`);
`TrimLeft`; and that a recursive function over 0 .. n is what it says (`FoldExists`).

### Only model-checked

- Liveness (`Returns`, `Ends`): out of the prover's reach.
- `Idempotent`: two passes over a text; an invariant would have to run both at
  once and compare depth, stack and substate line by line.
- `SameSlices`, `StructureKept`: two programs, the scanner and the parser, run one
  after the other over the same text; an invariant would have to hold one's
  whole result against the other's state.
- `PrintedParses`, `SameTree`, `Stable` of the printer: they compare what the parser
  makes of a text with what it made of another, of which a fold over the items
  (`PipeText`) wrote a part: an invariant would need the parser's result on every
  printed text, by induction over the tree.

## Not modelled

- `render/verify.go`: two renders and a comparison; everything in it is
  `text/template` and gofumpt, which a model would have to invent.
- `tmplfunc`: one stateless padding function.
- `{{break}}` and `{{continue}}` in `Diagnose`'s executor: they end a round where its last
  slice would.
- The wording of notes, errors and the diff; numbers in other bases, exponents and
  unprintable bytes in the lexer; variables of the parser, which this fork does
  not look up.
- gofumpt, `text/template`, the diff library, the file system, the user: modelled as
  environments, from how the code uses them.

## Plan

Every component that keeps state is modelled, and every one of them has its
theorems.  What no theorem states is listed under "Only
model-checked", with the reason.
