------------------------- MODULE PrinterInvariants -------------------------
(***************************************************************************)
(* What FuzzParseString (internal/parse/fuzz_test.go) asks of the printer, *)
(* and where its answer is known to be no.                                 *)
(***************************************************************************)
EXTENDS Printer

\* The tree of the first round, where it is still there to be asked.
Tree == [src |-> src, items |-> items, nodes |-> nodes]

Between(tr, from, to) == SubSeq(tr.src, from, to - 1)

\* What node n of tr says, white space around it apart: its words or its text,
\* and the ends it trims.
Says(tr, n) ==
    LET its == Words(tr.items, n)
    IN  CASE n.type = Literal -> SelectSeq(Between(tr, n.from, n.to), LAMBDA c : c \notin Space)
          [] n.type = Comment ->
               <<Between(tr, n.from, n.to), tr.src[n.from - 1] \in Space, tr.src[n.to] \in Space>>
          [] OTHER ->
               <<[p \in DOMAIN its |-> Between(tr, its[p].from, its[p].to)],
                 LeftTrim(tr.src, n.from + 2), tr.src[n.to - 3] = "-">>

\* What the whole tree says.
Told(tr) == FlattenSeq([p \in DOMAIN tr.nodes |-> Says(tr, tr.nodes[p])])

\* The comment that ends an ignore block has a "}}" of its own, and
\* findActionEnd stops there.
CutShort(tr) ==
    \E n \in Range(tr.nodes) :
        /\ Directs(tr.src, n, "ignore-end")
        /\ \E p \in n.from .. n.to - 1 : RightDelim(tr.src, p)

\* A declaration or a "|" that no command follows: the parser takes it, and
\* the printer leaves it out.
Dangling(tr) ==
    \E n \in Range(tr.nodes) :
        LET w == Words(tr.items, n)
        IN  /\ n.type \notin {Literal, Comment}
            /\ \E p \in DOMAIN w :
                  \/ w[p].typ \in {"itemAssign", "itemDeclare", "itemPipe"}
                     /\ (p = Len(w) \/ w[p + 1].typ = "itemRightParen")
                  \/ w[p].typ = "itemChar" /\ (p + 2 > Len(w) \/ ~IsAssign(w[p + 2]))

\* What is printed is a template ("failed to parse output", fuzz_test.go:31-34),
\* if no ignore block is cut short.
PrintedParses == (Again /\ ~CutShort(first)) => at # "rejected"

\* It is the template that was parsed: every tag with its words and its trims,
\* every text but for white space (node.go:91-92), if the parser was not given
\* a declaration or a "|" without a command.
SameTree ==
    (Again /\ at = "accepted" /\ ~CutShort(first) /\ ~Dangling(first)) =>
        Told(Tree) = Told(first)

\* Branch b ends on another line than it begins on.
SpansLines(ns, b) == ns[b].type \in {BlockOpen, Define} /\ ns[b].line # ns[EndOf(ns, b)].line

\* A branch over several lines inside an indented list of another one: its
\* tags are moved to a new line again each time.
IndentedBranch(tr) ==
    \E b, m \in DOMAIN tr.nodes :
        /\ b < m /\ SpansLines(tr.nodes, b) /\ SpansLines(tr.nodes, m)
        /\ \A q \in b .. m - 1 : Nesting(tr.nodes, b, q) > 0
        /\ tr.nodes[b].type = Define =>
              \E q \in b .. m - 1 : tr.nodes[q].type = BlockMid /\ Nesting(tr.nodes, b, q) = 1

\* An ignore block behind blanks: they are written twice each time.
IndentedIgnore(tr) ==
    \E n \in Range(tr.nodes) :
        /\ Directs(tr.src, n, "ignore-start")
        /\ LET before == Max({p \in 1 .. n.from - 2 : LeftDelim(tr.src, p)}) - 1
           IN  before > 0 /\ tr.src[before] \in Blank

\* Printing what was printed changes nothing ("round trip failure",
\* fuzz_test.go:35-38), the two shapes above apart.
Stable ==
    (Again /\ Printed /\ ~CutShort(first) /\ ~IndentedBranch(first) /\ ~IndentedIgnore(first))
        => out = src

\* Node q is copied as part of an ignore block that begins behind node c.
Ignored(c, q) ==
    \E m \in c + 1 .. q :
        IgnoreEnds(m) # {} /\ Min(IgnoreEnds(m)) \in q .. k - 1

\* Node c is an {{end -}}, and since then only an {{else}}, another {{end}} or a
\* whole ignore block was written.
TrimsFrom(c) ==
    /\ nodes[c].type = BlockClose /\ RightTrimmed(nodes[c])
    /\ \A q \in c + 1 .. k - 1 :
          nodes[q].type \in {BlockMid, BlockClose} \/ Ignored(c, q)

\* How far a pending trim reaches: a text loses its leading white space only
\* behind an {{end -}}, with no other text, action, comment or branch written
\* between.  It is further than node.go:414-416 says ("only consumes
\* immediately adjacent text"): ListNode.writeTo resets the flag at its own
\* siblings, and an {{else}}, the {{end}} of a branch around it and an ignore
\* block come by without a reset.
TrimReach ==
    [][(rightTrimPending /\ writeText) => \E c \in 1 .. k - 1 : TrimsFrom(c)]_vars
=============================================================================
