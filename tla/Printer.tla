------------------------------ MODULE Printer ------------------------------
(***************************************************************************)
(* The printer of the template tree (internal/parse/node.go,               *)
(* node_terms.go), in the loop of FuzzParseString: a template is parsed    *)
(* and printed, and what was printed is parsed and printed again.          *)
(*                                                                         *)
(* A step writes one node of the parser's sequence.  A branch is on open   *)
(* from its tag to its {{end}}: the recursion of BranchNode.writeTo and    *)
(* ListNode.writeTo.                                                       *)
(***************************************************************************)
EXTENDS Parser

CONSTANT Sources      \* the templates the parser may be given

ASSUME SourcesAssumption == Sources \subseteq Seq(Byte)

VARIABLES
    items,              \* every item the parser has read
    out,                \* what is written so far
    k,                  \* the node to write
    open,               \* the branches being written
    inOneLiner, branchDepth, rightTrimPending, prefix,
    first               \* of the first round: template, items and nodes

printerState == <<out, k, open, inOneLiner, branchDepth, rightTrimPending, prefix>>
vars == <<parseVars, items, printerState, first>>

None == [src |-> <<>>, items |-> <<>>, nodes |-> <<>>]
Again == first # None

Init ==
    /\ src \in Sources
    /\ ParseStart
    /\ items = <<>> /\ first = None
    /\ out = <<>> /\ k = 1 /\ open = <<>>
    /\ inOneLiner = FALSE /\ branchDepth = 0 /\ rightTrimPending = FALSE /\ prefix = <<>>

Parse ==
    /\ ParseNext
    /\ items' = IF Len(ahead') > Len(ahead) THEN Append(items, item') ELSE items
    /\ UNCHANGED <<printerState, first>>
----------------------------------------------------------------------------
(* The words of a tag: its items but for the delimiters and the spaces.    *)

Words(its, n) ==
    SelectSeq(its, LAMBDA it : it.typ # "itemSpace" /\ n.from < it.from /\ it.to < n.to)

\* The pipeline of a tag: the words behind its keyword, or behind both of
\* {{else if}}.
PipeWords(n) ==
    LET w == Words(items, n)
        keywords == CASE n.type \in {BlockOpen, Define} -> 1
                      [] n.type = BlockMid -> 2
                      [] OTHER -> 0
    IN  IF Len(w) < keywords THEN <<>> ELSE SubSeq(w, keywords + 1, Len(w))

\* len(pipe.Cmds) > 0: it is not empty and does not end with a declaration.
HasCmds(w) == w # <<>> /\ Last(w).typ \notin {"itemAssign", "itemDeclare", "itemChar"}

IsAssign(it) == it.typ \in {"itemAssign", "itemDeclare"}

\* Word p ends an operand; word p is a field access on the operand before it;
\* the parenthesis that closes the one at p.
EndsOperand(w, p) == w[p].typ \in (isPipelineOperand \ {"itemLeftParen"}) \cup {"itemRightParen"}

Chained(w, p) ==
    /\ p \in 2 .. Len(w) /\ w[p].typ = "itemField"
    /\ w[p - 1].to = w[p].from /\ EndsOperand(w, p - 1)

Close(w, p) ==
    LET Count(typ, q) == Quantify(p .. q, LAMBDA r : w[r].typ = typ)
    IN  Min({q \in p .. Len(w) : Count("itemLeftParen", q) = Count("itemRightParen", q)})

\* lineno of the argument that begins at word p: a parenthesis has the line of
\* its first word, or of the field access behind it.
ArgLine(w, p) ==
    IF w[p].typ # "itemLeftParen" THEN w[p].line
    ELSE IF Chained(w, Close(w, p) + 1) THEN w[Close(w, p) + 1].line
    ELSE w[p + 1].line

Spelling(it) == SubSeq(src, it.from, it.to - 1)
Newline(text) == Contains(text, "\n")

\* The pipeline w, whose further lines begin with margin.  lines holds, for
\* every open parenthesis, the line of the last argument (0: none yet), and
\* marks where what it encloses begins.
PipeText(w, margin) ==
    LET Argument(acc, p) ==
            LET prevLine == Last(acc.lines)
                gap == CASE prevLine = 0 -> <<>>
                         [] prevLine > 0 /\ ArgLine(w, p) > prevLine -> <<"\n">> \o margin
                         [] OTHER -> <<" ">>
                text  == acc.text \o gap \o Spelling(w[p])
                lines == Append(Front(acc.lines), ArgLine(w, p))
            IN  IF w[p].typ # "itemLeftParen"
                THEN [acc EXCEPT !.text = text, !.lines = lines]
                ELSE [text |-> text, lines |-> Append(lines, 0),
                      marks |-> Append(acc.marks, Len(text) + 1)]
        Closing(acc, p) ==
            LET own == /\ Newline(SubSeq(acc.text, Last(acc.marks), Len(acc.text)))
                       /\ ~Chained(w, p + 1)
            IN  [text  |-> acc.text \o (IF own THEN <<"\n">> \o margin ELSE <<>>) \o <<")">>,
                 lines |-> Front(acc.lines), marks |-> Front(acc.marks)]
        \* What stands between two commands or after the declarations.
        Separator(acc, p) ==
            LET text ==
                  CASE w[p].typ = "itemPipe" ->
                         IF p = Len(w) \/ w[p + 1].typ = "itemRightParen" THEN <<>>
                         ELSE <<" ", "|", " ">>
                    [] w[p].typ = "itemChar" ->
                         IF p + 2 <= Len(w) /\ IsAssign(w[p + 2]) THEN <<",", " ">>
                         ELSE <<" ", ":", "=", " ">>
                    [] OTHER -> <<" ">> \o Spelling(w[p]) \o <<" ">>
            IN  [acc EXCEPT !.text = @ \o text, !.lines = Append(Front(@), 0)]
        OneWord(acc, p) ==
            CASE Chained(w, p) -> [acc EXCEPT !.text = @ \o Spelling(w[p])]
              [] w[p].typ \in isPipelineOperand /\ ~Chained(w, p) -> Argument(acc, p)
              [] w[p].typ = "itemRightParen" -> Closing(acc, p)
              [] OTHER -> Separator(acc, p)
    IN  FoldLeftDomain(OneWord, [text |-> <<>>, lines |-> <<0>>, marks |-> <<>>], w).text
----------------------------------------------------------------------------
(* Delimiters and indents.                                                 *)

RightTrimmed(n) == RightTrim(n.to - 4)

\* Slip: the left trim is lost.
leftDelimUntrimmed(n) == <<"{", "{", " ">>

leftDelim(n) ==
    IF LeftTrim(src, n.from + 2) THEN <<"{", "{", "-", " ">> ELSE <<"{", "{", " ">>
rightDelimNoSpace(n) == IF RightTrimmed(n) THEN <<"-", "}", "}">> ELSE <<"}", "}">>

\* Slip: nothing before a right trim marker.
rightDelimGlued(n) == rightDelimNoSpace(n)

rightDelim(n) == <<" ">> \o rightDelimNoSpace(n)

indent(n) == [p \in 1 .. n |-> "\t"]

AtLineStart == out = <<>> \/ Last(out) = "\n"

\* Slip: the indent is written in the middle of a line too.
branchIndentAlways == indent(branchDepth)

branchIndent == IF AtLineStart THEN indent(branchDepth) ELSE <<>>

controlIndent(oneLiner, level) ==
    IF oneLiner THEN <<>>
    ELSE (IF AtLineStart THEN <<>> ELSE <<"\n">>) \o indent(level)

isAllWhitespace(text) == \A p \in DOMAIN text : text[p] \in Blank

AfterNewline(text) ==
    LET newlines == {p \in DOMAIN text : text[p] = "\n"}
    IN  SubSeq(text, Max(newlines \cup {0}) + 1, Len(text))

\* setActionPrefix: the indent the action stands behind.
actionPrefix(before) ==
    IF isAllWhitespace(AfterNewline(before)) THEN AfterNewline(before) ELSE <<>>

\* writeAction, behind what is written before it.
writeAction(n, before) ==
    LET margin == actionPrefix(before)
        w    == PipeWords(n)
        word == IF n.keyword = "" THEN <<>> ELSE <<n.keyword>>
        gap  == IF n.keyword = "" THEN <<>> ELSE <<" ">>
        pipeText == PipeText(w, margin \o indent(1))
        ownLine  == Newline(pipeText) /\ Last(pipeText) # "raw"
    IN  /\ prefix' = margin
        /\ out' = before \o leftDelim(n) \o word \o
                 (CASE ~HasCmds(w) -> rightDelim(n)
                    [] HasCmds(w) /\ ownLine ->
                         gap \o pipeText \o <<"\n">> \o margin \o rightDelimNoSpace(n)
                    [] OTHER -> gap \o pipeText \o rightDelim(n))
----------------------------------------------------------------------------
(* The nodes.                                                              *)

\* The change of nesting over the nodes from .. to.
Nesting(ns, from, to) ==
    Quantify(from .. to, LAMBDA m : ns[m].type \in {BlockOpen, Define})
    - Quantify(from .. to, LAMBDA m : ns[m].type = BlockClose)

\* The {{end}} of the branch at node m.
EndOf(ns, m) == Min({e \in m .. Len(ns) : Nesting(ns, m, e) = 0})

\* Nodes m and e belong to the same list.
Siblings(ns, m, e) ==
    /\ Nesting(ns, m + 1, e) = 0
    /\ \A q \in m + 1 .. e :
          /\ Nesting(ns, m + 1, q) >= 0
          /\ ns[q].type = BlockMid => Nesting(ns, m + 1, q) > 0

\* Node n of the template text is a comment with the directive.
Directs(text, n, directive) ==
    n.type = Comment /\ Contains(SubSeq(text, n.from, n.to - 1), directive)

\* The sibling that ends the ignore block node m starts, if any.
IgnoreEnds(m) ==
    IF Directs(src, nodes[m], "ignore-start")
    THEN {e \in m + 1 .. Len(nodes) :
             Directs(src, nodes[e], "ignore-end") /\ Siblings(nodes, m, e)}
    ELSE {}

\* The node to write is of a type in types, and begins no ignore block.
Writing(types) ==
    /\ at = "accepted" /\ k <= Len(nodes)
    /\ nodes[k].type \in types
    /\ IgnoreEnds(k) = {}

Wrote == UNCHANGED <<parseVars, items, first>> /\ k' = k + 1
SameBranch == UNCHANGED <<open, inOneLiner, branchDepth>>

writeText ==
    /\ Writing({Literal})
    /\ LET text == Spelling(nodes[k])
           solid == {p \in DOMAIN text : text[p] \notin Space}
       IN  out' = out \o (IF rightTrimPending
                          THEN SubSeq(text, Min(solid \cup {Len(text) + 1}), Len(text))
                          ELSE text)
    /\ rightTrimPending' = FALSE
    /\ Wrote /\ SameBranch /\ UNCHANGED prefix

writeComment ==
    /\ Writing({Comment})
    /\ LET n == nodes[k]
           left  == IF src[n.from - 1] = "{" THEN <<"{", "{">> ELSE <<"{", "{", "-", " ">>
           right == IF src[n.to] = "}" THEN <<"}", "}">> ELSE <<" ", "-", "}", "}">>
       IN  out' = out \o branchIndent \o left \o Spelling(n) \o right
    /\ rightTrimPending' = FALSE
    /\ Wrote /\ SameBranch /\ UNCHANGED prefix

\* Slip: a pending trim survives an action.
writeActionTrimPending ==
    /\ Writing({Action})
    /\ writeAction(nodes[k], out \o branchIndent)
    /\ Wrote /\ SameBranch /\ UNCHANGED rightTrimPending

writeActionNode ==
    /\ Writing({Action})
    /\ writeAction(nodes[k], out \o branchIndent)
    /\ rightTrimPending' = FALSE
    /\ Wrote /\ SameBranch

\* A branch that ends on the line it begins on stays on one line, and with it
\* every branch inside.
writeBranch ==
    /\ Writing({BlockOpen, Define})
    /\ LET n == nodes[k]
           oneLiner == inOneLiner \/ n.line = nodes[EndOf(nodes, k)].line
           indentBody == ~oneLiner /\ n.type # Define
       IN  /\ inOneLiner' = oneLiner
           /\ open' = Append(open, [oneLiner |-> inOneLiner, base |-> branchDepth])
           /\ branchDepth' = branchDepth + (IF indentBody THEN 1 ELSE 0)
           /\ writeAction(n, out \o (IF oneLiner THEN branchIndent
                                     ELSE controlIndent(FALSE, branchDepth)))
    /\ rightTrimPending' = FALSE
    /\ Wrote

\* The list before it is left; its own is one deeper, on one line or not.
writeElse ==
    /\ Writing({BlockMid})
    /\ LET n == nodes[k]
           base == Last(open).base
           w    == PipeWords(n)
           keyword == IF Len(Words(items, n)) < 2 THEN <<>>
                      ELSE <<" ">> \o Spelling(Words(items, n)[2])
       IN  /\ out' = out \o controlIndent(inOneLiner, base)
                      \o leftDelim(n) \o <<"else">> \o keyword
                      \o (IF HasCmds(w) THEN <<" ">> \o PipeText(w, prefix) ELSE <<>>)
                      \o rightDelim(n)
           /\ branchDepth' = base + 1
    /\ Wrote /\ UNCHANGED <<open, inOneLiner, rightTrimPending, prefix>>

writeEnd ==
    /\ Writing({BlockClose})
    /\ LET n == nodes[k]
           branch == Last(open)
       IN  /\ out' = out \o controlIndent(inOneLiner, branch.base)
                      \o leftDelim(n) \o <<"end">> \o rightDelim(n)
           /\ rightTrimPending' = (rightTrimPending \/ RightTrimmed(n))
           /\ inOneLiner' = branch.oneLiner /\ branchDepth' = branch.base
    /\ open' = Front(open)
    /\ Wrote /\ UNCHANGED prefix

\* writeIgnoreBlockBody: the source from the start directive's "{{" to the
\* first "}}" of the end directive, behind its indent once more.
writeIgnoreBlock ==
    /\ at = "accepted" /\ k <= Len(nodes)
    /\ IgnoreEnds(k) # {}
    /\ LET e == Min(IgnoreEnds(k))
           cStart == Max({p \in 1 .. nodes[k].pos - 2 : LeftDelim(src, p)})
           c2End  == Min({p \in nodes[e].pos .. Len(src) : RightDelim(src, p)}) + 2
           userIndent == AfterNewline(SubSeq(src, 1, cStart - 1))
       IN  /\ out' = out \o (IF isAllWhitespace(userIndent) THEN userIndent ELSE <<>>)
                          \o SubSeq(src, cStart, c2End - 1)
           /\ k' = e + 1
    /\ SameBranch /\ UNCHANGED <<parseVars, items, first, prefix, rightTrimPending>>

Printed == at = "accepted" /\ k > Len(nodes)

\* The second round, over what the first one wrote.
Reparse ==
    /\ Printed /\ ~Again
    /\ first' = [src |-> src, items |-> items, nodes |-> nodes]
    /\ ParseAgain(out)
    /\ items' = <<>>
    /\ out' = <<>> /\ k' = 1 /\ open' = <<>>
    /\ inOneLiner' = FALSE /\ branchDepth' = 0 /\ rightTrimPending' = FALSE /\ prefix' = <<>>

Next ==
    \/ Parse
    \/ writeText \/ writeComment \/ writeActionNode \/ writeBranch \/ writeElse \/ writeEnd
    \/ writeIgnoreBlock
    \/ Reparse

Spec == Init /\ [][Next]_vars
=============================================================================
