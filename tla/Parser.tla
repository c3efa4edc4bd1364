------------------------------- MODULE Parser -------------------------------
(***************************************************************************)
(* The template parser (internal/parse/parse.go) over the lexer.  The      *)
(* recursive descent is a machine: at is the function it is in, branches   *)
(* the branchControl calls and outer the pipeline calls (one for every     *)
(* open parenthesis) it will return to.  The tree is kept as the sequence  *)
(* of its nodes in source order; that it nests is in branches.             *)
(***************************************************************************)
EXTENDS Lexer, SequencesExt

VARIABLES
    ahead,      \* the items read and not consumed: t.token and t.peekCount
    at,         \* the parsing function
    branches,   \* the keywords of the open branch nodes
    pipe,       \* the pipeline being parsed
    outer,      \* the pipelines around it
    tag,        \* the action being parsed, and its node's position
    nodes       \* the nodes made so far

parserVars == <<ahead, at, branches, pipe, outer, tag, nodes>>
parseVars == <<lexVars, parserVars>>

At == {"textOrAction", "action", "decls", "secondDecl", "pipeline", "operand", "chain",
       "command", "close", "accepted", "rejected"}

Tag == [type : SliceType, keyword : Word \cup {""}, from : Nat, pos : Nat, line : Nat]

\* cmds and args count commands and the arguments of the last one; constant
\* says that the last operand is a literal, dot or nil, and misplaced that a
\* command after the first begins with one.
Pipe == [context : Word \cup {"else", "command", "paren"}, decls : 0 .. 2,
         cmds : Nat, args : Nat, constant : BOOLEAN, misplaced : BOOLEAN]

NewPipe(context) ==
    [context |-> context, decls |-> 0, cmds |-> 0, args |-> 0,
     constant |-> FALSE, misplaced |-> FALSE]

NoTag == [type |-> Action, keyword |-> "", from |-> 0, pos |-> 0, line |-> 0]

ParseStart ==
    /\ LexStart
    /\ ahead = <<>> /\ at = "textOrAction"
    /\ branches = <<>> /\ outer = <<>> /\ pipe = NewPipe("command")
    /\ tag = NoTag /\ nodes = <<>>

\* Parse is called again, with text.
ParseAgain(text) ==
    /\ src' = text
    /\ pos' = 1 /\ line' = 1 /\ parenDepth' = 0 /\ insideAction' = FALSE
    /\ item' = NoItem
    /\ ahead' = <<>> /\ at' = "textOrAction"
    /\ branches' = <<>> /\ outer' = <<>> /\ pipe' = NewPipe("command")
    /\ tag' = NoTag /\ nodes' = <<>>
----------------------------------------------------------------------------
(* Reading items.                                                          *)

Halted == at \in {"accepted", "rejected"}

\* The parser looks at most four items ahead: a space, a variable, a space
\* and what follows.  The lexer does not depend on the parser, so reading
\* them before they are asked for changes nothing.
Ready == Len(ahead) = 4 \/ \E k \in DOMAIN ahead : ahead[k].typ \in {"itemEOF", "itemError"}

Read ==
    /\ ~Halted /\ ~Ready
    /\ nextItem
    /\ ahead' = Append(ahead, item')
    /\ UNCHANGED <<at, branches, pipe, outer, tag, nodes>>

NonSpace(its) == IF its # <<>> /\ Head(its).typ = "itemSpace" THEN Tail(its) ELSE its

token == Head(NonSpace(ahead))
rest  == Tail(NonSpace(ahead))

In(f) == at = f /\ Ready
Val(it) == src[it.from]

\* Go on in f with the items its.
Move(f, its) == at' = f /\ ahead' = its /\ UNCHANGED lexVars
KeepTree == UNCHANGED <<branches, nodes>>
KeepPipe == UNCHANGED <<pipe, outer>>

Unexpected == Move("rejected", ahead) /\ KeepTree /\ KeepPipe /\ UNCHANGED tag
----------------------------------------------------------------------------
(* parse, itemList and textOrAction.                                       *)

InDefine == Contains(branches, "define")

\* A node put at position p, over [from, token.to).
Node(type, keyword, p, l, from) ==
    [type |-> type, keyword |-> keyword, pos |-> p, line |-> l,
     from |-> from, to |-> token.to, hidden |-> InDefine]

ParseText ==
    /\ In("textOrAction") /\ token.typ \in {"itemText", "itemComment"}
    /\ nodes' = Append(nodes, Node(IF token.typ = "itemText" THEN Literal ELSE Comment, "",
                                   token.from, token.line, token.from))
    /\ Move("textOrAction", rest)
    /\ KeepPipe /\ UNCHANGED <<branches, tag>>

ParseLeftDelim ==
    /\ In("textOrAction") /\ token.typ = "itemLeftDelim"
    /\ Move("action", rest)
    /\ tag' = [NoTag EXCEPT !.from = token.from]
    /\ KeepTree /\ KeepPipe

ParseEOF ==
    /\ In("textOrAction") /\ token.typ = "itemEOF"
    /\ IF branches = <<>>
       THEN Move("accepted", ahead) /\ KeepTree /\ KeepPipe /\ UNCHANGED tag
       ELSE Unexpected

ParseError ==
    /\ In("textOrAction") /\ token.typ = "itemError"
    /\ Unexpected
----------------------------------------------------------------------------
(* action, branchControl, elseControl and endControl.                      *)

Keyword == {"itemIf", "itemBranch"}

\* The pipeline of a tag whose node is put at item it.
BeginPipeline(type, keyword, context, it, its) ==
    /\ Move("decls", its)
    /\ pipe' = NewPipe(context)
    /\ tag' = [tag EXCEPT !.type = type, !.keyword = keyword, !.pos = it.from, !.line = it.line]
    /\ KeepTree /\ UNCHANGED outer

branchControl ==
    /\ In("action") /\ token.typ \in Keyword
    /\ BeginPipeline(classify(Val(token)), Val(token), Val(token), Head(NonSpace(rest)), rest)

commandAction ==
    /\ In("action") /\ token.typ \notin Keyword \cup {"itemElse", "itemEnd"}
    /\ BeginPipeline(Action, "", "command", token, ahead)

\* {{else if}}, {{else with}}, ...: the node is put at the second keyword.
elsePipeline ==
    /\ In("action") /\ token.typ = "itemElse"
    /\ Head(NonSpace(rest)).typ \in Keyword
    /\ BeginPipeline(BlockMid, "", "else", Head(NonSpace(rest)), Tail(NonSpace(rest)))

elseOrEndControl ==
    /\ In("action") /\ token.typ \in {"itemElse", "itemEnd"}
    /\ token.typ = "itemElse" => Head(NonSpace(rest)).typ \notin Keyword
    /\ Move("close", rest)
    /\ tag' = [tag EXCEPT !.type = classify(Val(token))]
    /\ KeepTree /\ KeepPipe

\* The tag is complete: textOrAction returns its node.
Complete(node) ==
    /\ Move("textOrAction", rest)
    /\ nodes' = Append(nodes, node)
    /\ branches' =
        CASE tag.type \in {BlockOpen, Define}         -> Append(branches, tag.keyword)
          [] tag.type = BlockClose /\ branches # <<>> -> Front(branches)
          [] OTHER                                    -> branches
    /\ KeepPipe /\ UNCHANGED tag

\* Slip: the top-level list keeps an {{else}} or {{end}}.
ReturnAnywhere(node) == Complete(node)

\* parse takes an {{else}} or {{end}} that no branch is waiting for as an error.
Return(node) ==
    IF tag.type \in {BlockMid, BlockClose} /\ branches = <<>>
    THEN Unexpected
    ELSE Complete(node)

expectClose ==
    /\ In("close")
    /\ IF token.typ = "itemRightDelim"
       THEN Return(Node(tag.type, "", token.from, token.line, tag.from))
       ELSE Unexpected
----------------------------------------------------------------------------
(* pipeline: declarations, then commands up to the closing item.           *)

\* A declaration, or $x followed by a comma: its.  KeepDecl: $x is an operand.
TakeDecl(f, its) ==
    /\ Move(f, its)
    /\ pipe' = [pipe EXCEPT !.decls = @ + 1]
    /\ KeepTree /\ UNCHANGED <<outer, tag>>

KeepDecl == Move("pipeline", ahead) /\ KeepTree /\ KeepPipe /\ UNCHANGED tag

maybeParseOneDecl ==
    /\ In("decls")
    /\ LET next  == Head(NonSpace(rest))
           after == Tail(NonSpace(rest))
       IN  CASE token.typ # "itemVariable" -> KeepDecl
             [] token.typ = "itemVariable" /\ next.typ \in {"itemAssign", "itemDeclare"} ->
                  TakeDecl("pipeline", after)
             [] token.typ = "itemVariable" /\ next.typ = "itemChar" /\ Val(next) = "," ->
                  IF pipe.context = "range" /\ pipe.decls = 0
                  THEN TakeDecl("secondDecl", after) ELSE Unexpected
             [] OTHER -> KeepDecl

acceptSecondRangeDecl ==
    /\ In("secondDecl")
    /\ IF token.typ \in {"itemVariable", "itemRightDelim", "itemRightParen"}
       THEN Move("decls", ahead) /\ KeepTree /\ KeepPipe /\ UNCHANGED tag
       ELSE Unexpected

Constant == {"itemNil", "itemNumber", "itemCharConstant", "itemString",
             "itemRawString", "itemDot"}

isPipelineOperand == Constant \cup
    {"itemField", "itemIdentifier", "itemVariable", "itemLeftParen"}

End == IF outer = <<>> THEN "itemRightDelim" ELSE "itemRightParen"

\* checkPipeline, then back to the tag or to the operand in parentheses.
endPipeline ==
    /\ In("pipeline") /\ token.typ = End
    /\ CASE pipe.misplaced -> Unexpected
         [] ~pipe.misplaced /\ outer = <<>> -> Return(Node(tag.type, tag.keyword, tag.pos, tag.line, tag.from))
         [] OTHER -> /\ Move("chain", rest)
                     /\ pipe' = [Last(outer) EXCEPT !.args = @ + 1, !.constant = FALSE]
                     /\ outer' = Front(outer)
                     /\ KeepTree /\ UNCHANGED tag

beginCommand ==
    /\ In("pipeline") /\ token.typ # End
    /\ IF token.typ \in isPipelineOperand
       THEN /\ Move("operand", ahead)
            /\ pipe' = [pipe EXCEPT !.cmds = @ + 1, !.args = 0]
            /\ KeepTree /\ UNCHANGED <<outer, tag>>
       ELSE Unexpected
----------------------------------------------------------------------------
(* command, operand and term.                                              *)

\* The backslashes of a literal that begin an escape.
Escapes(it) ==
    {p \in it.from + 1 .. it.to - 2 :
        /\ src[p] = "\\"
        /\ \E n \in {m \in 0 .. p - it.from - 1 : m % 2 = 0} :
              (\A k \in 1 .. n : src[p - k] = "\\") /\ src[p - n - 1] # "\\"}

\* What strconv.Unquote and newNumber refuse of what the lexer let pass.  The
\* words whose first letter makes an escape are nil, range, block and x.
Refused(it) ==
    LET inner   == it.from + 1 .. it.to - 2
        valid   == \A p \in Escapes(it) :
                      src[p + 1] \in {"\\", src[it.from], "x", "nil", "range", "block"}
        one     == Cardinality(inner) - Cardinality(Escapes(it)) = 1
        long    == \E p \in inner : src[p] \in Word \ {"x"}
        digit(p) == p \in it.from .. it.to - 1 /\ src[p] = "1"
    IN  CASE it.typ = "itemString"       -> ~valid
          [] it.typ = "itemCharConstant" -> ~valid \/ ~one \/ long
          [] it.typ = "itemNumber"       ->
               \/ \A p \in it.from .. it.to - 1 : ~digit(p)
               \/ \E p \in it.from .. it.to - 1 :
                     src[p] = "_" /\ ~(digit(p - 1) /\ digit(p + 1))
          [] OTHER -> FALSE

\* A term, or nothing: the spaces before what is not a term are dropped.
term ==
    /\ In("operand") /\ token.typ # "itemLeftParen"
    /\ CASE token.typ \notin isPipelineOperand ->
              Move("command", NonSpace(ahead)) /\ KeepPipe
         [] token.typ \in isPipelineOperand /\ ~Refused(token) ->
              /\ Move("chain", rest)
              /\ pipe' = [pipe EXCEPT !.args = @ + 1,
                             !.constant = token.typ \in Constant,
                             !.misplaced = @ \/ (pipe.cmds > 1 /\ pipe.args = 0
                                                 /\ token.typ \in Constant)]
              /\ UNCHANGED outer
         [] OTHER -> Move("rejected", ahead) /\ KeepPipe
    /\ KeepTree /\ UNCHANGED tag

parenTerm ==
    /\ In("operand") /\ token.typ = "itemLeftParen"
    /\ Move("decls", rest)
    /\ outer' = Append(outer, pipe) /\ pipe' = NewPipe("paren")
    /\ KeepTree /\ UNCHANGED tag

\* The field accesses that directly follow a term; none may follow a constant.
operand ==
    /\ In("chain")
    /\ CASE Head(ahead).typ # "itemField" -> Move("command", ahead)
         [] Head(ahead).typ = "itemField" /\ ~pipe.constant -> Move("chain", Tail(ahead))
         [] OTHER -> Move("rejected", ahead)
    /\ KeepTree /\ KeepPipe /\ UNCHANGED tag

\* Slip: the item that ends a command is passed back and read again.
CommandContinues ==
    /\ In("command")
    /\ LET typ == Head(ahead).typ
       IN  CASE typ = "itemSpace" -> Move("operand", Tail(ahead))
             [] typ = "itemPipe"  -> Move("pipeline", Tail(ahead))
             [] typ \in {"itemRightDelim", "itemRightParen"} -> Move("operand", ahead)
             [] OTHER -> Move("rejected", ahead)
    /\ KeepTree /\ KeepPipe /\ UNCHANGED tag

command ==
    /\ In("command")
    /\ LET typ == Head(ahead).typ
       IN  CASE typ = "itemSpace" -> Move("operand", Tail(ahead))
             [] typ = "itemPipe"  -> Move("pipeline", Tail(ahead))
             [] typ \in {"itemRightDelim", "itemRightParen"} -> Move("pipeline", ahead)
             [] OTHER -> Move("rejected", ahead)
    /\ KeepTree /\ KeepPipe /\ UNCHANGED tag

ParseNext ==
    \/ Read
    \/ ParseText \/ ParseLeftDelim \/ ParseEOF \/ ParseError
    \/ branchControl \/ commandAction \/ elsePipeline \/ elseOrEndControl \/ expectClose
    \/ maybeParseOneDecl \/ acceptSecondRangeDecl \/ endPipeline \/ beginCommand
    \/ term \/ parenTerm \/ operand \/ command
=============================================================================
