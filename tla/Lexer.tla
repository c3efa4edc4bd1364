------------------------------- MODULE Lexer -------------------------------
(***************************************************************************)
(* The template lexer (internal/parse/lex.go).  An action is one call of   *)
(* nextItem, named for the state function that emits the item.  Between    *)
(* two calls start = pos and startLine = line, so only pos and line are    *)
(* kept; a scan for "the next byte that ..." is the least such position.   *)
(***************************************************************************)
EXTENDS Source, FiniteSetsExt

VARIABLES
    src,            \* the template
    pos,            \* the next position to read
    line,           \* the lexer's count of lines, from 1
    parenDepth,     \* parentheses open in the action
    insideAction,   \* between "{{" and "}}"
    item            \* the item the last call returned

lexVars == <<src, pos, line, parenDepth, insideAction, item>>

ItemType ==
    {"itemText", "itemComment", "itemLeftDelim", "itemRightDelim", "itemEOF",
     "itemError", "itemSpace", "itemAssign", "itemDeclare", "itemPipe",
     "itemChar", "itemLeftParen", "itemRightParen", "itemString",
     "itemRawString", "itemCharConstant", "itemNumber", "itemVariable",
     "itemField", "itemDot", "itemIdentifier", "itemNil", "itemIf",
     "itemBranch", "itemElse", "itemEnd"}

Item == [typ : ItemType, from : Nat \ {0}, to : Nat \ {0}, line : Nat \ {0}]

NoItem == [typ |-> "itemSpace", from |-> 1, to |-> 1, line |-> 1]

LexStart == pos = 1 /\ line = 1 /\ parenDepth = 0 /\ insideAction = FALSE /\ item = NoItem
----------------------------------------------------------------------------
Alnum == Word \cup {"1", "_"}

\* The first position from p on that is in S, or the end of the source.
NextIn(S, p) == Min({q \in S : q >= p} \cup {Len(src) + 1})

\* The first position from p on whose symbol is not in cs.
RunEnd(cs, p) == NextIn({q \in p .. Len(src) : src[q] \notin cs}, p)

Newlines(from, to) == Quantify(from .. to - 1, LAMBDA p : src[p] = "\n")

\* A right trim marker is a white-space byte and a dash.
RightTrim(p) == p + 1 <= Len(src) /\ src[p] \in Space /\ src[p + 1] = "-"

TrimmedClose(p) == RightTrim(p) /\ RightDelim(src, p + 2)
atRightDelim(p) == TrimmedClose(p) \/ RightDelim(src, p)

atTerminator(p) ==
    \/ p > Len(src)
    \/ src[p] \in Space \cup {".", ",", "|", ":", ")", "("}
    \/ RightDelim(src, p)

\* Slip: the lines of what is skipped after the item are not counted.
EmitUncounted(typ, from, to, resume) ==
    /\ item' = [typ |-> typ, from |-> from, to |-> to,
                line |-> line + Newlines(pos, from)]
    /\ pos' = resume
    /\ line' = line + Newlines(pos, to)

\* An item over [from, to); the lexer goes on at resume.  What is skipped
\* before and after it is passed over by ignore, which counts its lines.
Emit(typ, from, to, resume) ==
    /\ item' = [typ |-> typ, from |-> from, to |-> to,
                line |-> line + Newlines(pos, from)]
    /\ pos' = resume
    /\ line' = line + Newlines(pos, resume)

\* errorf, for an item begun at from.  The code drops the input; the parser
\* asks for nothing more.
ErrorFrom(from) ==
    /\ item' = [typ |-> "itemError", from |-> from, to |-> from,
                line |-> line + Newlines(pos, from)]
    /\ UNCHANGED <<pos, line>>

Errorf == ErrorFrom(pos)

Same == UNCHANGED <<src, parenDepth, insideAction>>
----------------------------------------------------------------------------
(* Outside an action.                                                      *)

NextLeft == NextIn({p \in pos .. Len(src) : LeftDelim(src, p)}, pos)

LexText ==
    /\ ~insideAction
    /\ NextLeft > pos
    /\ Emit("itemText", pos, NextLeft, NextLeft)
    /\ Same

LexEOF ==
    /\ ~insideAction
    /\ pos > Len(src)
    /\ Emit("itemEOF", pos, pos, pos)
    /\ Same

\* Past "{{" and past a left trim marker and the white space behind it.
AfterMarker == pos + (IF LeftTrim(src, pos + 2) THEN 4 ELSE 2)

AtComment == LeftDelim(src, pos) /\ LeftComment(src, AfterMarker)

LexLeftDelim ==
    /\ ~insideAction
    /\ LeftDelim(src, pos) /\ ~AtComment
    /\ Emit("itemLeftDelim", pos, pos + 2, AfterMarker)
    /\ insideAction' = TRUE /\ parenDepth' = 0
    /\ UNCHANGED src

\* The lines inside the comment are never added to line.
LexComment ==
    /\ ~insideAction /\ AtComment
    /\ LET stars == {p \in AfterMarker + 2 .. Len(src) : RightComment(src, p)}
           stop  == Min(stars) + 2
           close == IF TrimmedClose(stop) THEN stop + 4 ELSE stop + 2
       IN  IF stars = {} \/ ~atRightDelim(stop)
           THEN ErrorFrom(AfterMarker)
           ELSE /\ item' = [typ |-> "itemComment", from |-> AfterMarker, to |-> stop,
                            line |-> line + Newlines(pos, AfterMarker)]
                /\ pos' = close
                /\ line' = item'.line + Newlines(stop, close)
    /\ Same
----------------------------------------------------------------------------
(* Inside an action.                                                       *)

LexRightDelim ==
    /\ insideAction /\ atRightDelim(pos) /\ parenDepth = 0
    /\ LET close == IF TrimmedClose(pos) THEN pos + 2 ELSE pos
       IN  Emit("itemRightDelim", close, close + 2, close + 2)
    /\ insideAction' = FALSE
    /\ UNCHANGED <<src, parenDepth>>

\* "unclosed left paren", "unclosed action".
LexUnclosed ==
    /\ insideAction
    /\ pos > Len(src) \/ (atRightDelim(pos) /\ parenDepth > 0)
    /\ Errorf /\ Same

\* The next symbol of the action is in cs.
On(cs) == insideAction /\ pos <= Len(src) /\ ~atRightDelim(pos) /\ src[pos] \in cs

\* The last white space before "-}}" belongs to the close.
LexSpace ==
    /\ On(Space)
    /\ LET run == RunEnd(Space, pos)
           to  == IF TrimmedClose(run - 1) THEN run - 1 ELSE run
       IN  Emit("itemSpace", pos, to, to)
    /\ Same

\* '=', '|' and the printable bytes that begin nothing.
LexMark ==
    /\ On({"=", "|", ",", "/", "*", "{", "}", "\\"})
    /\ Emit(CASE src[pos] = "=" -> "itemAssign"
              [] src[pos] = "|" -> "itemPipe"
              [] OTHER          -> "itemChar", pos, pos + 1, pos + 1)
    /\ Same

LexDeclare ==
    /\ On({":"})
    /\ IF Pair(src, pos, ":", "=") THEN Emit("itemDeclare", pos, pos + 2, pos + 2)
                                   ELSE Errorf
    /\ Same

LexParen ==
    /\ On({"(", ")"})
    /\ parenDepth' = parenDepth + (IF src[pos] = "(" THEN 1 ELSE -1)
    /\ IF parenDepth' < 0
       THEN Errorf
       ELSE Emit(IF src[pos] = "(" THEN "itemLeftParen" ELSE "itemRightParen",
                 pos, pos + 1, pos + 1)
    /\ UNCHANGED <<src, insideAction>>

\* p is the target of a backslash: the run of backslashes before it, in the
\* literal that opens at pos, is odd.
Escaped(p) ==
    \E n \in 1 .. p - pos - 1 :
        /\ n % 2 = 1
        /\ \A k \in 1 .. n : src[p - k] = "\\"
        /\ src[p - n - 1] # "\\"

LexQuote ==
    /\ On({"\"", "'"})
    /\ LET closes == {p \in pos + 1 .. Len(src) : src[p] = src[pos] /\ ~Escaped(p)}
           to     == Min(closes) + 1
       IN  IF closes = {} \/ Newlines(pos, to) > 0
           THEN Errorf
           ELSE Emit(IF src[pos] = "'" THEN "itemCharConstant" ELSE "itemString",
                     pos, to, to)
    /\ Same

LexRawQuote ==
    /\ On({"raw"})
    /\ LET closes == {p \in pos + 1 .. Len(src) : src[p] = "raw"}
       IN  IF closes = {} THEN Errorf
           ELSE Emit("itemRawString", pos, Min(closes) + 1, Min(closes) + 1)
    /\ Same

\* lexVariable and lexField through lexFieldOrVariable.
LexName ==
    /\ On({"$", "."})
    /\ src[pos] = "$" \/ (pos < Len(src) /\ src[pos + 1] # "1")
    /\ LET to == RunEnd(Alnum, pos + 1)
       IN  CASE ~atTerminator(to) -> Errorf
             [] src[pos] = "$"    -> Emit("itemVariable", pos, to, to)
             [] to = pos + 1      -> Emit("itemDot", pos, to, to)
             [] OTHER             -> Emit("itemField", pos, to, to)
    /\ Same

\* lexNumber and scanNumber: a sign, digits, a point and digits.  A letter
\* after them is refused, and so is a second number without an 'i'.
LexNumber ==
    /\ On({"-", "1", "."})
    /\ src[pos] = "." => pos = Len(src) \/ src[pos + 1] = "1"
    /\ LET whole == RunEnd({"1", "_"}, IF src[pos] = "-" THEN pos + 1 ELSE pos)
           to    == IF whole <= Len(src) /\ src[whole] = "."
                    THEN RunEnd({"1", "_"}, whole + 1) ELSE whole
       IN  IF to <= Len(src) /\ src[to] \in Word \cup {"-"}
           THEN Errorf
           ELSE Emit("itemNumber", pos, to, to)
    /\ Same

\* The item type of the identifier [from, to).
key(from, to) ==
    IF to > from + 1 THEN "itemIdentifier"
    ELSE CASE src[from] = "if"                                 -> "itemIf"
           [] src[from] \in {"range", "with", "block", "define"} -> "itemBranch"
           [] src[from] = "else"                               -> "itemElse"
           [] src[from] = "end"                                -> "itemEnd"
           [] src[from] = "nil"                                -> "itemNil"
           [] OTHER                                            -> "itemIdentifier"

LexIdentifier ==
    /\ On(Word \cup {"_"})
    /\ LET to == RunEnd(Alnum, pos)
       IN  IF atTerminator(to) THEN Emit(key(pos, to), pos, to, to) ELSE Errorf
    /\ Same

nextItem ==
    \/ LexText \/ LexEOF \/ LexLeftDelim \/ LexComment
    \/ LexRightDelim \/ LexUnclosed \/ LexSpace \/ LexMark \/ LexDeclare
    \/ LexParen \/ LexQuote \/ LexRawQuote \/ LexName \/ LexNumber \/ LexIdentifier
=============================================================================
