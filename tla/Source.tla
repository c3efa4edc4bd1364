------------------------------- MODULE Source -------------------------------
(***************************************************************************)
(* The text of a Go template as the byte scanners of gotmplfumpt see it.   *)
(*                                                                         *)
(* A source is a sequence of symbols.  Every byte the scanners test is a   *)
(* symbol of its own; a maximal run of ASCII letters is one symbol (a      *)
(* word), because the only thing asked of it is which keyword it is.       *)
(* The backquote is written "raw".                                         *)
(* Positions are 1-based, so a slice is [start, stop) with its first       *)
(* symbol at start and the next slice's first symbol at stop.              *)
(***************************************************************************)
EXTENDS Integers, Sequences

Blank == {" ", "\t"}
Space == Blank \cup {"\n", "\r"}
Quote == {"\"", "'", "raw"}

OpenWord == {"if", "range", "with", "block"}
Word     == OpenWord \cup {"else", "end", "define", "nil", "x"}

\* "gotmplfumpt-ignore-all" and its like, which stand in comments only.
Directive == {"ignore-all", "ignore-start", "ignore-end"}

\* Bytes a sentinel is made of, in texts that mention one.
Mention == {"gtmpl", "hash", "a", "b", "0"}

\* "_" stands for an underscore or a letter beyond ASCII, "1" for a digit.
Byte == Space \cup Quote \cup Word \cup Directive \cup Mention \cup
        {"{", "}", "\\", "/", "*", "-", "1", "_",
         ".", ",", "|", ":", "=", "$", "(", ")"}

Literal    == "literal"
Action     == "templated"
BlockOpen  == "block_start"
BlockMid   == "block_mid"
BlockClose == "block_end"
Comment    == "comment"
Define     == "define"

SliceType == {Literal, Action, BlockOpen, BlockMid, BlockClose, Comment, Define}

\* strings.HasPrefix(s[p:], ...), for the two-byte delimiters.
Pair(s, p, a, b) == p + 1 <= Len(s) /\ s[p] = a /\ s[p + 1] = b

LeftDelim(s, p)    == Pair(s, p, "{", "{")
RightDelim(s, p)   == Pair(s, p, "}", "}")
LeftComment(s, p)  == Pair(s, p, "/", "*")
RightComment(s, p) == Pair(s, p, "*", "/")

\* A dash that is a left trim marker: white space follows it.
LeftTrim(s, p) == p + 1 <= Len(s) /\ s[p] = "-" /\ s[p + 1] \in Space

\* The slice type of an action whose leading word is w.
classify(w) ==
    CASE w \in OpenWord -> BlockOpen
      [] w = "else"     -> BlockMid
      [] w = "end"      -> BlockClose
      [] w = "define"   -> Define
      [] OTHER          -> Action

\* Slip: only the text before it is looked at.
StandaloneBefore(s, start, stop) ==
    \A p \in 1 .. start - 1 :
        s[p] \in Blank \/ \E q \in p .. start - 1 : s[q] = "\n"

\* [start, stop) is alone on its line: every byte before it back to the
\* previous newline, and after it up to the next one, is a space or a tab.
standaloneOnLine(s, start, stop) ==
    /\ \A p \in 1 .. start - 1 :
          s[p] \in Blank \/ \E q \in p .. start - 1 : s[q] = "\n"
    /\ \A p \in stop .. Len(s) :
          s[p] \in Blank \/ \E q \in stop .. p : s[q] = "\n"
=============================================================================
