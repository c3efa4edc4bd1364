---------------------------- MODULE MCDiagnose ----------------------------
(* Templates of a few literals and tags whose blocks are well bracketed.     *)
EXTENDS DiagnoseInvariants

CONSTANT MaxSlices

S(type, text) == [type |-> type, text |-> text]

Texts ==
    {S(Literal, t) : t \in {<<"x", "\n">>, <<"\t", "x", " ", "x", "\n">>, <<"--", "\n", "x">>,
                            <<"\t", "++", "\n">>}}

Tags ==
    {S(Action, <<"{{", "x", "}}">>), S(Action, <<"{{", "\n", "x", "\n", "}}">>),
     S(Comment, <<"{{", "/*", "*/", "}}">>),
     S(BlockOpen, <<"{{", "-", " ", "range", "}}">>), S(BlockOpen, <<"{{", "\n", "if", "}}">>),
     S(BlockOpen, <<"{{", "with", "}}">>), S(BlockOpen, <<"{{", "block", "}}">>),
     S(BlockOpen, <<"{{", "if", "}}">>),
     S(BlockMid, <<"{{", "else", "}}">>), S(BlockClose, <<"{{", "end", "}}">>)}

\* Blocks close, only one {{else}} in each and none in a {{block}}; literals
\* are not neighbours.
Parses(t) ==
    LET opener(p) ==
            Max({m \in 1 .. p : t[m].type = BlockOpen /\ Depth(t, m) = Depth(t, p)})
    IN  /\ Bracketed(t)
        /\ \A p \in DOMAIN t :
              /\ t[p].type = BlockMid =>
                    /\ t[opener(p)].text[2] # "block"
                    /\ \A m \in opener(p) .. p - 1 : t[m].type # BlockMid
              /\ p > 1 /\ t[p].type = Literal => t[p - 1].type # Literal

Small == {t \in BoundedSeq(Texts \cup Tags, MaxSlices) : Parses(t)}

Lit(t) == <<S(Literal, t)>>
End_   == <<S(BlockClose, <<"{{", "end", "}}">>)>>
Else_  == <<S(BlockMid, <<"{{", "else", "}}">>)>>
Opens  == {<<s>> : s \in {u \in Tags : u.type = BlockOpen}}

\* A block with an {{else}} and one inside another, all lines different.
TwoBodies ==
    {o \o Lit(<<"\n", "x", "\n">>) \o Else_ \o Lit(<<"\n", "1", "\n">>) \o End_
       \o Lit(<<"\n", "_">> \o t) :
        o \in Opens, t \in {<<>>, <<"\n">>}}

Nested ==
    {o \o Lit(<<"\n", "x", "\n">>) \o q \o Lit(<<"\n", "1", "\n">>) \o End_
       \o Lit(<<"\n", "_", "\n">>) \o End_ :
        o \in Opens, q \in Opens}

MCTemplates == Small \cup {t \in TwoBodies \cup Nested : Parses(t)}

MCData == {<<>>, <<"x">>, <<"x", "\n", "--">>}
=============================================================================
