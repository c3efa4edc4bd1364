----------------------------- MODULE MCFrontEnd -----------------------------
(* Templates for Format: one action built from tokens, whole templates built *)
(* from tags, and define blocks around bodies of text and tags.              *)
EXTENDS FrontEndInvariants

CONSTANTS MaxTokens, MaxPieces, MaxBody

Token ==
    {<<" ">>, <<"x">>, <<"nil">>, <<"end">>, <<"$">>, <<".">>, <<"1">>, <<"-">>,
     <<"|">>, <<"(">>, <<")">>, <<",">>, <<":", "=">>,
     <<"\"", "}", "}", "\"">>, <<"raw", "\n", "\\", "raw">>, <<"'", "\\", "'", "'">>}

Lead == {<<>>, <<"range", " ", "$", ",">>, <<"else", " ">>, <<"x", " ", "|">>, <<"-", "\n">>}

\* Two words next to each other would be one.
Words(s) == \A p \in 1 .. Len(s) - 1 : ~(s[p] \in Word /\ s[p + 1] \in Word)

Trail == {<<"}", "}">>, <<" ", "-", "}", "}", "{", "{", "end", "}", "}">>}

Actions ==
    {s \in {<<"{", "{">> \o l \o FlattenSeq(w) \o t :
               l \in Lead, w \in BoundedSeq(Token, MaxTokens), t \in Trail} : Words(s)}

Tags ==
    {<<"{", "{", "x", "}", "}">>,
     <<"{", "{", "-", " ", "if", " ", "}", "}">>,
     <<"{", "{", "else", " ", "if", ".", "x", "}", "}">>,
     <<"{", "{", "end", " ", "-", "}", "}">>,
     <<"{", "{", "define", "}", "}">>,
     <<"{", "{", "-", " ", "/", "*", "\n", "}", "}", "*", "/", " ", "-", "}", "}">>,
     <<"{", "{", "end", "_", "}", "}">>,
     <<"{", "{", "define", "_", "}", "}">>,
     <<"\r", "\n", "{">>, <<"x", " ">>}

IgnoreAllTag == <<"{", "{", "/", "*", "ignore-all", "*", "/", "}", "}">>

\* The directive stands in a comment: no brace before the delimiter.
Templates ==
    {FlattenSeq(w) : w \in {v \in BoundedSeq(Tags \cup {IgnoreAllTag}, MaxPieces) :
        \A m \in 2 .. Len(v) : v[m] = IgnoreAllTag => Last(v[m - 1]) # "{"}}

\* What a define body is made of.
Composite == <<"x", "{", " ", "{", "}", " ", "}">>

Inner ==
    {<<" ">>, <<"\n", " ", "x">>, <<"{">>, <<"}">>, Composite,
     <<"{", "{", ".", "\n", " ", "x", "}", "}">>,
     <<"{", "{", "/", "*", "\n", " ", "*", "/", "}", "}">>,
     <<"{", "{", "define", " ", "x", "\n", " ", "}", "}", " ", "{", "{", "end", "}", "}">>}

Bodies == BoundedSeq(Inner, MaxBody)

Names == {<<"x">>, <<"\"", "}", "}", "\"">>, <<"raw", "}", "}", "\n", " ", "raw">>}

Defines ==
    {<<"{", "{", "define", " ">> \o nm \o <<"}", "}">> \o FlattenSeq(w) \o <<"{", "{", "end", "}", "}">> :
        nm \in Names, w \in Bodies}

\* What gofumpt may take for Go, among the bodies: a few tokens whose braces
\* pair up.  Of its layouts, those with a few gaps.
MaxGo   == 7
MaxGaps == 2

Levels(s, p) ==
    Quantify(1 .. p, LAMBDA q : s[q] = "{") - Quantify(1 .. p, LAMBDA q : s[q] = "}")

MayBeGo(s) ==
    /\ s # <<>> /\ s[1] = "x"
    /\ \A p \in DOMAIN s : s[p] # "/" /\ Levels(s, p) >= 0
    /\ Levels(s, Len(s)) = 0
    /\ Len(Solid(s)) <= MaxGo

G == INSTANCE Gofumpt

GapsOf(s) == Quantify(2 .. Len(s), LAMBDA p : s[p] \in Space /\ s[p - 1] \notin Space)

Trimmed(s) ==
    LET inked == {p \in DOMAIN s : s[p] \notin Space}
    IN  IF inked = {} THEN <<>> ELSE SubSeq(s, Min(inked), Max(inked))

\* gofumpt's layouts, without the newline at the end of a file.
MCGofumpt ==
    [core \in {s \in {Trimmed(FlattenSeq(w)) : w \in Bodies} : MayBeGo(s)} |->
        {s \in {[p \in 1 .. Len(t) - 1 |-> t[p][1]] :
                    t \in G!Reflow([p \in DOMAIN core |-> <<core[p], 0, <<>>>>])} :
            GapsOf(s) <= MaxGaps}] @@ <<>>

\* What the lexer refuses before it sees a close.
Broken ==
    {<<"{", "{">> \o w :
        w \in {<<"x">>, <<"\"", "\n", "\"">>, <<"'", "\\", "'">>, <<"raw", "}", "}">>,
              <<":", "}", "}">>, <<"/", "*", "*">>, <<"/", "*", "*", "/", " ", "}", "}">>}}

MCSources == Actions \cup Templates \cup Defines \cup Broken
=============================================================================
