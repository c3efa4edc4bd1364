------------------------------ MODULE MCPrint ------------------------------
(* Templates for the printer: every mix of up to MaxTags tags and texts, of   *)
(* up to MaxNested that nest and break lines, and of up to MaxWords words in  *)
(* the pipeline of an action, a branch or an {{else if}}.                     *)
EXTENDS PrinterInvariants

CONSTANTS MaxTags, MaxNested, MaxWords

Nested ==
    {<<"{", "{", "if", " ", ".", "}", "}">>,
     <<"{", "{", "-", " ", "define", " ", "\"", "x", "\"", "}", "}">>,
     <<"{", "{", "else", " ", "with", " ", "x", "\n", "1", "}", "}">>,
     <<"{", "{", "end", " ", "-", "}", "}">>,
     <<"{", "{", "x", "\n", ".", "}", "}">>,
     <<"\n">>}

Tags == Nested \cup
    {<<"{", "{", "end", "}", "}">>,
     <<"{", "{", "/", "*", "\n", "*", "/", "}", "}">>,
     <<"{", "{", "-", " ", "/", "*", "ignore-start", "*", "/", " ", "-", "}", "}">>,
     <<"{", "{", "/", "*", "ignore-end", "}", "}", "*", "/", "}", "}">>,
     <<" ", "x">>}

PipeWord ==
    {<<" ", "x">>, <<"\n", "x">>, <<" ", "(">>, <<"\n", "(", "\n">>, <<")">>, <<".", "x">>,
     <<" ", ".">>, <<"|">>, <<" ", "$", "x">>, <<",">>, <<":", "=">>,
     <<" ", "raw", "\n", "raw">>}

Frames ==
    {<< <<"\t", "{", "{", "-">>, <<" ", "}", "}", "{", "{", "x", "\n", "x", "}", "}">> >>,
     << <<"{", "{", "range">>, <<" ", "-", "}", "}", "{", "{", "end", "}", "}">> >>,
     << <<"{", "{", "if", "}", "}", "\n", "{", "{", "else", " ", "if">>,
        <<" ", "}", "}", "{", "{", "end", "}", "}">> >>}

Pipelines ==
    {f[1] \o FlattenSeq(w) \o f[2] : f \in Frames, w \in BoundedSeq(PipeWord, MaxWords)}

MCSources ==
    {FlattenSeq(w) : w \in BoundedSeq(Tags, MaxTags) \cup BoundedSeq(Nested, MaxNested)}
    \cup Pipelines
=============================================================================
