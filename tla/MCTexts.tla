------------------------------ MODULE MCTexts -------------------------------
(* Instances of Texts for TLC.                                             *)
EXTENDS Texts

UpTo(n, chars) == UNION {[1 .. k -> chars] : k \in 0 .. n}

(* "S" stands for the key.  Up to two cookies; the names differ from the   *)
(* key, or contain it; the values contain the key and signs of equality.   *)
SID      == <<"S">>
OneKind  == [name : {SID, <<"x">>, <<"x", "S">>, <<"S", "x">>},
             value : UpTo(2, {"1", "S", "="})]
TwoKinds == UNION {[1 .. k -> OneKind] : k \in 0 .. 2}

(* Up to five characters.  The message looks like a format.                *)
Parts   == UpTo(5, {"%", "m", "S", "x"})
Message == [f \in {"t", "c", "n", "i", "f", "l", "m"} |-> <<"%", f>>]

(* A process in /w, alone or with directories that are already there.      *)
Work  == <<<<"w">>>>
Paths == UpTo(6, {"a", ".", "/"})
TwoDisks == {{<<>>, Work}, {<<>>, Work, Append(Work, <<"a">>), <<<<"a">>>>}}

=============================================================================
