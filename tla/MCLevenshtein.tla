--------------------------- MODULE MCLevenshtein ---------------------------
(* levdistance on strings of up to four characters.                       *)
EXTENDS Levenshtein

StringsOver(cs, n) ==
    {FlattenSeq([k \in DOMAIN w |-> EncodeChar(w[k])]) :
        w \in UNION {[1..m -> cs] : m \in 0..n}}

\* ASCII only: bytes and characters coincide.
MCAsciiStrings == StringsOver({97, 98}, 4)

\* With a two-byte character.
MCMixedStrings == StringsOver({97, 233}, 2)
====
