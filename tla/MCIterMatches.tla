---------------------------- MODULE MCIterMatches ----------------------------
(***************************************************************************)
(* Haystacks of up to five characters over 'a', 'b' and U+00E9 (two       *)
(* bytes), and separators that force backtracking: every one- and          *)
(* two-character string and the three-character "aab" and "aba".          *)
(***************************************************************************)
EXTENDS IterMatches

\* The UTF-8 bytes of a sequence of characters from a, b and U+00E9.
Utf8Of(t) == FlattenSeq([k \in DOMAIN t |->
                            IF t[k] = 233 THEN << 195, 169 >> ELSE << t[k] >>])

MCChars == {97, 98, 233}

MaxChars == 5

MCHaystacks == {Utf8Of(t) : t \in BoundedSeq(MCChars, MaxChars)}

MCSeps == {Utf8Of(t) : t \in SeqOf(MCChars, 2) \ {<< >>}}
              \cup {<< 97, 97, 98 >>, << 97, 98, 97 >>}

MCEmptySep == {<< >>}

MCTos == {<< 120 >>}

=============================================================================
