----------------------------- MODULE MCStrBuffer -----------------------------
(***************************************************************************)
(* StrBuffer with one code point of each width from 1 to 4 bytes and       *)
(* strings of up to MaxLen bytes.                                          *)
(***************************************************************************)
EXTENDS StrBuffer

\* 'A', U+00E9, U+4E2D and U+1D11E: widths 1, 2, 3 and 4.
MCChars == {65, 233, 20013, 119070}

\* The empty literal, one ASCII letter and a two-character literal that
\* mixes widths.
MCTexts == {<< >>, << 65 >>, << 233, 65 >>}
=============================================================================
