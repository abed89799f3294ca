------------------------------- MODULE MCSplit -------------------------------
(***************************************************************************)
(* Strings of up to four characters over 'a', ',', U+00E9 and U+9000.     *)
(* U+00E9 is not ASCII, so splitting on it takes split_inner; its code    *)
(* 0xE9 is also the lead byte of U+9000 (E9 80 80).                       *)
(***************************************************************************)
EXTENDS Split

MCChars == {97, 44, 233, 36864}

MaxChars == 4

MCHaystacks == {FlattenSeq([k \in DOMAIN t |-> EncodeChar(t[k])]) :
                   t \in BoundedSeq(MCChars, MaxChars)}

MCSepSets == {{44}, {44, 233}}
=============================================================================
