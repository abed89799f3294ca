----------------------------- MODULE Utf8Decode -----------------------------
(***************************************************************************)
(* The walks a caller of the codec makes over a string built by from_bytes *)
(* (which fails unless is_utf8 accepts the bytes): forward one character   *)
(* at a time as chars() and each_chari do, and backward one character at   *)
(* a time as rfind_between does.  A walk is the sequence of [at, ch] it    *)
(* meets, ended by a failure marker if a decode fails.  The calls are      *)
(* made by the StrCalls harness.                                           *)
(*                                                                         *)
(* The validator, the forward decoder, the backward decoder and            *)
(* is_char_boundary are four separate pieces of code that must agree on   *)
(* which offsets start a character.                                        *)
(***************************************************************************)
EXTENDS Utf8, SequencesExt

\* What a failing decode adds to a walk.
WalkFailed == [at |-> -1, ch |-> -1]

\* from_bytes: fail_unless!(is_utf8(vv)), then the bytes are the string.
FromBytes(v) == is_utf8(v)

\* The chars() / each_chari loop: while i < len { char_range_at(s, i);
\* i = next }.
ForwardWalk(s) ==
    LET RECURSIVE Loop(_)
        Loop(pos) == IF pos >= Len(s) THEN << >>
                     ELSE LET r == CharRangeAt(s, pos)
                          IN  IF r.ok
                              THEN << [at |-> pos, ch |-> r.ch] >> \o Loop(r.next)
                              ELSE << WalkFailed >>
    IN  Loop(0)

\* The rfind_between loop from len to 0: while i > 0 {
\* char_range_at_reverse(s, i); i = prev }.
BackwardWalk(s) ==
    LET RECURSIVE Loop(_)
        Loop(pos) == IF pos <= 0 THEN << >>
                     ELSE LET r == CharRangeAtReverse(s, pos)
                          IN  IF r.ok
                              THEN << [at |-> r.next, ch |-> r.ch] >> \o Loop(r.next)
                              ELSE << WalkFailed >>
    IN  Loop(Len(s))

\* A call of from_bytes on v followed by both walks: Failure if from_bytes
\* rejects v, else the two walks.
DecodeCall(v) ==
    IF FromBytes(v)
    THEN [ok |-> TRUE, val |-> [fwd |-> ForwardWalk(v), bwd |-> BackwardWalk(v)]]
    ELSE [ok |-> FALSE, val |-> << >>]

=============================================================================
