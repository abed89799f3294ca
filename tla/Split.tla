------------------------------- MODULE Split -------------------------------
(***************************************************************************)
(* The split family of src/libcore/str.rs.  Eight public functions         *)
(* (split_char, splitn_char, split_char_nonempty, split_char_no_trailing,  *)
(* split, splitn, split_nonempty, split_no_trailing) differ only in the    *)
(* count and the two policies they pass on.  split_char_inner has a fast   *)
(* path for an ASCII separator that compares raw bytes; every other case   *)
(* goes to split_inner, which decodes a character per step.                *)
(*                                                                         *)
(* A predicate sepfn is modelled by the set of characters it accepts.      *)
(***************************************************************************)
EXTENDS Utf8, SequencesExt

CONSTANTS
    Haystacks,  \* the strings split (UTF-8 byte sequences)
    SepChars,   \* separators of the *_char functions
    SepSets,    \* predicates of split / splitn / ..., as sets of characters
    Counts      \* the count of splitn_char / splitn

CharApis == {"split_char", "splitn_char", "split_char_nonempty",
             "split_char_no_trailing"}
FnApis   == {"split", "splitn", "split_nonempty", "split_no_trailing"}

VARIABLES
    api,        \* the public function called
    s,          \* its string
    sep,        \* its separator: a character, or a set of characters
    count,      \* split_*_inner's count
    allow_empty, allow_trailing_empty,
    fast,       \* split_char_inner took the byte path
    i, start, done,
    result,     \* the vector of fields
    phase       \* "call", "loop", "done"

vars == << api, s, sep, count, allow_empty, allow_trailing_empty, fast,
           i, start, done, result, phase >>

\* raw::slice_bytes_unique(s, from, to).
Slice(str, from, upto) == SubSeq(str, from + 1, upto)

\* The closure split_inner is given.
IsSep(ch) == IF api \in CharApis THEN ch = sep ELSE ch \in sep

\* What each public function passes to split_char_inner / split_inner:
\* << count, allow_empty, allow_trailing_empty >>.
Policy(f, n, l) ==
    CASE f \in {"split_char", "split"}                  -> << l, TRUE, TRUE >>
      [] f \in {"splitn_char", "splitn"}                -> << n, TRUE, TRUE >>
      [] f \in {"split_char_nonempty", "split_nonempty"} -> << l, FALSE, FALSE >>
      [] f \in {"split_char_no_trailing", "split_no_trailing"} ->
                                                          << l, TRUE, FALSE >>

\* Push the field [start, upto) if empty fields are allowed or it is not
\* empty.
PushField(upto) ==
    result' = IF allow_empty \/ start < upto
              THEN Append(result, Slice(s, start, upto)) ELSE result

Init ==
    /\ api \in CharApis \cup FnApis
    /\ s \in Haystacks
    /\ sep \in IF api \in CharApis THEN SepChars ELSE SepSets
    /\ count \in IF api \in {"splitn_char", "splitn"} THEN Counts ELSE {0}
    /\ allow_empty = FALSE
    /\ allow_trailing_empty = FALSE
    /\ fast = FALSE
    /\ i = 0
    /\ start = 0
    /\ done = 0
    /\ result = << >>
    /\ phase = "call"

\* Mutant: the byte path is taken for every separator below 256.
Call_fast_below_256 ==
    /\ phase = "call"
    /\ LET p == Policy(api, count, Len(s))
       IN  /\ count' = p[1]
           /\ allow_empty' = p[2]
           /\ allow_trailing_empty' = p[3]
    /\ fast' = (api \in CharApis /\ sep < 256)
    /\ phase' = "loop"
    /\ UNCHANGED << api, s, sep, i, start, done, result >>

\* The public function passes its count and policies on, and
\* split_char_inner tests `sep < 128u as char` to pick the byte path.
Call ==
    /\ phase = "call"
    /\ LET p == Policy(api, count, Len(s))
       IN  /\ count' = p[1]
           /\ allow_empty' = p[2]
           /\ allow_trailing_empty' = p[3]
    /\ fast' = (api \in CharApis /\ sep < 128)
    /\ phase' = "loop"
    /\ UNCHANGED << api, s, sep, i, start, done, result >>

\* The byte the fast path compares with: b = sep as u8.
SepByte == sep % 256

\* Byte path, s[i] == b: push [start, i), start = i + 1, done += 1.
FastSep ==
    /\ phase = "loop" /\ fast
    /\ i < Len(s) /\ done < count
    /\ At(s, i) = SepByte
    /\ PushField(i)
    /\ start' = i + 1
    /\ done' = done + 1
    /\ i' = i + 1
    /\ UNCHANGED << api, s, sep, count, allow_empty, allow_trailing_empty,
                    fast, phase >>

\* Byte path, any other byte.
FastOther ==
    /\ phase = "loop" /\ fast
    /\ i < Len(s) /\ done < count
    /\ At(s, i) # SepByte
    /\ i' = i + 1
    /\ UNCHANGED << api, s, sep, count, allow_empty, allow_trailing_empty,
                    fast, start, done, result, phase >>

\* split_inner, sepfn(ch) holds for the character at i: push [start, i),
\* start = next, done += 1.
CharSep ==
    /\ phase = "loop" /\ ~fast
    /\ i < Len(s) /\ done < count
    /\ LET r == CharRangeAt(s, i)
       IN  /\ IsSep(r.ch)
           /\ PushField(i)
           /\ start' = r.next
           /\ done' = done + 1
           /\ i' = r.next
    /\ UNCHANGED << api, s, sep, count, allow_empty, allow_trailing_empty,
                    fast, phase >>

\* split_inner, any other character: i = next.
CharOther ==
    /\ phase = "loop" /\ ~fast
    /\ i < Len(s) /\ done < count
    /\ LET r == CharRangeAt(s, i)
       IN  /\ ~IsSep(r.ch)
           /\ i' = r.next
    /\ UNCHANGED << api, s, sep, count, allow_empty, allow_trailing_empty,
                    fast, start, done, result, phase >>

\* Mutant: `start <= l` for the trailing field.
Trailing_le ==
    /\ phase = "loop"
    /\ i >= Len(s) \/ done >= count
    /\ result' = IF allow_trailing_empty \/ start <= Len(s)
                 THEN Append(result, Slice(s, start, Len(s))) ELSE result
    /\ phase' = "done"
    /\ UNCHANGED << api, s, sep, count, allow_empty, allow_trailing_empty,
                    fast, i, start, done >>

\* The loop ends (end of string or count reached); the trailing field is
\* pushed if trailing empties are allowed or it is not empty.
Trailing ==
    /\ phase = "loop"
    /\ i >= Len(s) \/ done >= count
    /\ result' = IF allow_trailing_empty \/ start < Len(s)
                 THEN Append(result, Slice(s, start, Len(s))) ELSE result
    /\ phase' = "done"
    /\ UNCHANGED << api, s, sep, count, allow_empty, allow_trailing_empty,
                    fast, i, start, done >>

Finished ==
    /\ phase = "done"
    /\ UNCHANGED vars

Next ==
    \/ Call
    \/ FastSep \/ FastOther
    \/ CharSep \/ CharOther
    \/ Trailing
    \/ Finished

Spec == Init /\ [][Next]_vars

-----------------------------------------------------------------------------

\* Reference, over decoded characters: cs cut at its first n separators.
RECURSIVE CutRef(_, _)
CutRef(cs, n) ==
    LET J == {k \in DOMAIN cs : IsSep(cs[k])}
    IN  IF n = 0 \/ J = {} THEN << cs >>
        ELSE LET k == Min(J)
             IN  << SubSeq(cs, 1, k - 1) >> \o CutRef(SubSeq(cs, k + 1, Len(cs)), n - 1)

\* Reference: the fields the documentation promises.  The *_nonempty
\* functions omit every empty field, the *_no_trailing functions omit an
\* empty last field, the others keep them all.
FieldsRef ==
    LET cut == CutRef(chars(s), count)
        omit_empty == api \in {"split_char_nonempty", "split_nonempty"}
        omit_trailing == omit_empty \/
                         api \in {"split_char_no_trailing", "split_no_trailing"}
        body == SelectSeq(Front(cut), LAMBDA f : ~omit_empty \/ f # << >>)
        tail == IF omit_trailing /\ Last(cut) = << >> THEN << >> ELSE << Last(cut) >>
    IN  body \o tail

\* Every split function returns the documented fields, and the fast byte
\* path of split_char_inner returns the same fields as decoding would.
SplitMatchesReference ==
    phase = "done" => [k \in DOMAIN result |-> chars(result[k])] = FieldsRef

\* The next field always starts on a character boundary, on the byte path
\* as on the decoding path, so no field is cut inside a character.
FieldStartsOnBoundary ==
    phase = "loop" => start <= Len(s) /\ is_char_boundary(s, start)

=============================================================================
