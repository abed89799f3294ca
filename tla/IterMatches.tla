---------------------------- MODULE IterMatches ----------------------------
(***************************************************************************)
(* The substring scanner of src/libcore/str.rs and the three callers built *)
(* on it.  iter_matches is a naive matcher that walks the haystack byte by *)
(* byte, keeps how much of the separator it has matched (match_i) and      *)
(* where that partial match began (match_start), and on a mismatch         *)
(* backtracks to match_start + 1.  iter_between_matches turns the matches  *)
(* into the spans between them, and split_str, split_str_nonempty and      *)
(* replace consume those spans.                                            *)
(*                                                                         *)
(* One loop iteration is one step; each callback runs inside the step that *)
(* calls it.                                                               *)
(***************************************************************************)
EXTENDS Integers, Sequences, SequencesExt

CONSTANTS
    Haystacks,  \* the strings s searched (UTF-8 byte sequences)
    Seps,       \* the separators sep / from
    Tos,        \* the replacement strings of replace
    Callers     \* a subset of {"split_str", "split_str_nonempty", "replace"}

ASSUME Callers \subseteq {"split_str", "split_str_nonempty", "replace"}

VARIABLES
    caller,       \* which function called iter_between_matches
    s, sep, to,   \* the arguments
    i,            \* iter_matches: the byte offset being compared
    match_start,  \* iter_matches: where the current partial match began
    match_i,      \* iter_matches: bytes of sep matched so far
    last_end,     \* iter_between_matches: end of the last match
    fields,       \* split_str / split_str_nonempty: the result vector
    result,       \* replace: the result string
    first,        \* replace: no span has been pushed yet
    phase         \* "start", "scan", "done" or "failed"

vars == << caller, s, sep, to, i, match_start, match_i, last_end,
           fields, result, first, phase >>

\* s[i] with the code's 0-based offset.
Byte(str, k) == str[k + 1]

\* raw::slice_bytes_unique(s, from, to): the bytes from offset `from` up to
\* offset `to`.
Slice(str, from, upto) == SubSeq(str, from + 1, upto)

\* split_str's closure: result.push(raw::slice_bytes_unique(s, from, to)).
SplitStrPush(piece) ==
    /\ fields' = Append(fields, piece)
    /\ UNCHANGED << result, first >>

\* split_str_nonempty's closure: push the slice only if to > from.
SplitStrNonemptyPush(piece) ==
    /\ fields' = IF piece # << >> THEN Append(fields, piece) ELSE fields
    /\ UNCHANGED << result, first >>

\* Mutant: replace pushes `to` before the first span too.
ReplacePush_to_first(piece) ==
    /\ result' = result \o to \o piece
    /\ first' = FALSE
    /\ UNCHANGED fields

\* replace's closure: push_str(result, to) unless this is the first span,
\* then push_str(result, slice).
ReplacePush(piece) ==
    /\ result' = IF first THEN result \o piece ELSE result \o to \o piece
    /\ first' = FALSE
    /\ UNCHANGED fields

\* iter_between_matches calls its caller's closure on the span [from, upto).
Emit(from, upto) ==
    LET piece == Slice(s, from, upto)
    IN  CASE caller = "split_str"          -> SplitStrPush(piece)
          [] caller = "split_str_nonempty" -> SplitStrNonemptyPush(piece)
          [] caller = "replace"            -> ReplacePush(piece)

Init ==
    /\ caller \in Callers
    /\ s \in Haystacks
    /\ sep \in Seps
    /\ to \in Tos
    /\ i = 0
    /\ match_start = 0
    /\ match_i = 0
    /\ last_end = 0
    /\ fields = << >>
    /\ result = << >>
    /\ first = TRUE
    /\ phase = "start"

\* iter_matches' entry: fail_unless!(sep_len > 0u).
Start ==
    /\ phase = "start"
    /\ phase' = IF Len(sep) > 0 THEN "scan" ELSE "failed"
    /\ UNCHANGED << caller, s, sep, to, i, match_start, match_i, last_end,
                    fields, result, first >>

\* Mutant: match_start is not set when a partial match begins.
Advance_start_not_set ==
    /\ phase = "scan"
    /\ i < Len(s)
    /\ Byte(s, i) = Byte(sep, match_i)
    /\ match_i + 1 < Len(sep)
    /\ match_i' = match_i + 1
    /\ i' = i + 1
    /\ UNCHANGED << caller, s, sep, to, match_start, last_end, fields,
                    result, first, phase >>

\* s[i] == sep[match_i] and the match is not yet complete.
Advance ==
    /\ phase = "scan"
    /\ i < Len(s)
    /\ Byte(s, i) = Byte(sep, match_i)
    /\ match_i + 1 < Len(sep)
    /\ match_start' = IF match_i = 0 THEN i ELSE match_start
    /\ match_i' = match_i + 1
    /\ i' = i + 1
    /\ UNCHANGED << caller, s, sep, to, last_end, fields, result, first, phase >>

\* s[i] == sep[match_i] completes a match: f(match_start, i + 1), which is
\* iter_between_matches' closure f(last_end, from); last_end = to.
Found ==
    /\ phase = "scan"
    /\ i < Len(s)
    /\ Byte(s, i) = Byte(sep, match_i)
    /\ match_i + 1 = Len(sep)
    /\ LET from == IF match_i = 0 THEN i ELSE match_start
       IN  /\ Emit(last_end, from)
           /\ match_start' = from
    /\ last_end' = i + 1
    /\ match_i' = 0
    /\ i' = i + 1
    /\ UNCHANGED << caller, s, sep, to, phase >>

\* Mutant: the backtrack returns to match_start instead of one past it.
Backtrack_to_start ==
    /\ phase = "scan"
    /\ i < Len(s)
    /\ Byte(s, i) # Byte(sep, match_i)
    /\ match_i > 0
    /\ match_i' = 0
    /\ i' = match_start
    /\ UNCHANGED << caller, s, sep, to, match_start, last_end, fields,
                    result, first, phase >>

\* A mismatch after a partial match: backtrack to match_start + 1.
Backtrack ==
    /\ phase = "scan"
    /\ i < Len(s)
    /\ Byte(s, i) # Byte(sep, match_i)
    /\ match_i > 0
    /\ match_i' = 0
    /\ i' = match_start + 1
    /\ UNCHANGED << caller, s, sep, to, match_start, last_end, fields,
                    result, first, phase >>

\* A mismatch with nothing matched: move on.
Skip ==
    /\ phase = "scan"
    /\ i < Len(s)
    /\ Byte(s, i) # Byte(sep, match_i)
    /\ match_i = 0
    /\ i' = i + 1
    /\ UNCHANGED << caller, s, sep, to, match_start, match_i, last_end,
                    fields, result, first, phase >>

\* The loop ends; iter_between_matches emits the tail f(last_end, len(s)).
Exit ==
    /\ phase = "scan"
    /\ i >= Len(s)
    /\ Emit(last_end, Len(s))
    /\ phase' = "done"
    /\ UNCHANGED << caller, s, sep, to, i, match_start, match_i, last_end >>

\* The call has returned, or its task has failed.
Finished ==
    /\ phase \in {"done", "failed"}
    /\ UNCHANGED vars

Next ==
    \/ Start
    \/ Advance
    \/ Found
    \/ Backtrack
    \/ Skip
    \/ Exit
    \/ Finished

\* One task runs the loop to completion: nothing preempts it.
Spec == Init /\ [][Next]_vars /\ WF_vars(Next)

-----------------------------------------------------------------------------

\* Reference: the offset of the leftmost occurrence of pat in str at or
\* after offset from, or -1.
FirstOccurrence(str, pat, from) ==
    LET J == {j \in from..Len(str) - Len(pat) :
                Slice(str, j, j + Len(pat)) = pat}
    IN  IF J = {} THEN -1 ELSE Min(J)

\* Reference: str cut at its leftmost non-overlapping occurrences of pat.
RECURSIVE SplitRef(_, _, _)
SplitRef(str, pat, from) ==
    LET j == FirstOccurrence(str, pat, from)
    IN  IF j < 0 THEN << Slice(str, from, Len(str)) >>
        ELSE << Slice(str, from, j) >> \o SplitRef(str, pat, j + Len(pat))

\* Reference: the pieces with d between each two of them.
Joined(ps, d) ==
    IF ps = << >> THEN << >>
    ELSE FlattenSeq([k \in 1..2 * Len(ps) - 1 |->
                        IF k % 2 = 1 THEN ps[(k + 1) \div 2] ELSE d])

\* split_str returns s cut at the leftmost non-overlapping occurrences of
\* sep, split_str_nonempty the same without the empty pieces, and replace
\* the pieces joined by `to`: the backtracking matcher finds exactly the
\* occurrences a leftmost search finds.
OutputMatchesReference ==
    phase = "done" =>
        LET ref == SplitRef(s, sep, 0)
        IN  CASE caller = "split_str"          -> fields = ref
              [] caller = "split_str_nonempty" ->
                    fields = SelectSeq(ref, LAMBDA p : p # << >>)
              [] caller = "replace"            -> result = Joined(ref, to)

\* The loop invariant of iter_matches: the bytes from match_start are a
\* prefix of sep as long as match_i, and between the end of the last match
\* and the start of the current candidate no occurrence of sep begins.
ScanInvariant ==
    phase = "scan" =>
        LET cand == IF match_i > 0 THEN match_start ELSE i
        IN  /\ last_end <= cand
            /\ match_i > 0 => /\ match_start + match_i = i
                              /\ Slice(s, match_start, i) = Slice(sep, 0, match_i)
            /\ \A j \in last_end..cand - 1 :
                    j + Len(sep) <= Len(s) => Slice(s, j, j + Len(sep)) # sep

\* Every call of split_str, split_str_nonempty and replace returns (or
\* fails): the backtracking never revisits a state.
Termination == <>(phase \in {"done", "failed"})

\* The spec: splitting by an empty separator is "no split" and replacing
\* an empty search term is a no-op; neither ends the task.
EmptySeparatorIsNoOp == Len(sep) = 0 => phase # "failed"

=============================================================================
