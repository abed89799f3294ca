---------------------------- MODULE Levenshtein ----------------------------
(***************************************************************************)
(* levdistance of src/libcore/str.rs: the single-row dynamic programme.    *)
(* slen and tlen are s.len() and t.len(), byte lengths, and dcol has       *)
(* tlen + 1 entries, while both loops walk characters with each_chari,     *)
(* whose indices i and j count characters.  One iteration of the inner     *)
(* loop is one step.                                                       *)
(***************************************************************************)
EXTENDS Utf8, SequencesExt

CONSTANTS
    Strings   \* the strings s and t are drawn from (UTF-8 byte sequences)

VARIABLES
    s, t,
    dcol,      \* the row, indexed 0 .. tlen
    i, spos,   \* outer each_chari: character index and byte offset in s
    sc,        \* the current character of s
    current,   \* the diagonal value carried along the inner loop
    j, tpos,   \* inner each_chari: character index and byte offset in t
    ret,       \* the value returned
    phase      \* "entry", "outer", "inner" or "done"

vars == << s, t, dcol, i, spos, sc, current, j, tpos, ret, phase >>

slen == Len(s)
tlen == Len(t)

Init ==
    /\ s \in Strings
    /\ t \in Strings
    /\ dcol = [x \in 0..tlen |-> x]
    /\ i = 0 /\ spos = 0 /\ sc = 0 /\ current = 0 /\ j = 0 /\ tpos = 0
    /\ ret = 0
    /\ phase = "entry"

\* Mutant: the early returns give the length of the empty string.
Entry_swapped ==
    /\ phase = "entry"
    /\ CASE slen = 0 -> ret' = slen /\ phase' = "done"
         [] tlen = 0 -> ret' = tlen /\ phase' = "done"
         [] OTHER    -> ret' = ret  /\ phase' = "outer"
    /\ UNCHANGED << s, t, dcol, i, spos, sc, current, j, tpos >>

\* if slen == 0 { return tlen; } if tlen == 0 { return slen; }; otherwise
\* dcol = vec::from_fn(tlen + 1, |x| x), which Init already holds.
Entry ==
    /\ phase = "entry"
    /\ CASE slen = 0 -> ret' = tlen /\ phase' = "done"
         [] tlen = 0 -> ret' = slen /\ phase' = "done"
         [] OTHER    -> ret' = ret  /\ phase' = "outer"
    /\ UNCHANGED << s, t, dcol, i, spos, sc, current, j, tpos >>

\* Outer each_chari: decode sc at spos; current = i; dcol[0] = current + 1;
\* start the inner loop.
Outer ==
    /\ phase = "outer"
    /\ spos < slen
    /\ LET r == CharRangeAt(s, spos)
       IN  /\ sc' = r.ch
           /\ spos' = r.next
    /\ current' = i
    /\ dcol' = [dcol EXCEPT ![0] = i + 1]
    /\ j' = 0 /\ tpos' = 0
    /\ phase' = "inner"
    /\ UNCHANGED << s, t, i, ret >>

\* Mutant: the substitution case leaves out dcol[j] (an insertion).
Cell_no_insert(tc) ==
    IF sc = tc THEN current
    ELSE Min({current, dcol[j + 1]}) + 1

\* The new dcol[j + 1]: current if the characters are equal, else
\* min(min(current, next), dcol[j]) + 1, with next = dcol[j + 1].
Cell(tc) ==
    IF sc = tc THEN current
    ELSE Min({Min({current, dcol[j + 1]}), dcol[j]}) + 1

\* Inner each_chari over t: next = dcol[j + 1]; dcol[j + 1] = Cell(tc);
\* current = next.
Inner ==
    /\ phase = "inner"
    /\ tpos < tlen
    /\ LET r == CharRangeAt(t, tpos)
       IN  /\ dcol' = [dcol EXCEPT ![j + 1] = Cell(r.ch)]
           /\ current' = dcol[j + 1]
           /\ tpos' = r.next
    /\ j' = j + 1
    /\ UNCHANGED << s, t, i, spos, sc, ret, phase >>

\* The inner loop ends; the outer each_chari moves to the next character.
InnerExit ==
    /\ phase = "inner"
    /\ tpos >= tlen
    /\ i' = i + 1
    /\ phase' = "outer"
    /\ UNCHANGED << s, t, dcol, spos, sc, current, j, tpos, ret >>

\* The outer loop ends: return dcol[tlen].
OuterExit ==
    /\ phase = "outer"
    /\ spos >= slen
    /\ ret' = dcol[tlen]
    /\ phase' = "done"
    /\ UNCHANGED << s, t, dcol, i, spos, sc, current, j, tpos >>

Finished ==
    /\ phase = "done"
    /\ UNCHANGED vars

Next == Entry \/ Outer \/ Inner \/ InnerExit \/ OuterExit \/ Finished

Spec == Init /\ [][Next]_vars

-----------------------------------------------------------------------------

\* Reference: the edit distance table of two character sequences a and b,
\* D[p, q] = distance between the first p characters of a and the first q
\* of b, with insertion, deletion and substitution costing 1.
EditTable(a, b) ==
    LET D[pq \in (0..Len(a)) \X (0..Len(b))] ==
            LET p == pq[1]
                q == pq[2]
            IN  IF p = 0 THEN q
                ELSE IF q = 0 THEN p
                ELSE Min({D[p - 1, q] + 1, D[p, q - 1] + 1,
                          D[p - 1, q - 1] + (IF a[p] = b[q] THEN 0 ELSE 1)})
    IN  D

EditDistance(a, b) == EditTable(a, b)[Len(a), Len(b)]

\* levdistance returns the edit distance over decoded characters (the
\* spec: "edit distance over decoded characters (not raw bytes)").
LevMatchesReference ==
    phase = "done" => ret = EditDistance(chars(s), chars(t))

\* The row invariant of the rolling-row programme: inside the inner loop
\* for the i-th character of s, dcol[0..j] already holds row i + 1 of the
\* table, dcol[j+1..] still holds row i, and current holds D[i, j], the
\* diagonal the next cell needs.
RowInvariant ==
    phase = "inner" =>
        LET D == EditTable(chars(s), chars(t))
            n == Len(chars(t))
        IN  /\ \A q \in 0..j : dcol[q] = D[i + 1, q]
            /\ \A q \in j + 1..n : dcol[q] = D[i, q]
            /\ current = D[i, j]

====
