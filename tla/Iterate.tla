------------------------------ MODULE Iterate ------------------------------
(***************************************************************************)
(* The internal iterators of src/libcore/str.rs: eachi and eachi_reverse   *)
(* over bytes, each_chari over characters, each_char_reverse and           *)
(* each_chari_reverse over characters backward, and the wrappers each,     *)
(* each_reverse and each_char that drop the index.                         *)
(*                                                                         *)
(* The callback `it` is modelled by the number `stop` of the call at which *)
(* it returns false (0: it never does), and an iterator by the sequence of *)
(* << index, item >> pairs it passes to `it`.  The calls are made by the   *)
(* StrCalls harness.                                                       *)
(***************************************************************************)
EXTENDS Utf8, SequencesExt

\* it(index, item) is called after the calls in vis, and returns false at
\* call number stop: the calls so far, and whether the loop goes on.
CallIt(vis, index, item, stop) ==
    LET v == Append(vis, << index, item >>)
    IN  [vis |-> v, go |-> Len(v) # stop]

\* s.char_len() = count_chars(s, 0, len(s)).
char_len(str) == Len(chars(str))

\* eachi: while pos < len { if !it(pos, s[pos]) { break; } pos += 1; }
eachi(s, stop) ==
    LET RECURSIVE Loop(_, _)
        Loop(pos, vis) ==
            IF pos >= Len(s) THEN vis
            ELSE LET c == CallIt(vis, pos, At(s, pos), stop)
                 IN  IF c.go THEN Loop(pos + 1, c.vis) ELSE c.vis
    IN  Loop(0, << >>)

\* Mutant: the index passed to `it` is pos before the decrement.
eachi_reverse_index_not_decremented(s, stop) ==
    LET RECURSIVE Loop(_, _)
        Loop(pos, vis) ==
            IF pos <= 0 THEN vis
            ELSE LET c == CallIt(vis, pos, At(s, pos - 1), stop)
                 IN  IF c.go THEN Loop(pos - 1, c.vis) ELSE c.vis
    IN  Loop(Len(s), << >>)

\* eachi_reverse: pos = s.len(); while pos > 0 { pos -= 1;
\* if !it(pos, s[pos]) { break; } }
eachi_reverse(s, stop) ==
    LET RECURSIVE Loop(_, _)
        Loop(pos, vis) ==
            IF pos <= 0 THEN vis
            ELSE LET c == CallIt(vis, pos - 1, At(s, pos - 1), stop)
                 IN  IF c.go THEN Loop(pos - 1, c.vis) ELSE c.vis
    IN  Loop(Len(s), << >>)

\* each_chari: decode at pos, pos = next, it(ch_pos, ch), ch_pos += 1.
each_chari(s, stop) ==
    LET RECURSIVE Loop(_, _, _)
        Loop(pos, ch_pos, vis) ==
            IF pos >= Len(s) THEN vis
            ELSE LET r == CharRangeAt(s, pos)
                     c == CallIt(vis, ch_pos, r.ch, stop)
                 IN  IF c.go THEN Loop(r.next, ch_pos + 1, c.vis) ELSE c.vis
    IN  Loop(0, 0, << >>)

\* each_char_reverse, called directly (indexed = FALSE: the model records
\* index 0) or by each_chari_reverse, whose closure passes char_len - k at
\* its k-th call: pos starts at 0, and
\* while pos > 0 { char_range_at_reverse(s, pos); pos = next; it(ch) }.
EachCharReverse(s, stop, indexed) ==
    LET RECURSIVE Loop(_, _)
        Loop(pos, vis) ==
            IF pos <= 0 THEN vis
            ELSE LET r == CharRangeAtReverse(s, pos)
                     k == Len(vis) + 1
                     c == CallIt(vis, IF indexed THEN char_len(s) - k ELSE 0,
                                 r.ch, stop)
                 IN  IF c.go THEN Loop(r.next, c.vis) ELSE c.vis
    IN  Loop(0, << >>)

each_char_reverse(s, stop) == EachCharReverse(s, stop, FALSE)

\* each_chari_reverse: ch_pos = s.char_len(); for each_char_reverse
\* { ch_pos -= 1; it(ch_pos, ch) }: the k-th call gets char_len - k.
each_chari_reverse(s, stop) ==
    EachCharReverse(s, stop, TRUE)

\* The wrappers: each = eachi, each_reverse = eachi_reverse, each_char =
\* each_chari, with the index dropped by the closure.
IterApis == {"each", "eachi", "each_reverse", "eachi_reverse", "each_char",
             "each_chari", "each_char_reverse", "each_chari_reverse"}

IterInvoke(api, s, stop) ==
    CASE api \in {"each", "eachi"}               -> eachi(s, stop)
      [] api \in {"each_reverse", "eachi_reverse"} -> eachi_reverse(s, stop)
      [] api \in {"each_char", "each_chari"}     -> each_chari(s, stop)
      [] api = "each_char_reverse"               -> each_char_reverse(s, stop)
      [] api = "each_chari_reverse"              -> each_chari_reverse(s, stop)

\* Reference: the << index, item >> pairs each function promises, in order.
Indexed(seq) == [k \in DOMAIN seq |-> << k - 1, seq[k] >>]

Promised(api, s) ==
    CASE api \in {"each", "eachi"}                 -> Indexed(s)
      [] api \in {"each_reverse", "eachi_reverse"} -> Reverse(Indexed(s))
      [] api \in {"each_char", "each_chari"}       -> Indexed(chars(s))
      [] api = "each_char_reverse"                 ->
            [k \in DOMAIN chars(s) |-> << 0, Reverse(chars(s))[k] >>]
      [] api = "each_chari_reverse"                -> Reverse(Indexed(chars(s)))

\* The promised calls, cut after call number stop (0: never cut).
PromisedPrefix(api, s, stop) ==
    LET p == Promised(api, s)
    IN  SubSeq(p, 1, IF stop = 0 THEN Len(p) ELSE Min({stop, Len(p)}))

====
