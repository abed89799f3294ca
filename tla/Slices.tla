------------------------------ MODULE Slices ------------------------------
(***************************************************************************)
(* The borrowed-slice functions of src/libcore/str.rs: slice, substr and   *)
(* raw::slice_bytes, the counters count_chars, count_bytes and char_len,  *)
(* the predicates all_between, any_between, all, any, is_whitespace,       *)
(* is_alphanumeric, is_ascii and is_empty, and the trims.  Results use Search's Ok / Failure; a     *)
(* slice is its byte sequence.  A character predicate is the set of the    *)
(* characters it accepts; char::is_whitespace (not in this repository) is  *)
(* a set ws given by the caller.  The calls are made by the StrCalls       *)
(* harness.                                                                *)
(***************************************************************************)
EXTENDS Search

\* Negated(r): the bool result negated, a failure passed on.
Negated(r) == IF r.ok THEN Ok(~r.val) ELSE r

\* raw::slice_bytes: begin <= end and end <= n, where n is as_buf's length
\* (len + 1, the null included).
slice_bytes(s, begin, end) ==
    Check(begin <= end /\ end <= Len(s) + 1,
          Ok(SubSeq(s \o << 0 >>, begin + 1, end)))

\* slice: both ends must be character boundaries.  (is_char_boundary past
\* the end is an out-of-bounds read, a failure too.)
slice(s, begin, end) ==
    Check(/\ begin <= Len(s) /\ is_char_boundary(s, begin)
          /\ end <= Len(s) /\ is_char_boundary(s, end),
          slice_bytes(s, begin, end))

\* Mutant: every character counted by its width (bytes, not characters).
count_chars_counts_bytes(s, start, end) ==
    LET RECURSIVE Loop(_, _)
        Loop(i, len) == IF i >= end THEN Ok(len)
                        ELSE LET r == CharRangeAt(s, i)
                             IN  IF ~r.ok THEN Failure
                                 ELSE Loop(r.next, len + (r.next - i))
    IN  Check(is_char_boundary(s, start) /\ is_char_boundary(s, end), Loop(start, 0))

\* count_chars: both ends boundaries; decode from start while i < end.
count_chars(s, start, end) ==
    LET RECURSIVE Loop(_, _)
        Loop(i, len) == IF i >= end THEN Ok(len)
                        ELSE LET r == CharRangeAt(s, i)
                             IN  IF ~r.ok THEN Failure ELSE Loop(r.next, len + 1)
    IN  Check(is_char_boundary(s, start) /\ is_char_boundary(s, end), Loop(start, 0))

\* count_bytes: decode n characters from start, each only while end < l.
count_bytes(s, start, n) ==
    LET RECURSIVE Loop(_, _)
        Loop(end, cnt) == IF cnt = 0 THEN Ok(end - start)
                          ELSE IF end >= Len(s) THEN Failure
                          ELSE LET r == CharRangeAt(s, end)
                               IN  IF ~r.ok THEN Failure ELSE Loop(r.next, cnt - 1)
    IN  Check(is_char_boundary(s, start), Loop(start, n))

\* substr: slice(s, begin, begin + count_bytes(s, begin, n)).
substr(s, begin, n) ==
    LET c == count_bytes(s, begin, n)
    IN  IF c.ok THEN slice(s, begin, begin + c.val) ELSE c

\* all_between with `it` accepting the characters whose membership in P is
\* want (want = FALSE is the closure |c| !it(c) of any_between).
AllBetween(s, start, end, P, want) ==
    LET RECURSIVE Loop(_)
        Loop(i) == IF i >= end THEN Ok(TRUE)
                   ELSE LET r == CharRangeAt(s, i)
                        IN  CASE ~r.ok                -> Failure
                              [] (r.ch \in P) # want  -> Ok(FALSE)
                              [] OTHER                -> Loop(r.next)
    IN  Check(is_char_boundary(s, start), Loop(start))

all_between(s, start, end, P) == AllBetween(s, start, end, P, TRUE)
any_between(s, start, end, P) == Negated(AllBetween(s, start, end, P, FALSE))
all(s, P) == all_between(s, 0, Len(s), P)

\* Mutant: the inner negation of the closure is lost: !all(ss, pred).
any_negation_lost(s, P) == Negated(AllBetween(s, 0, Len(s), P, TRUE))

\* any: !all(ss, |cc| !pred(cc)).
any(s, P) == Negated(AllBetween(s, 0, Len(s), P, FALSE))

is_whitespace(s, ws) == all(s, ws)

\* is_ascii: i = len; while i > 0 { i -= 1; if !is_ascii(s[i]) return false }.
is_ascii(s) ==
    LET RECURSIVE Loop(_)
        Loop(i) == IF i <= 0 THEN TRUE
                   ELSE IF At(s, i - 1) >= 128 THEN FALSE ELSE Loop(i - 1)
    IN  Loop(Len(s))

is_empty(s) == Len(s) = 0

\* The predicate |c| !chars_to_trim.contains(&c) over the characters of s
\* (find and rfind only apply it to those).
NotIn(s, T) == Range(chars(s)) \ T

\* trim_left_chars / trim_left: slice from the first character not in T.
\* TrimLeftAt is the match on what find returned, r.
TrimLeftAt(s, r) ==
    CASE ~r.ok          -> r
      [] r.val = None   -> Ok(<< >>)
      [] OTHER          -> slice_bytes(s, r.val[1], Len(s))

TrimLeft(s, T) == TrimLeftAt(s, find(s, NotIn(s, T)))

\* Mutant: the slice ends one byte after the start of the last kept
\* character, whatever its width.
TrimRightAt_next_byte(s, r) ==
    CASE ~r.ok          -> r
      [] r.val = None   -> Ok(<< >>)
      [] OTHER          -> slice_bytes(s, 0, r.val[1] + 1)

\* trim_right_chars / trim_right: slice up to the end of the last character
\* not in T, char_range_at(s, last).next.  TrimRightAt is the match on what
\* rfind returned, r.
TrimRightAt(s, r) ==
    CASE ~r.ok          -> r
      [] r.val = None   -> Ok(<< >>)
      [] OTHER          -> slice_bytes(s, 0, CharRangeAt(s, r.val[1]).next)

TrimRight(s, T) == TrimRightAt(s, rfind(s, NotIn(s, T)))

\* trim_left_chars(trim_right_chars(s, T), T) for a non-empty T, and
\* trim_left(trim_right(s)): TrimLeft applied to what TrimRight returned.
TrimLeftOf(r, T) == IF r.ok THEN TrimLeft(r.val, T) ELSE r

TrimBoth(s, T) == TrimLeftOf(TrimRight(s, T), T)

trim_left_chars(s, T)  == IF T = {} THEN Ok(s) ELSE TrimLeft(s, T)
trim_right_chars(s, T) == IF T = {} THEN Ok(s) ELSE TrimRight(s, T)
trim_chars(s, T)       == IF T = {} THEN Ok(s) ELSE TrimBoth(s, T)
trim_left(s, ws)       == TrimLeft(s, ws)
trim_right(s, ws)      == TrimRight(s, ws)
trim(s, ws)            == TrimBoth(s, ws)

TrimApis  == {"trim_left_chars", "trim_right_chars", "trim_chars",
              "trim_left", "trim_right", "trim"}
CountApis == {"slice", "substr", "count_chars", "count_bytes", "char_len"}
PredApis  == {"all_between", "any_between", "all", "any", "is_whitespace",
              "is_alphanumeric", "is_ascii", "is_empty"}
SliceApis == TrimApis \cup CountApis \cup PredApis

\* The result of calling api on s with the arguments a (a.T: the character
\* set of a trim or a predicate) and whitespace ws.  char_len(s) is
\* count_chars(s, 0, len(s)) and is_alphanumeric(s) is all(s,
\* char::is_alphanumeric), whose class, outside this repository, is a.T.
SliceInvoke(api, s, a, ws) ==
    CASE api = "trim_left_chars"  -> trim_left_chars(s, a.T)
      [] api = "trim_right_chars" -> trim_right_chars(s, a.T)
      [] api = "trim_chars"       -> trim_chars(s, a.T)
      [] api = "trim_left"        -> trim_left(s, ws)
      [] api = "trim_right"       -> trim_right(s, ws)
      [] api = "trim"             -> trim(s, ws)
      [] api = "slice"            -> slice(s, a.start, a.end)
      [] api = "substr"           -> substr(s, a.start, a.count)
      [] api \in {"count_chars", "char_len"} -> count_chars(s, a.start, a.end)
      [] api = "count_bytes"      -> count_bytes(s, a.start, a.count)
      [] api = "all_between"      -> all_between(s, a.start, a.end, a.T)
      [] api = "any_between"      -> any_between(s, a.start, a.end, a.T)
      [] api \in {"all", "is_alphanumeric"} -> all(s, a.T)
      [] api = "any"              -> any(s, a.T)
      [] api = "is_whitespace"    -> is_whitespace(s, ws)
      [] api = "is_ascii"         -> Ok(is_ascii(s))
      [] api = "is_empty"         -> Ok(is_empty(s))

-----------------------------------------------------------------------------
(* References, from the documentation of each function.                    *)

\* The characters of s from byte offset k on.
CharsFrom(s, k) == chars(SubSeq(s, k + 1, Len(s)))

\* The characters of s without the leading (left) and trailing (right)
\* ones in T.
Stripped(s, T, left, right) ==
    LET c    == chars(s)
        keep == {k \in DOMAIN c : c[k] \notin T}
    IN  IF keep = {} THEN << >>
        ELSE SubSeq(c, IF left THEN Min(keep) ELSE 1,
                       IF right THEN Max(keep) ELSE Len(c))

\* What each trim promises: the characters left once those in the trim set
\* (ws for trim, trim_left and trim_right) are stripped from its side(s).
TrimExpected(api, s, a, ws) ==
    LET T == IF api \in {"trim", "trim_left", "trim_right"} THEN ws ELSE a.T
    IN  Stripped(s, T, api \notin {"trim_right", "trim_right_chars"},
                       api \notin {"trim_left", "trim_left_chars"})

\* The number of bytes the characters cs take in UTF-8.
ByteLen(cs) == Len(FlattenSeq([k \in DOMAIN cs |-> EncodeChar(cs[k])]))

Boundary(s, k) == k <= Len(s) /\ is_char_boundary(s, k)

\* What slice, substr, count_chars and count_bytes promise: a failure
\* when an offset is not a character boundary (or, for substr and
\* count_bytes, fewer than n characters follow begin); otherwise the bytes
\* of [begin, end), the first n characters from begin, their number of
\* bytes, and the number of characters in [start, end).
CountExpected(api, s, a) ==
    LET nb == ByteLen(SubSeq(CharsFrom(s, a.start), 1, a.count))
        enough == a.count <= Len(CharsFrom(s, a.start))
    IN  CASE ~Boundary(s, a.start)                   -> Failure
          [] api \in {"substr", "count_bytes"} /\ ~enough -> Failure
          [] api = "substr"      -> Ok(SubSeq(s, a.start + 1, a.start + nb))
          [] api = "count_bytes" -> Ok(nb)
          [] ~Boundary(s, a.end)                     -> Failure
          [] api = "slice"       -> IF a.start <= a.end
                                    THEN Ok(SubSeq(s, a.start + 1, a.end))
                                    ELSE Failure
          [] api \in {"count_chars", "char_len"} -> Ok(IF a.start >= a.end THEN 0
                                       ELSE Len(chars(SubSeq(s, a.start + 1, a.end))))

\* What the predicates promise, over the characters of s (of [start, end)
\* for the *_between ones, a start that is not a boundary failing).
PredExpected(api, s, a, ws) ==
    LET part == IF a.start < a.end THEN chars(SubSeq(s, a.start + 1, a.end)) ELSE << >>
        every(cs, P) == \A k \in DOMAIN cs : cs[k] \in P
        some(cs, P)  == \E k \in DOMAIN cs : cs[k] \in P
    IN  CASE api \in {"all_between", "any_between"} /\ ~Boundary(s, a.start) -> Failure
          [] api = "all_between"   -> Ok(every(part, a.T))
          [] api = "any_between"   -> Ok(some(part, a.T))
          [] api \in {"all", "is_alphanumeric"} -> Ok(every(chars(s), a.T))
          [] api = "any"           -> Ok(some(chars(s), a.T))
          [] api = "is_whitespace" -> Ok(every(chars(s), ws))
          [] api = "is_ascii"      -> Ok(every(chars(s), 0..127))
          [] api = "is_empty"      -> Ok(chars(s) = << >>)

====
