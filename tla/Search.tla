------------------------------ MODULE Search ------------------------------
(***************************************************************************)
(* The search functions of src/libcore/str.rs.  Each loop with early       *)
(* returns is a recursive operator; each public function is an operator   *)
(* over the *_between function it wraps.  A call returns Ok(v), where v is *)
(* an Option (<< >> for None, << i >> for Some(i)) or a bool, or Failure   *)
(* when a fail_unless! (or a failing char_range_at) ends the task.  The   *)
(* calls are made by the StrCalls harness.                                *)
(*                                                                         *)
(* find_char_between and rfind_char_between have a byte path for an ASCII  *)
(* character and hand everything else to find_between / rfind_between.    *)
(***************************************************************************)
EXTENDS Utf8, SequencesExt

None == << >>
Some(k) == << k >>
Ok(v) == [ok |-> TRUE, val |-> v]
Failure == [ok |-> FALSE, val |-> None]

\* fail_unless!(cond) before the rest of a function.
Check(cond, rest) == IF cond THEN rest ELSE Failure

\* The byte loop of find_char_between: while i < end { if s[i] == b ... }.
RECURSIVE ScanFwdByte(_, _, _, _)
ScanFwdByte(s, b, i, end) ==
    IF i >= end THEN None
    ELSE IF At(s, i) = b THEN Some(i) ELSE ScanFwdByte(s, b, i + 1, end)

\* The byte loop of rfind_char_between: while i > end { i -= 1; ... }.
RECURSIVE ScanBackByte(_, _, _, _)
ScanBackByte(s, b, i, end) ==
    IF i <= end THEN None
    ELSE IF At(s, i - 1) = b THEN Some(i - 1) ELSE ScanBackByte(s, b, i - 1, end)

\* find_between: decode forward from start; return the offset of the first
\* character f accepts.
find_between(s, start, end, f) ==
    LET RECURSIVE Loop(_)
        Loop(i) == IF i >= end THEN Ok(None)
                   ELSE LET r == CharRangeAt(s, i)
                        IN  CASE ~r.ok      -> Failure
                              [] r.ch \in f -> Ok(Some(i))
                              [] OTHER      -> Loop(r.next)
    IN  Check(start <= end /\ end <= Len(s) /\ is_char_boundary(s, start),
              Loop(start))

\* rfind_between: decode backward from start; return the offset of the
\* first character (from the end) f accepts.
rfind_between(s, start, end, f) ==
    LET RECURSIVE Loop(_)
        Loop(i) == IF i <= end THEN Ok(None)
                   ELSE LET r == CharRangeAtReverse(s, i)
                        IN  CASE ~r.ok      -> Failure
                              [] r.ch \in f -> Ok(Some(r.next))
                              [] OTHER      -> Loop(r.next)
    IN  Check(start >= end /\ start <= Len(s) /\ is_char_boundary(s, start),
              Loop(start))

\* Mutant: the byte path is taken for every character below 256.
find_char_between_below_256(s, c, start, end) ==
    IF c < 256
    THEN Check(start <= end /\ end <= Len(s),
               Ok(ScanFwdByte(s, c % 256, start, end)))
    ELSE find_between(s, start, end, {c})

find_char_between(s, c, start, end) ==
    IF c < 128
    THEN Check(start <= end /\ end <= Len(s),
               Ok(ScanFwdByte(s, c % 256, start, end)))
    ELSE find_between(s, start, end, {c})

rfind_char_between(s, c, start, end) ==
    IF c < 128
    THEN Check(start >= end /\ start <= Len(s),
               Ok(ScanBackByte(s, c % 256, start, end)))
    ELSE rfind_between(s, start, end, {c})

\* match_at: every byte of needle equals the haystack byte at at + k.
match_at(h, n, at) == \A k \in 0..Len(n) - 1 : At(h, at + k) = At(n, k)

find_str_between(h, n, start, end) ==
    LET e == end - Len(n)
        RECURSIVE Loop(_)
        Loop(i) == IF i > e THEN None
                   ELSE IF match_at(h, n, i) THEN Some(i) ELSE Loop(i + 1)
    IN  Check(end <= Len(h),
              CASE Len(n) = 0   -> Ok(Some(start))
                [] Len(n) > end -> Ok(None)
                [] OTHER        -> Ok(Loop(start)))

starts_with(h, n) ==
    CASE Len(n) = 0      -> TRUE
      [] Len(n) > Len(h) -> FALSE
      [] OTHER           -> match_at(h, n, 0)

ends_with(h, n) ==
    CASE Len(n) = 0      -> TRUE
      [] Len(n) > Len(h) -> FALSE
      [] OTHER           -> match_at(h, n, Len(h) - Len(n))

\* The public functions and the arguments their wrappers pass on.
find_char(s, c)              == find_char_between(s, c, 0, Len(s))
find_char_from(s, c, start)  == find_char_between(s, c, start, Len(s))
rfind_char(s, c)             == rfind_char_between(s, c, Len(s), 0)
rfind_char_from(s, c, start) == rfind_char_between(s, c, start, 0)
find(s, f)                   == find_between(s, 0, Len(s), f)
find_from(s, start, f)       == find_between(s, start, Len(s), f)
rfind(s, f)                  == rfind_between(s, Len(s), 0, f)
rfind_from(s, start, f)      == rfind_between(s, start, 0, f)
find_str(h, n)               == find_str_between(h, n, 0, Len(h))
find_str_from(h, n, start)   == find_str_between(h, n, start, Len(h))
contains(h, n)               == LET r == find_str(h, n)
                                IN  IF r.ok THEN Ok(r.val # None) ELSE r
contains_char(h, c)          == LET r == find_char(h, c)
                                IN  IF r.ok THEN Ok(r.val # None) ELSE r

SearchApis == {"find_char", "find_char_from", "find_char_between",
         "rfind_char", "rfind_char_from", "rfind_char_between",
         "find", "find_from", "find_between",
         "rfind", "rfind_from", "rfind_between",
         "find_str", "find_str_from", "find_str_between",
         "contains", "contains_char", "starts_with", "ends_with"}

\* The result of calling api on s with the arguments a.
SearchInvoke(api, s, a) ==
    CASE api = "find_char"          -> find_char(s, a.c)
      [] api = "find_char_from"     -> find_char_from(s, a.c, a.start)
      [] api = "find_char_between"  -> find_char_between(s, a.c, a.start, a.end)
      [] api = "rfind_char"         -> rfind_char(s, a.c)
      [] api = "rfind_char_from"    -> rfind_char_from(s, a.c, a.start)
      [] api = "rfind_char_between" -> rfind_char_between(s, a.c, a.start, a.end)
      [] api = "find"               -> find(s, a.f)
      [] api = "find_from"          -> find_from(s, a.start, a.f)
      [] api = "find_between"       -> find_between(s, a.start, a.end, a.f)
      [] api = "rfind"              -> rfind(s, a.f)
      [] api = "rfind_from"         -> rfind_from(s, a.start, a.f)
      [] api = "rfind_between"      -> rfind_between(s, a.start, a.end, a.f)
      [] api = "find_str"           -> find_str(s, a.n)
      [] api = "find_str_from"      -> find_str_from(s, a.n, a.start)
      [] api = "find_str_between"   -> find_str_between(s, a.n, a.start, a.end)
      [] api = "contains"           -> contains(s, a.n)
      [] api = "contains_char"      -> contains_char(s, a.c)
      [] api = "starts_with"        -> Ok(starts_with(s, a.n))
      [] api = "ends_with"          -> Ok(ends_with(s, a.n))

\* Backward *_between functions take start >= end, the others start <= end,
\* as their documentation requires.
SearchOrdered(f, a) ==
    IF f \in {"rfind_char_between", "rfind_between"}
    THEN a.start >= a.end ELSE a.start <= a.end

\* The functions whose documentation says start must be a character
\* boundary.
BoundaryApis == {"find_char_from", "find_char_between", "rfind_char_from",
                 "rfind_char_between", "find_from", "find_between",
                 "rfind_from", "rfind_between"}

\* The offsets at which a character starts.
CharStarts(str) == {k \in 0..Len(str) - 1 : is_char_boundary(str, k)}

\* Reference: the first character in [st, en) that P accepts.
FindRef(str, P, st, en) ==
    LET K == {k \in CharStarts(str) : st <= k /\ k < en /\ CharRangeAt(str, k).ch \in P}
    IN  IF K = {} THEN None ELSE Some(Min(K))

\* Reference: the last character in [en, st) that P accepts.
RFindRef(str, P, st, en) ==
    LET K == {k \in CharStarts(str) : en <= k /\ k < st /\ CharRangeAt(str, k).ch \in P}
    IN  IF K = {} THEN None ELSE Some(Max(K))

\* Reference: the leftmost occurrence of n that starts at or after st and
\* ends by en; the empty needle matches at st.
FindStrRef(h, n, st, en) ==
    LET K == {k \in st..en - Len(n) : SubSeq(h, k + 1, k + Len(n)) = n}
    IN  CASE Len(n) = 0 -> Some(st)
          [] K = {}     -> None
          [] OTHER      -> Some(Min(K))

FwdApis == {"find_char", "find_char_from", "find_char_between",
            "find", "find_from", "find_between", "contains_char"}
RevApis == {"rfind_char", "rfind_char_from", "rfind_char_between",
            "rfind", "rfind_from", "rfind_between"}
StrApis == {"find_str", "find_str_from", "find_str_between", "contains"}

\* The range [start, end) (or, backward, start and end) a call searches.
Bounds(f, s, a) ==
    CASE f \in {"find_char", "find", "find_str", "contains", "contains_char"}
                                                     -> << 0, Len(s) >>
      [] f \in {"find_char_from", "find_from", "find_str_from"}
                                                     -> << a.start, Len(s) >>
      [] f \in {"rfind_char", "rfind"}               -> << Len(s), 0 >>
      [] f \in {"rfind_char_from", "rfind_from"}     -> << a.start, 0 >>
      [] OTHER                                       -> << a.start, a.end >>

\* The characters a call looks for.
Wanted(f, a) == IF f \in {"find", "find_from", "find_between", "rfind",
                          "rfind_from", "rfind_between"}
                THEN a.f ELSE {a.c}

\* What the documentation promises each function returns.
SearchExpected(f, s, a) ==
    LET b == Bounds(f, s, a)
        fwd == FindRef(s, Wanted(f, a), b[1], b[2])
        sub == FindStrRef(s, a.n, b[1], b[2])
    IN  CASE f = "contains_char" -> Ok(fwd # None)
          [] f = "contains"      -> Ok(sub # None)
          [] f \in FwdApis       -> Ok(fwd)
          [] f \in RevApis       -> Ok(RFindRef(s, Wanted(f, a), b[1], b[2]))
          [] f \in StrApis       -> Ok(sub)
          [] f = "starts_with"   -> Ok(IsPrefix(a.n, s))
          [] f = "ends_with"     -> Ok(IsSuffix(a.n, s))

====
