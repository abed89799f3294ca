----------------------------- MODULE Ordering -----------------------------
(***************************************************************************)
(* The comparisons of src/libcore/str.rs: eq_slice (as_buf's lengths and   *)
(* memcmp), the TotalOrd cmp, and lt with le, ge and gt defined from it.   *)
(* The Eq / Ord / TotalOrd impls for &str, ~str and @str forward to these. *)
(* The calls are made by the StrCalls harness.                             *)
(***************************************************************************)
EXTENDS Utf8, SequencesExt

\* as_buf hands out the length of the string + 1 (room for the null).
BufLen(str) == Len(str) + 1

\* libc::memcmp(ap, bp, n) == 0: the first n bytes are equal.
MemEq(a, b, n) == \A k \in 0..n - 1 : At(a, k) = At(b, k)

eq_slice(a, b) ==
    LET alen == BufLen(a)
        blen == BufLen(b)
    IN  IF alen # blen THEN FALSE ELSE MemEq(a, b, alen - 1)

\* uint's TotalOrd cmp.
UintCmp(x, y) == CASE x < y -> "Less" [] x > y -> "Greater" [] OTHER -> "Equal"

\* Mutant: the lengths are compared the other way round.
cmp_len_reversed(a, b) ==
    LET low == Min({Len(a), Len(b)})
        RECURSIVE Loop(_)
        Loop(idx) == IF idx >= low THEN UintCmp(Len(b), Len(a))
                     ELSE LET o == UintCmp(At(a, idx), At(b, idx))
                          IN  IF o = "Equal" THEN Loop(idx + 1) ELSE o
    IN  Loop(0)

\* cmp: the first differing byte below min(a.len(), b.len()) decides,
\* otherwise the lengths do.
cmp(a, b) ==
    LET low == Min({Len(a), Len(b)})
        RECURSIVE Loop(_)
        Loop(idx) == IF idx >= low THEN UintCmp(Len(a), Len(b))
                     ELSE LET o == UintCmp(At(a, idx), At(b, idx))
                          IN  IF o = "Equal" THEN Loop(idx + 1) ELSE o
    IN  Loop(0)

\* lt: bytewise, the shorter string is less when it is a prefix.
lt(a, b) ==
    LET end == Min({Len(a), Len(b)})
        RECURSIVE Loop(_)
        Loop(i) == IF i >= end THEN Len(a) < Len(b)
                   ELSE CASE At(a, i) < At(b, i) -> TRUE
                          [] At(a, i) > At(b, i) -> FALSE
                          [] OTHER               -> Loop(i + 1)
    IN  Loop(0)

le(a, b) == ~lt(b, a)
ge(a, b) == ~lt(a, b)
gt(a, b) == ~le(a, b)

CompareOps == {"eq", "ne", "cmp", "lt", "le", "ge", "gt"}

\* The Eq, Ord and TotalOrd methods.
CompareInvoke(op, a, b) ==
    CASE op = "eq"  -> eq_slice(a, b)
      [] op = "ne"  -> ~eq_slice(a, b)
      [] op = "cmp" -> cmp(a, b)
      [] op = "lt"  -> lt(a, b)
      [] op = "le"  -> le(a, b)
      [] op = "ge"  -> ge(a, b)
      [] op = "gt"  -> gt(a, b)

\* Reference: lexicographic order of two sequences of numbers.
RECURSIVE LexLess(_, _)
LexLess(u, v) ==
    CASE v = << >>          -> FALSE
      [] u = << >>          -> TRUE
      [] Head(u) < Head(v)  -> TRUE
      [] Head(u) > Head(v)  -> FALSE
      [] OTHER              -> LexLess(Tail(u), Tail(v))

\* What the spec's "byte-wise lexicographic order" gives for each method.
ExpectedByBytes(o, a, b) ==
    LET less == LexLess(a, b)
        more == LexLess(b, a)
    IN  CASE o = "eq"  -> a = b
          [] o = "ne"  -> a # b
          [] o = "cmp" -> IF less THEN "Less" ELSE IF more THEN "Greater" ELSE "Equal"
          [] o = "lt"  -> less
          [] o = "le"  -> ~more
          [] o = "ge"  -> ~less
          [] o = "gt"  -> more

====
