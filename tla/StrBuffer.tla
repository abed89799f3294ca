------------------------------ MODULE StrBuffer ------------------------------
(***************************************************************************)
(* One owned string (~str) of src/libcore/str.rs and the calls that        *)
(* mutate it.  A ~str is a vec of u8: `mem` is its allocation (one element *)
(* per byte of capacity) and `fill` is the vec's fill, which counts the    *)
(* terminating null, so len(s) = fill - 1 and the null sits at offset      *)
(* len.  Bytes past the fill that were never written hold Undef.           *)
(*                                                                         *)
(* Every action is one whole call: its reserve, its byte writes and its    *)
(* closing set_len.  The raw:: byte calls are enabled by RawOps.           *)
(***************************************************************************)
EXTENDS Utf8, SequencesExt

CONSTANTS
    Chars,     \* code points passed to push_char / unshift_char
    Texts,     \* strings (code point sequences) passed to push_str
    MaxLen,    \* bound on len(s), in bytes
    RawOps,    \* whether the raw:: byte calls are made
    RawBytes,  \* bytes passed to raw::push_byte
    Undef,     \* content of a byte of the allocation never written
    NoChar     \* ret before any call has returned a value

ASSUME MaxLen \in Nat /\ RawOps \in BOOLEAN /\ RawBytes \subseteq Byte

VARIABLES
    mem,     \* the vec's allocation
    fill,    \* the vec's fill: len(s) + 1
    ret,     \* what the last pop, shift or capacity call returned
    status   \* "live", or "failed" once a fail_unless! ended the task

vars == << mem, fill, ret, status >>

len == fill - 1

\* The bytes of the string, without the null.
Content == SubSeq(mem, 1, fill - 1)

\* The UTF-8 bytes of a string literal.
LiteralBytes(t) == FlattenSeq([k \in DOMAIN t |-> EncodeChar(t[k])])

\* uint::next_power_of_two: the least power of two >= n (n >= 1).
next_power_of_two(n) ==
    LET RECURSIVE Up(_)
        Up(p) == IF p >= n THEN p ELSE Up(2 * p)
    IN  Up(1)

\* vec::reserve(v, n): reallocate to exactly n bytes if the capacity is
\* smaller, keeping the fill bytes; the rest of a new allocation is Undef.
VecReserve(m, f, n) ==
    IF Len(m) >= n THEN m
    ELSE [k \in 1..n |-> IF k <= f THEN m[k] ELSE Undef]

\* Mutant: no room is kept for the null (vec::reserve(v, n)).
reserve_no_null(m, f, n) == VecReserve(m, f, n)

\* reserve(s, n): room for n bytes and the null.
reserve(m, f, n) == VecReserve(m, f, n + 1)

\* reserve_at_least(s, n): reserve(s, next_power_of_two(n + 1) - 1).
reserve_at_least(m, f, n) == reserve(m, f, next_power_of_two(n + 1) - 1)

\* Copy bytes to offset off of the allocation (ptr::copy_memory, or the
\* byte stores of push_char).  Stores past the allocation are lost.
WriteAt(m, off, bytes) ==
    [k \in DOMAIN m |-> IF off < k /\ k <= off + Len(bytes)
                        THEN bytes[k - off] ELSE m[k]]

\* Mutant: the fill is set but the null is not stored.
SetLen_no_null(m, new_len) == m

\* raw::set_len: fill = new_len + 1 and a null at offset new_len.  The fill
\* is set by each caller together with this store.
SetLen(m, new_len) == [m EXCEPT ![new_len + 1] = 0]

\* A fresh vec holding exactly the given bytes and a null: the result of
\* slice_bytes_unique (vec::with_capacity(end - begin + 1) then push(0)).
Fresh(bytes) == bytes \o << 0 >>

Init ==
    /\ mem = << 0 >>
    /\ fill = 1
    /\ ret = NoChar
    /\ status = "live"

\* A fail_unless! that does not hold: the task unwinds.
Fail ==
    /\ status' = "failed"
    /\ UNCHANGED << mem, fill, ret >>

\* push_char: nb bytes for the code point, reserve_at_least(len + nb), the
\* byte stores at offset len, set_len(len + nb).
PushChar(ch) ==
    LET new_len == len + EncodedWidth(ch)
        m1 == reserve_at_least(mem, fill, new_len)
    IN  /\ status = "live"
        /\ new_len <= MaxLen
        /\ mem' = SetLen(WriteAt(m1, len, EncodeChar(ch)), new_len)
        /\ fill' = new_len + 1
        /\ UNCHANGED << ret, status >>

\* push_str: reserve_at_least(llen + rlen), copy rhs to offset llen,
\* set_len(llen + rlen).
PushStr(t) ==
    LET rhs == LiteralBytes(t)
        new_len == len + Len(rhs)
        m1 == reserve_at_least(mem, fill, new_len)
    IN  /\ status = "live"
        /\ new_len <= MaxLen
        /\ mem' = SetLen(WriteAt(m1, len, rhs), new_len)
        /\ fill' = new_len + 1
        /\ UNCHANGED << ret, status >>

\* push_str_no_overallocate (and append, which calls it): the same with an
\* exact reserve(llen + rlen).
PushStrNoOverallocate(t) ==
    LET rhs == LiteralBytes(t)
        new_len == len + Len(rhs)
        m1 == reserve(mem, fill, new_len)
    IN  /\ status = "live"
        /\ new_len <= MaxLen
        /\ mem' = SetLen(WriteAt(m1, len, rhs), new_len)
        /\ fill' = new_len + 1
        /\ UNCHANGED << ret, status >>

\* reserve(s, n) and with_capacity(n) on an empty string.
Reserve(n) ==
    /\ status = "live"
    /\ mem' = reserve(mem, fill, n)
    /\ UNCHANGED << fill, ret, status >>

ReserveAtLeast(n) ==
    /\ status = "live"
    /\ mem' = reserve_at_least(mem, fill, n)
    /\ UNCHANGED << fill, ret, status >>

\* Mutant: the fill is set to next rather than next + 1.
PopChar_fill_is_next ==
    /\ status = "live"
    /\ IF len = 0
       THEN Fail
       ELSE LET r == CharRangeAtReverse(Content, len)
            IN  /\ mem' = SetLen(mem, r.next)
                /\ fill' = r.next
                /\ ret' = r.ch
                /\ UNCHANGED status

\* pop_char: fail_unless!(end > 0), char_range_at_reverse(s, end), then
\* set_len(s, next); returns the character.
PopChar ==
    /\ status = "live"
    /\ IF len = 0
       THEN Fail
       ELSE LET r == CharRangeAtReverse(Content, len)
            IN  /\ mem' = SetLen(mem, r.next)
                /\ fill' = r.next + 1
                /\ ret' = r.ch
                /\ UNCHANGED status

\* shift_char: char_range_at(s, 0), then *s = slice_bytes_unique(s, next,
\* len), a fresh exact-size copy.  On an empty string the read at offset 0
\* or the slice (begin > end) fails.
ShiftChar ==
    /\ status = "live"
    /\ IF len = 0
       THEN Fail
       ELSE LET r == CharRangeAt(Content, 0)
                rest == SubSeq(Content, r.next + 1, len)
            IN  /\ mem' = Fresh(rest)
                /\ fill' = Len(rest) + 1
                /\ ret' = r.ch
                /\ UNCHANGED status

\* The Add impl for ~str, lhs + rhs: append(copy lhs, rhs).  The copy has
\* an allocation of exactly lhs's fill, and append's
\* push_str_no_overallocate reserves exactly llen + rlen, so the result has
\* an allocation of exactly its bytes and the null.
add(lhs, rhs) == Fresh(lhs \o rhs)

\* unshift_char: *s = from_char(ch) + *s.
UnshiftChar(ch) ==
    LET bytes == EncodeChar(ch) \o Content
    IN  /\ status = "live"
        /\ Len(bytes) <= MaxLen
        /\ mem' = add(EncodeChar(ch), Content)
        /\ fill' = Len(bytes) + 1
        /\ UNCHANGED << ret, status >>

\* raw::push_byte on the vec st.m of fill st.f: reserve_at_least(len + 1),
\* store b at offset n of as_buf's (buf, n), where n counts the null, then
\* set_len(len + 1).  len + 1 is the old fill.
PushByteStep(st, b) ==
    LET new_len == st.f
        m1 == reserve_at_least(st.m, st.f, new_len)
        n == st.f
    IN  [m |-> SetLen([m1 EXCEPT ![n + 1] = b], new_len), f |-> new_len + 1]

PushByte(b) ==
    LET st == PushByteStep([m |-> mem, f |-> fill], b)
    IN  /\ status = "live"
        /\ RawOps
        /\ len + 1 <= MaxLen
        /\ mem' = st.m
        /\ fill' = st.f
        /\ UNCHANGED << ret, status >>

\* raw::push_bytes: reserve_at_least(len + bytes.len()), then push_byte for
\* each byte.
PushBytes(bytes) ==
    LET new_len == len + Len(bytes)
        st == FoldLeft(PushByteStep,
                       [m |-> reserve_at_least(mem, fill, new_len), f |-> fill], bytes)
    IN  /\ status = "live"
        /\ RawOps
        /\ new_len <= MaxLen
        /\ mem' = st.m
        /\ fill' = st.f
        /\ UNCHANGED << ret, status >>

\* capacity: as_bytes lends the vec; fail_unless!(vcap > 0), then vcap - 1.
Capacity ==
    /\ status = "live"
    /\ IF Len(mem) = 0
       THEN Fail
       ELSE /\ ret' = Len(mem) - 1
            /\ UNCHANGED << mem, fill, status >>

\* raw::pop_byte: fail_unless!(len > 0), read s[len - 1], set_len(len - 1).
PopByte ==
    /\ status = "live"
    /\ RawOps
    /\ IF len = 0
       THEN Fail
       ELSE /\ ret' = At(Content, len - 1)
            /\ mem' = SetLen(mem, len - 1)
            /\ fill' = len
            /\ UNCHANGED status

\* raw::shift_byte: fail_unless!(len > 0), read s[0], then
\* *s = slice_bytes_unique(s, 1, len).
ShiftByte ==
    /\ status = "live"
    /\ RawOps
    /\ IF len = 0
       THEN Fail
       ELSE /\ ret' = At(Content, 0)
            /\ mem' = Fresh(Tail(Content))
            /\ fill' = len
            /\ UNCHANGED status

\* A failed task runs no more calls.
Failed ==
    /\ status = "failed"
    /\ UNCHANGED vars

Next ==
    \/ \E ch \in Chars : PushChar(ch) \/ UnshiftChar(ch)
    \/ \E t \in Texts : PushStr(t) \/ PushStrNoOverallocate(t)
    \/ \E n \in 0..MaxLen : Reserve(n) \/ ReserveAtLeast(n)
    \/ PopChar
    \/ ShiftChar
    \/ \E b \in RawBytes : PushByte(b)
    \/ \E bs \in BoundedSeq(RawBytes, 2) : PushBytes(bs)
    \/ Capacity
    \/ PopByte
    \/ ShiftByte
    \/ Failed

Spec == Init /\ [][Next]_vars

-----------------------------------------------------------------------------

TypeOK ==
    /\ mem \in Seq(Byte \cup {Undef})
    /\ fill \in 1..MaxLen + 1
    /\ status \in {"live", "failed"}

\* The vec behind the string is well formed after every call: its fill
\* never exceeds its capacity, and the byte at offset len is the null
\* that as_c_str and eq_slice rely on.
BufferWellFormed ==
    /\ fill <= Len(mem)
    /\ mem[fill] = 0

\* The owned string behaves as a sequence of characters: decoding its
\* bytes gives the characters pushed, appended and prepended, minus those
\* popped and shifted, and pop_char / shift_char return the right one.
CS == INSTANCE CharString WITH text <- chars(Content)

CharStringRefinement == CS!Spec

\* raw::push_byte(s, b) leaves s with the byte b appended, and
\* raw::push_bytes(s, bytes) with the bytes appended.
PushByteAppendsByte ==
    [][/\ \A b \in RawBytes : PushByte(b) => Content' = Content \o << b >>
       /\ \A bs \in BoundedSeq(RawBytes, 2) : PushBytes(bs) => Content' = Content \o bs]_vars

=============================================================================
