-------------------------------- MODULE Utf8 --------------------------------
(***************************************************************************)
(* The UTF-8 codec of src/libcore/str.rs: the width table, the encoder     *)
(* that push_char inlines, char_range_at, char_range_at_reverse, is_utf8,  *)
(* is_char_boundary and the decoding loop of chars().                      *)
(*                                                                         *)
(* A byte string is a TLA+ sequence of naturals below 256.  The code's     *)
(* 0-based byte offset i is element i+1 of the sequence; At(s, i) reads    *)
(* it.  Operations that end in fail_unless! (task failure) return a        *)
(* record whose ok field is FALSE.                                         *)
(***************************************************************************)
EXTENDS Integers, Sequences, Bitwise

\* The tag and range constants of str.rs.
tag_cont    == 128
max_one_b   == 128
tag_two_b   == 192
max_two_b   == 2048
tag_three_b == 224
max_three_b == 65536
tag_four_b  == 240
max_four_b  == 2097152
tag_five_b  == 248
max_five_b  == 67108864
tag_six_b   == 252

Byte == 0..255

At(s, i) == s[i + 1]

\* A failed call: fail_unless! unwinds the task.
Fatal == [ok |-> FALSE, ch |-> 0, next |-> 0]

CharRange(ch, next) == [ok |-> TRUE, ch |-> ch, next |-> next]

\* utf8_char_width: encoded width announced by a lead byte, 0 if the byte
\* cannot start a character.
utf8_char_width(b) ==
    CASE b < 128 -> 1
      [] b < 192 -> 0
      [] b < 224 -> 2
      [] b < 240 -> 3
      [] b < 248 -> 4
      [] b < 252 -> 5
      [] OTHER   -> 6

\* The number of bytes push_char writes for a code point (nb).
EncodedWidth(code) ==
    CASE code < max_one_b   -> 1
      [] code < max_two_b   -> 2
      [] code < max_three_b -> 3
      [] code < max_four_b  -> 4
      [] code < max_five_b  -> 5
      [] OTHER              -> 6

\* The lead-byte tag and payload mask push_char uses for each width.
LeadTag  == <<0, tag_two_b, tag_three_b, tag_four_b, tag_five_b, tag_six_b>>
LeadMask == <<127, 31, 15, 7, 3, 1>>

\* Mutant: each continuation byte shifted by one group too many.
EncodeChar_shift_off_by_one(code) ==
    LET nb == EncodedWidth(code)
        Bits(shift, mask) == (code \div 2^shift) & mask
    IN  IF nb = 1
        THEN << code % 256 >>
        ELSE << (Bits(6 * (nb - 1), LeadMask[nb]) | LeadTag[nb]) % 256 >>
             \o [k \in 1..nb - 1 |-> (Bits(6 * (nb - k), 63) | tag_cont) % 256]

\* The bytes push_char writes for a code point: (code >> 6(nb-1) & mask) |
\* tag, then one (code >> 6k & 63) | tag_cont per continuation byte, each
\* cast to u8.
EncodeChar(code) ==
    LET nb == EncodedWidth(code)
        Bits(shift, mask) == (code \div 2^shift) & mask
    IN  IF nb = 1
        THEN << code % 256 >>
        ELSE << (Bits(6 * (nb - 1), LeadMask[nb]) | LeadTag[nb]) % 256 >>
             \o [k \in 1..nb - 1 |-> (Bits(6 * (nb - 1 - k), 63) | tag_cont) % 256]

\* char_range_at(s, i): decode the character whose lead byte is at i.
\* Continuation payloads are accumulated six bits at a time; the lead
\* byte's payload is recovered by shifting it left by w+1 as a u8 (which
\* drops the tag bits) and then left again as a uint.
CharRangeAt(s, i) ==
    LET b0   == At(s, i)
        w    == utf8_char_width(b0)
        cont(k) == At(s, i + k)
        RECURSIVE Acc(_, _)
        Acc(k, v) == IF k = w THEN v ELSE Acc(k + 1, v * 64 + (cont(k) & 63))
        lead == ((b0 * 2^(w + 1)) % 256) * 2^((w - 1) * 6 - w - 1)
    IN  CASE i < 0 \/ i >= Len(s)                          -> Fatal
          [] w = 0                                         -> Fatal
          [] w = 1                                         -> CharRange(b0, i + 1)
          [] i + w > Len(s)                                -> Fatal
          [] \E k \in 1..w - 1 : (cont(k) & 192) # tag_cont -> Fatal
          [] OTHER                                         -> CharRange(Acc(1, 0) + lead, i + w)

\* Mutant: the lead byte itself is returned (ss[prev] as char) instead of
\* decoding the character there.
CharRangeAtReverse_raw_lead(s, start) ==
    LET RECURSIVE Back(_)
        Back(p) == IF p > 0 /\ (At(s, p - 1) & 192) = tag_cont
                   THEN Back(p - 1) ELSE p
        prev == Back(start) - 1
    IN  IF prev < 0 \/ ~CharRangeAt(s, prev).ok THEN Fatal
        ELSE CharRange(At(s, prev), prev)

\* char_range_at_reverse(s, start): walk back over continuation bytes, step
\* once more onto the lead byte and decode there.  If the walk reaches
\* offset 0 the final decrement wraps the uint and the read fails.
CharRangeAtReverse(s, start) ==
    LET RECURSIVE Back(_)
        Back(p) == IF p > 0 /\ (At(s, p - 1) & 192) = tag_cont
                   THEN Back(p - 1) ELSE p
        prev == Back(start) - 1
        fwd  == CharRangeAt(s, prev)
    IN  IF prev < 0 \/ ~fwd.ok THEN Fatal ELSE CharRange(fwd.ch, prev)

\* Mutant: the inner loop over continuation bytes is left out.
is_utf8_no_cont_check(v) ==
    LET total == Len(v)
        RECURSIVE Scan(_)
        Scan(i) ==
            IF i >= total THEN TRUE
            ELSE LET chsize == utf8_char_width(At(v, i))
                 IN  chsize # 0 /\ i + chsize <= total /\ Scan(i + chsize)
    IN  Scan(0)

\* is_utf8: one pass; at each lead byte reject width 0, a sequence running
\* past the end, or a continuation byte without the 10xxxxxx tag.
is_utf8(v) ==
    LET total == Len(v)
        RECURSIVE Scan(_)
        Scan(i) ==
            IF i >= total THEN TRUE
            ELSE LET chsize == utf8_char_width(At(v, i))
                 IN  /\ chsize # 0
                     /\ i + chsize <= total
                     /\ \A k \in 1..chsize - 1 : (At(v, i + k) & 192) = tag_cont
                     /\ Scan(i + chsize)
    IN  Scan(0)

\* Mutant: 0xC0 is not taken for a lead byte (b > 192u8).
is_char_boundary_gt(s, index) ==
    index = Len(s) \/ At(s, index) < 128 \/ At(s, index) > 192

\* is_char_boundary: the end, or a byte that is not a continuation byte.
\* An index past the end is an out-of-bounds read (task failure); callers
\* here only pass indices in 0..len.
is_char_boundary(s, index) ==
    index = Len(s) \/ At(s, index) < 128 \/ At(s, index) >= 192

\* chars(s): the code points decoded by repeated char_range_at from offset
\* 0.  A decode that fails ends the sequence with -1, which is no code point.
\* (A recursive function rather than a recursive operator, so that each
\* offset is evaluated once when the expression is primed.)
chars(s) ==
    LET dec[i \in 0..Len(s)] ==
            IF i = Len(s) THEN << >>
            ELSE LET r == CharRangeAt(s, i)
                 IN  IF r.ok THEN << r.ch >> \o dec[r.next] ELSE << -1 >>
    IN  dec[0]

=============================================================================
