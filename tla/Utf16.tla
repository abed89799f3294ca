------------------------------ MODULE Utf16 ------------------------------
(***************************************************************************)
(* The UTF-16 functions of src/libcore/str.rs: is_utf16, to_utf16,         *)
(* utf16_chars and from_utf16.  A unit vector is a sequence of naturals    *)
(* below 2^16; v[i] of the code is At(v, i).  Results use Search's Ok /    *)
(* Failure; an out-of-bounds index v[i+1] fails the task like             *)
(* fail_unless!.  The calls are made by the StrCalls harness.             *)
(***************************************************************************)
EXTENDS Search

\* A unit that stands alone: u <= 0xD7FF || u >= 0xE000.
Single(u) == u <= 55295 \/ u >= 57344

\* is_utf16.  The pair branch returns false whenever a second unit exists
\* (if i+1u < len { return false; }) and otherwise reads v[i+1] past the
\* end; the two range checks after it are never reached.
is_utf16(v) ==
    LET len == Len(v)
        RECURSIVE Loop(_)
        Loop(i) == IF i >= len THEN Ok(TRUE)
                   ELSE IF Single(At(v, i)) THEN Loop(i + 1)
                   ELSE IF i + 1 < len THEN Ok(FALSE)
                   ELSE Failure
    IN  Loop(0)

\* Mutant: the offset 0x1_0000 is not subtracted before the split.
ToUnits_no_offset(ch) ==
    IF ch <= 65535
    THEN IF Single(ch) THEN << ch >> ELSE << >>
    ELSE IF ch >= 65536 /\ ch <= 1114111
         THEN << 55296 | ((ch \div 1024) % 65536), 56320 | ((ch % 65536) & 1023) >>
         ELSE << >>

\* The units to_utf16 pushes for one character, << >> where a
\* fail_unless! fails: a BMP character must not be a surrogate, another
\* must be at most 0x10_FFFF; it is split as ch -= 0x1_0000,
\* w1 = 0xD800 | (ch >> 10) as u16, w2 = 0xDC00 | ((ch as u16) & 0x3FF).
ToUnits(ch) ==
    IF ch <= 65535
    THEN IF Single(ch) THEN << ch >> ELSE << >>
    ELSE IF ch >= 65536 /\ ch <= 1114111
         THEN LET c == ch - 65536
              IN  << 55296 | ((c \div 1024) % 65536), 56320 | ((c % 65536) & 1023) >>
         ELSE << >>

\* to_utf16: for s.each_char, the units of each character in turn.
to_utf16(s) ==
    LET cs == chars(s)
        RECURSIVE Loop(_, _)
        Loop(k, u) == IF k > Len(cs) THEN Ok(u)
                      ELSE LET w == ToUnits(cs[k])
                           IN  IF w = << >> THEN Failure ELSE Loop(k + 1, u \o w)
    IN  Loop(1, << >>)

\* utf16_chars: while i < len && v[i] != 0, a single unit is a character,
\* else a pair (v[i+1] must exist) checked and combined as
\* ((u - 0xD800) << 10) | (u2 - 0xDC00) | 0x1_0000.  The characters f gets.
utf16_chars(v) ==
    LET len == Len(v)
        RECURSIVE Loop(_, _)
        Loop(i, cs) ==
            IF ~(i < len /\ At(v, i) # 0) THEN Ok(cs)
            ELSE LET u == At(v, i)
                 IN  IF Single(u) THEN Loop(i + 1, Append(cs, u))
                     ELSE IF i + 1 >= len THEN Failure
                     ELSE LET u2 == At(v, i + 1)
                          IN  IF ~(u >= 55296 /\ u <= 56319) THEN Failure
                              ELSE IF ~(u2 >= 56320 /\ u2 <= 57343) THEN Failure
                              ELSE Loop(i + 2, Append(cs, (((u - 55296) * 1024)
                                                          | (u2 - 56320)) | 65536))
    IN  Loop(0, << >>)

\* from_utf16: reserve, then push_char each character utf16_chars yields.
from_utf16(v) ==
    LET r == utf16_chars(v)
    IN  IF r.ok THEN Ok(FlattenSeq([k \in DOMAIN r.val |-> EncodeChar(r.val[k])]))
        ELSE r

Utf16Apis == {"is_utf16", "to_utf16", "from_utf16"}

-----------------------------------------------------------------------------
(* The spec's UTF-16 sequence: a unit outside [0xD800, 0xE000) stands      *)
(* alone; one in [0xD800, 0xDC00) is followed by one in [0xDC00, 0xE000)   *)
(* and the two encode 0x1_0000 + (hi - 0xD800) * 2^10 + (lo - 0xDC00).     *)

RECURSIVE DecodeSpec(_)
DecodeSpec(u) ==
    CASE u = << >>                                 -> << >>
      [] Single(Head(u))                           -> << Head(u) >> \o DecodeSpec(Tail(u))
      [] OTHER -> << 65536 + (Head(u) - 55296) * 1024 + (u[2] - 56320) >>
                  \o DecodeSpec(Tail(Tail(u)))

\* A valid UTF-16 sequence.
RECURSIVE ValidSpec(_)
ValidSpec(u) ==
    CASE u = << >>             -> TRUE
      [] Single(Head(u))       -> ValidSpec(Tail(u))
      [] Head(u) >= 56320      -> FALSE
      [] Len(u) < 2            -> FALSE
      [] OTHER                 -> u[2] >= 56320 /\ u[2] <= 57343 /\ ValidSpec(Tail(Tail(u)))

\* The units encoding code point c.
EncodeSpec(c) ==
    IF c < 65536 THEN << c >>
    ELSE << 55296 + ((c - 65536) \div 1024), 56320 + ((c - 65536) % 1024) >>

\* Code points the spec lets through UTF-16: not a surrogate, at most
\* 0x10_FFFF.
Encodable(c) == Single(c) /\ c <= 1114111

====
