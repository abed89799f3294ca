------------------------------ MODULE Interop ------------------------------
(***************************************************************************)
(* The byte and C-string interop of src/libcore/str.rs: the raw::          *)
(* constructors that copy a foreign buffer (from_buf, from_buf_len,        *)
(* from_c_str, from_c_str_len, from_bytes, from_byte), the safe from_byte, *)
(* raw::buf_as_slice, which borrows one, and as_c_str, to_bytes and        *)
(* as_bytes_slice, which hand a string's bytes out.                        *)
(*                                                                         *)
(* Foreign memory is a byte sequence mem and a pointer is an offset p into *)
(* it: the byte at buf + i is At(mem, p + i).  A c_char pointer reads the  *)
(* same memory as a u8 pointer (reinterpret_cast).  A &str slice is an     *)
(* owner string and the byte offsets [b, e) of the slice in it; as_buf     *)
(* hands out the pointer to byte b and the length e - b + 1, which counts  *)
(* one byte past the slice: the owner's null if the slice reaches its end, *)
(* its next byte otherwise.                                                *)
(***************************************************************************)
EXTENDS Search

\* raw::from_buf_len: copy len bytes from buf into a vector of capacity
\* len + 1, set_len(len), push(0), then fail_unless!(is_utf8(v)) on the
\* bytes and the pushed 0; the vector is the string.
from_buf_len(mem, p, len) ==
    IF is_utf8(SubSeq(mem, p + 1, p + len) \o << 0 >>)
    THEN Ok(SubSeq(mem, p + 1, p + len)) ELSE Failure

\* Mutant: the scan counts the terminating 0 as well.
RECURSIVE CLen_with_nul(_, _, _)
CLen_with_nul(mem, p, i) ==
    IF At(mem, p + i) # 0 THEN CLen_with_nul(mem, p, i + 1) ELSE i + 1

\* raw::from_buf's scan: i counts bytes until *curr == 0.
RECURSIVE CLen(_, _, _)
CLen(mem, p, i) ==
    IF At(mem, p + i) # 0 THEN CLen(mem, p, i + 1) ELSE i

\* raw::from_buf: scan to the 0, then from_buf_len.
from_buf(mem, p) == from_buf_len(mem, p, CLen(mem, p, 0))

\* raw::from_bytes: from_buf_len on the vector's buffer and length.
raw_from_bytes(v) == from_buf_len(v, 0, Len(v))

\* from_byte: fail_unless!(b < 128u8), then the vector ~[b, 0u8] is the
\* string.
from_byte(b) == IF b < 128 THEN Ok(<< b >>) ELSE Failure

\* raw::buf_as_slice: the slice (buf, len + 1) is checked with is_utf8
\* reinterpreted as a byte vector, whose length is len + 1; f then gets
\* the slice, whose len bytes are the string.
buf_as_slice(mem, p, len) ==
    IF is_utf8(SubSeq(mem, p + 1, p + len + 1))
    THEN Ok(SubSeq(mem, p + 1, p + len)) ELSE Failure

\* The owner's buffer: its bytes and the null after them.
WithNull(owner) == owner \o << 0 >>

\* Mutant: the slice's buffer is handed to f without looking at the byte
\* past it.
as_c_str_no_check(owner, b, e) == Ok(SubSeq(WithNull(owner), b + 1, Len(owner) + 1))

\* as_c_str on the slice [b, e) of owner: as_buf gives buf = owner + b and
\* len = e - b + 1 (fail_unless!(len > 0) holds); if the byte at
\* buf + len - 1, the byte past the slice, is not 0, the call repeats on
\* from_slice(s), a new owned string of the slice's bytes; otherwise f
\* gets buf.  The value is
\* the memory f can read from the pointer to the end of its buffer.
RECURSIVE as_c_str(_, _, _)
as_c_str(owner, b, e) ==
    LET buf == SubSeq(WithNull(owner), b + 1, Len(owner) + 1)
    IN  IF buf[e - b + 1] # 0
        THEN as_c_str(SubSeq(owner, b + 1, e), 0, e - b)
        ELSE Ok(buf)

\* to_bytes: from_slice(s) transmuted to a vector, set_len(len(s)), which
\* drops the null.
to_bytes(s) == Ok(s)

\* as_bytes_slice: the slice (ptr, len - 1), without the null.
as_bytes_slice(s) == Ok(s)

ForeignApis == {"from_buf", "from_buf_len", "from_c_str", "from_c_str_len",
                "raw_from_bytes", "raw_from_byte", "buf_as_slice"}

InteropApis == ForeignApis \cup {"from_byte", "as_c_str", "to_bytes",
                                 "as_bytes_slice"}

\* The result of calling f: on foreign memory mem at offset p with length
\* len, or on the slice [b, e) of the string mem.
InteropInvoke(f, mem, a) ==
    CASE f \in {"from_buf", "from_c_str"}         -> from_buf(mem, a.p)
      [] f \in {"from_buf_len", "from_c_str_len"} -> from_buf_len(mem, a.p, a.len)
      [] f = "raw_from_bytes" -> raw_from_bytes(SubSeq(mem, a.p + 1, a.p + a.len))
      [] f = "raw_from_byte"  -> raw_from_bytes(<< At(mem, a.p) >>)
      [] f = "from_byte"      -> from_byte(At(mem, a.p))
      [] f = "buf_as_slice"   -> buf_as_slice(mem, a.p, a.len)
      [] f = "as_c_str"       -> as_c_str(mem, a.p, a.p + a.len)
      [] f = "to_bytes"       -> to_bytes(mem)
      [] f = "as_bytes_slice" -> as_bytes_slice(mem)

====
