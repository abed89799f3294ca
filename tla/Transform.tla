----------------------------- MODULE Transform -----------------------------
(***************************************************************************)
(* The functions of src/libcore/str.rs that build new strings or vectors  *)
(* of strings: from_char, from_chars, append, concat, connect,             *)
(* connect_slices and repeat (join), lines, lines_any, words and          *)
(* split_within (line and word splitting), and char_at, char_at_reverse   *)
(* and slice_shift_char (single-character access), and map, to_lower and *)
(* to_upper (case mapping through libc), and the *_each wrappers that     *)
(* walk a split's result with vec::each.  Each loop over a                *)
(* vector is a FoldLeft whose accumulator holds the loop's locals.        *)
(*                                                                         *)
(* lines and words are split_char_no_trailing and split_nonempty; their    *)
(* fields are taken from Split's FieldsRef, which the split run shows the *)
(* code's split_char_inner and split_inner compute, re-encoded to bytes.  *)
(***************************************************************************)
EXTENDS Search

\* Split's reference fields of api on t with separator sp and count n
\* (len(t) for every function that is not a splitn).
SplitFields(f, t, sp, n) == INSTANCE Split WITH
    Haystacks <- {t}, SepChars <- {}, SepSets <- {}, Counts <- {},
    api <- f, s <- t, sep <- sp, count <- n,
    allow_empty <- FALSE, allow_trailing_empty <- FALSE, fast <- FALSE,
    i <- 0, start <- 0, done <- 0, result <- << >>, phase <- "done"

\* from_char: push_char onto ~"".
from_char(ch) == EncodeChar(ch)

\* from_chars: reserve (capacity only), then push_char for each character.
from_chars(chs) == FoldLeft(LAMBDA buf, ch : buf \o EncodeChar(ch), << >>, chs)

\* The byte strings of a vector of decoded fields.
Encoded(fs) == [k \in DOMAIN fs |-> from_chars(fs[k])]

\* append: push_str_no_overallocate(&mut v, rhs) on the moved lhs.
append(lhs, rhs) == lhs \o rhs

\* concat: push_str(&mut s, *ss) for each element.
concat(v) == FoldLeft(LAMBDA acc, ss : acc \o ss, << >>, v)

\* Mutant: lines_each walks split_char's result, a trailing empty line
\* included.
EachSplit_lines_trailing == [split_char_each  |-> "split_char",
                             splitn_char_each |-> "splitn_char",
                             words_each       |-> "split_nonempty",
                             lines_each       |-> "split_char"]

\* vec::each(v, |s| ff(*s)): ff is called on the elements in order and
\* the walk ends after the call that returns false, call number stop (0:
\* none does).  The elements ff is called with.
EachOf(v, stop) == SubSeq(v, 1, IF stop = 0 THEN Len(v) ELSE Min({stop, Len(v)}))

\* split_char_each, splitn_char_each, words_each and lines_each: vec::each
\* over the vector split_char, splitn_char, words (split_nonempty at
\* whitespace) and lines (split_char_no_trailing at '\n') return.
EachSplit == [split_char_each  |-> "split_char",
              splitn_char_each |-> "splitn_char",
              words_each       |-> "split_nonempty",
              lines_each       |-> "split_char_no_trailing"]

\* Mutant: the separator is pushed before every element, the first too.
ConnectStep_no_first(sep, acc, ss) ==
    [s |-> acc.s \o sep \o ss, first |-> FALSE]

\* One iteration of connect's loop: the separator is pushed unless this is
\* the first element, then the element.
ConnectStep(sep, acc, ss) ==
    IF acc.first THEN [s |-> acc.s \o ss, first |-> FALSE]
    ELSE [s |-> acc.s \o sep \o ss, first |-> FALSE]

\* connect and connect_slices (the same loop over ~str and &str elements).
connect(v, sep) ==
    FoldLeft(LAMBDA acc, ss : ConnectStep(sep, acc, ss),
             [s |-> << >>, first |-> TRUE], v).s

\* repeat: for nn.times { acc += ss }.
repeat(ss, nn) ==
    FoldLeft(LAMBDA acc, k : acc \o ss, << >>, [k \in 1..nn |-> k])

\* lines: split_char_no_trailing(s, '\n').
lines(s) == Encoded(SplitFields("split_char_no_trailing", s, 10, Len(s))!FieldsRef)

\* Mutant: only a line longer than one byte loses its '\r'.
StripCr_gt_one(l) ==
    IF Len(l) > 1 /\ l[Len(l)] = 13 THEN SubSeq(l, 1, Len(l) - 1) ELSE l

\* The closure of lines_any: set_len(cp, l - 1) if the line ends in '\r'.
StripCr(l) ==
    IF Len(l) > 0 /\ l[Len(l)] = 13 THEN SubSeq(l, 1, Len(l) - 1) ELSE l

\* lines_any: vec::map(lines(s), StripCr).
lines_any(s) == LET ls == lines(s) IN [k \in DOMAIN ls |-> StripCr(ls[k])]

\* words: split_nonempty(s, char::is_whitespace); W is the set of
\* characters char::is_whitespace accepts.
words(s, W) == Encoded(SplitFields("split_nonempty", s, W, Len(s))!FieldsRef)

\* The call of f \in EachApis on ss with separator sep and count n: the
\* pieces ff is called with.
EachInvoke(f, ss, sep, n, stop) ==
    EachOf(Encoded(SplitFields(EachSplit[f], ss, sep, n)!FieldsRef), stop)

\* Mutant: the separating space is left out of the test.
WrapStep_no_space(lim, acc, word) ==
    IF Len(acc.row) + Len(word) > lim
    THEN [rows |-> Append(acc.rows, acc.row), row |-> word]
    ELSE [rows |-> acc.rows,
          row  |-> IF Len(acc.row) > 0 THEN acc.row \o << 32 >> \o word
                   ELSE acc.row \o word]

\* Mutant: a new row is started when the word fits exactly.
WrapStep_ge(lim, acc, word) ==
    IF Len(acc.row) + Len(word) + 1 >= lim
    THEN [rows |-> Append(acc.rows, acc.row), row |-> word]
    ELSE [rows |-> acc.rows,
          row  |-> IF Len(acc.row) > 0 THEN acc.row \o << 32 >> \o word
                   ELSE acc.row \o word]

\* Mutant: the new row is started empty instead of with the word.
WrapStep_drop_word(lim, acc, word) ==
    IF Len(acc.row) + Len(word) + 1 > lim
    THEN [rows |-> Append(acc.rows, acc.row), row |-> << >>]
    ELSE [rows |-> acc.rows,
          row  |-> IF Len(acc.row) > 0 THEN acc.row \o << 32 >> \o word
                   ELSE acc.row \o word]

\* One iteration of split_within's loop: if row + word + 1 > lim, push the
\* row and start a new one with the word; else append " " (unless the row
\* is empty) and the word.
WrapStep(lim, acc, word) ==
    IF Len(acc.row) + Len(word) + 1 > lim
    THEN [rows |-> Append(acc.rows, acc.row), row |-> word]
    ELSE [rows |-> acc.rows,
          row  |-> IF Len(acc.row) > 0 THEN acc.row \o << 32 >> \o word
                   ELSE acc.row \o word]

\* After the loop: `if row != ~"" { rows.push(row) }`.
SaveLastRow(acc) ==
    IF acc.row # << >> THEN Append(acc.rows, acc.row) ELSE acc.rows

\* split_within on the words of ss: an empty vector for no words, else
\* the rows of the greedy loop.
WrapWords(ws, lim) ==
    IF ws = << >> THEN << >>
    ELSE SaveLastRow(FoldLeft(LAMBDA acc, w : WrapStep(lim, acc, w),
                              [rows |-> << >>, row |-> << >>], ws))

split_within(ss, lim, W) == WrapWords(words(ss, W), lim)

\* char_at / char_at_reverse: the ch of a CharRange, or the failure of the
\* decode.
CharOf(r) == IF r.ok THEN Ok(r.ch) ELSE Failure

char_at(s, i) == CharOf(CharRangeAt(s, i))

char_at_reverse(s, i) == CharOf(CharRangeAtReverse(s, i))

\* Mutant: the rest starts one byte after the first, whatever its width.
ShiftOf_one_byte(s, r) ==
    IF r.ok THEN Ok(<< r.ch, SubSeq(s, 2, Len(s)) >>) ELSE Failure

\* slice_shift_char: char_range_at(s, 0), then raw::slice_bytes(s, next,
\* len(s)).
ShiftOf(s, r) ==
    IF r.ok THEN Ok(<< r.ch, SubSeq(s, r.next + 1, Len(s)) >>) ELSE Failure

slice_shift_char(s) == ShiftOf(s, CharRangeAt(s, 0))

\* The character c as libc::c_char: its low 8 bits, negative from 128 on
\* where c_char is signed (i8 on x86 and x86_64, u8 on ARM).
CChar(c, signed) ==
    IF signed /\ c % 256 >= 128 THEN (c % 256) - 256 ELSE c % 256

\* libc tolower / toupper in the C locale (the runtime never calls
\* setlocale): only A-Z / a-z change; glibc returns any other value of
\* -128..255 as it is.
\* Mutant: the upper bound of the A-Z range is one too high ('[').
CToLower_le_91(v) == IF v >= 65 /\ v <= 91 THEN v + 32 ELSE v

CToLower(v) == IF v >= 65 /\ v <= 90 THEN v + 32 ELSE v

CToUpper(v) == IF v >= 97 /\ v <= 122 THEN v - 32 ELSE v

\* `as char` on the c_char: a negative value is sign-extended to
\* 0xFFFFFF00 | b.  push_char encodes any code from max_five_b on in six
\* bytes and never reads bit 31, so the code is kept with bit 31 cleared,
\* 2^31 + v, which is the same six bytes and fits TLC's integers.
AsChar(v) == IF v < 0 THEN 2147483647 + (v + 1) ELSE v

\* map: reserve(len(ss)), then push_char(ff(cc)) for each character; the
\* closure ff is a function on characters.
map(ss, ff) ==
    FoldLeft(LAMBDA acc, cc : acc \o EncodeChar(ff[cc]), << >>, chars(ss))

\* Mutant: to_lower maps the bytes (each) instead of the characters.
to_lower_each_byte(ss, signed) ==
    FoldLeft(LAMBDA acc, b : acc \o EncodeChar(AsChar(CToLower(CChar(b, signed)))),
             << >>, ss)

\* to_lower / to_upper: map with (libc::tolower(c as c_char)) as char.
to_lower(ss, signed) == map(ss, [c \in Nat |-> AsChar(CToLower(CChar(c, signed)))])

to_upper(ss, signed) == map(ss, [c \in Nat |-> AsChar(CToUpper(CChar(c, signed)))])

CaseApis == {"to_lower", "to_upper"}

TransformApis == {"from_char", "from_chars", "append", "concat", "connect",
                  "connect_slices", "repeat", "lines_any", "split_within",
                  "char_at", "char_at_reverse", "slice_shift_char",
                  "to_lower", "to_upper", "split_char_each",
                  "splitn_char_each", "words_each", "lines_each"}

\* The wrappers that call back with each piece.
EachApis == {"split_char_each", "splitn_char_each", "words_each", "lines_each"}

\* Functions of a vector of strings rather than of one string.
VectorApis == {"concat", "connect", "connect_slices"}

\* The result of calling f on h with the arguments a; W is the set of
\* characters char::is_whitespace accepts.
TransformInvoke(f, h, a, W) ==
    CASE f = "from_char"        -> Ok(from_char(a.c))
      [] f = "from_chars"       -> Ok(from_chars(chars(h)))
      [] f = "append"           -> Ok(append(h, a.sep))
      [] f = "concat"           -> Ok(concat(a.v))
      [] f \in {"connect", "connect_slices"} -> Ok(connect(a.v, a.sep))
      [] f = "repeat"           -> Ok(repeat(h, a.n))
      [] f = "lines_any"        -> Ok(lines_any(h))
      [] f = "split_within"     -> Ok(split_within(h, a.lim, W))
      [] f = "char_at"          -> char_at(h, a.i)
      [] f = "char_at_reverse"  -> char_at_reverse(h, a.i)
      [] f = "slice_shift_char" -> slice_shift_char(h)
      [] f = "to_lower"         -> Ok(to_lower(h, a.signed))
      [] f = "to_upper"         -> Ok(to_upper(h, a.signed))
      [] f \in EachApis         -> Ok(EachInvoke(f, h, CASE f = "words_each" -> W
                                                     [] f = "lines_each" -> 10
                                                     [] OTHER            -> a.c,
                                            IF f = "splitn_char_each" THEN a.n ELSE Len(h),
                                            a.stop))

====
