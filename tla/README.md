# TLA+ models of libcore's string module

This directory holds TLA+ models of `src/src/libcore/str.rs`, the old
libcore string library. Each module models one part of the library, and TLC
checks each module against the properties stated below. The models are
written from the source. Every definition that models code is listed with
its source lines under `map` in `PROJECT.json`.

## The system

`str.rs` is a single-threaded, synchronous library. Nothing in it runs
concurrently, and every call runs to completion or ends the task with
`fail_unless!`. Its difficult behaviour comes from four things.

* **Representation.** A `~str` is a `vec` of bytes.
  * Its *fill* counts a terminating null, so `len(s) = fill - 1`.
  * Its allocation may be larger than the fill.
  * `as_buf` hands out `(ptr, fill)`, and `raw::set_len` writes both the
    fill and the null.

  Every mutating call (`push_char`, `push_str`, `pop_char`, `shift_char`,
  `unshift_char`, and `raw::push_byte`, `push_bytes`, `pop_byte`,
  `shift_byte`) does three
  things in order:
  1. reserves room;
  2. stores bytes by raw pointer;
  3. calls `set_len`.

  `reserve_at_least` rounds capacity up to a power of two. The bytes of
  popped characters therefore stay in the allocation after the null.
* **The UTF-8 codec.** Several separate pieces of code implement the same
  legacy 1–6 byte grammar, and they must agree:
  * `utf8_char_width`;
  * the encoder that `push_char` inlines;
  * `char_range_at` and `char_range_at_reverse`;
  * `is_utf8`;
  * `is_char_boundary`.
* **Scanning loops.** These loops walk byte offsets and rely on landing on
  character boundaries:
  * the naive, backtracking matcher `iter_matches`;
  * `split_*`, `find_*`, `rfind_*` and the trims;
  * the iterators `each*`.

  Several of these functions have a byte fast path for an ASCII character
  next to a decoding path.
* **The C boundary.** `as_buf`'s length counts one byte past a slice.
  `as_c_str` probes that byte to decide whether a slice is already
  null-terminated. `raw::from_buf` scans foreign memory for a 0, and
  `raw::buf_as_slice` borrows it in place. `to_lower` / `to_upper` pass
  each character through libc as a `c_char`.
* **Byte versus character counts.** `len`, `slice`, `find_*` and
  `count_bytes` speak bytes. `char_len`, `count_chars`, `substr`'s `n` and
  the `each_chari` indices speak characters. `levdistance` mixes the two.

`src/src/libcore/sys.rs` holds runtime intrinsics (`size_of`, `align_of`,
`refcount`) and the unwinding entry points. `fail_unless!` reaches those
entry points, and the models treat that as "the task fails". The file under
`src/src/test/run-pass` is an xfail'd type-checking test.

## Modules

| Module | Models | State and actions |
|---|---|---|
| `Utf8` | The tag constants, `utf8_char_width`, `EncodeChar` (the byte stores of `push_char`), `CharRangeAt`, `CharRangeAtReverse`, `is_utf8`, `is_char_boundary`, and `chars` (the decoding loop) | Pure operators. A call that would end in `fail_unless!` returns a record with `ok = FALSE`. |
| `Utf8Decode` | A caller of the codec: `from_bytes`, then a forward walk (the `chars` / `each_chari` loop), then a backward walk (the `rfind_between` loop) | Pure operators. `DecodeCall(v)` is `Failure` when `from_bytes` rejects `v`, and otherwise the `[at, ch]` records each walk meets. |
| `StrBuffer` | One owned `~str` and every call that mutates it | `mem` is the allocation, with `Undef` for bytes never written. `fill` is the vec fill, `ret` the value last popped or the last `capacity`, and `status` is `failed` after a `fail_unless!`. One action per call. Each action contains the call's own reserve, its byte stores and the closing `set_len`. `add` is the `+` that `unshift_char` uses (`impl Add`: a fresh copy of the left operand with the right one appended). `PushByteStep` is one `push_byte` on `[m, f]`, and `PushBytes` folds it over the bytes after its own `reserve_at_least`. `Capacity` is the allocation less the null, and fails on an empty vec. |
| `CharString` | The abstract string that its owner sees: a sequence of code points | `text`, `ret`, `status`. Actions `Push`, `AppendText`, `Unshift`, `Pop`, `Shift`, and `Capacity`, which returns some number and leaves the text alone. `reserve` calls are stutters. |
| `IterMatches` | `iter_matches` (the matcher), `iter_between_matches`, and their callers `split_str`, `split_str_nonempty` and `replace` | `i`, `match_start`, `match_i`, `last_end`, the output, and `phase`. One step per iteration of the byte loop: `Start`, `Advance`, `Found`, `Backtrack`, `Skip`, `Exit`. The caller's callback runs inside the step that calls it. |
| `Split` | `split_char_inner` (ASCII byte path and decoding path), `split_inner`, and the eight public `split*` functions | `api`, `s`, `sep`, `count`, the two policies, `i`, `start`, `done`, and the fields. One step per loop iteration (`FastSep`, `FastOther`, `CharSep`, `CharOther`) and one for the trailing field. |
| `Levenshtein` | `levdistance` | `dcol`, `current`, the two `each_chari` cursors, and `phase`. One step per inner iteration; outer iterations and the early returns are steps of their own. |
| `Search` | All 20 search functions (`find_char*`, `rfind_char*`, `find*`, `rfind*`, `find_str*`, `contains*`, `starts_with`, `ends_with`, `match_at`) | Pure operators. Each loop with early returns is a recursive operator. A call returns `Ok(v)` or `Failure`. |
| `Ordering` | `eq_slice`, `cmp`, `lt`, `le`, `ge`, `gt`, and the `Eq` / `Ord` / `TotalOrd` impls | Pure operators. |
| `Iterate` | `each`, `eachi`, `each_reverse`, `eachi_reverse`, `each_char`, `each_chari`, `each_char_reverse`, `each_chari_reverse` | Pure operators. The callback is given by the number of the call at which it returns false. An iterator returns the `<<index, item>>` calls it made. |
| `Slices` | `slice`, `substr`, `raw::slice_bytes`, `count_chars`, `count_bytes`, `char_len` (as `count_chars(s, 0, len(s))`), `is_alphanumeric` (as `all` with the class given by the caller), `all_between`, `any_between`, `all`, `any`, `is_whitespace`, `is_ascii`, `is_empty`, and the six trims | Pure operators. A predicate or a trim set is a set of characters. `char::is_whitespace` is not in this repository, so it is a set `ws` given by the caller. `TrimLeftAt` and `TrimRightAt` are the `match` on what `find` / `rfind` returned; `TrimBoth` is `trim_left(trim_right(s))`, shared by `trim` and `trim_chars`. |
| `Utf16` | `is_utf16`, `to_utf16`, `utf16_chars`, `from_utf16` | Pure operators over unit vectors (naturals below 2^16). The bitwise arithmetic of the code is kept (`Bitwise`). |
| `Transform` | `from_char`, `from_chars`, `append`, `concat`, `connect`, `connect_slices`, `repeat`, `lines`, `lines_any`, `words`, `split_within`, `char_at`, `char_at_reverse`, `slice_shift_char`, `map`, `to_lower`, `to_upper` | Pure operators. The case-mapping closure is `CChar` (the cast to `c_char`: the low byte, negative from 0x80 on where `c_char` is signed), `CToLower` / `CToUpper` (libc in the C locale), then `AsChar` (the sign-extending cast back). A sign-extended char is kept with bit 31 cleared: `push_char` never reads that bit. Each loop over a vector is a `FoldLeft` whose accumulator holds the loop's locals: `connect` keeps `[s, first]`, and `split_within` keeps `[rows, row]` (`WrapStep` is one iteration, `SaveLastRow` the final push). `lines` and `words` take their fields from `Split`'s `FieldsRef` through a parameterised `INSTANCE`; the `split` run shows that the code computes exactly those fields. The wrappers `split_char_each`, `splitn_char_each`, `words_each` and `lines_each` are `EachInvoke`: `EachSplit` names the split each one walks, and `EachOf` is `vec::each`, which stops after the call that returns false. |
| `Interop` | `as_c_str`, `as_buf`'s length, `raw::from_buf`, `from_buf_len`, `from_c_str`, `from_c_str_len`, `raw::from_bytes`, `raw::from_byte`, `from_byte`, `raw::buf_as_slice`, `to_bytes`, `as_bytes_slice` | Pure operators. Foreign memory is a byte sequence and a pointer is an offset into it. A `&str` slice is its owner string and the offsets `[b, e)`. `as_c_str` is recursive, like the code: a slice whose next byte is not 0 is copied by `from_slice` and the call repeats on the copy. |
| `StrCalls` | A caller of the read-only functions of `Utf8Decode`, `Search`, `Ordering`, `Iterate`, `Slices`, `Utf16`, `Transform` and `Interop` | `api`, `x`, `y`, `args`, `ret`, `status`. One step is one whole call (`CallFromBytes`, `CallSearch`, `CallCompare`, `CallIterate`, `CallSlice`, `CallUtf16`, `CallTransform`, `CallInterop`), with its arguments drawn from the constants. |

`StrBuffer` refines `CharString` under the refinement mapping
`text <- chars(Content)`, which decodes the bytes before the null.

Three definitions come from outside `src/` and are marked `spec_modelled`:
* `vec::reserve`, which reallocates to exactly `n`;
* `uint::next_power_of_two`;
* `vec::each` (`EachOf`).

Each `MC*.tla` module fixes the inputs, and its `.cfg` names the properties
checked.

## Runs

| Run | Config | Properties | Expect |
|---|---|---|---|
| `strbuf_safe` | `MCStrBuffer.cfg` | `TypeOK`, `BufferWellFormed`, `CharStringRefinement` | pass |
| `strbuf_raw` | `MCStrBufferRaw.cfg` | `BufferWellFormed` | pass |
| `strbuf_push_byte` | `MCStrBufferPushByte.cfg` | `PushByteAppendsByte` | violation |
| `iter_matches` | `MCIterMatches.cfg` | `ScanInvariant`, `OutputMatchesReference`, `Termination` | pass |
| `iter_matches_empty_sep` | `MCIterMatchesEmpty.cfg` | `EmptySeparatorIsNoOp` | violation |
| `split` | `MCSplit.cfg` | `FieldStartsOnBoundary`, `SplitMatchesReference` | pass |
| `levdistance` | `MCLevenshtein.cfg` | `RowInvariant`, `LevMatchesReference` | pass |
| `levdistance_utf8` | `MCLevenshteinUtf8.cfg` | `LevMatchesReference` | violation |
| `library_calls` | `MCStrCalls.cfg` | `DecodersAcceptValidated`, `BackwardMatchesForward`, `BoundaryAgreement`, `SearchMatchesReference`, `SearchHitIsOccurrence`, `ComparisonMatchesReference`, `ByteOrderIsCharOrder`, `VisitsPromisedPrefix`, `TrimMatchesReference`, `CountsMatchReference`, `PredicatesMatchReference`, `ToUtf16MatchesSpec`, `JoinMatchesSpec`, `LinesAnyMatchesSpec`, `WrapRowsFit`, `WrapKeepsWords`, `WrapIsGreedy`, `CharAccessMatchesChars`, `CaseMapIdempotent`, `CaseMapKeepsAscii`, `ForeignBytesValidated`, `CStrViewIsSlice`, `EachVisitsPieces` | pass |
| `word_wrap` | `MCStrCallsWrap.cfg` | `WrapNoEmptyRow` | violation |
| `iterate_char_reverse` | `MCStrCallsReverse.cfg` | `VisitsPromisedPrefix` | violation |
| `utf16_decode` | `MCStrCallsUtf16.cfg` | `Utf16DecodingMatchesSpec` | violation |

### Passing runs

* **`library_calls`, decoding.** `from_bytes` and both walks run on every
  byte string of up to 5 bytes over `{0x41, 0x80, 0xBF, 0xC0, 0xE4, 0xF0,
  0xF8}`.
  * The set contains ASCII, both edges of the continuation range, the
    lowest 2-byte lead, and 3-, 4- and 5-byte leads. With five bytes every
    width up to 5 occurs both complete and truncated.
  * No decoder fails on a string that `is_utf8` accepts.
  * The backward walk meets the forward walk's characters in reverse.
  * `is_char_boundary` holds exactly where the forward walk starts a
    character.
* **`strbuf_safe`** explores every sequence of safe calls on a string of up
  to 5 bytes, with `A`, `é`, `中` and `𝄞` (widths 1 to 4).
  * Capacities 1, 2, 4 and 8 are reached both by reallocation and by reuse
    with stale bytes.
  * The vec invariant holds: `fill <= capacity`, and the null sits at the
    fill.
  * The buffer refines `CharString`.
* **`strbuf_raw`** adds `raw::push_byte`, `raw::push_bytes` (of up to two
  bytes), `raw::pop_byte`, `raw::shift_byte` and `capacity`.
  * These calls may break UTF-8, so only the vec invariant is checked.
    The type invariant is checked once, in `strbuf_safe`.
* **`iter_matches`** takes haystacks of up to five characters over `a`, `b`
  and `é`.
  * The separators are every one- and two-character string, plus `aab`
    and `aba`, which force backtracking.
  * The scan invariant relates `match_start`, `match_i` and `i` to the
    haystack.
  * The output equals the leftmost non-overlapping occurrences.
  * Every call terminates. Weak fairness on `Next` is justified: each step
    is the next statement of a sequential loop.
* **`split`** runs all eight split functions on strings of up to four
  characters over `a`, `,`, `é` and `U+9000`.
  * The lead byte of `U+9000` is `0xE9`, which is also `é`'s code.
  * The fields equal the reference.
  * A field never starts inside a character.
* **`levdistance`** covers ASCII strings of up to 4 characters.
  * The rolling row always holds the table rows it should.
  * The result is the edit distance.
* **`library_calls`, the other read-only functions.** Every read-only
  function is called once per behaviour, with every argument of its
  contract.
  * Search runs on strings of up to 3 characters over `a`, `é` and
    `U+9000`, with every byte offset as `start`, every boundary as `end`,
    and on needles that include the empty one. Within the documented
    contract (a boundary `start`) results equal a reference written from
    the documentation: the first or last matching character start, and the
    leftmost occurrence. From a `start` inside a character the decoding
    paths fail, as documented, while the ASCII byte paths of
    `find_char_between` / `rfind_char_between` skip the check and return
    normally; `SearchHitIsOccurrence` shows that what they return is still
    a real occurrence at a boundary inside the range, because an ASCII byte
    never occurs inside a multi-byte character.
  * Comparison runs on strings of up to 2 characters of every width, with
    pairs that differ only in the last byte. `eq_slice`, `cmp` and `lt`
    agree with byte-wise lexicographic order, and byte order equals
    code-point order.
  * Every iterator except the backward character ones makes exactly the
    promised calls, with the right indices. It stops right after the
    callback returns false.
  * The trims, `slice`, `substr`, `count_*` and the predicates run on
    strings of up to 3 characters over space, `a`, `é` and the ideographic
    space `U+3000`, which is 3 bytes of whitespace. Each returns or fails
    exactly as documented. Starts range over every byte offset, so the
    failure paths run. `char_len` and `is_alphanumeric` answer as
    `count_chars` over the whole string and `all` do.
  * `to_utf16` runs on strings of up to 2 characters over `a`, `U+E000`,
    the surrogate code `U+D800`, `U+10000`, `U+20000`, `U+10FFFF` and the
    out-of-range `0x110000`. For an encodable string the units equal the
    spec's surrogate-pair encoding; otherwise the call fails.
  * The `Transform` functions run on strings of up to 4 characters over
    `a`, space, LF, CR and `é`, so words of every length up to 4, CR LF
    pairs, lone CRs and two-byte characters occur, with limits 0 to 5
    (below, at and above a word's length). `concat` and `connect` run on
    vectors of up to 3 elements over `""`, `a` and `é`, with separators
    `""`, `,` and `é`.
    * `connect`, `concat`, `repeat`, `append` and `from_char(s)` produce
      what the spec's join rule says: the separator between each two
      elements and nowhere else.
    * `lines_any` returns the lines of the text with every CR LF read as
      LF, for text whose every CR precedes an LF.
    * `split_within` keeps every word, in order. Each row is within the
      limit or holds a single word. A row may be exactly `lim` bytes long,
      as the spec's "not exceeding" allows. A row ends only when the next word and
      its space would not fit.
    * The `*_each` wrappers run on strings of up to 3 characters over `a`,
      LF, space and `é`, cut at `a`, `é`, `U+9000` and `U+10000`, with
      counts 0 to 4 and callbacks that return false at call 1, 2 or never.
      Each hands its callback the pieces between separators in order, and
      no more than the callback accepts. Read back with their separators,
      the pieces give the start of the string, or all of it when the
      callback never said false. `lines_each` leaves out a final LF, and
      `words_each` never hands over an empty piece.
    * `char_at`, `char_at_reverse` and `slice_shift_char` return the
      character starting or ending at a boundary. They fail at the end, at
      offset 0 and on `""` respectively.
  * `to_lower` and `to_upper` run on strings of up to 3 characters over
    `A`, `[`, `a`, `é`, `Ł` (`U+0141`, low byte `A`) and `U+9000` (low
    byte 0), on both signednesses of `c_char`. `x86` and `x86_64` have a
    signed `c_char` and ARM an unsigned one, so the model checks both.
    * The result has one character per character of the argument.
    * Each ASCII character is case-mapped as the spec says, at its
      position.
    * A second application changes nothing (spec 8, "Idempotence"). On a
      signed `c_char`, `é` comes back as the sign-extended char
      `0xFFFFFFE9`. `push_char` writes it as the six bytes `FD BF BF BF BF
      A9`, and `each_char` decodes those to one character with the same
      low byte, so idempotence holds even there.
  * The interop functions run on foreign buffers of up to 3 bytes over 0,
    `a`, `0xC3` and `0xA9` (the two bytes of `é`), followed by a 0, at
    every offset and length. `as_c_str`, `to_bytes` and `as_bytes_slice`
    run on every boundary slice of strings of up to 3 characters over NUL,
    `a` and `é`.
    * A string made from foreign memory holds exactly the bytes up to the
      0, or the given length. It is made only if they are UTF-8 and fails
      otherwise. For `buf_as_slice` this is checked where the byte past
      the buffer is a 0.
    * `as_c_str` always gives C the slice's bytes followed by a null. A
      slice that ends inside its owner is copied first.

### Findings (violation runs)

* **`strbuf_push_byte`: a code bug.** `raw::push_byte` stores `b` at offset
  `len + 1`. The following `set_len` writes the null there, so the string
  gains `0` instead of `b` (`str.rs:2206`). `push_bytes` inherits the
  defect.
* **`iter_matches_empty_sep`: diverges from the spec.** An empty separator
  reaches `fail_unless!(sep_len > 0)` (`str.rs:556`). The spec makes it "no
  split" for `split_str` and a no-op for `replace`.
* **`levdistance_utf8`: diverges from the spec.** `levdistance` uses byte
  lengths (`str.rs:620`), so `levdistance("", "é") = 2`. The spec defines
  the distance over characters.
* **`word_wrap`: a code bug.** `split_within` tests `row.len() +
  word.len() + 1 > lim` before every word, the first one too
  (`str.rs:695`). At that point the row is still empty and no space would be
  added. A first word of length at least `lim` therefore pushes the empty
  row: `split_within("a", 0)` is `["", "a"]`, and `split_within("hello",
  5)` is `["", "hello"]`. The spec places such a word alone on its own
  line. `test_split_within` only uses limit 0 with no words, and limit 15.
* **`iterate_char_reverse`: a code bug.** `each_char_reverse` starts at
  `pos = 0` and loops `while pos > 0` (`str.rs:1023`), so it never calls its
  callback. The same holds for `each_chari_reverse`. Their unit tests pass
  vacuously.
* **`utf16_decode`: three defects on the decoding side.** The run checks
  `is_utf16` and `from_utf16` on every vector of up to 2 units over 0, `a`,
  and the surrogate edges `0xD800`, `0xD840`, `0xDBFF`, `0xDC00`, `0xDFFF`.
  * Code bug: `is_utf16` (`str.rs:1603`) returns `false` for every valid
    pair (`[0xD840, 0xDC00]`), and on a lone high surrogate at the end
    (`[0xD800]`, TLC's counterexample) it reads past the vector.
  * Code bug: `utf16_chars` combines a pair as `((u - 0xD800) << 10) | (u2
    - 0xDC00) | 0x1_0000` (`str.rs:1657`). The `|` adds 0x1_0000 only when
    bit 16 of `c - 0x1_0000` is clear, so `from_utf16([0xD840, 0xDC00])`
    gives `U+10000` instead of `U+20000`.
  * Divergence from the spec: `utf16_chars` stops at the first 0 unit
    (`str.rs:1645`), so `from_utf16([0])` is `""` and the round trip
    `from_utf16(to_utf16(s))` loses everything from a NUL on.

### Defects visible in the model that no run checks

The project is limited to twelve runs, so these have no violation run of
their own. Each is listed as a hazard in `PROJECT.json`.

* **`to_lower` / `to_upper`** (`str.rs:715`). Only the low byte of a
  character reaches libc.
  * `to_upper("中")` is `"-"`, and `U+9000` becomes NUL.
  * On a signed `c_char`, `to_lower("é")` is the six bytes `FD BF BF BF BF
    A9`, which are not UTF-8.

  The spec says non-ASCII passes through unchanged. The code's own doc
  comment says "ASCII only", and `test_to_upper` comments out its
  non-ASCII input.
* **`raw::buf_as_slice`** (`str.rs:2146`). It validates `len + 1` bytes,
  the byte past the buffer too.
  * The valid `"a"` followed by `0xC3` is rejected.
  * A lone `0xC3` followed by `0xA9` is accepted, and the closure receives
    a `&str` that is not UTF-8.
* **`split_within`'s doc comment** (`str.rs:678`). It says each row "is
  less than a limit". The code keeps rows of exactly `lim` bytes
  (`split_within("a a", 3)` is `["a a"]`), as spec 4.5's "not exceeding"
  allows. `WrapRowsFit` states the spec's bound.
* **`all_between` / `any_between`** (`str.rs:1873`). An end inside a
  character is not rejected, as the documentation says it is. The
  straddling character is decoded whole.

## Bounds, fairness and what the checks rely on

* **Bounds.** They are chosen so that every width, every fast and slow
  path, the boundary edges and the failure paths occur. Each bound is
  described in the header comment of its MC module.
* **The word list.** `lines` and `words` are taken from `Split`'s reference
  fields instead of from a second copy of the split loop. The `split` run
  checks `SplitMatchesReference` for `split_char_no_trailing` and
  `split_nonempty` on every string of its bound, so the two agree. Every
  input of `library_calls` has at most four characters, like the `split`
  run's.
* **Fairness.** Only `iter_matches` checks a liveness property. It assumes
  `WF_vars(Next)`, which is justified because the library is sequential and
  nothing else can take a step. All other runs check safety only.
* **Deadlock.** Deadlock checking is on everywhere. Terminal states, a
  finished call or a failed task, take an explicit stuttering step
  (`Finished`, `Failed`).
* **Mutants.** At least one mutant of the code breaks every property of a
  passing run. The mutants are listed under `mutants` in `PROJECT.json`.

## Not modelled

* `sys.rs`: compiler intrinsics and runtime FFI. It has no state to
  explore.
* `escape_*`: pure formatting through `char::escape_*`, which is not in
  this repository.
* `as_bytes`: it lends the same bytes to a closure.
* libc's `tolower` / `toupper` are taken to be those of the C locale. The
  Rust runtime never calls `setlocale`. For a negative `c_char`, glibc
  returns the value unchanged.
* The run-pass test: it only type-checks.

## Plan for the remaining parts

1. Violation runs for the defects above, if the run budget allows them.
2. `lines_any` also cuts a lone CR at the very end of the text
   (`lines_any("a\r") = ["a"]`), although the documentation speaks only of
   LF and CR LF separators. `LinesAnyMatchesSpec` is stated for text whose
   every CR precedes an LF.

## A note on TLC's coverage

TLC's coverage bookkeeping walks every path through the operator
definitions at start-up. A `LET` whose definitions refer to one another,
with a deep call inside, multiplies the number of paths at each level. The
trims therefore take the result of `find` / `rfind` as a parameter of
`TrimLeftAt` / `TrimRightAt` rather than through a `LET`. `Transform` does the
same with `SaveLastRow`, `CharOf` and `ShiftOf`.

Coverage also keeps one copy of a deep operator's cost tree per call site.
The four `*_each` wrappers therefore share one call of the split, through
the `EachSplit` table, and `char_len` and `is_alphanumeric` share the arms
of `count_chars` and `all`. With coverage on, `library_calls` takes about a
minute and a half.
