------------------------------ MODULE StrCalls ------------------------------
(***************************************************************************)
(* A caller of the read-only functions of src/libcore/str.rs: from_bytes   *)
(* and the forward and backward decoding walks (Utf8Decode), searching     *)
(* (Search), comparing (Ordering), iterating (Iterate) and the slice,      *)
(* count, predicate and trim functions (Slices), and the UTF-16 functions  *)
(* (Utf16), the join, line, word, character-access and case-mapping      *)
(* functions (Transform), and the byte and C-string interop (Interop).    *)
(* Each step is                                                            *)
(* one whole call with arguments drawn from the constants; the call runs   *)
(* to completion (the library is single-threaded) and either returns or    *)
(* ends the task with fail_unless!.                                        *)
(***************************************************************************)
EXTENDS Utf8Decode, Search, Ordering, Iterate, Slices, Utf16, Transform,
        Interop

CONSTANTS
    DecodeInputs,    \* the byte strings handed to from_bytes
    SearchStrings,   \* haystacks of the search functions
    SearchChars,     \* characters c of the *_char functions
    Preds,           \* predicates f of find / rfind, as sets of characters
    Needles,         \* needles of find_str, contains, starts_with, ends_with
    AnyOffsets,      \* TRUE: a search's start ranges over every byte
                     \* offset; FALSE: only over character boundaries
    CompareStrings,  \* operands of the comparisons
    IterStrings,     \* strings iterated
    IterCalls,       \* the iterators called (a subset of IterApis)
    Stops,           \* call numbers at which `it` returns false (0: never)
    SliceStrings,    \* strings given to the Slices functions
    CharSets,        \* chars_to_trim and the predicates of all / any
    Whitespace,      \* the characters char::is_whitespace accepts
    Counts,          \* the n of substr and count_bytes
    Utf16Calls,      \* the UTF-16 functions called (a subset of Utf16Apis)
    Utf16Strings,    \* strings given to to_utf16
    Utf16Units,      \* unit vectors given to is_utf16 and from_utf16
    TransformCalls,  \* the Transform functions called
    TextStrings,     \* strings given to them
    JoinVectors,     \* vectors given to concat / connect / connect_slices
    JoinSeps,        \* separators of connect, right operands of append
    TextChars,       \* characters given to from_char and the split*_each
    EachStrings,     \* strings whose split pieces the *_each wrappers walk
    WrapLimits,      \* the lim of split_within
    CaseStrings,     \* strings given to to_lower and to_upper
    InteropCalls,    \* the Interop functions called
    CBuffers,        \* foreign memory, each ending in a 0 byte
    OwnerStrings     \* strings sliced for as_c_str, to_bytes, ...

ASSUME IterCalls \subseteq IterApis /\ Stops \subseteq Nat /\
       TransformCalls \subseteq TransformApis /\
       InteropCalls \subseteq InteropApis /\
       \A m \in CBuffers : Len(m) > 0 /\ m[Len(m)] = 0

VARIABLES
    api,     \* the function called, "none" before the call
    x, y,    \* its string arguments
    args,    \* its other arguments
    ret,     \* what it returned
    status   \* "idle", "returned" or "failed"

vars == << api, x, y, args, ret, status >>

\* The character boundaries of h, and the byte offsets passed as start.
Boundaries(h) == {k \in 0..Len(h) : is_char_boundary(h, k)}
Offsets(h) == IF AnyOffsets THEN 0..Len(h) ELSE Boundaries(h)

\* The arguments of a call of f on h; those f does not take are fixed, so
\* that calls differing only in them are one state.
SearchArgs(f, h) ==
    LET takes_c     == f \in {"find_char", "find_char_from", "find_char_between",
                              "rfind_char", "rfind_char_from",
                              "rfind_char_between", "contains_char"}
        takes_f     == f \in {"find", "find_from", "find_between", "rfind",
                              "rfind_from", "rfind_between"}
        takes_start == f \in {"find_char_from", "find_char_between",
                              "rfind_char_from", "rfind_char_between",
                              "find_from", "find_between", "rfind_from",
                              "rfind_between", "find_str_from",
                              "find_str_between"}
        takes_end   == f \in {"find_char_between", "rfind_char_between",
                              "find_between", "rfind_between",
                              "find_str_between"}
    IN  {[c     |-> IF takes_c THEN c ELSE 0,
          f     |-> IF takes_f THEN p ELSE {},
          n     |-> IF ~takes_c /\ ~takes_f THEN n ELSE << >>,
          start |-> IF takes_start THEN st ELSE 0,
          end   |-> IF takes_end THEN en ELSE 0] :
            c \in SearchChars, p \in Preds, n \in Needles,
            st \in Offsets(h), en \in Boundaries(h)}

\* The arguments of a call of a Slices function f on h, fixed where f does
\* not take them.  start ranges over every offset (the functions check
\* it); the end of all_between / any_between only over boundaries, the
\* only ends their documentation allows and the code does not check.
SliceArgs(f, h) ==
    LET takes_T     == f \in {"trim_left_chars", "trim_right_chars", "trim_chars",
                              "all_between", "any_between", "all", "any",
                              "is_alphanumeric"}
        takes_start == f \in {"slice", "substr", "count_chars", "count_bytes",
                              "all_between", "any_between"}
        takes_end   == f \in {"slice", "count_chars", "char_len", "all_between",
                              "any_between"}
        takes_count == f \in {"substr", "count_bytes"}
        Ends == CASE f \in {"all_between", "any_between"} -> Boundaries(h)
                  [] f = "char_len"                     -> {Len(h)}
                  [] OTHER                              -> 0..Len(h)
    IN  [T     : IF takes_T THEN CharSets ELSE {{}},
         start : IF takes_start THEN 0..Len(h) ELSE {0},
         end   : IF takes_end THEN Ends ELSE {0},
         count : IF takes_count THEN Counts ELSE {0}]

\* The arguments of a call of a Transform function f on h, fixed where f
\* does not take them.
TransformArgs(f, h) ==
    [v   : IF f \in VectorApis THEN JoinVectors ELSE {<< >>},
     sep : IF f \in {"connect", "connect_slices", "append"} THEN JoinSeps
           ELSE {<< >>},
     c   : IF f \in {"from_char", "split_char_each", "splitn_char_each"}
           THEN TextChars ELSE {0},
     n   : IF f \in {"repeat", "splitn_char_each"} THEN Counts ELSE {0},
     stop : IF f \in EachApis THEN Stops ELSE {0},
     lim : IF f = "split_within" THEN WrapLimits ELSE {0},
     i   : IF f \in {"char_at", "char_at_reverse"} THEN 0..Len(h) ELSE {0},
     signed : IF f \in CaseApis THEN BOOLEAN ELSE {FALSE}]

\* The arguments of an Interop function f on m: a pointer offset p and a
\* length len into foreign memory, with the byte past them readable (the
\* C side's terminator or more of its buffer); the bounds [p, p + len) of
\* a slice for as_c_str; nothing for the others.
InteropArgs(f, m) ==
    CASE f \in {"from_buf", "from_c_str", "raw_from_byte", "from_byte"} ->
             {[p |-> q, len |-> 0] : q \in 0..Len(m) - 1}
      [] f \in ForeignApis ->
             UNION {{[p |-> q, len |-> n] : n \in 0..Len(m) - 1 - q} :
                        q \in 0..Len(m) - 1}
      [] f = "as_c_str" ->
             {[p |-> b, len |-> e - b] :
                 <<b, e>> \in {be \in Boundaries(m) \X Boundaries(m) : be[1] <= be[2]}}
      [] OTHER -> {[p |-> 0, len |-> 0]}

Init ==
    /\ api = "none"
    /\ x = << >>
    /\ y = << >>
    /\ args = [stop |-> 0]
    /\ ret = "none"
    /\ status = "idle"

\* A call of from_bytes on raw bytes, then both walks over the string.
CallFromBytes ==
    /\ status = "idle"
    /\ \E v \in DecodeInputs :
          LET r == DecodeCall(v)
          IN  /\ api' = "from_bytes"
              /\ x' = v
              /\ y' = << >>
              /\ args' = [stop |-> 0]
              /\ ret' = r
              /\ status' = IF r.ok THEN "returned" ELSE "failed"

\* A call of a search function: it returns Ok(v) or fails.
CallSearch ==
    /\ status = "idle"
    /\ \E f \in SearchApis, h \in SearchStrings :
        \E a \in SearchArgs(f, h) :
          /\ SearchOrdered(f, a)
          /\ LET r == SearchInvoke(f, h, a)
             IN  /\ ret' = r
                 /\ status' = IF r.ok THEN "returned" ELSE "failed"
          /\ api' = f
          /\ x' = h
          /\ y' = << >>
          /\ args' = a

\* A call of eq / ne / cmp / lt / le / ge / gt.
CallCompare ==
    /\ status = "idle"
    /\ \E o \in CompareOps, a \in CompareStrings, b \in CompareStrings :
          /\ api' = o
          /\ x' = a
          /\ y' = b
          /\ args' = [stop |-> 0]
          /\ ret' = CompareInvoke(o, a, b)
          /\ status' = "returned"

\* A call of an iterator with a callback that returns false at call number
\* st; ret records the calls the callback received.
CallIterate ==
    /\ status = "idle"
    /\ \E f \in IterCalls, h \in IterStrings, st \in Stops :
          /\ api' = f
          /\ x' = h
          /\ y' = << >>
          /\ args' = [stop |-> st]
          /\ ret' = IterInvoke(f, h, st)
          /\ status' = "returned"

\* A call of a Slices function: it returns Ok(v) or fails.
CallSlice ==
    /\ status = "idle"
    /\ \E f \in SliceApis, h \in SliceStrings :
        \E a \in SliceArgs(f, h) :
          LET r == SliceInvoke(f, h, a, Whitespace)
          IN  /\ api' = f
              /\ x' = h
              /\ y' = << >>
              /\ args' = a
              /\ ret' = r
              /\ status' = IF r.ok THEN "returned" ELSE "failed"

\* A call of is_utf16, to_utf16 or from_utf16.
CallUtf16 ==
    /\ status = "idle"
    /\ \E f \in Utf16Calls :
        \E h \in IF f = "to_utf16" THEN Utf16Strings ELSE Utf16Units :
          LET r == CASE f = "is_utf16"   -> is_utf16(h)
                     [] f = "to_utf16"   -> to_utf16(h)
                     [] f = "from_utf16" -> from_utf16(h)
          IN  /\ api' = f
              /\ x' = h
              /\ y' = << >>
              /\ args' = [stop |-> 0]
              /\ ret' = r
              /\ status' = IF r.ok THEN "returned" ELSE "failed"

\* A call of a Transform function.
CallTransform ==
    /\ status = "idle"
    /\ \E f \in TransformCalls :
        \E h \in CASE f \in VectorApis \cup {"from_char"} -> {<< >>}
                  [] f \in CaseApis                     -> CaseStrings
                  [] f \in EachApis                     -> EachStrings
                  [] OTHER                              -> TextStrings :
          \E a \in TransformArgs(f, h) :
            LET r == TransformInvoke(f, h, a, Whitespace)
            IN  /\ api' = f
                /\ x' = h
                /\ y' = << >>
                /\ args' = a
                /\ ret' = r
                /\ status' = IF r.ok THEN "returned" ELSE "failed"

\* A call of an Interop function on foreign memory or on a string.
CallInterop ==
    /\ status = "idle"
    /\ \E f \in InteropCalls :
        \E m \in IF f \in ForeignApis THEN CBuffers ELSE OwnerStrings :
          \E a \in InteropArgs(f, m) :
            LET r == InteropInvoke(f, m, a)
            IN  /\ api' = f
                /\ x' = m
                /\ y' = << >>
                /\ args' = a
                /\ ret' = r
                /\ status' = IF r.ok THEN "returned" ELSE "failed"

Finished ==
    /\ status \in {"returned", "failed"}
    /\ UNCHANGED vars

Next ==
    \/ CallFromBytes \/ CallSearch \/ CallCompare \/ CallIterate
    \/ CallSlice \/ CallUtf16 \/ CallTransform \/ CallInterop
    \/ Finished

Spec == Init /\ [][Next]_vars

-----------------------------------------------------------------------------

\* Neither char_range_at walking forward nor char_range_at_reverse walking
\* backward ever fails on a string that from_bytes (is_utf8) accepted.
DecodersAcceptValidated ==
    api = "from_bytes" /\ status = "returned" =>
        \A w \in {ret.val.fwd, ret.val.bwd} : \A k \in DOMAIN w : w[k] # WalkFailed

\* Walking backward with char_range_at_reverse meets exactly the
\* characters, at exactly the offsets, that walking forward met, in
\* reverse order.
BackwardMatchesForward ==
    api = "from_bytes" /\ status = "returned" => ret.val.bwd = Reverse(ret.val.fwd)

\* is_char_boundary holds at exactly the offsets where the forward walk
\* started a character, and at the end.
BoundaryAgreement ==
    api = "from_bytes" /\ status = "returned" =>
        \A i \in 0..Len(x) :
            is_char_boundary(x, i) <=>
                (i = Len(x) \/ \E k \in DOMAIN ret.val.fwd : ret.val.fwd[k].at = i)

\* Every search function, called within its documented contract, returns
\* what its documentation says: the byte scans of find_char_between and
\* rfind_char_between find the same character the decoding loops of
\* find_between and rfind_between would, rfind_* returns the start of the
\* match rather than the offset after it, and the naive find_str_between
\* finds the leftmost occurrence inside [start, end).
SearchMatchesReference ==
    status # "idle" /\ api \in SearchApis /\
    (api \in BoundaryApis => is_char_boundary(x, args.start)) =>
        ret = SearchExpected(api, x, args)

\* Even from a start inside a character, which the documentation rules out
\* and only the decoding paths check, a character search that returns
\* Some(k) has found a real occurrence: k is a character boundary inside
\* the searched range and the character there is one that was asked for.
\* The byte paths of find_char_between / rfind_char_between skip the
\* boundary check; this holds only because they are taken for ASCII alone.
SearchHitIsOccurrence ==
    status = "returned" /\ api \in FwdApis \cup RevApis /\
    api \notin {"contains_char"} /\ ret.val # None =>
        LET k == ret.val[1]
            b == Bounds(api, x, args)
        IN  /\ is_char_boundary(x, k)
            /\ IF api \in FwdApis THEN b[1] <= k /\ k < b[2]
               ELSE b[2] <= k /\ k < b[1]
            /\ CharRangeAt(x, k).ch \in Wanted(api, args)

\* eq_slice, cmp and the four Ord methods all agree with one byte-wise
\* lexicographic order, in which equality is equality of length and
\* content: two separate loops (cmp and lt) and eq_slice's memcmp over
\* as_buf's lengths must not disagree on any pair.
ComparisonMatchesReference ==
    api \in CompareOps => ret = ExpectedByBytes(api, x, y)

\* On valid UTF-8 the byte order is the order of the decoded code points:
\* sorting strings with lt sorts them by characters, whatever their widths.
ByteOrderIsCharOrder ==
    api = "lt" => ret = LexLess(chars(x), chars(y))

\* Every iterator calls `it` on its items in the promised order, each with
\* its right index, and stops exactly after the call that returned false
\* (or after the last item): `it` is never called again after a false.
VisitsPromisedPrefix ==
    api \in IterApis => ret = PromisedPrefix(api, x, args.stop)

\* Every trim returns the characters of its argument with those of the
\* trim set stripped from its side(s): find / rfind of the first and last
\* character outside the set, and the slice up to char_range_at(s,
\* last).next, keep whole characters even when the kept or the trimmed
\* ones are several bytes wide; trim and trim_chars compose two of them.
TrimMatchesReference ==
    api \in TrimApis =>
        ret.ok /\ chars(ret.val) = TrimExpected(api, x, args, Whitespace)

\* slice, substr, count_chars and count_bytes fail exactly when their
\* documentation says (an offset inside a character, too few characters
\* left for n), and otherwise substr's count_bytes walk and count_chars'
\* decoding loop agree with the characters of the string.
CountsMatchReference ==
    api \in CountApis => ret = CountExpected(api, x, args)

\* all_between, any_between (through its doubly negated closure), all,
\* any, is_whitespace, is_ascii (a backward byte loop) and is_empty say
\* what their documentation says of the characters of the string.
PredicatesMatchReference ==
    api \in PredApis => ret = PredExpected(api, x, args, Whitespace)

\* to_utf16 encodes every character as the spec's surrogate-pairing rule
\* says (ch -= 0x1_0000, then the high ten bits and the low ten bits in
\* two units), and fails on a character UTF-16 cannot carry: a surrogate
\* code point or one above 0x10_FFFF, both of which is_utf8 lets through.
ToUtf16MatchesSpec ==
    api = "to_utf16" =>
        ret = IF \A k \in DOMAIN chars(x) : Encodable(chars(x)[k])
              THEN Ok(FlattenSeq([k \in DOMAIN chars(x) |-> EncodeSpec(chars(x)[k])]))
              ELSE Failure

\* The decoding side of UTF-16 agrees with the spec's pairing rule:
\* is_utf16 returns whether a unit vector is valid UTF-16 (a surrogate pair
\* included), and from_utf16 decodes every valid vector, a 0 unit
\* included, to the characters the rule gives (the round trip
\* from_utf16(to_utf16(s)) = s), and fails on a lone or mismatched
\* surrogate.
Utf16DecodingMatchesSpec ==
    /\ api = "is_utf16" => ret = Ok(ValidSpec(x))
    /\ api = "from_utf16" =>
           IF ValidSpec(x) THEN ret.ok /\ chars(ret.val) = DecodeSpec(x)
           ELSE ret = Failure

\* Reference, spec 4.5: the elements of v with sep between each two of
\* them, none before the first or after the last.
RECURSIVE Interpose(_, _)
Interpose(v, sep) ==
    CASE Len(v) = 0 -> << >>
      [] Len(v) = 1 -> Head(v)
      [] OTHER      -> Head(v) \o sep \o Interpose(Tail(v), sep)

\* connect and connect_slices interpose the separator as the spec says (the
\* `first` flag of their loops), concat and repeat emit their strings in
\* order and n times with nothing between, append puts rhs after lhs, and
\* from_char / from_chars encode exactly the characters they are given.
JoinMatchesSpec ==
    status # "idle" /\ api \in TransformApis =>
        CASE api \in {"connect", "connect_slices"} ->
                 ret = Ok(Interpose(args.v, args.sep))
          [] api = "concat"     -> ret = Ok(Interpose(args.v, << >>))
          [] api = "repeat"     -> ret = Ok(Interpose([k \in 1..args.n |-> x], << >>))
          [] api = "append"     -> ret = Ok(x \o args.sep)
          [] api = "from_chars" -> ret = Ok(x)
          [] api = "from_char"  -> ret.ok /\ chars(ret.val) = << args.c >>
          [] OTHER              -> TRUE

\* Every '\r' of s is the first half of a "\r\n".
CrOnlyBeforeLf(s) == \A k \in DOMAIN s : s[k] = 13 => k < Len(s) /\ s[k + 1] = 10

\* lines_any returns the lines its documentation speaks of, separated by
\* "\n" or "\r\n": those of the text with every "\r\n" read as "\n" (here:
\* with its carriage returns, all of which precede a '\n', left out).  The
\* code gets them by splitting at '\n' and cutting one '\r' off the end of
\* each line (set_len(l - 1)).  Stated for text whose every '\r' is the
\* first half of a "\r\n"; the code also cuts a lone '\r' at the very end.
LinesAnyMatchesSpec ==
    status # "idle" /\ api = "lines_any" /\ CrOnlyBeforeLf(x) =>
        ret = Ok(lines(SelectSeq(x, LAMBDA b : b # 13)))

\* The characters a *_each wrapper cuts at: char::is_whitespace for
\* words_each, '\n' for lines_each, the given character otherwise.
EachCuts == CASE api = "words_each" -> Whitespace
              [] api = "lines_each" -> {10}
              [] OTHER              -> {args.c}

\* The pieces a *_each wrapper hands its callback are the string's pieces
\* between separators, in order, and vec::each stops at the first call that
\* returns false: never more than `stop` pieces; no piece holds a separator
\* (but splitn's last, past the count-th cut), none of words_each's is
\* empty; the pieces, read with their separators, are where the string
\* begins; and when the callback never said false they are all of it:
\* every separator in its place for split_char_each and splitn_char_each,
\* a final '\n' left out for lines_each, only the non-whitespace
\* characters for words_each.
EachVisitsPieces ==
    status = "returned" /\ api \in EachApis =>
        /\ args.stop # 0 => Len(ret.val) <= args.stop
        /\ api = "splitn_char_each" => Len(ret.val) <= args.n + 1
        /\ \A k \in DOMAIN ret.val :
               /\ \/ api = "splitn_char_each" /\ k = Len(ret.val)
                  \/ Range(chars(ret.val[k])) \cap EachCuts = {}
               /\ api = "words_each" => ret.val[k] # << >>
        /\ IF api = "words_each"
           THEN LET kept == SelectSeq(chars(x), LAMBDA ch : ch \notin Whitespace)
                    seen == chars(Interpose(ret.val, << >>))
                IN  IF args.stop = 0 \/ Len(ret.val) < args.stop
                    THEN seen = kept ELSE IsPrefix(seen, kept)
           ELSE LET joined == Interpose(ret.val, EncodeChar(CHOOSE ch \in EachCuts : TRUE))
                    tail   == IF api = "lines_each" /\ x # << >> /\ x[Len(x)] = 10
                              THEN << 10 >> ELSE << >>
                IN  IF args.stop = 0 \/ Len(ret.val) < args.stop
                    THEN joined \o tail = x ELSE IsPrefix(joined, x)

\* The rows of a split_within call, once it has returned.
Rows == IF status = "returned" /\ api = "split_within" THEN ret.val ELSE << >>

\* Spec 4.5: no row of split_within exceeds the limit unless it is a single
\* word (which is never broken).  A row may be exactly lim bytes long, as
\* the spec's "not exceeding" allows and the check at str.rs:695 keeps
\* (split_within("a a", 3) = ["a a"]); the doc comment of split_within
\* (str.rs:678) says each row "is less than a limit", which the code does
\* not keep.
WrapRowsFit ==
    \A k \in DOMAIN Rows :
        Len(Rows[k]) <= args.lim \/ Len(words(Rows[k], Whitespace)) <= 1

\* split_within loses, adds and reorders no word: the words of its rows,
\* read in order, are the words of its argument.
WrapKeepsWords ==
    api = "split_within" /\ status = "returned" =>
        words(connect(Rows, << 32 >>), Whitespace) = words(x, Whitespace)

\* split_within is greedy: a row is ended only when the next row's first
\* word, with its separating space, would not have fitted on it.
WrapIsGreedy ==
    \A k \in 1..Len(Rows) - 1 :
        Rows[k] # << >> =>
            Len(Rows[k]) + 1 + Len(Head(words(Rows[k + 1], Whitespace))) > args.lim

\* Spec 4.5: split_within packs the words into lines, a word longer than
\* the limit alone on its own line; none of the lines is empty.
WrapNoEmptyRow ==
    \A k \in DOMAIN Rows : Rows[k] # << >>

\* The number of characters that start before byte offset i.
CharsBefore(s, i) == Cardinality({j \in 0..Len(s) - 1 : j < i /\ is_char_boundary(s, j)})

\* At a character boundary, char_at returns the character starting there
\* and fails at the end of the string; char_at_reverse returns the
\* character ending there and fails at offset 0, where its walk wraps the
\* uint; slice_shift_char returns the first character and a slice holding
\* exactly the others, and fails on "".
CharAccessMatchesChars ==
    status # "idle" =>
        CASE api = "char_at" /\ is_char_boundary(x, args.i) ->
                 ret = IF args.i < Len(x)
                       THEN Ok(chars(x)[CharsBefore(x, args.i) + 1]) ELSE Failure
          [] api = "char_at_reverse" /\ is_char_boundary(x, args.i) ->
                 ret = IF args.i > 0
                       THEN Ok(chars(x)[CharsBefore(x, args.i)]) ELSE Failure
          [] api = "slice_shift_char" ->
                 IF x = << >> THEN ret = Failure
                 ELSE ret.ok /\ ret.val[1] = Head(chars(x))
                             /\ chars(ret.val[2]) = Tail(chars(x))
          [] OTHER -> TRUE

\* Spec 4.6 "ASCII case mapping": the ASCII letters change case, every
\* other ASCII character stays.
AsciiCase(f, c) ==
    CASE f = "to_lower" /\ c >= 65 /\ c <= 90  -> c + 32
      [] f = "to_upper" /\ c >= 97 /\ c <= 122 -> c - 32
      [] OTHER                                  -> c

\* Spec 8 "Idempotence": to_lower(to_lower(s)) == to_lower(s), and so for
\* to_upper, on either c_char signedness.  It must survive what the
\* (tolower(c as c_char)) as char closure does to a character above
\* 0x7F: the low byte kept, a negative c_char sign-extended and pushed in
\* six bytes, which each_char must decode back to the same low byte.
CaseMapIdempotent ==
    api \in CaseApis /\ status = "returned" =>
        TransformInvoke(api, ret.val, args, Whitespace) = ret

\* to_lower and to_upper return one character per character of their
\* argument, whatever the truncation to c_char makes of it, and each ASCII
\* character comes back case-mapped as the spec says, at its position.
CaseMapKeepsAscii ==
    api \in CaseApis /\ status = "returned" =>
        LET cs == chars(x)
            rs == chars(ret.val)
        IN  /\ Len(rs) = Len(cs)
            /\ \A k \in DOMAIN cs : cs[k] < 128 => rs[k] = AsciiCase(api, cs[k])

\* The bytes of foreign memory a call reads: from p up to the first 0 for
\* the C-string functions, len bytes from p for the others.
ForeignRegion(f, m, a) ==
    CASE f \in {"from_buf", "from_c_str"} ->
             SubSeq(m, a.p + 1, Min({k \in a.p..Len(m) - 1 : At(m, k) = 0}))
      [] f = "raw_from_byte" -> << At(m, a.p) >>
      [] OTHER -> SubSeq(m, a.p + 1, a.p + a.len)

\* Spec 6 "C-string interop boundary": a string made from foreign memory
\* holds exactly the bytes of its region (up to the 0, or the given
\* length) and is made only after they pass validation; it fails otherwise.
\* This holds for from_buf's scan, for from_buf_len's copy, set_len and
\* pushed null, and for buf_as_slice where the byte past its region is a
\* 0 (a C string's terminator).
ForeignBytesValidated ==
    api \in ForeignApis /\ status # "idle" /\
    (api = "buf_as_slice" => At(x, args.p + args.len) = 0) =>
        LET region == ForeignRegion(api, x, args)
        IN  ret = IF is_utf8(region) THEN Ok(region) ELSE Failure

\* Spec 6: as_c_str hands f a pointer to the slice's bytes followed by a
\* null, for every slice, including one whose next byte in its owner is
\* not a null and must be copied first; it never fails.
CStrViewIsSlice ==
    api = "as_c_str" /\ status # "idle" =>
        LET s == SubSeq(x, args.p + 1, args.p + args.len)
        IN  ret.ok /\ SubSeq(ret.val, 1, Len(s) + 1) = s \o << 0 >>

====
