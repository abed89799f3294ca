---------------------------- MODULE MCStrCalls ----------------------------
(***************************************************************************)
(* Inputs of the library calls.                                            *)
(*   from_bytes: every byte string of up to five bytes over ASCII, both    *)
(*             continuation edges (0x80, 0xBF), the lowest 2-byte lead     *)
(*             (0xC0), a 3-, a 4- and a 5-byte lead: five bytes reach      *)
(*             every width up to 5, complete and truncated;                *)
(*   search:   strings of up to three characters from a, é and 邀 (U+9000, *)
(*             whose lead byte 0xE9 is the value of é);                    *)
(*   compare:  strings of up to two characters of every width 1 to 4, with *)
(*             U+07FF / U+0800 (the edge of the 2-byte range) and pairs    *)
(*             (a, b), (é, ê) that differ only in their last byte;         *)
(*   iterate:  strings of up to three characters from a, é and 中;         *)
(*   slices:   strings of up to three characters from space, a, é and the  *)
(*             ideographic space U+3000 (3 bytes, whitespace), trimmed by  *)
(*             the empty set, a 1-byte, a 2-byte and a mixed set;          *)
(*   utf16:    strings of up to two characters from a, U+E000 (first BMP   *)
(*             character past the surrogates), U+D800 (a surrogate, which  *)
(*             legacy UTF-8 encodes), U+10000, U+20000, U+10FFFF and       *)
(*             U+110000; unit vectors of up to two units from 0, a,        *)
(*             0xD800, 0xD840, 0xDBFF, 0xDC00 and 0xDFFF;                  *)
(*   transform: strings of up to four characters from a, space, LF, CR    *)
(*             and é (words of every length up to four, CR LF pairs, lone *)
(*             CRs, multi-byte characters), limits 0 to 5 (below, at and  *)
(*             above a word's length); vectors of up to three elements    *)
(*             from "", a and é joined by "", "," and é;                  *)
(*   each:     strings of up to three characters from a, LF, space and é, *)
(*             split at a or é, stopped at the first, second or no piece; *)
(*   case:     strings of up to three characters from A, [, a, é (low     *)
(*             byte 0xE9, negative as a signed c_char), Ł (U+0141, low    *)
(*             byte 'A') and U+9000 (low byte 0), on both signednesses;   *)
(*   interop:  foreign buffers of up to three bytes from 0, a, 0xC3 and   *)
(*             0xA9 (é split in two) and a final 0, at every offset and   *)
(*             length; strings of up to three characters from NUL, a and  *)
(*             é, sliced at every pair of boundaries.                     *)
(***************************************************************************)
EXTENDS StrCalls

StringsOver(cs, n) ==
    {FlattenSeq([k \in DOMAIN w |-> EncodeChar(w[k])]) :
        w \in UNION {[1..m -> cs] : m \in 0..n}}

MCDecodeInputs == BoundedSeq({65, 128, 191, 192, 228, 240, 248}, 5)


MCSearchStrings == StringsOver({97, 233, 36864}, 3)

MCNeedles == {<< >>, EncodeChar(97), EncodeChar(233),
              EncodeChar(233) \o EncodeChar(97)}

MCCompareStrings == StringsOver({97, 98, 233, 234, 2047, 2048, 20013, 119070}, 2)

MCIterStrings == StringsOver({97, 233, 20013}, 3)

\* Every iterator but the backward character iterators.
MCIterCalls == IterApis \ {"each_char_reverse", "each_chari_reverse"}

MCReverseCharCalls == {"each_char_reverse", "each_chari_reverse"}
MCSliceStrings == StringsOver({32, 97, 233, 12288}, 3)

MCCharSets == {{}, {32}, {233}, {32, 12288}}

MCWhitespace == {10, 13, 32, 12288}
MCUtf16Strings == StringsOver({97, 57344, 55296, 65536, 131072, 1114111, 1114112}, 2)

MCUtf16Units == BoundedSeq({0, 97, 55296, 55360, 56319, 56320, 57343}, 2)

MCTextStrings == StringsOver({97, 32, 10, 13, 233}, 4)

MCEachStrings == StringsOver({97, 10, 32, 233}, 3)

MCJoinVectors == BoundedSeq({<< >>, << 97 >>, EncodeChar(233)}, 3)

MCJoinSeps == {<< >>, << 44 >>, EncodeChar(233)}

MCCaseStrings == StringsOver({65, 91, 97, 233, 321, 36864}, 3)

MCCBuffers == {m \o << 0 >> : m \in BoundedSeq({0, 97, 195, 169}, 3)}

MCOwnerStrings == StringsOver({0, 97, 233}, 3)
====
