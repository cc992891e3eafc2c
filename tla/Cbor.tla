-------------------------------- MODULE Cbor --------------------------------
(* CBOR: parse_cbor_internal() of binary_reader with the functions it       *)
(* calls, and write_cbor() of binary_writer.                                *)
(*                                                                          *)
(* An initial byte is 32 times a major type plus 0..23, the argument        *)
(* itself, or 24..27, an argument in the next 1, 2, 4 or 8 bytes, or 31,    *)
(* an indefinite length: the cases of the switch in the code.               *)
EXTENDS ByteReader
LOCAL INSTANCE SequencesExt

Break == 255
Major(first) == first..(first + 27)
Argument(s) ==
    LET low == s.cur % 32
    IN IF low < 24 THEN [s EXCEPT !.val = Word(low)]
       ELSE Then(GetNumber(s, 2^(low - 24), FALSE), LAMBDA t : [t EXCEPT !.val = ZeroExtend(@)])

(* The length of a container is a size_t, and its largest value is          *)
(* unknown_size().                                                          *)
Length(w) == IF w = Repeat(255, 8) THEN Unknown ELSE Count(w)
-----------------------------------------------------------------------------
(* A string or a byte array, in chunks if its length is indefinite; a       *)
(* chunk may have chunks.                                                   *)
RECURSIVE GetPart(_, _), GetChunks(_, _, _)
GetPart(s, first) ==
    CASE s.cur = Eof -> Fail(s, 110)
      [] s.cur \in Major(first) -> Then(Argument(s), LAMBDA t : GetBytes(t, Count(t.val)))
      [] s.cur = first + 31 -> GetChunks(s, first, <<>>)
      [] OTHER -> Fail(s, 113)
GetChunks(s, first, result) ==
    LET t == Get(s)
    IN IF t.cur = Break THEN [t EXCEPT !.val = result]
       ELSE Then(GetPart(t, first), LAMBDA u : GetChunks(u, first, result \o u.val))

GetCborString(s) == GetPart(s, 96)
GetCborBinary(s) == GetPart(s, 64)

GetUnsigned(s) == Then(Argument(s), LAMBDA t : SendValue(t, Unsigned(t.val)))
GetNegative(s) == Then(Argument(s), LAMBDA t : SendValue(t, Integer(Complement(t.val))))

GetHalf(s) == Then(GetBytes(s, 2), LAMBDA t : SendValue(t, Float(HalfToDouble(t.val))))
GetFloat(s) ==
    IF s.cur = 250 THEN Then(GetNumber(s, 4, FALSE), LAMBDA t : SendValue(t, Float(Widen(t.val))))
    ELSE Then(GetNumber(s, 8, FALSE), LAMBDA t : SendValue(t, Float(t.val)))

(* The tags with an argument are 216..219; their width is that of the tag.  *)
Tags == (198..212) \cup (216..219)
TagNumber(s) ==
    IF s.cur < 216 THEN s
    ELSE Then(GetNumber(s, 2^(s.cur - 216), FALSE), LAMBDA t : [t EXCEPT !.val = ZeroExtend(@)])

RECURSIVE ParseCbor(_, _, _), ArrayElements(_, _, _), Members(_, _, _)

(* Elements one by one, until len is reached or at the break.               *)
ArrayElements(s, len, tags) ==
    CASE s.err # 0 -> s
      [] len = 0 -> Send(s, EndArray)
      [] len = Unknown ->
            LET t == Get(s)
            IN IF t.cur = Break THEN Send(t, EndArray)
               ELSE ArrayElements(ParseCbor(t, FALSE, tags), Unknown, tags)
      [] OTHER -> ArrayElements(ParseCbor(s, TRUE, tags), len - 1, tags)
GetCborArray(s, len, tags) ==
    Then(SendStart(s, StartArray(len)), LAMBDA t : ArrayElements(t, len, tags))

Members(s, len, tags) ==
    CASE s.err # 0 -> s
      [] len = 0 -> Send(s, EndObject)
      [] OTHER ->
            LET t == Get(s)
            IN IF len = Unknown /\ t.cur = Break THEN Send(t, EndObject)
               ELSE Members(Then(GetCborString(t), LAMBDA u : ParseCbor(Send(u, Key(u.val)), TRUE, tags)),
                            IF len = Unknown THEN len ELSE len - 1, tags)
GetCborObject(s, len, tags) ==
    Then(SendStart(s, StartObject(len)), LAMBDA t : Members(t, len, tags))

(* A tag is an error, or is skipped with its number, or - if it has a       *)
(* number - becomes the subtype of the byte array that must follow.         *)
GetTagged(s, tags) ==
    CASE tags = "error" -> Fail(s, 112)
      [] tags = "store" /\ s.cur >= 216 ->
            Then(TagNumber(s), LAMBDA t :
                Then(GetCborBinary(Get(t)), LAMBDA u : SendValue(u, Binary(u.val, t.val))))
      [] OTHER -> Then(TagNumber(s), LAMBDA t : ParseCbor(t, TRUE, tags))

GetString(s) ==
    IF s.cur < 96 THEN Then(GetCborBinary(s), LAMBDA t : SendValue(t, Binary(t.val, NoSubtype)))
    ELSE Then(GetCborString(s), LAMBDA t : SendValue(t, String(t.val)))
GetItems(s, tags) ==
    IF s.cur = 159 THEN GetCborArray(s, Unknown, tags)
    ELSE Then(Argument(s), LAMBDA t : GetCborArray(t, Length(t.val), tags))
GetPairs(s, tags) ==
    IF s.cur = 191 THEN GetCborObject(s, Unknown, tags)
    ELSE Then(Argument(s), LAMBDA t : GetCborObject(t, Length(t.val), tags))

ParseCbor(s0, get_char, tags) ==
    LET s == IF get_char THEN Get(s0) ELSE s0
    IN CASE s.cur = Eof -> Fail(s, 110)
         [] s.cur \in Major(0) -> GetUnsigned(s)
         [] s.cur \in Major(32) -> GetNegative(s)
         [] s.cur \in UNION {Major(64), {95}, Major(96), {127}} -> GetString(s)
         [] s.cur \in Major(128) \cup {159} -> GetItems(s, tags)
         [] s.cur \in Major(160) \cup {191} -> GetPairs(s, tags)
         [] s.cur \in Tags -> GetTagged(s, tags)
         [] s.cur \in {244, 245} -> SendValue(s, Boolean(s.cur = 245))
         [] s.cur = 246 -> SendValue(s, Null)
         [] s.cur = 249 -> GetHalf(s)
         [] s.cur \in {250, 251} -> GetFloat(s)
         [] OTHER -> Fail(s, 112)

FromCbor(bytes, tags) == Result(Then(ParseCbor(Reading(bytes), TRUE, tags), LAMBDA s : StrictEnd(s, Get)))
-----------------------------------------------------------------------------
Initial(first, w) ==
    IF AtMost(w, Word(23)) THEN <<first + w[8]>>
    ELSE <<first + CASE Width(w) = 1 -> 24 [] Width(w) = 2 -> 25 [] Width(w) = 4 -> 26 [] OTHER -> 27>>
         \o WriteNumber(w, Width(w), FALSE)

WriteFloat(d) ==
    CASE IsNaN(d) -> <<249, 126, 0>>
      [] IsInf(d) -> <<249, IF d[1] >= 128 THEN 252 ELSE 124, 0>>
      [] OTHER -> CompactFloat(d, 250, 251)

WriteSubtype(w) ==
    IF w = NoSubtype THEN <<>>
    ELSE <<CASE Width(w) = 1 -> 216 [] Width(w) = 2 -> 217 [] Width(w) = 4 -> 218 [] OTHER -> 219>>
         \o WriteNumber(w, Width(w), FALSE)

RECURSIVE WriteCbor(_)
WriteCbor(v) ==
    CASE Type(v) = "null" -> <<246>>
      [] Type(v) = "boolean" -> <<IF v[2] THEN 245 ELSE 244>>
      [] Type(v) = "integer" /\ Negative(v[2]) -> Initial(32, Complement(v[2]))
      [] IsInteger(v) -> Initial(0, v[2])
      [] Type(v) = "float" -> WriteFloat(v[2])
      [] Type(v) = "string" -> Initial(96, Word(Len(v[2]))) \o v[2]
      [] Type(v) = "binary" -> WriteSubtype(v[3]) \o Initial(64, Word(Len(v[2]))) \o v[2]
      [] IsArray(v) -> Initial(128, Word(Len(v[2]))) \o FlattenSeq([i \in DOMAIN v[2] |-> WriteCbor(v[2][i])])
      [] IsObject(v) ->
            LET keys == Keys(v[2])
            IN Initial(160, Word(Len(keys))) \o
               FlattenSeq([i \in DOMAIN keys |-> WriteCbor(String(keys[i])) \o WriteCbor(v[2][keys[i]])])
      [] OTHER -> <<>>
=============================================================================
