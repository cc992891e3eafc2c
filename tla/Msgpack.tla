------------------------------ MODULE Msgpack ------------------------------
(* MessagePack: parse_msgpack_internal() of binary_reader with the          *)
(* functions it calls, and write_msgpack() of binary_writer.  The markers   *)
(* of a family follow each other, and the width of what comes next doubles  *)
(* from one to the next.                                                    *)
EXTENDS ByteReader
LOCAL INSTANCE SequencesExt

WidthFrom(s, marker) == 2^(s.cur - marker)
GetUint(s, marker) ==
    Then(GetNumber(s, WidthFrom(s, marker), FALSE), LAMBDA t : [t EXCEPT !.val = ZeroExtend(@)])
GetSize(s, marker, Op(_, _)) == Then(GetUint(s, marker), LAMBDA t : Op(t, Count(t.val)))
-----------------------------------------------------------------------------
GetMsgpackString(s) ==
    CASE s.cur = Eof -> Fail(s, 110)
      [] s.cur \in 160..191 -> GetBytes(s, s.cur % 32)
      [] s.cur \in 217..219 -> GetSize(s, 217, GetBytes)
      [] OTHER -> Fail(s, 113)

(* An ext is a length, a subtype of one byte and the bytes; a fixext has no *)
(* length; a bin has no subtype.                                            *)
GetExt(s, len) ==
    Then(GetNumber(s, 1, FALSE), LAMBDA t :
        Then(GetBytes(t, len), LAMBDA u : SendValue(u, Binary(u.val, ZeroExtend(t.val)))))
GetMsgpackBinary(s) ==
    CASE s.cur \in 196..198 ->
            Then(GetSize(s, 196, GetBytes), LAMBDA t : SendValue(t, Binary(t.val, NoSubtype)))
      [] s.cur \in 199..201 -> GetSize(s, 199, GetExt)
      [] s.cur \in 212..216 -> GetExt(s, WidthFrom(s, 212))

GetFloat(s) ==
    IF s.cur = 202 THEN Then(GetNumber(s, 4, FALSE), LAMBDA t : SendValue(t, Float(Widen(t.val))))
    ELSE Then(GetNumber(s, 8, FALSE), LAMBDA t : SendValue(t, Float(t.val)))
GetUnsigned(s) == Then(GetUint(s, 204), LAMBDA t : SendValue(t, Unsigned(t.val)))
GetInteger(s) ==
    Then(GetNumber(s, WidthFrom(s, 208), FALSE), LAMBDA t : SendValue(t, Integer(SignExtend(t.val))))

RECURSIVE ParseMsgpack(_), Elements_(_, _), Members(_, _)
Elements_(s, len) ==
    CASE s.err # 0 -> s
      [] len = 0 -> Send(s, EndArray)
      [] OTHER -> Elements_(ParseMsgpack(s), len - 1)
GetMsgpackArray(s, len) == Then(SendStart(s, StartArray(len)), LAMBDA t : Elements_(t, len))

Members(s, len) ==
    CASE s.err # 0 -> s
      [] len = 0 -> Send(s, EndObject)
      [] OTHER -> Members(Then(GetMsgpackString(Get(s)), LAMBDA t : ParseMsgpack(Send(t, Key(t.val)))),
                          len - 1)
GetMsgpackObject(s, len) == Then(SendStart(s, StartObject(len)), LAMBDA t : Members(t, len))

(* What begins with a marker that says it all, and with any other.          *)
Compact == (0..191) \cup (224..255)
ParseCompact(s) ==
    CASE s.cur \in 0..127 -> SendValue(s, Unsigned(Word(s.cur)))
      [] s.cur \in 128..143 -> GetMsgpackObject(s, s.cur % 16)
      [] s.cur \in 144..159 -> GetMsgpackArray(s, s.cur % 16)
      [] s.cur \in 160..191 -> Then(GetMsgpackString(s), LAMBDA t : SendValue(t, String(t.val)))
      [] OTHER -> SendValue(s, Integer(SignExtend(<<s.cur>>)))
ParseMarked(s) ==
    CASE s.cur = 192 -> SendValue(s, Null)
      [] s.cur \in {194, 195} -> SendValue(s, Boolean(s.cur = 195))
      [] s.cur \in (196..201) \cup (212..216) -> GetMsgpackBinary(s)
      [] s.cur \in {202, 203} -> GetFloat(s)
      [] s.cur \in 204..207 -> GetUnsigned(s)
      [] s.cur \in 208..211 -> GetInteger(s)
      [] s.cur \in 217..219 -> Then(GetMsgpackString(s), LAMBDA t : SendValue(t, String(t.val)))
      [] s.cur \in {220, 221} -> GetSize(s, 219, GetMsgpackArray)
      [] s.cur \in {222, 223} -> GetSize(s, 221, GetMsgpackObject)
      [] OTHER -> Fail(s, 112)
ParseMsgpack(s0) ==
    LET s == Get(s0)
    IN CASE s.cur = Eof -> Fail(s, 110)
         [] s.cur \in Compact -> ParseCompact(s)
         [] OTHER -> ParseMarked(s)

FromMsgpack(bytes) == Result(Then(ParseMsgpack(Reading(bytes)), LAMBDA s : StrictEnd(s, Get)))
-----------------------------------------------------------------------------
(* The marker for a width, the first one for one byte.                      *)
Marker(first, width) == first + CASE width = 1 -> 0 [] width = 2 -> 1 [] width = 4 -> 2 [] OTHER -> 3

WriteUnsigned(w) ==
    IF Before(w, Word(128)) THEN <<w[8]>>
    ELSE <<Marker(204, Width(w))>> \o WriteNumber(w, Width(w), FALSE)
(* Mutant: the negative fixnum begins one too low.                          *)
WriteIntegerLow(w) ==
    LET width == CHOOSE k \in {1, 2, 4, 8} : FitsSigned(w, k) /\ \A j \in {1, 2, 4, 8} : FitsSigned(w, j) => k <= j
    IN CASE ~Negative(w) -> WriteUnsigned(w)
         [] ~LessSigned(w, Word(-33)) -> <<w[8]>>
         [] OTHER -> <<Marker(208, width)>> \o WriteNumber(w, width, FALSE)
WriteInteger(w) ==
    LET width == CHOOSE k \in {1, 2, 4, 8} : FitsSigned(w, k) /\ \A j \in {1, 2, 4, 8} : FitsSigned(w, j) => k <= j
    IN CASE ~Negative(w) -> WriteUnsigned(w)
         [] ~LessSigned(w, Word(-32)) -> <<w[8]>>
         [] OTHER -> <<Marker(208, width)>> \o WriteNumber(w, width, FALSE)

(* The size of a string, an array or a map: in the marker while it is small, *)
(* after it otherwise; arrays and maps have no marker for one byte.         *)
WriteSize(fix, small, first, n) ==
    IF n < small THEN <<fix + n>>
    ELSE <<Marker(first, Width(Word(n)))>> \o WriteNumber(Word(n), Width(Word(n)), FALSE)
WriteWideSize(fix, small, first, n) ==
    IF n >= small /\ n < 256 THEN <<first>> \o WriteNumber(Word(n), 2, FALSE)
    ELSE WriteSize(fix, small, first - 1, n)

WriteBinary(b, subtype) ==
    LET n == Len(b)
        ext == subtype # NoSubtype
        fixed == ext /\ n \in {1, 2, 4, 8, 16}
    IN IF fixed THEN <<CHOOSE m \in 212..216 : 2^(m - 212) = n, subtype[8]>> \o b
       ELSE WriteSize(0, 0, IF ext THEN 199 ELSE 196, n) \o (IF ext THEN <<subtype[8]>> ELSE <<>>) \o b

RECURSIVE WriteMsgpack(_)
WriteMsgpack(v) ==
    CASE Type(v) = "null" -> <<192>>
      [] Type(v) = "boolean" -> <<IF v[2] THEN 195 ELSE 194>>
      [] Type(v) = "integer" -> WriteInteger(v[2])
      [] Type(v) = "unsigned" -> WriteUnsigned(v[2])
      [] Type(v) = "float" -> CompactFloat(v[2], 202, 203)
      [] Type(v) = "string" -> WriteSize(160, 32, 217, Len(v[2])) \o v[2]
      [] Type(v) = "binary" -> WriteBinary(v[2], v[3])
      [] IsArray(v) -> WriteWideSize(144, 16, 220, Len(v[2])) \o
                       FlattenSeq([i \in DOMAIN v[2] |-> WriteMsgpack(v[2][i])])
      [] IsObject(v) ->
            LET keys == Keys(v[2])
            IN WriteWideSize(128, 16, 222, Len(keys)) \o
               FlattenSeq([i \in DOMAIN keys |-> WriteMsgpack(String(keys[i])) \o WriteMsgpack(v[2][keys[i]])])
      [] OTHER -> <<>>
=============================================================================
