-------------------------------- MODULE Bson --------------------------------
(* BSON: parse_bson_internal() of binary_reader with the functions it       *)
(* calls, and write_bson() of binary_writer.  The writer computes the size  *)
(* of a document before it writes it; the reader reads the size and goes    *)
(* by the zero that ends a document.                                        *)
EXTENDS ByteReader
LOCAL INSTANCE SequencesExt

(* An int32_t, as a word, and as the length it stands for.                  *)
GetInt32(s) == Then(GetNumber(s, 4, TRUE), LAMBDA t : [t EXCEPT !.val = SignExtend(@)])
GetLength(s, least, Op(_, _)) ==
    Then(GetInt32(s), LAMBDA t : IF LessSigned(t.val, Word(least)) THEN Fail(t, 112) ELSE Op(t, Count(t.val)))

RECURSIVE CstrFrom(_, _)
CstrFrom(s, result) ==
    LET t == Get(s)
    IN CASE t.cur = Eof -> Fail(t, 110)
         [] t.cur = 0 -> [t EXCEPT !.val = result]
         [] OTHER -> CstrFrom(t, Append(result, t.cur))
GetBsonCstr(s) == CstrFrom(s, <<>>)

(* A string that lacks its zero is refused, without an exception.           *)
Silently == 1
GetBsonString(s, len) ==
    Then(GetBytes(s, len - 1), LAMBDA t :
        LET u == Get(t) IN IF u.cur = Eof THEN Fail(u, Silently) ELSE SendValue(u, String(t.val)))
GetBsonBinary(s, len) ==
    Then(GetNumber(s, 1, FALSE), LAMBDA t :
        Then(GetBytes(t, len), LAMBDA u : SendValue(u, Binary(u.val, ZeroExtend(t.val)))))

RECURSIVE ParseBson(_), ParseElement(_, _), ElementList(_, _)
ParseBsonArray(s) ==
    Then(GetNumber(s, 4, TRUE), LAMBDA t :
        Then(ElementList(Send(t, StartArray(Unknown)), TRUE), LAMBDA u : Send(u, EndArray)))
ParseBson(s) ==
    Then(GetNumber(s, 4, TRUE), LAMBDA t :
        Then(ElementList(Send(t, StartObject(Unknown)), FALSE), LAMBDA u : Send(u, EndObject)))

ParseElement(s, type) ==
    CASE type = 1 -> Then(GetNumber(s, 8, TRUE), LAMBDA t : SendValue(t, Float(t.val)))
      [] type = 2 -> GetLength(s, 1, GetBsonString)
      [] type = 3 -> ParseBson(s)
      [] type = 4 -> ParseBsonArray(s)
      [] type = 5 -> GetLength(s, 0, GetBsonBinary)
      [] type = 8 -> SendValue(Get(s), Boolean(Get(s).cur # 0))
      [] type = 10 -> SendValue(s, Null)
      [] type = 16 -> Then(GetInt32(s), LAMBDA t : SendValue(t, Integer(t.val)))
      [] type = 17 -> Then(GetNumber(s, 8, TRUE), LAMBDA t : SendValue(t, Unsigned(t.val)))
      [] type = 18 -> Then(GetNumber(s, 8, TRUE), LAMBDA t : SendValue(t, Integer(t.val)))
      [] OTHER -> Fail(s, 114)

ElementList(s, is_array) ==
    LET t == Get(s)
        Keyed(u) == IF is_array THEN u ELSE Send(u, Key(u.val))
    IN CASE s.err # 0 -> s
         [] s.err = 0 /\ t.cur = 0 -> t
         [] s.err = 0 /\ t.cur = Eof -> Fail(t, 110)
         [] OTHER -> ElementList(Then(GetBsonCstr(t), LAMBDA u : ParseElement(Keyed(u), t.cur)), is_array)

FromBson(bytes) == Result(Then(ParseBson(Reading(bytes)), LAMBDA s : StrictEnd(s, Get)))
-----------------------------------------------------------------------------
(* An array is a document with the indices for keys.                        *)
RECURSIVE Decimal(_)
Decimal(n) == (IF n < 10 THEN <<>> ELSE Decimal(n \div 10)) \o <<Code["0"] + (n % 10)>>
Members(v) ==
    IF IsArray(v) THEN [i \in DOMAIN v[2] |-> [name |-> Decimal(i - 1), v |-> v[2][i]]]
    ELSE [i \in 1..Len(Keys(v[2])) |-> [name |-> Keys(v[2])[i], v |-> v[2][Keys(v[2])[i]]]]

IsInt32(v) == IF Type(v) = "integer" THEN FitsSigned(v[2], 4) ELSE Fits(v[2], 4) /\ v[2][5] < 128
HeaderSize(name) == 1 + Len(name) + 1
RECURSIVE CalcSize(_), CalcElementSize(_)
CalcSize(v) == FoldLeft(LAMBDA n, m : n + HeaderSize(m.name) + CalcElementSize(m.v), 0, Members(v)) + 4 + 1
CalcElementSize(v) ==
    CASE IsStructured(v) -> CalcSize(v)
      [] Type(v) \in {"binary", "string"} -> 4 + Len(v[2]) + 1
      [] Type(v) = "boolean" -> 1
      [] Type(v) = "float" -> 8
      [] IsInteger(v) -> IF IsInt32(v) THEN 4 ELSE 8
      [] OTHER -> 0

Header(name, type) == <<type>> \o name \o <<0>>
Int32(n) == WriteNumber(Word(n), 4, TRUE)
WriteInteger(name, v) ==
    CASE IsInt32(v) -> Header(name, 16) \o WriteNumber(v[2], 4, TRUE)
      [] ~IsInt32(v) /\ Type(v) = "unsigned" /\ Negative(v[2]) -> Header(name, 17) \o WriteNumber(v[2], 8, TRUE)
      [] OTHER -> Header(name, 18) \o WriteNumber(v[2], 8, TRUE)
WriteString(name, v) == Header(name, 2) \o Int32(Len(v[2]) + 1) \o v[2] \o <<0>>
WriteBinary(name, v) ==
    Header(name, 5) \o Int32(Len(v[2])) \o <<IF v[3] = NoSubtype THEN 0 ELSE v[3][8]>> \o v[2]

RECURSIVE WriteDocument(_)
WriteElement(name, v) ==
    CASE IsObject(v) -> Header(name, 3) \o WriteDocument(v)
      [] IsArray(v) -> Header(name, 4) \o WriteDocument(v)
      [] Type(v) = "binary" -> WriteBinary(name, v)
      [] Type(v) = "boolean" -> Header(name, 8) \o <<IF v[2] THEN 1 ELSE 0>>
      [] Type(v) = "float" -> Header(name, 1) \o Reverse(v[2])
      [] IsInteger(v) -> WriteInteger(name, v)
      [] Type(v) = "string" -> WriteString(name, v)
      [] Type(v) = "null" -> Header(name, 10)
WriteDocument(v) ==
    LET m == Members(v)
    IN Int32(CalcSize(v)) \o FlattenSeq([i \in DOMAIN m |-> WriteElement(m[i].name, m[i].v)]) \o <<0>>

(* to_bson() of a value that is an object; a key with a zero byte in it is  *)
(* refused while the sizes are computed.                                    *)
RECURSIVE HasZeroKey(_)
HasZeroKey(v) == IsStructured(v) /\ \E i \in DOMAIN Members(v) :
    \/ \E j \in DOMAIN Members(v)[i].name : Members(v)[i].name[j] = 0
    \/ HasZeroKey(Members(v)[i].v)
BsonError(v) ==
    CASE ~IsObject(v) -> 317
      [] IsObject(v) /\ HasZeroKey(v) -> 409
      [] OTHER -> 0
=============================================================================
