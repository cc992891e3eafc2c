------------------------------- MODULE Ubjson -------------------------------
(* UBJSON and BJData: parse_ubjson_internal() of binary_reader with the     *)
(* functions it calls, and write_ubjson() of binary_writer.  Every value    *)
(* has a marker; a container may give its marker once for all its elements  *)
(* ('$') and its size ('#').  BJData is little-endian, has more markers,    *)
(* and an array with a vector of dimensions for its size, which is read as  *)
(* an object with the members _ArrayType_, _ArraySize_ and _ArrayData_.     *)
EXTENDS ByteReader, JsonLexer
LOCAL INSTANCE SequencesExt

Marks(string) == {C(SubSeq(string, i, i)) : i \in 1..Len(string)}
SignedMarks == Marks("iIlL")
IntegerMarks(bj) == SignedMarks \cup {C("U")} \cup (IF bj THEN Marks("umM") ELSE {})
SizeOfMark == [c \in Marks("iUBCIulmdLMD") |->
    CASE c \in Marks("iUBC") -> 1 [] c \in Marks("Iu") -> 2 [] c \in Marks("lmd") -> 4 [] OTHER -> 8]
NotOptimized == Marks("FHNSTZ[{")
TypeNames ==
    C("B") :> "byte" @@ C("C") :> "char" @@ C("D") :> "double" @@ C("d") :> "single"
    @@ C("i") :> "int8" @@ C("I") :> "int16" @@ C("l") :> "int32" @@ C("L") :> "int64"
    @@ C("U") :> "uint8" @@ C("u") :> "uint16" @@ C("m") :> "uint32" @@ C("M") :> "uint64"
ArrayType == Text("_ArrayType_")
ArraySize == Text("_ArraySize_")
ArrayData == Text("_ArrayData_")

ReadingUbjson(bytes, bj) == [bj |-> bj] @@ Reading(bytes)
GetMarked(s, c) ==
    Then(GetNumber(s, SizeOfMark[c], s.bj),
         LAMBDA t : [t EXCEPT !.val = IF c \in SignedMarks THEN SignExtend(@) ELSE ZeroExtend(@)])
IsBelowZero(c, w) == c \in SignedMarks /\ Negative(w)

(* A string with a length below zero is empty.                              *)
UbjsonString(s) ==
    CASE s.cur = Eof -> Fail(s, 110)
      [] s.cur \in IntegerMarks(s.bj) -> Then(GetMarked(s, s.cur), LAMBDA t :
            GetBytes(t, IF IsBelowZero(s.cur, t.val) THEN 0 ELSE Count(t.val)))
      [] OTHER -> Fail(s, 113)
-----------------------------------------------------------------------------
(* A size is a number and whether it came with dimensions, whose events     *)
(* have then been sent.                                                     *)
Plain(s, n) == [s EXCEPT !.val = [n |-> n, nd |-> FALSE]]
Product(dim) ==
    FoldLeft(LAMBDA n, d : IF n = Huge \/ n > Huge \div d THEN Huge ELSE n * d, 1, dim)

(* A vector of one row is the size of a plain array.                        *)
DimensionsEvents(dim) ==
    <<StartObject(3), Key(ArraySize), StartArray(Len(dim))>>
    \o [i \in DOMAIN dim |-> Scalar(Unsigned(Word(dim[i])))] \o <<EndArray>>
Dimensioned(s, dim) ==
    CASE Len(dim) = 1 \/ (Len(dim) = 2 /\ dim[1] = 1) -> Plain(s, Last(dim))
      [] dim = <<>> \/ \E i \in DOMAIN dim : dim[i] = 0 -> Plain(s, 0)
      [] OTHER -> IF Product(dim) = Huge THEN Fail(s, 408)
                  ELSE [s EXCEPT !.ev = @ \o DimensionsEvents(dim),
                                 !.val = [n |-> Product(dim), nd |-> TRUE]]

RECURSIVE SizeValue(_, _, _), SizeType(_, _), SomeDimensions(_, _, _, _), DimensionsToEnd(_, _)
SomeDimensions(s, n, mark, dim) ==
    IF n = 0 THEN [s EXCEPT !.val = dim]
    ELSE Then(SizeValue(s, mark, TRUE), LAMBDA t : SomeDimensions(t, n - 1, mark, Append(dim, t.val.n)))
DimensionsToEnd(s, dim) ==
    IF s.cur = C("]") THEN [s EXCEPT !.val = dim]
    ELSE Then(SizeValue(s, s.cur, TRUE),
              LAMBDA t : DimensionsToEnd(GetIgnoreNoop(t), Append(dim, t.val.n)))
Dimensions(s) ==
    Then(SizeType(s, TRUE), LAMBDA t :
        CASE t.val.n = Unknown -> DimensionsToEnd(t, <<>>)
          [] t.val.n # Unknown /\ t.val.mark = C("N") -> [t EXCEPT !.val = <<>>]
          [] OTHER -> SomeDimensions(t, t.val.n, t.val.mark, <<>>))

(* mark is 0 if it has still to be read.                                    *)
SizeValue(s, mark, is_ndarray) ==
    LET t == IF mark = 0 THEN GetIgnoreNoop(s) ELSE s
        c == IF mark = 0 THEN t.cur ELSE mark
    IN CASE c \in IntegerMarks(s.bj) -> Then(GetMarked(t, c), LAMBDA u :
               IF IsBelowZero(c, u.val) THEN Fail(u, 113) ELSE Plain(u, Count(u.val)))
         [] s.bj /\ c = C("[") /\ ~is_ndarray -> Then(Dimensions(t), LAMBDA u : Dimensioned(u, u.val))
         [] OTHER -> Fail(t, 113)

WithMark(s, mark) == [s EXCEPT !.val = [n |-> @.n, nd |-> @.nd, mark |-> mark]]
SizeType(s, inside_ndarray) ==
    LET t == GetIgnoreNoop(s)
        mark == Get(t)
        hash == GetIgnoreNoop(mark)
        Sized(u, m, nd_allowed) == Then(SizeValue(u, 0, FALSE), LAMBDA v :
            IF v.val.nd /\ ~nd_allowed THEN Fail(v, 112) ELSE WithMark(v, m))
    IN CASE t.cur = C("$") /\ s.bj /\ mark.cur \in NotOptimized -> Fail(mark, 112)
         [] t.cur = C("$") /\ mark.cur = Eof -> Fail(mark, 110)
         [] t.cur = C("$") /\ hash.cur # C("#") -> Fail(hash, IF hash.cur = Eof THEN 110 ELSE 112)
         [] t.cur = C("$") -> Sized(hash, mark.cur, ~inside_ndarray)
         [] t.cur = C("#") -> Sized(t, 0, FALSE)
         [] OTHER -> WithMark(Plain(t, Unknown), 0)
-----------------------------------------------------------------------------
HighPrecision(s) ==
    Then(SizeValue(s, 0, TRUE), LAMBDA t : Then(GetBytes(t, t.val.n), LAMBDA u :
        LET number == Tokens(u.val, FALSE)
        IN IF number[1].tok \in {"integer", "unsigned", "float"} /\ number[2].tok = "end_of_input"
           THEN SendValue(u, number[1].val) ELSE Fail(u, 115)))
GetChar7(s) ==
    LET t == Get(s)
    IN CASE t.cur = Eof -> Fail(t, 110)
         [] t.cur > 127 -> Fail(t, 113)
         [] OTHER -> SendValue(t, String(<<t.cur>>))

RECURSIVE UbjsonValue(_, _), UbjsonElements(_, _, _), ElementsToEnd(_), UbjsonMembers(_, _, _), MembersToEnd(_)
NextValue(s, mark) ==
    LET t == IF mark = 0 THEN GetIgnoreNoop(s) ELSE s
    IN UbjsonValue(t, IF mark = 0 THEN t.cur ELSE mark)
UbjsonElements(s, n, mark) ==
    IF n = 0 THEN s ELSE Then(NextValue(s, mark), LAMBDA t : UbjsonElements(t, n - 1, mark))
ElementsToEnd(s) ==
    IF s.cur = C("]") THEN s
    ELSE Then(UbjsonValue(s, s.cur), LAMBDA t : ElementsToEnd(GetIgnoreNoop(t)))

NdArray(s, n, mark) ==
    LET t == [s EXCEPT !.ev = @ \o <<Key(ArrayType), Scalar(String(Text(TypeNames[mark]))), Key(ArrayData)>>]
    IN Then(SendStart(t, StartArray(n)), LAMBDA u :
           Then(UbjsonElements(u, n, IF mark \in Marks("CB") THEN C("U") ELSE mark),
                LAMBDA v : Send(Send(v, EndArray), EndObject)))
UbjsonArray(s) ==
    Then(SizeType(s, FALSE), LAMBDA t :
        LET n == t.val.n
            mark == t.val.mark
        IN CASE t.val.nd -> IF mark \in DOMAIN TypeNames THEN NdArray(t, n, mark) ELSE Fail(t, 112)
             [] ~t.val.nd /\ s.bj /\ n # Unknown /\ mark = C("B") ->
                   Then(GetBytes(t, n), LAMBDA u : SendValue(u, Binary(u.val, NoSubtype)))
             [] OTHER ->
                   Then(SendStart(t, StartArray(n)), LAMBDA u :
                   Then(CASE n = Unknown -> ElementsToEnd(u)
                          [] n # Unknown /\ mark = C("N") -> u
                          [] OTHER -> UbjsonElements(u, n, mark),
                        LAMBDA v : Send(v, EndArray))))

Member_(s, mark) == Then(UbjsonString(s), LAMBDA t : NextValue(Send(t, Key(t.val)), mark))
UbjsonMembers(s, n, mark) ==
    IF n = 0 THEN s ELSE Then(Member_(Get(s), mark), LAMBDA t : UbjsonMembers(t, n - 1, mark))
MembersToEnd(s) ==
    IF s.cur = C("}") THEN s ELSE Then(Member_(s, 0), LAMBDA t : MembersToEnd(GetIgnoreNoop(t)))
UbjsonObject(s) ==
    Then(SizeType(s, FALSE), LAMBDA t :
        IF t.val.nd THEN Fail(t, 112)
        ELSE Then(SendStart(t, StartObject(t.val.n)), LAMBDA u :
             Then(IF t.val.n = Unknown THEN MembersToEnd(u) ELSE UbjsonMembers(u, t.val.n, t.val.mark),
                  LAMBDA v : Send(v, EndObject))))

UbjsonValue(s, mark) ==
    CASE mark = Eof -> Fail(s, 110)
      [] mark \in Marks("TF") -> SendValue(s, Boolean(mark = C("T")))
      [] mark = C("Z") -> SendValue(s, Null)
      [] mark \in IntegerMarks(s.bj) \cup (IF s.bj THEN {C("B")} ELSE {}) ->
            Then(GetMarked(s, mark), LAMBDA t :
                SendValue(t, IF mark \in SignedMarks THEN Integer(t.val) ELSE Unsigned(t.val)))
      [] mark = C("h") /\ s.bj ->
            Then(GetBytes(s, 2), LAMBDA t : SendValue(t, Float(HalfToDouble(Reverse(t.val)))))
      [] mark = C("d") -> Then(GetNumber(s, 4, s.bj), LAMBDA t : SendValue(t, Float(Widen(t.val))))
      [] mark = C("D") -> Then(GetNumber(s, 8, s.bj), LAMBDA t : SendValue(t, Float(t.val)))
      [] mark = C("H") -> HighPrecision(s)
      [] mark = C("C") -> GetChar7(s)
      [] mark = C("S") -> Then(UbjsonString(Get(s)), LAMBDA t : SendValue(t, String(t.val)))
      [] mark = C("[") -> UbjsonArray(s)
      [] mark = C("{") -> UbjsonObject(s)
      [] OTHER -> Fail(s, 112)

FromUbjson(bytes, bj) ==
    Result(Then(NextValue(ReadingUbjson(bytes, bj), 0), LAMBDA s : StrictEnd(s, GetIgnoreNoop)))
-----------------------------------------------------------------------------
(* o: the options count, type, bj and draft3.  The first marker whose       *)
(* numbers contain the integer.                                             *)
NumberMark(v, bj) ==
    LET Holds(c) == /\ bj \/ c \notin Marks("um")
                    /\ IF c \in SignedMarks THEN FitsSigned(v[2], SizeOfMark[c])
                       ELSE ~Negative(v[2]) /\ Fits(v[2], SizeOfMark[c])
    IN IF Type(v) = "unsigned" /\ Negative(v[2]) THEN IF bj THEN C("M") ELSE C("H")
       ELSE SelectSeq(Text("iUIulmL"), Holds)[1]

RECURSIVE WritePrefixed(_, _, _)
WriteSize(n, bj) == WritePrefixed(Unsigned(Word(n)), TRUE, bj)
WritePrefixed(v, add_prefix, bj) ==
    LET c == NumberMark(v, bj)
    IN (IF add_prefix THEN <<c>> ELSE <<>>) \o
       (IF c = C("H") THEN WriteSize(Len(DumpInteger(v)), bj) \o DumpInteger(v)
        ELSE WriteNumber(v[2], SizeOfMark[c], bj))

UbjsonPrefix(v, bj) ==
    CASE Type(v) = "null" -> C("Z")
      [] Type(v) = "boolean" -> IF v[2] THEN C("T") ELSE C("F")
      [] IsInteger(v) -> NumberMark(v, bj)
      [] Type(v) = "float" -> C("D")
      [] Type(v) = "string" -> C("S")
      [] Type(v) \in {"array", "binary"} -> C("[")
      [] Type(v) = "object" -> C("{")

(* Whether one marker stands for all the values.                            *)
SamePrefix(values, o) ==
    /\ o.type /\ values # <<>>
    /\ \A i \in DOMAIN values : UbjsonPrefix(values[i], o.bj) = UbjsonPrefix(values[1], o.bj)
    /\ ~(o.bj /\ UbjsonPrefix(values[1], o.bj) \in NotOptimized)
Contained(open, close, values, Write(_, _), add_prefix, o) ==
    LET same == SamePrefix(values, o)
    IN (IF add_prefix THEN <<open>> ELSE <<>>)
       \o (IF same THEN <<C("$"), UbjsonPrefix(values[1], o.bj)>> ELSE <<>>)
       \o (IF o.count THEN <<C("#")>> \o WriteSize(Len(values), o.bj) ELSE <<>>)
       \o FlattenSeq([i \in DOMAIN values |-> Write(i, ~same)])
       \o (IF o.count THEN <<>> ELSE <<close>>)

WriteBytes(v, add_prefix, o) ==
    LET mark == IF o.bj /\ o.draft3 THEN C("B") ELSE C("U")
    IN (IF add_prefix THEN <<C("[")>> ELSE <<>>)
       \o (IF o.type /\ (mark = C("B") \/ v[2] # <<>>) THEN <<C("$"), mark>> ELSE <<>>)
       \o (IF o.count THEN <<C("#")>> \o WriteSize(Len(v[2]), o.bj) ELSE <<>>)
       \o (IF o.type THEN v[2] ELSE FlattenSeq([i \in DOMAIN v[2] |-> <<mark, v[2][i]>>]))
       \o (IF o.count THEN <<>> ELSE <<C("]")>>)

(* An object that a reader would make of an array with dimensions; its      *)
(* members have the types that the reader gives them.                       *)
IsNdArray(f) ==
    /\ DOMAIN f = {ArrayType, ArraySize, ArrayData}
    /\ \E c \in DOMAIN TypeNames : Text(TypeNames[c]) = f[ArrayType][2]
    /\ Len(f[ArrayData][2]) =
          FoldLeft(LAMBDA n, d : n * Count(d[2]), IF f[ArraySize][2] = <<>> THEN 0 ELSE 1, f[ArraySize][2])

RECURSIVE WriteUbjson(_, _, _)
WriteNdArray(f, o) ==
    LET c == CHOOSE c \in DOMAIN TypeNames : Text(TypeNames[c]) = f[ArrayType][2]
        Element_(v) == IF c = C("d") THEN Reverse(Narrow(v[2])) ELSE WriteNumber(v[2], SizeOfMark[c], TRUE)
    IN <<C("["), C("$"), c, C("#")>> \o WriteUbjson(f[ArraySize], TRUE, o)
       \o FlattenSeq([i \in DOMAIN f[ArrayData][2] |-> Element_(f[ArrayData][2][i])])
WriteUbjson(v, add_prefix, o) ==
    CASE Type(v) \in {"null", "boolean"} -> IF add_prefix THEN <<UbjsonPrefix(v, o.bj)>> ELSE <<>>
      [] IsInteger(v) -> WritePrefixed(v, add_prefix, o.bj)
      [] Type(v) = "float" -> (IF add_prefix THEN <<C("D")>> ELSE <<>>) \o WriteNumber(v[2], 8, o.bj)
      [] Type(v) = "string" -> (IF add_prefix THEN <<C("S")>> ELSE <<>>) \o WriteSize(Len(v[2]), o.bj) \o v[2]
      [] IsArray(v) -> Contained(C("["), C("]"), v[2], LAMBDA i, p : WriteUbjson(v[2][i], p, o), add_prefix, o)
      [] Type(v) = "binary" -> WriteBytes(v, add_prefix, o)
      [] IsObject(v) /\ o.bj /\ IsNdArray(v[2]) -> WriteNdArray(v[2], o)
      [] OTHER -> Contained(C("{"), C("}"), Elements(v),
                            LAMBDA i, p : WriteSize(Len(Keys(v[2])[i]), o.bj) \o Keys(v[2])[i]
                                          \o WriteUbjson(v[2][Keys(v[2])[i]], p, o), add_prefix, o)
=============================================================================
