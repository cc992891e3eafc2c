--------------------------- MODULE JsonReference ---------------------------
(* What the JSON library has to agree with, said without its algorithms:    *)
(* the grammar of RFC 8259 by the ways to cut a text in two, and the value  *)
(* that a text, a filter or a flattened document stands for.                *)
EXTENDS JsonLexer

Within(s, i, j) == SubSeq(s, i, j)
IsBlank(s) == \A i \in DOMAIN s : s[i] \in Blank
AllDigits(s) == s # <<>> /\ \A i \in DOMAIN s : s[i] \in Digit

IsInt(s) == s = Text("0") \/ (AllDigits(s) /\ s[1] # C("0"))
IsFraction(s) == s = <<>> \/ (s[1] = C(".") /\ AllDigits(Tail(s)))
IsExponent(s) ==
    \/ s = <<>>
    \/ /\ s[1] \in E
       /\ \/ AllDigits(Tail(s))
          \/ Len(s) > 1 /\ s[2] \in {C("+"), C("-")} /\ AllDigits(Within(s, 3, Len(s)))
IsPositive(s) == \E i \in 1..Len(s) : \E j \in i..Len(s) :
    IsInt(Within(s, 1, i)) /\ IsFraction(Within(s, i + 1, j)) /\ IsExponent(Within(s, j + 1, Len(s)))
IsNumber(s) == s # <<>> /\ IsPositive(IF IsMinus(s) THEN Tail(s) ELSE s)

(* Strings of ASCII characters without an escape.                           *)
IsString(s) ==
    /\ Len(s) > 1 /\ s[1] = C("\"") /\ s[Len(s)] = C("\"")
    /\ \A i \in 2..(Len(s) - 1) : s[i] \in (32..127) \ {C("\""), C("\\")}

(* lenient: a comma may precede the end of an array or an object.           *)
RECURSIVE IsText(_, _), IsElements(_, _), IsMembers(_, _)
IsMember(s, lenient) == \E i \in DOMAIN s : \E j \in 1..i : \E k \in j..i :
    /\ s[i] = C(":")
    /\ IsBlank(Within(s, 1, j - 1)) /\ IsString(Within(s, j, k - 1)) /\ IsBlank(Within(s, k, i - 1))
    /\ IsText(Within(s, i + 1, Len(s)), lenient)
IsMembers(s, lenient) == IsMember(s, lenient) \/ \E i \in DOMAIN s :
    s[i] = C(",") /\ IsMember(Within(s, 1, i - 1), lenient) /\ IsMembers(Within(s, i + 1, Len(s)), lenient)
IsElements(s, lenient) == IsText(s, lenient) \/ \E i \in DOMAIN s :
    s[i] = C(",") /\ IsText(Within(s, 1, i - 1), lenient) /\ IsElements(Within(s, i + 1, Len(s)), lenient)
Listed(s, lenient, IsList(_, _)) ==
    \/ IsBlank(s) \/ IsList(s, lenient)
    \/ lenient /\ \E i \in DOMAIN s :
          s[i] = C(",") /\ IsList(Within(s, 1, i - 1), lenient) /\ IsBlank(Within(s, i + 1, Len(s)))
IsText(s, lenient) == \E i \in DOMAIN s : \E j \in i..Len(s) :
    LET t == Within(s, i, j)
        inner == Within(s, i + 1, j - 1)
    IN /\ IsBlank(Within(s, 1, i - 1)) /\ IsBlank(Within(s, j + 1, Len(s)))
       /\ \/ t \in {Text("true"), Text("false"), Text("null")}
          \/ IsNumber(t)
          \/ IsString(t)
          \/ Len(t) > 1 /\ t[1] = C("[") /\ t[Len(t)] = C("]") /\ Listed(inner, lenient, IsElements)
          \/ Len(t) > 1 /\ t[1] = C("{") /\ t[Len(t)] = C("}") /\ Listed(inner, lenient, IsMembers)
-----------------------------------------------------------------------------
(* The value that the text of v stands for: no binary values, no NaN.       *)
RECURSIVE AsText(_)
AsText(v) ==
    CASE IsArray(v) -> Array([i \in DOMAIN v[2] |-> AsText(v[2][i])])
      [] IsObject(v) -> Object([k \in DOMAIN v[2] |-> AsText(v[2][k])])
      [] Type(v) = "float" /\ ~IsFinite(v[2]) -> Null
      [] Type(v) = "binary" ->
            Object(Text("bytes") :> Array([i \in DOMAIN v[2] |-> Unsigned(Word(v[2][i]))])
                   @@ Text("subtype") :> IF v[3] = NoSubtype THEN Null ELSE Unsigned(v[3]))
      [] OTHER -> v

(* The value that a binary file stands for: BSON gives every binary value a *)
(* subtype; UBJSON has arrays of numbers instead, but BJData in its third   *)
(* draft an array of bytes.                                                 *)
RECURSIVE AsStored(_, _)
AsStored(v, format) ==
    CASE IsArray(v) -> Array([i \in DOMAIN v[2] |-> AsStored(v[2][i], format)])
      [] IsObject(v) -> Object([k \in DOMAIN v[2] |-> AsStored(v[2][k], format)])
      [] Type(v) = "binary" /\ format.name = "bson" -> Binary(v[2], IF v[3] = NoSubtype THEN Word(0) ELSE v[3])
      [] Type(v) = "binary" /\ format.name = "ubjson" ->
            IF format.o.draft3 /\ format.o.type THEN Binary(v[2], NoSubtype)
            ELSE Array([i \in DOMAIN v[2] |-> Unsigned(Word(v[2][i]))])
      [] OTHER -> v
RECURSIVE HasKey(_, _)
HasKey(v, byte) ==
    \/ IsArray(v) /\ \E i \in DOMAIN v[2] : HasKey(v[2][i], byte)
    \/ IsObject(v) /\ \E k \in DOMAIN v[2] : HasKey(v[2][k], byte) \/ \E i \in DOMAIN k : k[i] = byte
Storable(v, format) == format.name = "bson" => IsObject(v) /\ ~HasKey(v, 0)

(* v without the members of one key.                                        *)
RECURSIVE WithoutKey(_, _)
WithoutKey(v, key) ==
    CASE IsArray(v) -> Array([i \in DOMAIN v[2] |-> WithoutKey(v[2][i], key)])
      [] IsObject(v) -> Object([k \in DOMAIN v[2] \ {key} |-> WithoutKey(v[2][k], key)])
      [] OTHER -> v

(* A flattened document does not tell an empty container from null, nor an  *)
(* object whose first member is "0" from an array.                          *)
RECURSIVE KeepsItsShape(_)
KeepsItsShape(v) ==
    CASE IsArray(v) -> v[2] # <<>> /\ \A i \in DOMAIN v[2] : KeepsItsShape(v[2][i])
      [] IsObject(v) -> /\ v[2] # NoMembers /\ Text("0") \notin DOMAIN v[2]
                        /\ \A k \in DOMAIN v[2] : KeepsItsShape(v[2][k])
      [] OTHER -> TRUE
=============================================================================
