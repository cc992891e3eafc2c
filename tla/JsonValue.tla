----------------------------- MODULE JsonValue -----------------------------
(* JSON values as the vendored nlohmann/json keeps them, and the words that *)
(* its readers and writers exchange with a file.                            *)
(*  - A byte is a number of 0..255; a string and a binary value are         *)
(*    sequences of bytes.  Text("ab") are the bytes of a literal.           *)
(*  - A 64-bit integer is its 8 bytes in two's complement, the first one    *)
(*    the most significant (TLC counts to 2^31); a double is its 8 bytes    *)
(*    of IEEE 754.                                                          *)
(*  - A value is a tuple that begins with its value_t; an object is a       *)
(*    function from keys, as std::map is.                                   *)
EXTENDS Integers, Sequences, FiniteSets, TLC
LOCAL INSTANCE Functions

-----------------------------------------------------------------------------
Upper == " !\"#$%&'()*+,-./0123456789:;<=>?@ABCDEFGHIJKLMNOPQRSTUVWXYZ[\\]^_"
Lower == "abcdefghijklmnopqrstuvwxyz{|}~"
CodesFrom(s, first) == [c \in {SubSeq(s, i, i) : i \in 1..Len(s)} |->
                            first - 1 + CHOOSE i \in 1..Len(s) : SubSeq(s, i, i) = c]
Code == CodesFrom(Upper, 32) @@ CodesFrom(Lower, 97)
Text(s) == [i \in 1..Len(s) |-> Code[SubSeq(s, i, i)]]

(* The order of std::string and of equally long unsigned words.             *)
Before(u, v) ==
    \/ \E i \in 1..Len(u) : /\ i <= Len(v) /\ u[i] < v[i]
                            /\ \A j \in 1..(i - 1) : u[j] = v[j]
    \/ Len(u) < Len(v) /\ \A j \in 1..Len(u) : u[j] = v[j]
AtMost(u, v) == ~Before(v, u)

-----------------------------------------------------------------------------
Repeat(b, n) == [i \in 1..n |-> b]
Word(n) == [i \in 1..8 |-> IF i > 4 THEN (n \div 256^(8 - i)) % 256
                           ELSE IF n < 0 THEN 255 ELSE 0]
Negative(w) == w[1] >= 128
Complement(w) == [i \in 1..Len(w) |-> 255 - w[i]]
ToBytes(w, k) == SubSeq(w, 9 - k, 8)               \* the conversion to k bytes
ZeroExtend(b) == Repeat(0, 8 - Len(b)) \o b
SignExtend(b) == Repeat(IF b[1] >= 128 THEN 255 ELSE 0, 8 - Len(b)) \o b
LessSigned(u, v) == IF Negative(u) = Negative(v) THEN Before(u, v) ELSE Negative(u)

(* Lengths: every count of Huge or more means "more than any container or   *)
(* any input has"; Unknown is detail::unknown_size().                       *)
Huge == 2^20
Unknown == -1
Eof == -1                          \* char_traits::eof(), and no byte
Count(w) == IF \E i \in 1..5 : w[i] # 0 THEN Huge
            ELSE LET n == (w[6] * 256 + w[7]) * 256 + w[8]
                 IN IF n < Huge THEN n ELSE Huge

-----------------------------------------------------------------------------
Exponent(d) == (d[1] % 128) * 16 + d[2] \div 16
IsInf(d) == Exponent(d) = 2047 /\ d[2] % 16 = 0 /\ \A i \in 3..8 : d[i] = 0
IsNaN(d) == Exponent(d) = 2047 /\ ~IsInf(d)
IsFinite(d) == Exponent(d) # 2047

(* The conversion of a natural number below Huge.                           *)
ToDouble(n) ==
    IF n = 0 THEN Word(0)
    ELSE LET e == CHOOSE e \in 0..19 : 2^e <= n /\ n < 2^(e + 1)
             m == (n - 2^e) * 2^(20 - e)               \* the first 20 bits
         IN <<(e + 1023) \div 16, ((e + 1023) % 16) * 16 + m \div 65536,
              (m \div 256) % 256, m % 256, 0, 0, 0, 0>>

IsZero(d) == d[1] \in {0, 128} /\ \A i \in 2..8 : d[i] = 0

Scaled(d, k) ==                                        \* ldexp(d, k)
    IF IsZero(d) THEN d
    ELSE LET x == Exponent(d) + k
         IN <<(d[1] \div 128) * 128 + x \div 16, (x % 16) * 16 + (d[2] % 16)>> \o SubSeq(d, 3, 8)
Minus(d) == <<(d[1] + 128) % 256>> \o Tail(d)
Infinity == <<127, 240, 0, 0, 0, 0, 0, 0>>
QuietNaN == <<127, 248, 0, 0, 0, 0, 0, 0>>

(* The conversion of a float (4 bytes) to a double and back.  A float that  *)
(* is subnormal is in no instance.                                          *)
Widen(f) ==
    LET e == (f[1] % 128) * 2 + f[2] \div 128
        x == CASE e = 0 -> 0 [] e = 255 -> 2047 [] OTHER -> e + 896
    IN <<(f[1] \div 128) * 128 + x \div 16,
         (x % 16) * 16 + (f[2] % 128) \div 8,
         (f[2] % 8) * 32 + f[3] \div 8,
         (f[3] % 8) * 32 + f[4] \div 8,
         (f[4] % 8) * 32, 0, 0, 0>>
Narrow(d) ==
    LET x == Exponent(d)
        e == CASE x = 0 -> 0 [] x = 2047 -> 255 [] OTHER -> x - 896
    IN <<(d[1] \div 128) * 128 + e \div 2,
         (e % 2) * 128 + (d[2] % 16) * 8 + d[3] \div 32,
         (d[3] % 32) * 8 + d[4] \div 32,
         (d[4] % 32) * 8 + d[5] \div 32>>
IsSingle(d) ==                                         \* no conversion loses anything
    /\ d[5] % 32 = 0 /\ \A i \in 6..8 : d[i] = 0
    /\ Exponent(d) \in 897..1150 \/ IsZero(d)

-----------------------------------------------------------------------------
Null == <<"null">>
Boolean(b) == <<"boolean", b>>
Integer(w) == <<"integer", w>>
Unsigned(w) == <<"unsigned", w>>
Float(d) == <<"float", d>>
String(s) == <<"string", s>>
Binary(b, subtype) == <<"binary", b, subtype>>     \* subtype: a word, or NoSubtype
NoSubtype == <<>>
Array(s) == <<"array", s>>
Object(f) == <<"object", f>>
Discarded == <<"discarded">>

Type(v) == v[1]
IsArray(v) == v[1] = "array"
IsObject(v) == v[1] = "object"
IsStructured(v) == IsArray(v) \/ IsObject(v)
IsInteger(v) == v[1] \in {"integer", "unsigned"}

NoMembers == [k \in {} |-> Null]
With(f, k, v) == [x \in DOMAIN f \cup {k} |-> IF x = k THEN v ELSE f[x]]
Without(f, k) == Restrict(f, DOMAIN f \ {k})

(* The keys of an object in the order of its map.                           *)
RECURSIVE Ascending(_)
Ascending(set) ==
    IF set = {} THEN <<>>
    ELSE LET least == CHOOSE k \in set : \A l \in set : AtMost(k, l)
         IN <<least>> \o Ascending(set \ {least})
Keys(f) == Ascending(DOMAIN f)
Elements(v) == IF IsArray(v) THEN v[2] ELSE [i \in 1..Len(Keys(v[2])) |-> v[2][Keys(v[2])[i]]]

(* A number as a double; of the integers only those of less than Huge are   *)
(* compared with one.                                                       *)
NumberOf(v) ==
    IF Type(v) = "float" THEN v[2]
    ELSE IF Type(v) = "integer" /\ Negative(v[2])
    THEN LET d == ToDouble(Count(Complement(v[2])) + 1) IN Minus(d)
    ELSE ToDouble(Count(v[2]))
SameDouble(c, d) ==
    /\ ~IsNaN(c) /\ ~IsNaN(d)
    /\ (c = d) \/ (IsZero(c) /\ IsZero(d))

(* operator==: a number equals a number of the other signedness with the    *)
(* same word, a NaN nothing, and the zeros each other.                      *)
RECURSIVE Equal(_, _)
Equal(a, b) ==
    CASE IsArray(a) /\ IsArray(b) ->
            Len(a[2]) = Len(b[2]) /\ \A i \in DOMAIN a[2] : Equal(a[2][i], b[2][i])
      [] IsObject(a) /\ IsObject(b) ->
            DOMAIN a[2] = DOMAIN b[2] /\ \A k \in DOMAIN a[2] : Equal(a[2][k], b[2][k])
      [] IsInteger(a) /\ IsInteger(b) -> a[2] = b[2]
      [] {Type(a), Type(b)} \subseteq {"float", "integer", "unsigned"} ->
            SameDouble(NumberOf(a), NumberOf(b))
      [] Type(a) = "discarded" \/ Type(b) = "discarded" -> FALSE
      [] OTHER -> a = b
=============================================================================
