----------------------------- MODULE JsonNumber -----------------------------
(* Numbers as text.  Words and their decimal digits are computed.  The      *)
(* doubles with a decimal form that is not zero are those of Decimals: they *)
(* stand for what strtod() of the C library and grisu2() of to_chars.hpp    *)
(* compute; any other decimal is read as Unlisted.                          *)
EXTENDS JsonValue
LOCAL INSTANCE SequencesExt
LOCAL INSTANCE Functions

C(s) == Code[s]
Digit == C("0")..C("9")
Zeros(n) == Repeat(C("0"), n)

(* <<"digits", n>> is the number 0.digits times 10^n.                       *)
Decimals ==
    <<"1", 1>> :> <<63, 240, 0, 0, 0, 0, 0, 0>> @@
    <<"15", 1>> :> <<63, 248, 0, 0, 0, 0, 0, 0>> @@
    <<"1", 0>> :> <<63, 185, 153, 153, 153, 153, 153, 154>> @@
    <<"12345", 4>> :> <<64, 147, 74, 0, 0, 0, 0, 0>> @@
    <<"1", -3>> :> <<63, 26, 54, 226, 235, 28, 67, 45>> @@
    <<"25", -4>> :> <<62, 250, 54, 226, 235, 28, 67, 45>> @@
    <<"1", 15>> :> <<66, 214, 188, 196, 30, 144, 0, 0>> @@
    <<"1", 16>> :> <<67, 12, 107, 245, 38, 52, 0, 0>> @@
    <<"1", 101>> :> <<84, 178, 73, 173, 37, 148, 195, 125>> @@
    <<"5", -323>> :> <<0, 0, 0, 0, 0, 0, 0, 1>> @@
    <<"17976931348623157", 309>> :> <<127, 239, 255, 255, 255, 255, 255, 255>> @@
    <<"9223372036854776", 19>> :> <<67, 224, 0, 0, 0, 0, 0, 0>> @@
    <<"9223372036854775809", 19>> :> <<67, 224, 0, 0, 0, 0, 0, 0>> @@
    <<"18446744073709552", 20>> :> <<67, 240, 0, 0, 0, 0, 0, 0>> @@
    <<"18446744073709551616", 20>> :> <<67, 240, 0, 0, 0, 0, 0, 0>>
Unlisted == <<64, 9, 33, 251, 84, 68, 45, 24>>
LargestExponent == 309
-----------------------------------------------------------------------------
(* strtoull() and strtoll(): the word of a sequence of digits, and whether  *)
(* anything is carried out of it.                                           *)
TimesTenPlus(w, d) ==
    FoldRight(LAMBDA b, t : LET sum == b * 10 + t.carry
                            IN [word |-> <<sum % 256>> \o t.word, carry |-> sum \div 256],
              w, [word |-> <<>>, carry |-> d])
Magnitude(digits) ==
    FoldLeft(LAMBDA n, c : LET t == TimesTenPlus(n.word, c - C("0"))
                           IN [word |-> t.word, over |-> n.over \/ t.carry # 0],
             [word |-> Word(0), over |-> FALSE], digits)
IsMinus(text) == text[1] = C("-")
Unsigned64(text) == LET m == Magnitude(text) IN [ok |-> ~m.over, word |-> m.word]

(* -m is the complement of m - 1, and m - 1 the complement of the           *)
(* complement plus one.                                                     *)
PlusOne(w) == LET i == CHOOSE i \in 0..8 : (\A j \in (i + 1)..8 : w[j] = 255) /\ (i = 0 \/ w[i] # 255)
              IN [j \in 1..8 |-> IF j > i THEN 0 ELSE IF j = i THEN w[j] + 1 ELSE w[j]]
Opposite(w) == PlusOne(Complement(w))
SmallestInteger == <<128, 0, 0, 0, 0, 0, 0, 0>>
Signed64(text) ==
    LET m == Magnitude(IF IsMinus(text) THEN Tail(text) ELSE text)
    IN IF IsMinus(text) THEN [ok |-> ~m.over /\ AtMost(m.word, SmallestInteger), word |-> Opposite(m.word)]
       ELSE [ok |-> ~m.over /\ ~Negative(m.word), word |-> m.word]

(* strtod(): the text is a number that the lexer or format_buffer() wrote.  *)
FirstOf(s, set) == IF \E i \in DOMAIN s : s[i] \in set
                   THEN CHOOSE i \in DOMAIN s : s[i] \in set /\ \A j \in 1..(i - 1) : s[j] \notin set
                   ELSE Len(s) + 1
Value(digits) == FoldLeft(LAMBDA n, c : IF n > 9999 THEN n ELSE n * 10 + c - C("0"), 0, digits)
ExponentOf(e) == CASE e = <<>> -> 0
                   [] e[1] = C("-") -> 0 - Value(Tail(e))
                   [] e[1] = C("+") -> Value(Tail(e))
                   [] OTHER -> Value(e)
Strtod(text) ==
    LET body == IF IsMinus(text) THEN Tail(text) ELSE text
        mantissa == SubSeq(body, 1, FirstOf(body, {C("e"), C("E")}) - 1)
        point == FirstOf(mantissa, {C(".")})
        digits == SelectSeq(mantissa, LAMBDA c : c # C("."))
        first == FirstOf(digits, Code["1"]..Code["9"])
        last == Len(digits) + 1 - FirstOf(Reverse(digits), Code["1"]..Code["9"])
        n == point - first + ExponentOf(SubSeq(body, Len(mantissa) + 2, Len(body)))
        listed == {k \in DOMAIN Decimals : k[2] = n /\ Text(k[1]) = SubSeq(digits, first, last)}
        positive == IF first > last THEN Word(0)
                    ELSE IF n > LargestExponent THEN Infinity
                    ELSE IF listed = {} THEN Unlisted
                    ELSE Decimals[CHOOSE k \in listed : TRUE]
    IN IF IsMinus(text) THEN Minus(positive) ELSE positive
-----------------------------------------------------------------------------
(* dump_integer(): the digits of a word, from the last to the first.        *)
DivideByTen(w) ==
    FoldLeft(LAMBDA t, b : LET sum == t.digit * 256 + b
                           IN [word |-> Append(t.word, sum \div 10), digit |-> sum % 10],
             [word |-> <<>>, digit |-> 0], w)
RECURSIVE Digits(_)
Digits(w) == LET d == DivideByTen(w)
             IN (IF d.word = Word(0) THEN <<>> ELSE Digits(d.word)) \o <<C("0") + d.digit>>
DumpInteger(v) ==
    IF Type(v) = "integer" /\ Negative(v[2]) THEN <<C("-")>> \o Digits(Opposite(v[2])) ELSE Digits(v[2])
-----------------------------------------------------------------------------
(* grisu2(): the fewest digits that strtod() takes back to the double.      *)
Shortest(d) ==
    LET forms == {k \in DOMAIN Decimals : Decimals[k] = d}
        k == CHOOSE k \in forms : \A j \in forms : Len(k[1]) <= Len(j[1])
    IN [digits |-> Text(k[1]), n |-> k[2]]

AppendExponent(e) ==
    LET abs == IF e < 0 THEN 0 - e ELSE e
    IN <<IF e < 0 THEN C("-") ELSE C("+")>> \o Zeros(IF abs < 10 THEN 1 ELSE 0) \o Digits(Word(abs))

MinExp == -4
MaxExp == 15
FormatBuffer(digits, n) ==
    LET k == Len(digits)
    IN CASE k <= n /\ n <= MaxExp -> digits \o Zeros(n - k) \o Text(".0")
         [] 0 < n /\ n < k /\ n <= MaxExp -> SubSeq(digits, 1, n) \o Text(".") \o SubSeq(digits, n + 1, k)
         [] MinExp < n /\ n <= 0 -> Text("0.") \o Zeros(0 - n) \o digits
         [] OTHER -> <<digits[1]>> \o (IF k = 1 THEN <<>> ELSE Text(".") \o Tail(digits))
                     \o Text("e") \o AppendExponent(n - 1)

ToChars(d) ==
    LET abs == <<d[1] % 128>> \o Tail(d)
    IN (IF d[1] >= 128 THEN Text("-") ELSE <<>>) \o
       (IF IsZero(d) THEN Text("0.0") ELSE FormatBuffer(Shortest(abs).digits, Shortest(abs).n))
DumpFloat(d) == IF IsFinite(d) THEN ToChars(d) ELSE Text("null")
=============================================================================
