------------------------------- MODULE MCJson -------------------------------
(* Instances of Json.                                                       *)
EXTENDS Json

A == Text("a")
Words == {Word(0), Word(23), Word(24), Word(255), Word(256), Word(65536), <<0, 0, 0, 1, 0, 0, 0, 0>>,
          <<127, 255, 255, 255, 255, 255, 255, 255>>, Repeat(255, 8)}
Integers_ == {Word(-1), Word(-24), Word(-25), Word(-32), Word(-33), Word(-128), Word(-129), Word(-32769), SmallestInteger}
Floats == {Decimals[k] : k \in DOMAIN Decimals} \cup {Word(0), Minus(Word(0)), Infinity, Minus(Infinity), QuietNaN}
Strings == {<<>>, A, Text("\"\\/"), <<10, 0, 127>>, <<195, 164>>, <<226, 130, 172>>, <<240, 159, 152, 128>>,
            <<195, 97>>, <<97, 240, 159, 152>>, <<237, 160, 128>>, <<255>>, Repeat(120, 32)}
Scalars == {Null, Boolean(TRUE), Boolean(FALSE)} \cup {Unsigned(w) : w \in Words} \cup {Integer(w) : w \in Integers_}
           \cup {Float(d) : d \in Floats} \cup {String(s) : s \in Strings}
           \cup {Binary(b, s) : b \in {<<>>, <<1>>, <<1, 2, 3>>}, s \in {NoSubtype, Word(7)}}
Some == {Null, Boolean(TRUE), Unsigned(Word(300)), Integer(Word(-7)), Float(Decimals[<<"15", 1>>]), String(A)}
Nested == {Array(<<>>), Object(NoMembers)} \cup {Array(<<a, Array(<<b>>)>>) : a, b \in Some}
          \cup {Object(A :> a @@ <<>> :> Object(A :> a)) : a \in Some} \cup {Array(Repeat(Null, 16))}
(* A key with a zero byte, and an array with two dimensions.                *)
Odd == {Object(<<97, 0>> :> Null)} \cup
       {Object(ArrayType :> String(Text(t)) @@ ArraySize :> Array(Repeat(Unsigned(Word(2)), 2))
               @@ ArrayData :> Array([i \in 1..4 |-> Unsigned(Word(i))])) : t \in {"uint8", "byte", "int32"}}
MCValues == Scalars \cup Nested \cup Odd \cup {Object(A :> v) : v \in Scalars} \cup {Array(<<v, v>>) : v \in Scalars}
MCOptions == {[pretty |-> FALSE, ascii |-> FALSE, step |-> 0, char |-> 32, handler |-> "strict"],
              [pretty |-> TRUE, ascii |-> TRUE, step |-> 1, char |-> 9, handler |-> "replace"],
              [pretty |-> FALSE, ascii |-> FALSE, step |-> 0, char |-> 32, handler |-> "ignore"]}

Alphabet == {C(c) : c \in {"[", "]", "{", "}", ",", "\"", "1", "0", "-", ".", "e", " "}}
Inner == {C(c) : c \in {"\"", ":", ",", "1", "}"}}
Upto(n, set) == UNION {[1..k -> set] : k \in 0..n}
Numbers == {C(c) : c \in {"1", "0", "-", ".", "e"}}
Brackets == {C(c) : c \in {"[", "]", ",", "1", " "}}
MCTexts == Upto(3, Alphabet) \cup Upto(4, Numbers) \cup Upto(4, Brackets) \cup {Text("{\"") \o s \o Text("1}") : s \in Upto(4, Inner)}
           \cup {Text(s) : s \in {"{\"a\":[1,{\"a\":2,\"b\":3}],\"b\":{\"a\":{}}}", "[ true , false , null ]", "[nul]",
                                  "-0.5e+1", "1e-", "[[],[[]],{}]", "{\"a\":1,}", "[1,,]", "{\"b\" : {\"a\" : [ ] } }"}}

Docs == {Null, Unsigned(Word(1)), Integer(Word(1)), Array(<<>>), Object(NoMembers)}
MCDocuments ==
    Docs \cup {Array(<<a, b>>) : a, b \in Docs} \cup {Array(<<a, Array(<<a>>), Null>>) : a \in Docs}
    \cup {Object(k :> a @@ l :> b) : k, l \in {A, Text("/~1")}, a, b \in {Null, Unsigned(Word(1)), Array(<<Null>>)}}
    \cup {Array([i \in 1..12 |-> Unsigned(Word(i))])}
=============================================================================
