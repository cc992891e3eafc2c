----------------------------- MODULE JsonLexer -----------------------------
(* The class lexer: from the bytes of a JSON text to tokens.  What only     *)
(* serves error messages - the line, the column, the token as text - is     *)
(* left out; the number of bytes read stays, because scan() asks for it.    *)
(* The locale's decimal point is '.'.                                       *)
EXTENDS JsonNumber
LOCAL INSTANCE SequencesExt

NonZero == C("1")..C("9")
Newline == {10, 13}
Blank == {32, 9} \cup Newline

(* buf is the token_buffer; unget says that get() will return cur again.    *)
Lexing(text, comments) ==
    [in |-> text, at |-> 0, cur |-> Eof, unget |-> FALSE, total |-> 0, comments |-> comments,
     tok |-> "uninitialized", buf |-> <<>>, val |-> Null]

GetChar(l) ==
    CASE l.unget -> [l EXCEPT !.unget = FALSE, !.total = @ + 1]
      [] ~l.unget /\ l.at = Len(l.in) -> [l EXCEPT !.cur = Eof, !.total = @ + 1]
      [] OTHER -> [l EXCEPT !.at = @ + 1, !.cur = l.in[l.at + 1], !.total = @ + 1]
Unget(l) == [l EXCEPT !.unget = TRUE, !.total = @ - 1]
Reset(l) == [l EXCEPT !.buf = <<>>]
Add(l, bytes) == [l EXCEPT !.buf = @ \o bytes]
Token(l, tok) == [l EXCEPT !.tok = tok]
Error(l) == Token(l, "parse_error")
-----------------------------------------------------------------------------
(* The four digits after \u; -1 if one of them is none.                     *)
HexValue(c) ==
    CASE c \in Digit -> c - C("0")
      [] c \in C("A")..C("F") -> c - C("A") + 10
      [] c \in C("a")..C("f") -> c - C("a") + 10
      [] OTHER -> -1
RECURSIVE GetCodepoint(_, _, _)
GetCodepoint(l, n, value) ==
    LET t == GetChar(l)
    IN CASE n = 0 -> [l |-> l, value |-> value]
         [] n > 0 /\ HexValue(t.cur) = -1 -> [l |-> t, value |-> -1]
         [] OTHER -> GetCodepoint(t, n - 1, value * 16 + HexValue(t.cur))

Utf8(c) ==
    LET Tail6(n) == 128 + ((c \div 64^n) % 64)
    IN CASE c < 128 -> <<c>>
         [] c \in 128..2047 -> <<192 + c \div 64, Tail6(0)>>
         [] c \in 2048..65535 -> <<224 + c \div 4096, Tail6(1), Tail6(0)>>
         [] OTHER -> <<240 + c \div 262144, Tail6(2), Tail6(1), Tail6(0)>>

High == 55296..56319
Low == 56320..57343
Pair(high, low) == (high - 55296) * 1024 + (low - 56320) + 65536

(* \uXXXX: a high surrogate must be followed by the escape of a low one.    *)
Unicode(l) ==
    LET first == GetCodepoint(l, 4, 0)
        slash == GetChar(first.l)
        u == IF slash.cur = C("\\") THEN GetChar(slash) ELSE slash
        second == GetCodepoint(u, 4, 0)
    IN CASE first.value = -1 \/ first.value \in Low -> Error(first.l)
         [] first.value \in High ->
               IF slash.cur # C("\\") \/ u.cur # C("u") THEN Error(u)
               ELSE IF second.value \notin Low THEN Error(second.l)
               ELSE Add(second.l, Utf8(Pair(first.value, second.value)))
         [] OTHER -> Add(first.l, Utf8(first.value))

Short == [c \in {C("\""), C("\\"), C("/"), C("b"), C("f"), C("n"), C("r"), C("t")} |->
            CASE c = C("b") -> 8 [] c = C("f") -> 12 [] c = C("n") -> 10 [] c = C("r") -> 13
              [] c = C("t") -> 9 [] OTHER -> c]
ScanEscape(l0) ==
    LET l == GetChar(l0)
    IN CASE l.cur \in DOMAIN Short -> Add(l, <<Short[l.cur]>>)
         [] l.cur = C("u") -> Unicode(l)
         [] OTHER -> Error(l)

(* The bytes that must follow the first one of a character.                 *)
Continuation == 128..191
Following(c) ==
    CASE c \in 194..223 -> <<Continuation>>
      [] c = 224 -> <<160..191, Continuation>>
      [] c \in (225..236) \cup {238, 239} -> <<Continuation, Continuation>>
      [] c = 237 -> <<128..159, Continuation>>
      [] c = 240 -> <<144..191, Continuation, Continuation>>
      [] c \in 241..243 -> <<Continuation, Continuation, Continuation>>
      [] c = 244 -> <<128..143, Continuation, Continuation>>
NextByteInRange(l, ranges) ==
    FoldLeft(LAMBDA k, range :
                IF k.tok = "parse_error" THEN k
                ELSE LET t == GetChar(k) IN IF t.cur \in range THEN Add(t, <<t.cur>>) ELSE Error(t),
             Add(l, <<l.cur>>), ranges)

Control == 0..31
RECURSIVE StringRest(_)
StringRest(l0) ==
    IF l0.tok = "parse_error" THEN l0
    ELSE LET l == GetChar(l0)
         IN CASE l.cur = C("\"") -> [Token(l, "string") EXCEPT !.val = String(l.buf)]
              [] l.cur = C("\\") -> StringRest(ScanEscape(l))
              [] l.cur \in (32..127) \ {C("\""), C("\\")} -> StringRest(Add(l, <<l.cur>>))
              [] l.cur \in 194..244 -> StringRest(NextByteInRange(l, Following(l.cur)))
              [] OTHER -> Error(l)               \* the end, a control character, no first byte
ScanString(l) == StringRest(Token(Reset(l), "uninitialized"))
-----------------------------------------------------------------------------
(* A comment, after its '/'.                                                *)
RECURSIVE LineComment(_), BlockComment(_)
LineComment(l0) ==
    LET l == GetChar(l0) IN IF l.cur \in Newline \cup {Eof, 0} THEN l ELSE LineComment(l)
BlockComment(l0) ==
    LET l == GetChar(l0)
        t == GetChar(l)
    IN CASE l.cur \in {Eof, 0} -> Error(l)
         [] l.cur = C("*") -> IF t.cur = C("/") THEN t ELSE BlockComment(Unget(t))
         [] OTHER -> BlockComment(l)
ScanComment(l0) ==
    LET l == GetChar(l0)
    IN CASE l.cur = C("/") -> LineComment(l)
         [] l.cur = C("*") -> BlockComment(l)
         [] OTHER -> Error(l)
-----------------------------------------------------------------------------
(* The state machine of scan_number(): what each label does with the next   *)
(* character; "done" takes none.                                            *)
E == {C("e"), C("E")}
Started(c) == CASE c = C("-") -> "minus" [] c = C("0") -> "zero" [] c \in NonZero -> "any1"
AfterMinus(c) == CASE c = C("0") -> "zero" [] c \in NonZero -> "any1" [] OTHER -> "error"
(* Mutant: a zero is like any other digit.                                  *)
AfterZeroAny(c) ==
    CASE c \in Digit -> "any1" [] c = C(".") -> "decimal1" [] c \in E -> "exponent" [] OTHER -> "done"
AfterZero(c) == CASE c = C(".") -> "decimal1" [] c \in E -> "exponent" [] OTHER -> "done"
AfterAny1(c) == IF c \in Digit THEN "any1" ELSE AfterZero(c)
AfterDecimal1(c) == IF c \in Digit THEN "decimal2" ELSE "error"
AfterDecimal2(c) == CASE c \in Digit -> "decimal2" [] c \in E -> "exponent" [] OTHER -> "done"
AfterExponent(c) == CASE c \in {C("+"), C("-")} -> "sign" [] c \in Digit -> "any2" [] OTHER -> "error"
AfterSign(c) == IF c \in Digit THEN "any2" ELSE "error"
AfterAny2(c) == IF c \in Digit THEN "any2" ELSE "done"
NextState(state, c) ==
    CASE state = "minus" -> AfterMinus(c)
      [] state = "zero" -> AfterZero(c)
      [] state = "any1" -> AfterAny1(c)
      [] state = "decimal1" -> AfterDecimal1(c)
      [] state = "decimal2" -> AfterDecimal2(c)
      [] state = "exponent" -> AfterExponent(c)
      [] state = "sign" -> AfterSign(c)
      [] state = "any2" -> AfterAny2(c)
NumberType(type, state) ==
    CASE state \in {"decimal1", "exponent"} -> "float"
      [] state = "minus" -> "integer"
      [] OTHER -> type

RECURSIVE NumberRest(_, _, _)
NumberRest(l0, state, type) ==
    LET l == GetChar(l0)
        next == NextState(state, l.cur)
        text == l.buf
    IN CASE next = "error" -> Error(l)
         [] next # "done" -> NumberRest(Add(l, <<l.cur>>), next, NumberType(type, next))
         [] type = "unsigned" /\ Unsigned64(text).ok ->
               [Token(Unget(l), "unsigned") EXCEPT !.val = Unsigned(Unsigned64(text).word)]
         [] type = "integer" /\ Signed64(text).ok ->
               [Token(Unget(l), "integer") EXCEPT !.val = Integer(Signed64(text).word)]
         [] OTHER -> [Token(Unget(l), "float") EXCEPT !.val = Float(Strtod(text))]
ScanNumber(l) ==
    NumberRest(Add(Reset(l), <<l.cur>>), Started(l.cur), NumberType("unsigned", Started(l.cur)))
-----------------------------------------------------------------------------
ScanLiteral(l, rest, tok) ==
    FoldLeft(LAMBDA k, c : IF k.tok = "parse_error" THEN k
                           ELSE IF GetChar(k).cur = c THEN GetChar(k) ELSE Error(GetChar(k)),
             Token(l, tok), rest)

(* The byte order mark, at the beginning only.                              *)
SkipBom(l) == LET t == GetChar(l) IN IF t.cur = 239 THEN ScanLiteral(t, <<187, 191>>, "bom") ELSE Unget(t)

RECURSIVE SkipWhitespace(_), SkipComments(_)
SkipWhitespace(l) == LET t == GetChar(l) IN IF t.cur \in Blank THEN SkipWhitespace(t) ELSE t
SkipComments(l) ==
    IF ~l.comments \/ l.cur # C("/") THEN l
    ELSE LET t == ScanComment(l) IN IF t.tok = "parse_error" THEN t ELSE SkipComments(SkipWhitespace(t))

Structural == [c \in {C("["), C("]"), C("{"), C("}"), C(":"), C(",")} |->
    CASE c = C("[") -> "begin_array" [] c = C("]") -> "end_array"
      [] c = C("{") -> "begin_object" [] c = C("}") -> "end_object"
      [] c = C(":") -> "name_separator" [] c = C(",") -> "value_separator"]

ScanToken(l) ==
    CASE l.cur \in DOMAIN Structural -> Token(l, Structural[l.cur])
      [] l.cur = C("t") -> ScanLiteral(l, Text("rue"), "true")
      [] l.cur = C("f") -> ScanLiteral(l, Text("alse"), "false")
      [] l.cur = C("n") -> ScanLiteral(l, Text("ull"), "null")
      [] l.cur = C("\"") -> ScanString(l)
      [] l.cur \in Digit \cup {C("-")} -> ScanNumber(l)
      [] l.cur \in {0, Eof} -> Token(l, "end_of_input")
      [] OTHER -> Error(l)

Scan(l0) ==
    LET l == Token(l0, "uninitialized")
        m == IF l.total = 0 THEN SkipBom(l) ELSE l
        n == SkipComments(SkipWhitespace(m))
    IN CASE m.tok = "parse_error" -> m
         [] n.tok = "parse_error" -> n
         [] OTHER -> ScanToken(n)

(* All the tokens of a text.  scan() depends on nothing but the lexer, so   *)
(* its calls are made beforehand.                                           *)
RECURSIVE ScanAll(_)
ScanAll(l) == IF l.tok \in {"end_of_input", "parse_error"} THEN <<l>> ELSE <<l>> \o ScanAll(Scan(l))
Tokens(text, comments) == Tail(ScanAll(Lexing(text, comments)))
=============================================================================
