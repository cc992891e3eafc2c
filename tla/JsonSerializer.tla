--------------------------- MODULE JsonSerializer ---------------------------
(* The class serializer.  Its two buffers - the escaped string and the      *)
(* number - are written out before they are full, and only what is written  *)
(* is kept here.  A byte Thrown stands for the exception of dump_escaped(). *)
EXTENDS JsonLexer
LOCAL INSTANCE SequencesExt

Thrown == -1
Hex(n) == IF n < 10 THEN C("0") + n ELSE C("a") + n - 10
Hex4(c) == <<C("\\"), C("u"), Hex(c \div 4096), Hex((c \div 256) % 16), Hex((c \div 16) % 16), Hex(c % 16)>>
ShortEscape == [c \in {8, 9, 10, 12, 13, 34, 92} |->
    <<C("\\"), CASE c = 8 -> C("b") [] c = 9 -> C("t") [] c = 10 -> C("n") [] c = 12 -> C("f")
                 [] c = 13 -> C("r") [] OTHER -> c>>]
Escaped(codepoint, bytes, ensure_ascii) ==
    CASE codepoint \in DOMAIN ShortEscape -> ShortEscape[codepoint]
      [] codepoint <= 31 \/ (ensure_ascii /\ codepoint \in 127..65535) -> Hex4(codepoint)
      [] ensure_ascii /\ codepoint > 65535 ->
            Hex4(55232 + codepoint \div 1024) \o Hex4(56320 + (codepoint % 1024))
      [] OTHER -> bytes
Replacement(ensure_ascii) == IF ensure_ascii THEN Text("\\ufffd") ELSE <<239, 191, 189>>

(* decode(): pending are the bytes of a character that is not complete yet, *)
(* rest the ranges of those to come; the automaton is in state 0 when rest  *)
(* is empty.                                                                *)
Decode(state, byte) ==
    LET ok == IF state.pending = <<>> THEN byte < 128 \/ byte \in 194..244 ELSE byte \in state.rest[1]
    IN [ok |-> ok, pending |-> Append(state.pending, byte),
        rest |-> CASE ~ok -> <<>>
                   [] state.pending # <<>> -> Tail(state.rest)
                   [] byte < 128 -> <<>>
                   [] OTHER -> Following(byte)]
Codepoint(bytes) ==
    LET lead == CASE bytes[1] < 128 -> bytes[1] [] bytes[1] < 224 -> bytes[1] % 32
                  [] bytes[1] < 240 -> bytes[1] % 16 [] OTHER -> bytes[1] % 8
    IN FoldLeft(LAMBDA c, b : c * 64 + (b % 64), lead, Tail(bytes))

Accepted == [pending |-> <<>>, rest |-> <<>>]
Rejected(out, ensure_ascii, handler) ==
    CASE handler = "strict" -> Append(out, Thrown)
      [] handler = "replace" -> out \o Replacement(ensure_ascii)
      [] handler = "ignore" -> out

RECURSIVE EscapeFrom(_, _, _, _, _, _)
EscapeFrom(s, i, state, out, ensure_ascii, handler) ==
    IF i > Len(s)
    THEN IF state = Accepted THEN out ELSE Rejected(out, ensure_ascii, handler)
    ELSE LET next == Decode(state, s[i])
             again == state.pending # <<>>         \* read the byte again
         IN CASE ~next.ok /\ handler = "strict" -> Append(out, Thrown)
              [] ~next.ok -> EscapeFrom(s, IF again THEN i ELSE i + 1, Accepted,
                                        Rejected(out, ensure_ascii, handler), ensure_ascii, handler)
              [] next.rest # <<>> ->
                    EscapeFrom(s, i + 1, [pending |-> next.pending, rest |-> next.rest], out, ensure_ascii, handler)
              [] OTHER ->
                    EscapeFrom(s, i + 1, Accepted,
                               out \o Escaped(Codepoint(next.pending), next.pending, ensure_ascii),
                               ensure_ascii, handler)
DumpEscaped(s, o) == Text("\"") \o EscapeFrom(s, 1, Accepted, <<>>, o.ascii, o.handler) \o Text("\"")
-----------------------------------------------------------------------------
(* The options of dump(): pretty, ascii, step and char (of an indentation)  *)
(* and handler.                                                             *)
Indent(o, n) == IF o.pretty THEN Repeat(o.char, n) ELSE <<>>
Line(o) == IF o.pretty THEN <<10>> ELSE <<>>
Colon(o) == Text(IF o.pretty THEN ": " ELSE ":")
Joined(parts, separator) ==
    FlattenSeq([i \in DOMAIN parts |-> parts[i] \o (IF i = Len(parts) THEN <<>> ELSE separator)])
Enclosed(first, parts, last, o, current) ==
    LET deep == Indent(o, current + o.step)
    IN IF parts = <<>> THEN first \o last
       ELSE first \o Line(o) \o deep \o Joined(parts, Text(",") \o Line(o) \o deep)
            \o Line(o) \o Indent(o, current) \o last

(* The members "bytes" and "subtype" of a binary value.                     *)
DumpBinary(v, o, current) ==
    LET bytes == Joined([i \in DOMAIN v[2] |-> Digits(Word(v[2][i]))], Text(IF o.pretty THEN ", " ELSE ","))
        subtype == IF v[3] = NoSubtype THEN Text("null") ELSE Digits(v[3])
    IN Enclosed(Text("{"),
                <<Text("\"bytes\"") \o Colon(o) \o Text("[") \o bytes \o Text("]"),
                  Text("\"subtype\"") \o Colon(o) \o subtype>>,
                Text("}"), o, current)

RECURSIVE DumpAt(_, _, _)
DumpObject(v, o, current) ==
    LET keys == Keys(v[2])
    IN Enclosed(Text("{"),
                [i \in DOMAIN keys |->
                    DumpEscaped(keys[i], o) \o Colon(o) \o DumpAt(v[2][keys[i]], o, current + o.step)],
                Text("}"), o, current)
DumpArray(v, o, current) ==
    Enclosed(Text("["), [i \in DOMAIN v[2] |-> DumpAt(v[2][i], o, current + o.step)], Text("]"), o, current)
DumpAt(v, o, current) ==
    CASE IsObject(v) -> DumpObject(v, o, current)
      [] IsArray(v) -> DumpArray(v, o, current)
      [] Type(v) = "string" -> DumpEscaped(v[2], o)
      [] Type(v) = "binary" -> DumpBinary(v, o, current)
      [] Type(v) = "boolean" -> Text(IF v[2] THEN "true" ELSE "false")
      [] IsInteger(v) -> DumpInteger(v)
      [] Type(v) = "float" -> DumpFloat(v[2])
      [] Type(v) = "discarded" -> Text("<discarded>")
      [] Type(v) = "null" -> Text("null")
Dump(v, o) == DumpAt(v, o, 0)
=============================================================================
