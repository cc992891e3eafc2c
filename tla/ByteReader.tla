----------------------------- MODULE ByteReader -----------------------------
(* What the four binary formats of binary_reader and binary_writer share:   *)
(* the input, the current byte, the events sent so far and the first error, *)
(* which ends the run as the exception does that parse_error() throws.      *)
(* val is what the last get_... function has filled in.                     *)
EXTENDS JsonSax
LOCAL INSTANCE SequencesExt

Reading(bytes) == [in |-> bytes, at |-> 0, cur |-> Eof, ev |-> <<>>, err |-> 0, val |-> <<>>]

Fail(s, code) == [s EXCEPT !.err = code]
Then(s, Op(_)) == IF s.err # 0 THEN s ELSE Op(s)
Send(s, e) == [s EXCEPT !.ev = Append(s.ev, e)]
SendValue(s, v) == Send(s, Scalar(v))
SendStart(s, e) == IF Excessive(e[2]) THEN Fail(s, 408) ELSE Send(s, e)

Get(s) == IF s.at = Len(s.in) THEN [s EXCEPT !.cur = Eof]
          ELSE [s EXCEPT !.at = s.at + 1, !.cur = s.in[s.at + 1]]
UnexpectEof(s) == IF s.cur = Eof THEN Fail(s, 110) ELSE s

RECURSIVE GetIgnoreNoop(_)
GetIgnoreNoop(s) == LET t == Get(s) IN IF t.cur = Code["N"] THEN GetIgnoreNoop(t) ELSE t

(* get_to() and get_number(): all the bytes at once, the current byte stays. *)
GetNumber(s, size, little) ==
    IF s.at + size > Len(s.in) THEN Fail([s EXCEPT !.at = Len(s.in)], 110)
    ELSE LET b == SubSeq(s.in, s.at + 1, s.at + size)
         IN [s EXCEPT !.at = s.at + size, !.val = IF little THEN Reverse(b) ELSE b]

(* get_string() and get_binary(): len times get(), none if len is negative. *)
GetBytes(s, len) ==
    IF len <= 0 THEN [s EXCEPT !.val = <<>>]
    ELSE IF s.at + len > Len(s.in) THEN Fail([s EXCEPT !.at = Len(s.in), !.cur = Eof], 110)
    ELSE [s EXCEPT !.at = s.at + len, !.cur = s.in[s.at + len],
                   !.val = SubSeq(s.in, s.at + 1, s.at + len)]

(* The decoder of RFC 7049 for a number of 16 bits.                         *)
HalfToDouble(h) ==
    LET exp == (h[1] \div 4) % 32
        mant == (h[1] % 4) * 256 + h[2]
        val == CASE exp = 0 -> Scaled(ToDouble(mant), -24)
                 [] exp = 31 -> IF mant = 0 THEN Infinity ELSE QuietNaN
                 [] OTHER -> Scaled(ToDouble(mant + 1024), exp - 25)
    IN IF h[1] >= 128 THEN Minus(val) ELSE val

(* sax_parse(): in strict mode the next byte must be the end of the input.  *)
StrictEnd(s, Next(_)) == LET t == Next(s) IN IF t.cur = Eof THEN t ELSE Fail(t, 110)
Result(s) == IF s.err = 0 THEN Built(s.ev) ELSE Discarded
-----------------------------------------------------------------------------
(* binary_writer::write_number and the floats of CBOR and MessagePack.      *)
WriteNumber(w, size, little) == IF little THEN Reverse(ToBytes(w, size)) ELSE ToBytes(w, size)
CompactFloat(d, single, double) ==
    IF ~IsFinite(d) \/ IsSingle(d) THEN <<single>> \o Narrow(d) ELSE <<double>> \o d

(* The bytes that an unsigned word needs: 1, 2, 4 or 8.                     *)
Fits(w, size) == \A i \in 1..(8 - size) : w[i] = 0
Width(w) == CHOOSE k \in {1, 2, 4, 8} : Fits(w, k) /\ \A j \in {1, 2, 4, 8} : Fits(w, j) => k <= j
(* The same for a signed one.                                               *)
FitsSigned(w, size) == w = SignExtend(ToBytes(w, size))
=============================================================================
