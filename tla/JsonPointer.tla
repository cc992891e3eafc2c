---------------------------- MODULE JsonPointer ----------------------------
(* JSON pointers: the class json_pointer, and the functions of basic_json   *)
(* that change a value through them - flatten(), unflatten(),               *)
(* patch_inplace(), diff() - or beside them, merge_patch().                 *)
(*                                                                          *)
(* A pointer is the sequence of its reference tokens.  What the code throws *)
(* is a value of the type "error" with the number of the exception.         *)
EXTENDS JsonNumber
LOCAL INSTANCE SequencesExt

Exception(id) == <<"error", id>>
Failed(v) == Type(v) = "error"
OutOfRange(v) == Failed(v) /\ v[2] \in 401..410
Dash == Text("-")
Tilde == C("~")
Slash == C("/")
-----------------------------------------------------------------------------
(* detail::escape() and unescape(), one replacement after the other.        *)
ReplaceByte(s, b, by) == FlattenSeq([i \in DOMAIN s |-> IF s[i] = b THEN by ELSE <<s[i]>>])
Escape(s) == ReplaceByte(ReplaceByte(s, Tilde, <<Tilde, C("0")>>), Slash, <<Tilde, C("1")>>)
RECURSIVE ReplacePair(_, _, _)
ReplacePair(s, second, by) ==
    CASE s = <<>> -> <<>>
      [] Len(s) > 1 /\ s[1] = Tilde /\ s[2] = second -> <<by>> \o ReplacePair(SubSeq(s, 3, Len(s)), second, by)
      [] OTHER -> <<s[1]>> \o ReplacePair(Tail(s), second, by)
Unescape(s) == ReplacePair(ReplacePair(s, C("1"), Slash), C("0"), Tilde)

PointerText(tokens) == FlattenSeq([i \in DOMAIN tokens |-> <<Slash>> \o Escape(tokens[i])])

(* split(): the tokens of a reference string, or an error.                  *)
Properly(token) == \A i \in DOMAIN token : token[i] = Tilde =>
                       i < Len(token) /\ token[i + 1] \in {C("0"), C("1")}
Pieces(s) ==
    FoldLeft(LAMBDA parts, b : IF b = Slash THEN Append(parts, <<>>)
                               ELSE Append(Front(parts), Append(Last(parts), b)), <<>>, s)
Split(s) ==
    IF s = <<>> THEN [error |-> 0, tokens |-> <<>>]
    ELSE IF s[1] # Slash THEN [error |-> 107, tokens |-> <<>>]
    ELSE [error |-> IF \A i \in DOMAIN Pieces(s) : Properly(Pieces(s)[i]) THEN 0 ELSE 108,
          tokens |-> [i \in DOMAIN Pieces(s) |-> Unescape(Pieces(s)[i])]]

(* array_index(): the number a token stands for; Huge is more than any      *)
(* container has.                                                           *)
IndexOf(n) == CASE ~n.ok -> Exception(404)
                [] n.ok /\ n.word = Repeat(255, 8) -> Exception(410)
                [] OTHER -> <<"index", Count(n.word)>>
Numeric(token) == \A i \in DOMAIN token : token[i] \in Digit
ArrayIndex(token) ==
    CASE Len(token) > 1 /\ token[1] = C("0") -> Exception(106)
      [] Len(token) > 1 /\ token[1] \notin Digit -> Exception(109)
      [] token = <<>> \/ ~Numeric(token) -> Exception(404)
      [] OTHER -> IndexOf(Unsigned64(token))
-----------------------------------------------------------------------------
(* at() with one token, and with a pointer (get_checked()).                 *)
Element(v, index) ==
    CASE Failed(index) -> index
      [] ~Failed(index) /\ index[2] >= Len(v[2]) -> Exception(401)
      [] OTHER -> v[2][index[2] + 1]
Child(v, token) ==
    CASE Failed(v) -> v
      [] IsObject(v) -> IF token \in DOMAIN v[2] THEN v[2][token] ELSE Exception(403)
      [] IsArray(v) -> IF token = Dash THEN Exception(402) ELSE Element(v, ArrayIndex(token))
      [] OTHER -> Exception(404)
At(v, tokens) == FoldLeft(Child, v, tokens)

(* v with another value where at() finds one.                               *)
PutChild(v, token, x) ==
    IF IsObject(v) THEN Object(With(v[2], token, x))
    ELSE Array([v[2] EXCEPT ![ArrayIndex(token)[2] + 1] = x])
RECURSIVE PutAt(_, _, _)
PutAt(v, tokens, x) ==
    CASE Failed(At(v, tokens)) -> At(v, tokens)
      [] tokens = <<>> -> x
      [] OTHER -> PutChild(v, tokens[1], PutAt(Child(v, tokens[1]), Tail(tokens), x))

(* contains(): a token that is no index is not found, but the empty one     *)
(* throws.                                                                  *)
IsIndex(token) == Numeric(token) /\ (Len(token) > 1 => token[1] # C("0"))
RECURSIVE ContainsAt(_, _)
ContainsAt(v, tokens) ==
    CASE tokens = <<>> -> Boolean(TRUE)
      [] IsObject(v) /\ tokens[1] \in DOMAIN v[2] -> ContainsAt(v[2][tokens[1]], Tail(tokens))
      [] IsArray(v) /\ tokens[1] # Dash /\ IsIndex(tokens[1]) ->
            LET index == ArrayIndex(tokens[1])
            IN CASE Failed(index) -> index
                 [] ~Failed(index) /\ index[2] >= Len(v[2]) -> Boolean(FALSE)
                 [] OTHER -> ContainsAt(v[2][index[2] + 1], Tail(tokens))
      [] OTHER -> Boolean(FALSE)
-----------------------------------------------------------------------------
(* operator[] with an index or a key makes an array or an object of null,   *)
(* and what is missing in them null.                                        *)
Resized(s, n) == IF n < Len(s) THEN s ELSE s \o [i \in 1..(n + 1 - Len(s)) |-> Null]
AsContainer(v, array) == IF v # Null THEN v ELSE IF array THEN Array(<<>>) ELSE Object(NoMembers)
Member(v, token) == IF token \in DOMAIN v[2] THEN v[2][token] ELSE Null

(* An assignment through a pointer that creates what is missing: by         *)
(* get_unchecked(), or by get_and_create() when a value is unflattened.     *)
RECURSIVE Assign(_, _, _, _)
Assign(v0, tokens, x, unflattening) ==
    LET token == tokens[1]
        v == AsContainer(v0, IF unflattening THEN token = Text("0") ELSE Numeric(token) \/ token = Dash)
        index == IF token = Dash /\ ~unflattening THEN <<"index", Len(v[2])>> ELSE ArrayIndex(token)
        all == Resized(v[2], index[2])
        inner == IF IsObject(v) THEN Assign(Member(v, token), Tail(tokens), x, unflattening)
                 ELSE Assign(all[index[2] + 1], Tail(tokens), x, unflattening)
    IN CASE tokens = <<>> -> x
         [] IsObject(v) -> IF Failed(inner) THEN inner ELSE Object(With(v[2], token, inner))
         [] IsArray(v) -> IF Failed(index) THEN index ELSE IF Failed(inner) THEN inner
                          ELSE Array([all EXCEPT ![index[2] + 1] = inner])
         [] OTHER -> Exception(IF unflattening THEN 313 ELSE 404)

RECURSIVE FlattenAt(_, _)
FlattenAt(reference, v) ==
    LET part(i) == IF IsArray(v) THEN Digits(Word(i - 1)) ELSE Escape(Keys(v[2])[i])
        count == Len(Elements(v))
    IN CASE IsStructured(v) /\ count > 0 ->
               FoldLeft(LAMBDA f, g : g @@ f, NoMembers,
                        [i \in 1..count |-> FlattenAt(reference \o <<Slash>> \o part(i), Elements(v)[i])])
         [] IsStructured(v) /\ count = 0 -> reference :> Null
         [] OTHER -> reference :> v
Flatten(v) == Object(FlattenAt(<<>>, v))

Unflatten(v) ==
    LET Add(r, k) ==
            LET p == Split(k)
            IN CASE Failed(r) -> r
                 [] ~Failed(r) /\ IsStructured(v[2][k]) -> Exception(315)
                 [] ~Failed(r) /\ p.error # 0 -> Exception(p.error)
                 [] OTHER -> Assign(r, p.tokens, v[2][k], TRUE)
    IN IF ~IsObject(v) THEN Exception(314) ELSE FoldLeft(Add, Null, Keys(v[2]))
=============================================================================
