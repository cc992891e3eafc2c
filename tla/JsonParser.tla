----------------------------- MODULE JsonParser -----------------------------
(* The class parser: the tokens of the lexer become SAX events.  It is not  *)
(* recursive: states remembers of each open container whether it is an      *)
(* array, and at a turn of the loop either a value begins at the last token *)
(* or one has just ended.                                                   *)
EXTENDS JsonLexer, JsonSax
LOCAL INSTANCE SequencesExt

Parsing(text, comments, commas) ==
    [lex |-> Tokens(text, comments), ev |-> <<>>, states |-> <<>>, commas |-> commas, err |-> 0]
GetToken(p) == [p EXCEPT !.lex = Tail(@)]
Current(p) == p.lex[1]
LastToken(p) == Current(p).tok
Emit(p, e) == [p EXCEPT !.ev = Append(@, e)]
Unexpected(p) == [p EXCEPT !.err = 101]

Keyed(p) ==                                         \* a key and its separator
    LET k == GetToken(Emit(p, Key(Current(p).buf)))
    IN IF LastToken(p) # "string" THEN Unexpected(p)
       ELSE IF LastToken(k) # "name_separator" THEN Unexpected(k)
       ELSE GetToken(k)

ScalarValues == {"float", "integer", "unsigned", "string", "true", "false", "null"}
ScalarOf(l) == CASE l.tok \in {"true", "false"} -> Boolean(l.tok = "true")
                 [] l.tok = "null" -> Null
                 [] OTHER -> l.val

RECURSIVE ParseValue(_), ParseState(_)

BeginObject(p0) ==
    LET p == GetToken(Emit(p0, StartObject(Unknown)))
    IN IF LastToken(p) = "end_object" THEN ParseState(Emit(p, EndObject))
       ELSE LET k == Keyed(p) IN IF k.err # 0 THEN k ELSE ParseValue([k EXCEPT !.states = Append(@, FALSE)])
BeginArray(p0) ==
    LET p == GetToken(Emit(p0, StartArray(Unknown)))
    IN IF LastToken(p) = "end_array" THEN ParseState(Emit(p, EndArray))
       ELSE ParseValue([p EXCEPT !.states = Append(@, TRUE)])

ParseValue(p) ==
    CASE LastToken(p) = "begin_object" -> BeginObject(p)
      [] LastToken(p) = "begin_array" -> BeginArray(p)
      [] LastToken(p) = "float" /\ ~IsFinite(Current(p).val[2]) -> [p EXCEPT !.err = 406]
      [] LastToken(p) \in ScalarValues -> ParseState(Emit(p, Scalar(ScalarOf(Current(p)))))
      [] OTHER -> Unexpected(p)

Close(p, e) == ParseState([Emit(p, e) EXCEPT !.states = Front(@)])
NextElement(p0) ==
    LET p == GetToken(p0)
        q == IF LastToken(p) = "value_separator" THEN GetToken(p) ELSE p
    IN CASE LastToken(p) = "value_separator" /\ ~(q.commas /\ LastToken(q) = "end_array") -> ParseValue(q)
         [] LastToken(q) = "end_array" -> Close(q, EndArray)
         [] OTHER -> Unexpected(q)
NextMember(p0) ==
    LET p == GetToken(p0)
        q == IF LastToken(p) = "value_separator" THEN GetToken(p) ELSE p
        k == Keyed(q)
    IN CASE LastToken(p) = "value_separator" /\ ~(q.commas /\ LastToken(q) = "end_object") ->
               IF k.err # 0 THEN k ELSE ParseValue(k)
         [] LastToken(q) = "end_object" -> Close(q, EndObject)
         [] OTHER -> Unexpected(q)
ParseState(p) == IF p.states = <<>> THEN p ELSE IF Last(p.states) THEN NextElement(p) ELSE NextMember(p)

(* parse() and accept(), in strict mode.                                    *)
AtEnd(p) == IF p.err # 0 \/ LastToken(GetToken(p)) = "end_of_input" THEN p ELSE Unexpected(p)
ParseAll(text, comments, commas) == AtEnd(ParseValue(Parsing(text, comments, commas)))
Parsed(p) == IF p.err = 0 THEN Built(p.ev) ELSE Discarded
Parse(text, comments, commas) == Parsed(ParseAll(text, comments, commas))
NotDiscarded(v) == IF v = Discarded THEN Null ELSE v
ParsedFiltered(Keep(_, _, _), p) == IF p.err = 0 THEN NotDiscarded(Filtered(Keep, p.ev)) ELSE Discarded
ParseFiltered(Keep(_, _, _), text) == ParsedFiltered(Keep, ParseAll(text, FALSE, FALSE))
Accept(text, comments, commas) == ParseAll(text, comments, commas).err = 0
=============================================================================
