------------------------------ MODULE JsonSax ------------------------------
(* The SAX events of a parser and the two classes that build a value from   *)
(* them, json_sax_dom_parser and json_sax_dom_callback_parser.  A reader    *)
(* keeps the events it has sent in a sequence; Built and Filtered are what  *)
(* the handlers make of it.                                                 *)
(*                                                                          *)
(* ref_stack is a sequence of frames, from the root to the innermost open   *)
(* container.  The code stores a container in its parent when it starts and *)
(* works on a pointer to it; here a frame holds the container and is stored *)
(* in its parent when it ends, which only an error in between could tell.   *)
EXTENDS JsonValue
LOCAL INSTANCE SequencesExt

Scalar(v) == <<"value", v>>
StartObject(len) == <<"start_object", len>>
Key(k) == <<"key", k>>
EndObject == <<"end_object">>
StartArray(len) == <<"start_array", len>>
EndArray == <<"end_array">>

(* What start_array() and start_object() throw: "excessive size".           *)
Excessive(len) == len # Unknown /\ len >= Huge
-----------------------------------------------------------------------------
Frame(v) == [v |-> v, key |-> <<>>]
Put(f, v) == IF IsArray(f.v) THEN [f EXCEPT !.v = Array(Append(f.v[2], v))]
             ELSE [f EXCEPT !.v = Object(With(f.v[2], f.key, v))]

(* d.root and d.stack of the DOM parser; object_element is the key of the   *)
(* frame it points into.                                                    *)
HandleValue(d, v) ==
    IF d.stack = <<>> THEN [d EXCEPT !.root = v]
    ELSE [d EXCEPT !.stack = Append(Front(d.stack), Put(Last(d.stack), v))]

OnEvent(d, e) ==
    CASE e[1] = "value" -> HandleValue(d, e[2])
      [] e[1] = "start_object" -> [d EXCEPT !.stack = Append(d.stack, Frame(Object(NoMembers)))]
      [] e[1] = "start_array" -> [d EXCEPT !.stack = Append(d.stack, Frame(Array(<<>>)))]
      [] e[1] = "key" -> [d EXCEPT !.stack[Len(d.stack)].key = e[2]]
      [] e[1] \in {"end_object", "end_array"} ->
            HandleValue([d EXCEPT !.stack = Front(d.stack)], Last(d.stack).v)

Built(events) == FoldLeft(OnEvent, [root |-> Null, stack |-> <<>>], events).root
-----------------------------------------------------------------------------
(* The parser with a callback, Keep(depth, event, value).  A frame without  *)
(* a container stands for the null pointer of one that is not kept.         *)
NoRef == Frame(Null)
Open(d) == d.stack # <<>> /\ Last(d.stack) # NoRef

(* handle_value() creates a value unless its container, the callback or its *)
(* key refuses it; it takes the decision about the key off key_keep_stack   *)
(* only when it gets as far as that.                                        *)
Wanted(d, accepted) == Last(d.keep) /\ accepted
AsksKey(d, accepted) == Wanted(d, accepted) /\ Open(d) /\ IsObject(Last(d.stack).v)
Stored(d, accepted) ==
    /\ Wanted(d, accepted)
    /\ d.stack = <<>> \/ Open(d)
    /\ AsksKey(d, accepted) => Last(d.keys)
KeysLeft(d, accepted) == IF AsksKey(d, accepted) THEN Front(d.keys) ELSE d.keys

FilteredValue(d, v, accepted) ==
    LET e == [d EXCEPT !.keys = KeysLeft(d, accepted)]
    IN IF Stored(d, accepted) THEN HandleValue(e, v) ELSE e

FilteredStart(d, v, keep) ==
    LET e == [d EXCEPT !.keep = Append(d.keep, keep)]
    IN [e EXCEPT !.keys = KeysLeft(e, TRUE),
                 !.stack = Append(e.stack, IF Stored(e, TRUE) THEN Frame(v) ELSE NoRef)]

(* A kept key has a discarded member until its value comes.                 *)
FilteredKey(d, k, keep) ==
    LET e == [d EXCEPT !.keys = Append(d.keys, keep)]
        f == [Last(d.stack) EXCEPT !.key = k]
    IN IF keep /\ Open(d) THEN [e EXCEPT !.stack = Append(Front(d.stack), Put(f, Discarded))] ELSE e

Popped(d, v) ==
    LET e == [d EXCEPT !.stack = Front(d.stack), !.keep = Front(d.keep)]
    IN IF Open(d) THEN HandleValue(e, v) ELSE e

(* end_object() removes the first discarded element of the parent, whatever *)
(* became of the object that ends.                                          *)
WithoutDiscarded(v) ==
    LET At(s) == CHOOSE i \in DOMAIN s : s[i] = Discarded /\ \A j \in 1..(i - 1) : s[j] # Discarded
        gone == {k \in DOMAIN v[2] : v[2][k] = Discarded}
    IN IF \A x \in Range(Elements(v)) : x # Discarded THEN v
       ELSE IF IsArray(v) THEN Array(RemoveAt(v[2], At(v[2])))
       ELSE Object(Without(v[2], CHOOSE k \in gone : \A l \in gone : AtMost(k, l)))
FilteredEndObject(d, keep) ==
    LET e == Popped(d, IF keep THEN Last(d.stack).v ELSE Discarded)
    IN IF Open(e) THEN [e EXCEPT !.stack[Len(e.stack)].v = WithoutDiscarded(@)] ELSE e

FilteredEndArray(d, keep) ==
    LET e == Popped(d, IF keep THEN Last(d.stack).v ELSE Discarded)
    IN IF ~keep /\ Open(e) /\ IsArray(Last(e.stack).v)
       THEN [e EXCEPT !.stack[Len(e.stack)].v = Array(Front(@[2]))] ELSE e

OnFilteredEvent(Keep(_, _, _), d, e) ==
    LET depth == Len(d.stack)
    IN CASE e[1] = "value" -> FilteredValue(d, e[2], Last(d.keep) /\ Keep(depth, "value", e[2]))
         [] e[1] = "start_object" -> FilteredStart(d, Object(NoMembers), Keep(depth, "object_start", Discarded))
         [] e[1] = "start_array" -> FilteredStart(d, Array(<<>>), Keep(depth, "array_start", Discarded))
         [] e[1] = "key" -> FilteredKey(d, e[2], Keep(depth, "key", String(e[2])))
         [] e[1] = "end_object" ->
               FilteredEndObject(d, ~Open(d) \/ Keep(depth - 1, "object_end", Last(d.stack).v))
         [] e[1] = "end_array" ->
               FilteredEndArray(d, ~Open(d) \/ Keep(depth - 1, "array_end", Last(d.stack).v))

Filtered(Keep(_, _, _), events) ==
    FoldLeft(LAMBDA d, e : OnFilteredEvent(Keep, d, e),
             [root |-> Null, stack |-> <<>>, keep |-> <<TRUE>>, keys |-> <<>>], events).root
=============================================================================
