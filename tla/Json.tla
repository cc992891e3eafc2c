-------------------------------- MODULE Json --------------------------------
(* The JSON library at work.  A task writes a value to a file in one of the *)
(* formats, may lose the end of the file, and reads it again; or it reads a *)
(* text that something else wrote; or it compares two documents and applies *)
(* the patch, one operation after the other, to the first.                  *)
EXTENDS JsonParser, JsonSerializer, JsonPatch, Ubjson, JsonReference
CBOR == INSTANCE Cbor
MSGPACK == INSTANCE Msgpack
BSON == INSTANCE Bson
CONSTANTS Values,       \* what is written
          Options,      \* the ways to write it as text
          Texts,        \* what is read
          Documents,    \* what is compared
          Hidden,       \* the key that a filter refuses
          Nothing

VARIABLES task, file, cut, got
vars == <<task, file, cut, got>>

(* The options of to_ubjson() and to_bjdata(): the type needs the count.    *)
UbjsonOptions == {o \in [count : BOOLEAN, type : BOOLEAN, bj : BOOLEAN, draft3 : BOOLEAN] :
                     (o.type => o.count) /\ (o.draft3 => o.bj)}
Formats == [name : {"cbor", "msgpack", "bson"}] \cup [name : {"ubjson"}, o : UbjsonOptions]
Binaries == [do : {"store"}, format : Formats, value : Values]
Dumps == [do : {"dump"}, value : Values, options : Options]
Reads == [do : {"read"}, text : Texts, comments : BOOLEAN, commas : BOOLEAN]
Patches == [do : {"patch"}, source : Documents, target : Documents]

(* The text of a reading task, with a comment for each of its blanks.       *)
Given(t) == IF t.comments THEN ReplaceByte(t.text, 32, Text("/***/")) ELSE t.text

Init ==
    /\ task \in Binaries \cup Dumps \cup Reads \cup Patches
    /\ file = (IF task.do = "read" THEN Given(task) ELSE Nothing)
    /\ cut = FALSE
    /\ got = (IF task.do = "patch" THEN Done(task.source) ELSE Nothing)

Written(v, format) ==
    CASE format.name = "cbor" -> CBOR!WriteCbor(v)
      [] format.name = "msgpack" -> MSGPACK!WriteMsgpack(v)
      [] format.name = "bson" -> BSON!WriteDocument(v)
      [] format.name = "ubjson" -> WriteUbjson(v, TRUE, format.o)
ReadFrom(bytes, format) ==
    CASE format.name = "cbor" -> CBOR!FromCbor(bytes, "store")
      [] format.name = "msgpack" -> MSGPACK!FromMsgpack(bytes)
      [] format.name = "bson" -> BSON!FromBson(bytes)
      [] format.name = "ubjson" -> FromUbjson(bytes, format.o.bj)

(* BSON has only documents, and no key with a zero byte.                    *)
WriteBinary ==
    /\ task.do = "store" /\ file = Nothing /\ got = Nothing
    /\ IF task.format.name = "bson" /\ BSON!BsonError(task.value) # 0
       THEN got' = Exception(BSON!BsonError(task.value)) /\ UNCHANGED file
       ELSE file' = Written(task.value, task.format) /\ UNCHANGED got
    /\ UNCHANGED <<task, cut>>

(* dump() leaves with an exception where a string is not UTF-8.             *)
WriteText ==
    /\ task.do = "dump" /\ file = Nothing /\ got = Nothing
    /\ LET text == Dump(task.value, task.options)
       IN IF \E i \in DOMAIN text : text[i] = Thrown THEN got' = Exception(316) /\ UNCHANGED file
          ELSE file' = text /\ UNCHANGED got
    /\ UNCHANGED <<task, cut>>

Lose ==
    /\ task.do \in {"store", "dump"} /\ file # Nothing /\ ~cut /\ got = Nothing
    /\ \E n \in 0..(Len(file) - 1) : file' = SubSeq(file, 1, n)
    /\ cut' = TRUE
    /\ UNCHANGED <<task, got>>

ReadBinary ==
    /\ task.do = "store" /\ file # Nothing /\ got = Nothing
    /\ got' = ReadFrom(file, task.format)
    /\ UNCHANGED <<task, file, cut>>
ReadDump ==
    /\ task.do = "dump" /\ file # Nothing /\ got = Nothing
    /\ got' = Parse(file, FALSE, FALSE)
    /\ UNCHANGED <<task, file, cut>>
ReadText ==
    /\ task.do = "read" /\ got = Nothing
    /\ got' = Parse(file, task.comments, task.commas)
    /\ UNCHANGED <<task, file, cut>>

Compare ==
    /\ task.do = "patch" /\ file = Nothing
    /\ file' = Diff(task.source, task.target, <<>>)
    /\ UNCHANGED <<task, cut, got>>
ApplyNext ==
    /\ task.do = "patch" /\ file # Nothing /\ file # <<>> /\ got.error = 0
    /\ got' = Apply(got.doc, file[1])
    /\ file' = Tail(file)
    /\ UNCHANGED <<task, cut>>

Next ==
    \/ WriteBinary \/ WriteText \/ Lose \/ ReadBinary \/ ReadDump \/ ReadText
    \/ Compare \/ ApplyNext
Spec == Init /\ [][Next]_vars
-----------------------------------------------------------------------------
Same(a, b) == a = b \/ Equal(a, b)
HideKey(depth, event, v) == ~(event = "key" /\ v = String(Hidden))
IsUtf8(v) ==
    LET text == Dump(v, [task.options EXCEPT !.handler = "strict"])
    IN \A i \in DOMAIN text : text[i] # Thrown

(* What binary_writer or the serializer wrote, binary_reader or the parser  *)
(* reads as the same value - as far as the format can tell its values apart *)
(* - and a file that has lost its end is never taken for a value, except    *)
(* for a number.  Only a string that is not UTF-8 is refused or, with a     *)
(* handler, repaired so that it can be read.  The size that a BSON document *)
(* begins with is the number of bytes written.                              *)
ReadsBackWhatItWrote ==
    /\ task.do = "store" /\ got # Nothing =>
          CASE cut -> got = Discarded
            [] ~cut /\ Storable(task.value, task.format) -> Same(got, AsStored(task.value, task.format))
            [] OTHER -> Failed(got)
    /\ task.do = "store" /\ task.format.name = "bson" /\ file # Nothing /\ ~cut =>
          SubSeq(file, 1, 4) = WriteNumber(Word(Len(file)), 4, TRUE)
    /\ task.do = "dump" /\ file # Nothing /\ got # Nothing =>
          CASE cut -> got = Discarded \/ IsInteger(task.value) \/ Type(task.value) = "float"
            [] ~cut /\ IsUtf8(task.value) -> got = AsText(task.value)
            [] OTHER -> got # Discarded /\ IsUtf8(got)
    /\ task.do = "dump" /\ task.options.handler # "strict" => got # Exception(316)

(* The parser accepts exactly the texts of the grammar: it has no recursion *)
(* and decides by a stack of flags and the last token.  A callback that     *)
(* refuses a key removes the members of that key and nothing else.          *)
ReadsTheGrammar ==
    task.do = "read" /\ got # Nothing =>
        /\ got # Discarded <=> IsText(task.text, task.commas)
        /\ got # Discarded <=> Accept(file, task.comments, task.commas)
        /\ got # Discarded /\ ~task.comments =>
              ParseFiltered(HideKey, task.text) \in {Discarded, WithoutKey(got, Hidden)}

(* diff() finds a patch that leads from one document to the other: no       *)
(* operation of it fails on the way, although every one moves what the      *)
(* paths of those after it mean, and patch() applies them all.  What is     *)
(* flattened is found again under its reference string, and unflattened.    *)
(* A merge patch has nothing left to do when it is applied again.           *)
PatchLeadsToTarget ==
    task.do = "patch" =>
        /\ got.error = 0
        /\ file = <<>> =>
              LET flat == Flatten(task.source)
                  merged == MergePatch(task.source, task.target)
              IN /\ Same(got.doc, task.target)
                 /\ Patch(task.source, Array(Diff(task.source, task.target, <<>>))) = got.doc
                 /\ KeepsItsShape(task.source) => Unflatten(flat) = task.source
                 /\ \A k \in DOMAIN flat[2] :
                       /\ ContainsAt(task.source, Split(k).tokens) = Boolean(TRUE)
                       /\ At(task.source, Split(k).tokens) = flat[2][k] \/ flat[2][k] = Null
                 /\ MergePatch(merged, task.target) = merged
=============================================================================
