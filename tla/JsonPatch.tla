----------------------------- MODULE JsonPatch -----------------------------
(* JSON patches: patch_inplace(), patch(), diff() and merge_patch() of      *)
(* basic_json.  The operations change the document one after the other; an  *)
(* exception in one of them leaves what the others have done.               *)
EXTENDS JsonPointer
LOCAL INSTANCE SequencesExt

Done(doc) == [doc |-> doc, error |-> 0]
Refused(doc, id) == [doc |-> doc, error |-> id]
Changed(doc, new) == IF Failed(new) THEN Refused(doc, new[2]) ELSE Done(new)

InsertInto(doc, where, items, x, index) ==
    CASE Failed(index) -> Refused(doc, index[2])
      [] ~Failed(index) /\ index[2] > Len(items) -> Refused(doc, 401)
      [] OTHER -> Done(PutAt(doc, where, Array(InsertAt(items, index[2] + 1, x))))
AddTo(doc, where, last, x, parent) ==
    CASE Failed(parent) -> Refused(doc, parent[2])
      [] Type(parent) \in {"null", "object"} ->
            Done(PutAt(doc, where, Object(With(AsContainer(parent, FALSE)[2], last, x))))
      [] IsArray(parent) ->
            InsertInto(doc, where, parent[2], x,
                       IF last = Dash THEN <<"index", Len(parent[2])>> ELSE ArrayIndex(last))
OperationAdd(doc, ptr, x) ==
    IF ptr = <<>> THEN Done(x) ELSE AddTo(doc, Front(ptr), Last(ptr), x, At(doc, Front(ptr)))

RemoveItem(doc, where, items, index) ==
    CASE Failed(index) -> Refused(doc, index[2])
      [] ~Failed(index) /\ index[2] >= Len(items) -> Refused(doc, 401)
      [] OTHER -> Done(PutAt(doc, where, Array(RemoveAt(items, index[2] + 1))))
(* A parent that is no container has nothing to remove, and no error.       *)
RemoveFrom(doc, where, last, parent) ==
    CASE Failed(parent) -> Refused(doc, parent[2])
      [] IsObject(parent) -> IF last \in DOMAIN parent[2] THEN Done(PutAt(doc, where, Object(Without(parent[2], last))))
                             ELSE Refused(doc, 403)
      [] IsArray(parent) -> RemoveItem(doc, where, parent[2], ArrayIndex(last))
      [] OTHER -> Done(doc)
OperationRemove(doc, ptr) ==
    IF ptr = <<>> THEN Refused(doc, 405) ELSE RemoveFrom(doc, Front(ptr), Last(ptr), At(doc, Front(ptr)))

(* get_value(): a member of an operation, and get_op().                     *)
GetValue(val, member, string_type) ==
    CASE Text(member) \notin DOMAIN val[2] -> Exception(105)
      [] string_type /\ Type(val[2][Text(member)]) # "string" -> Exception(105)
      [] OTHER -> val[2][Text(member)]
Operations == {"add", "remove", "replace", "move", "copy", "test"}
GetOp(op) == IF \E o \in Operations : Text(o) = op[2] THEN CHOOSE o \in Operations : Text(o) = op[2]
             ELSE "invalid"

TestFails(found, x) ==
    CASE Failed(found) /\ ~OutOfRange(found) -> found[2]
      [] OutOfRange(found) -> 501
      [] ~Failed(found) /\ Failed(x) -> x[2]
      [] OTHER -> IF Equal(found, x) THEN 0 ELSE 501

AddMoved(removed, ptr, v) == IF removed.error = 0 THEN OperationAdd(removed.doc, ptr, v) ELSE removed
MoveOrCopyAt(doc, ptr, from, v, moving) ==
    IF Failed(v) THEN Refused(doc, v[2])
    ELSE AddMoved(IF moving THEN OperationRemove(doc, from) ELSE Done(doc), ptr, v)
MoveOrCopy(doc, ptr, from, moving) ==
    LET p == Split(from[2])
    IN CASE Failed(from) -> Refused(doc, from[2])
         [] ~Failed(from) /\ p.error # 0 -> Refused(doc, p.error)
         [] OTHER -> MoveOrCopyAt(doc, ptr, p.tokens, At(doc, p.tokens), moving)

Apply(doc, val) ==
    LET op == GetValue(val, "op", TRUE)
        path == GetValue(val, "path", TRUE)
        ptr == Split(path[2])
        kind == GetOp(op)
        x == GetValue(val, "value", FALSE)
        from == GetValue(val, "from", TRUE)
    IN CASE ~IsObject(val) -> Refused(doc, 104)
         [] Failed(op) \/ Failed(path) -> Refused(doc, 105)
         [] ptr.error # 0 -> Refused(doc, ptr.error)
         [] kind = "add" -> IF Failed(x) THEN Refused(doc, x[2]) ELSE OperationAdd(doc, ptr.tokens, x)
         [] kind = "remove" -> OperationRemove(doc, ptr.tokens)
         [] kind = "replace" -> Changed(doc, IF Failed(x) THEN x ELSE PutAt(doc, ptr.tokens, x))
         [] kind \in {"move", "copy"} -> MoveOrCopy(doc, ptr.tokens, from, kind = "move")
         [] kind = "test" -> [doc |-> doc, error |-> TestFails(At(doc, ptr.tokens), x)]
         [] kind = "invalid" -> Refused(doc, 105)

PatchInPlace(doc, patch) ==
    IF ~IsArray(patch) THEN Refused(doc, 104)
    ELSE FoldLeft(LAMBDA r, val : IF r.error # 0 THEN r ELSE Apply(r.doc, val), Done(doc), patch[2])
DocumentOf(r) == IF r.error = 0 THEN r.doc ELSE Exception(r.error)
Patch(doc, patch) == DocumentOf(PatchInPlace(doc, patch))
-----------------------------------------------------------------------------
Operation(op, path) == Text("op") :> String(Text(op)) @@ Text("path") :> String(path)
Removal(path) == Object(Operation("remove", path))
Change(op, path, x) == Object(Text("value") :> x @@ Operation(op, path))

RECURSIVE Diff(_, _, _)
(* Mutant: the surplus elements are removed from the first one on.          *)
DiffArraysForward(source, target, path) ==
    LET m == Len(source)
        n == Len(target)
        common == IF m < n THEN m ELSE n
        At_(i) == path \o <<Slash>> \o Digits(Word(i - 1))
    IN FlattenSeq([i \in 1..common |-> Diff(source[i], target[i], At_(i))])
       \o [i \in 1..(m - common) |-> Removal(At_(common + i))]
       \o [i \in 1..(n - common) |-> Change("add", path \o <<Slash>> \o Dash, target[common + i])]
DiffArrays(source, target, path) ==
    LET m == Len(source)
        n == Len(target)
        common == IF m < n THEN m ELSE n
        At_(i) == path \o <<Slash>> \o Digits(Word(i - 1))
    IN FlattenSeq([i \in 1..common |-> Diff(source[i], target[i], At_(i))])
       \o [i \in 1..(m - common) |-> Removal(At_(m + 1 - i))]
       \o [i \in 1..(n - common) |-> Change("add", path \o <<Slash>> \o Dash, target[common + i])]
DiffObjects(source, target, path) ==
    LET At_(k) == path \o <<Slash>> \o Escape(k)
        old == Keys(source)
        new == SelectSeq(Keys(target), LAMBDA k : k \notin DOMAIN source)
    IN FlattenSeq([i \in DOMAIN old |->
                      IF old[i] \in DOMAIN target THEN Diff(source[old[i]], target[old[i]], At_(old[i]))
                      ELSE <<Removal(At_(old[i]))>>])
       \o [i \in DOMAIN new |-> Change("add", At_(new[i]), target[new[i]])]
Diff(source, target, path) ==
    CASE Equal(source, target) -> <<>>
      [] IsArray(source) /\ IsArray(target) -> DiffArrays(source[2], target[2], path)
      [] IsObject(source) /\ IsObject(target) -> DiffObjects(source[2], target[2], path)
      [] OTHER -> <<Change("replace", path, target)>>

RECURSIVE MergePatch(_, _)
MergePatch(doc, patch) ==
    IF ~IsObject(patch) THEN patch
    ELSE FoldLeft(LAMBDA r, k : IF patch[2][k] = Null THEN Object(Without(r[2], k))
                                ELSE Object(With(r[2], k, MergePatch(Member(r, k), patch[2][k]))),
                  IF IsObject(doc) THEN doc ELSE Object(NoMembers), Keys(patch[2]))
=============================================================================
