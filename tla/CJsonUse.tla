------------------------------ MODULE CJsonUse -------------------------------
(***************************************************************************)
(* A caller of the JSON library: it holds items that are in no list (its   *)
(* roots) and calls the operations of src/cjson.c on them in any order, on *)
(* a heap so small that every allocation can fail.  It keeps the library's *)
(* rules: an item is added to one list only, and what a reference still    *)
(* points to is neither deleted nor taken out.                             *)
(***************************************************************************)
EXTENDS CJson, FiniteSets

CONSTANTS Numbers,     \* the numbers the caller creates
          Broken,      \* texts that are not JSON
          Documents,   \* texts of which one has been read at the start
          MAX_CALLS    \* bound on the calls

ASSUME CJsonUseAssumption == Numbers \subseteq Int /\ MAX_CALLS \in Nat

VARIABLES heap, roots,
          cut,    \* parents whose last item was taken out or replaced (history)
          calls   \* how many operations have been called
vars == <<heap, roots, cut, calls>>

Keys == DOMAIN Static
Values == [type : {"array", "object"}, num : {0}, key : {0}]
          \cup [type : {"number"}, num : Numbers, key : {0}]
          \cup [type : {"string"}, num : {0}, key : {1}]

(* The cells that deleting an item frees, and all that printing it reads.  *)
RECURSIVE Cells(_, _, _)
Cells(h, item, follow) ==
  LET n == h[item]
      down == follow \/ ~n.ref
      kids == IF down THEN Range(ListFrom(h, n.child)) ELSE {}
  IN ({item} \cup (IF down THEN {n.valuestring} ELSE {})
             \cup (IF n.const THEN {} ELSE {n.string})
             \cup UNION {Cells(h, k, follow) : k \in kids}) \cap Live(h)
Owned(item) == Cells(heap, item, FALSE)
Seen(item) == Cells(heap, item, TRUE)
AllOwned == UNION {Owned(r) : r \in roots}
Items(r) == {i \in Owned(r) : heap[i].type # "text"}

(* Nothing outside the item refers to a cell inside it.                    *)
Unshared(item) ==
  \A n \in AllOwned \ Owned(item) :
    heap[n].type # "text" /\ heap[n].ref =>
      {heap[n].child, heap[n].valuestring} \cap Owned(item) = {}

(* The lists the caller may change, with the root they belong to.          *)
Lists(type) == {<<r, p>> \in roots \X AllOwned :
                  p \in Items(r) /\ heap[p].type = type /\ ~heap[p].ref}

(* The item may be put into a list of the tree of root r.                  *)
MayJoin(r, item) == item # r /\ Seen(item) \cap Owned(r) = {}

(* The item may leave its list.                                            *)
MayLeave(item) == item = NULL \/ Unshared(item)

(* The parent, if the item is its last one and the head's prev says so.    *)
LastOf(parent, item) ==
  {p \in {parent} : item # NULL /\ heap[item].next = NULL /\ heap[heap[p].child].prev # NULL}

Call == heap[NULL].type # "wild" /\ calls < MAX_CALLS /\ calls' = calls + 1

(* A call leaves the heap of step, the caller holding held, and has taken   *)
(* or replaced the last item of the parents in left.  Nothing is said of    *)
(* the heap after a wild append, and nothing is called then.               *)
Return(step, held, left) ==
  IF step.h[NULL].type = "wild"
  THEN heap' = [heap EXCEPT ![NULL].type = "wild"] /\ UNCHANGED <<roots, cut>>
  ELSE /\ heap' = step.h
       /\ roots' = held
       /\ cut' = {p \in cut \cup left : heap'[p].child # NULL}
Hold(step) == roots \cup ({step.r} \ {NULL})
Give(step, item) == IF step.r THEN roots \ {item} ELSE roots

Init ==
  \E text \in Documents :
    LET s == cJSON_Parse(EmptyHeap(CELLS), text)
    IN heap = s.h /\ roots = {s.r} \ {NULL} /\ cut = {} /\ calls = 0

CreateItem ==
  Call /\ \E v \in Values : LET s == Create(heap, v) IN Return(s, Hold(s), {})

CreateStringReference ==
  Call /\ \E k \in Keys : LET s == cJSON_CreateStringReference(heap, k) IN Return(s, Hold(s), {})

CreateIntArray ==
  Call /\ \E n \in [1 .. 2 -> Numbers \ {NAN}] :
    LET s == cJSON_CreateIntArray(heap, n) IN Return(s, Hold(s), {})

AddItemToArray ==
  Call /\ \E a \in Lists("array"), item \in roots :
    /\ MayJoin(a[1], item)
    /\ LET s == add_item_to_array(heap, a[2], item) IN Return(s, Give(s, item), {})

AddItemToObject ==
  Call /\ \E o \in Lists("object"), item \in roots, k \in Keys, constant \in BOOLEAN :
    /\ MayJoin(o[1], item)
    /\ LET s == add_item_to_object(heap, o[2], k, item, constant) IN Return(s, Give(s, item), {})

AddItemReferenceToArray ==
  Call /\ \E a \in Lists("array"), r \in roots : \E item \in Items(r) :
    /\ MayJoin(a[1], r)
    /\ Return(cJSON_AddItemReferenceToArray(heap, a[2], item), roots, {})

AddItemReferenceToObject ==
  Call /\ \E o \in Lists("object"), r \in roots, k \in Keys : \E item \in Items(r) :
    /\ MayJoin(o[1], r)
    /\ Return(cJSON_AddItemReferenceToObject(heap, o[2], k, item), roots, {})

AddValueToObject ==
  Call /\ \E o \in Lists("object"), k \in Keys, v \in Values :
    Return(AddNewToObject(heap, o[2], k, v), roots, {})

DetachItemFromArray ==
  Call /\ \E a \in Lists("array"), which \in 0 .. 2 :
    LET item == get_array_item(heap, a[2], which)
        s == cJSON_DetachItemViaPointer(heap, a[2], item)
    IN MayLeave(item) /\ Return(s, Hold(s), LastOf(a[2], item))

DetachItemFromObject ==
  Call /\ \E o \in Lists("object"), k \in Keys, cs \in BOOLEAN :
    LET item == get_object_item(heap, o[2], Static[k], cs)
        s == cJSON_DetachItemViaPointer(heap, o[2], item)
    IN MayLeave(item) /\ Return(s, Hold(s), LastOf(o[2], item))

(* cJSON_DeleteItemFromArray and cJSON_DeleteItemFromObject.               *)
DeleteItem ==
  Call /\ \E type \in {"array", "object"} : \E p \in Lists(type), which \in 0 .. 2 :
    LET item == get_array_item(heap, p[2], which)
        s == cJSON_DetachItemViaPointer(heap, p[2], item)
    IN MayLeave(item) /\ Return([s EXCEPT !.h = cJSON_Delete(s.h, s.r)], roots, LastOf(p[2], item))

InsertItemInArray ==
  Call /\ \E a \in Lists("array"), item \in roots, which \in 0 .. 2 :
    /\ MayJoin(a[1], item)
    /\ Return(cJSON_InsertItemInArray(heap, a[2], which, item), roots \ {item}, {})

ReplaceItemInArray ==
  Call /\ \E a \in Lists("array"), new \in roots, which \in 0 .. 2 :
    LET item == get_array_item(heap, a[2], which)
        s == cJSON_ReplaceItemViaPointer(heap, a[2], item, new)
    IN /\ MayJoin(a[1], new) /\ MayLeave(item)
       /\ Return(s, Give(s, new), LastOf(a[2], item))

ReplaceItemInObject ==
  Call /\ \E o \in Lists("object"), new \in roots, k \in Keys, cs \in BOOLEAN :
    LET item == get_object_item(heap, o[2], Static[k], cs)
        s == replace_item_in_object(heap, o[2], k, new, cs)
    IN /\ MayJoin(o[1], new) /\ MayLeave(item)
       /\ Return(s, Give(s, new), LastOf(o[2], item))

SetValuestring ==
  Call /\ \E r \in roots, k \in Keys : \E item \in Items(r) :
    /\ heap[item].type = "string"
    /\ \A n \in AllOwned \ {item} : heap[n].valuestring # heap[item].valuestring
    /\ Return(cJSON_SetValuestring(heap, item, k), roots, {})

Duplicate ==
  Call /\ \E r \in roots, recurse \in BOOLEAN : \E item \in Items(r) :
    LET s == cJSON_Duplicate(heap, item, recurse) IN Return(s, Hold(s), {})

Parse ==
  Call /\ \E text \in {cJSON_Print(heap, r) : r \in roots} \cup Broken :
    LET s == cJSON_Parse(heap, text) IN Return(s, Hold(s), {})

Delete ==
  Call /\ \E r \in roots :
    /\ Unshared(r)
    /\ Return([h |-> cJSON_Delete(heap, r), r |-> NULL], roots \ {r}, {})

Next ==
  \/ CreateItem \/ CreateStringReference \/ CreateIntArray
  \/ AddItemToArray \/ AddItemToObject \/ AddValueToObject
  \/ AddItemReferenceToArray \/ AddItemReferenceToObject \/ DetachItemFromArray
  \/ DetachItemFromObject \/ DeleteItem \/ InsertItemInArray
  \/ ReplaceItemInArray \/ ReplaceItemInObject \/ SetValuestring
  \/ Duplicate \/ Parse \/ Delete

Spec == Init /\ [][Next]_vars

------------------------------------------------------------------------------
RECURSIVE Chain(_, _)
Chain(e, n) == IF e = NULL \/ n = 0 THEN <<>> ELSE <<e>> \o Chain(heap[e].next, n - 1)
ChildrenOf(p) == Chain(heap[p].child, CELLS + 1)

(* Every list of items is intact, as long as nothing is appended behind an *)
(* item that has left the list: each prev undoes a next, the list ends,    *)
(* and the prev of its head is the last item, which the next append relies *)
(* on, or NULL (cjson.c:1965).  The exception is a list whose last item    *)
(* was taken out or replaced: the head's prev is then left as it was       *)
(* (cjson.c:2193, 2292), until the list is emptied.                        *)
ListsWellFormed ==
  /\ \A p \in Live(heap) :
       heap[p].type # "text" /\ ~heap[p].ref /\ heap[p].child # NULL =>
         LET list == ChildrenOf(p)
         IN /\ Len(list) <= CELLS
            /\ \A i \in 2 .. Len(list) : heap[list[i]].prev = list[i - 1]
            /\ p \in cut \/ heap[list[1]].prev \in {NULL, list[Len(list)]}
  /\ \A r \in roots : heap[r].next = NULL

(* No leak and no dangling pointer, whichever allocation fails: nothing is *)
(* freed twice or while it can be reached, and a cell that is in use       *)
(* belongs to the caller, to one list or to one item.  The one exception   *)
(* is a reference whose name could not be copied: AddItemReferenceToObject *)
(* forgets it (cjson.c:2082).                                              *)
OwnedOnce ==
  LET Nodes == {p \in Live(heap) : heap[p].type # "text"}
      Owners(a) ==
        {<<"caller", r>> : r \in roots \cap {a}}
        \cup {<<"list", p>> : p \in {q \in Nodes : ~heap[q].ref /\ a \in Range(ChildrenOf(q))}}
        \cup {<<"value", p>> : p \in {q \in Nodes : ~heap[q].ref /\ heap[q].valuestring = a}}
        \cup {<<"name", p>> : p \in {q \in Nodes : ~heap[q].const /\ heap[q].string = a}}
      Forgotten(a) == a \in Nodes /\ heap[a].ref /\ heap[a].string = NULL
  IN /\ \A a \in Live(heap) :
          Cardinality(Owners(a)) = 1 \/ (Owners(a) = {} /\ Forgotten(a))
     /\ heap[NULL].type # "bad"
     /\ \A p \in AllOwned :
          \A q \in {heap[p].next, heap[p].child, heap[p].valuestring, heap[p].string} :
            q > 0 => q \in Live(heap)

------------------------------------------------------------------------------
(* What an item stands for, independently of its links.                    *)
NameOf(h, p) == IF h[p].string = NULL THEN <<>> ELSE Text(h, h[p].string)
RECURSIVE Tree(_, _)
Tree(h, p) ==
  LET n == h[p]
      list == ListFrom(h, n.child)
  IN [type |-> n.type,
      num |-> IF n.type = "number" THEN <<n.valuedouble, n.valueint>> ELSE <<>>,
      text |-> IF n.type = "string" THEN Text(h, n.valuestring) ELSE <<>>,
      list |-> [i \in DOMAIN list |->
                  [name |-> IF n.type = "object" THEN NameOf(h, list[i]) ELSE <<>>,
                   item |-> Tree(h, list[i])]]]

RECURSIVE Finite(_), Depth(_), ReadAs(_, _)
Finite(t) == (t.type = "number" => t.num[1] # NAN) /\ \A i \in DOMAIN t.list : Finite(t.list[i].item)
Depth(t) ==
  IF t.type \notin {"array", "object"} THEN 0
  ELSE LET below == {Depth(t.list[i].item) : i \in DOMAIN t.list} \cup {0}
       IN 1 + (CHOOSE d \in below : \A e \in below : e <= d)

(* The value t may be read back as u: a number up to the relative error,   *)
(* with the integer that belongs to it, and NAN as null.                   *)
ReadAs(t, u) ==
  /\ t.text = u.text /\ DOMAIN t.list = DOMAIN u.list
  /\ CASE t.type # "number" -> u.type = t.type
       [] t.num[1] = NAN -> u.type = "null"
       [] OTHER -> /\ u.type = "number"
                   /\ compare_double(t.num[1], u.num[1])
                   /\ u.num[2] = cJSON_SetNumberHelper(u.num[1])
  /\ \A i \in DOMAIN t.list : /\ t.list[i].name = u.list[i].name
                              /\ ReadAs(t.list[i].item, u.list[i].item)

(* Memory enough to hold a copy of anything in the heap.                   *)
Ample == EmptyHeap(6 * CELLS)

(* What one side prints the other side reads: parsing the printed text of  *)
(* an item, references included, gives the same value, except that a       *)
(* number may have lost digits within the relative error of a double       *)
(* (cjson.c:576) and that NAN is null.  No more is lost on the next round: *)
(* what was read is printed as the same text.  Text nested deeper than the *)
(* limit is refused with everything freed again.                           *)
ReadsBack ==
  \A r \in roots :
    LET tree == Tree(heap, r)
        text == cJSON_Print(heap, r)
        read == cJSON_Parse(Ample, text)
    IN IF Depth(tree) > CJSON_NESTING_LIMIT
       THEN read.r = NULL /\ read.h = Ample
       ELSE /\ read.r # NULL
            /\ ReadAs(tree, Tree(read.h, read.r))
            /\ cJSON_Print(read.h, read.r) = text

RECURSIVE SameJson(_, _, _), Named(_, _, _)
SameJson(s, t, cs) ==
  LET same(m, n) == IF cs THEN m = n ELSE Lower(m) = Lower(n)
      held(a, b) == \A i \in DOMAIN a.list : \E j \in DOMAIN b.list :
                      /\ same(a.list[i].name, b.list[j].name)
                      /\ SameJson(a.list[i].item, b.list[j].item, cs)
  IN /\ s.type = t.type /\ s.text = t.text
     /\ s.type = "number" => compare_double(s.num[1], t.num[1])
     /\ Len(s.list) = Len(t.list)
     /\ IF s.type = "object" THEN held(s, t) /\ held(t, s)
        ELSE \A i \in DOMAIN s.list : SameJson(s.list[i].item, t.list[i].item, cs)

(* The members of every object have names, no two of them the same.        *)
Named(h, p, cs) ==
  LET list == ListFrom(h, h[p].child)
      name(i) == IF cs THEN NameOf(h, list[i]) ELSE Lower(NameOf(h, list[i]))
  IN /\ \A i \in DOMAIN list : Named(h, list[i], cs)
     /\ h[p].type = "object" =>
          \A i \in DOMAIN list : h[list[i]].string # NULL
                                 /\ \A j \in DOMAIN list : name(i) = name(j) => i = j

(* cJSON_Compare says that two items are equal exactly when they are built *)
(* alike from the same names and strings and from numbers that are equal   *)
(* up to the relative error of a double (cjson.c:547, 2991), the order of  *)
(* an object's members aside; it promises nothing for two members of one   *)
(* name, a member without a name or NAN.                                   *)
CompareIsEquality ==
  LET Plain(r, cs) == Named(heap, r, cs) /\ Finite(Tree(heap, r))
  IN \A cs \in BOOLEAN : \A a, b \in {r \in roots : Plain(r, cs)} :
       cJSON_Compare(heap, a, b, cs) <=> SameJson(Tree(heap, a), Tree(heap, b), cs)

(* A copy stands for the same value as the original, owns all of itself    *)
(* and, given the memory, always succeeds.                                 *)
CopiesAreEqual ==
  \A r \in roots :
    LET big == [a \in 0 .. 6 * CELLS |-> IF a <= CELLS THEN heap[a] ELSE Blank]
        copy == cJSON_Duplicate(big, r, TRUE)
    IN /\ copy.r # NULL
       /\ Tree(copy.h, copy.r) = Tree(heap, r)
       /\ cJSON_Delete(copy.h, copy.r) = big
==============================================================================
