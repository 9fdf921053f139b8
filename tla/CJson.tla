-------------------------------- MODULE CJson --------------------------------
(***************************************************************************)
(* iperf's JSON library (src/cjson.c): items in a heap of CELLS cells,     *)
(* linked into lists by next, prev and child, with names and values in     *)
(* string cells.  A heap operation takes the heap h and returns the record *)
(* [h |-> heap afterwards, r |-> result].  malloc fails when no cell is    *)
(* free, at any of the allocations of an operation.  The cell NULL stands  *)
(* for no address; it turns "bad" when something is freed that is not      *)
(* allocated, and "wild" when something is appended behind an item that    *)
(* has left the list.  A negative string pointer is one of the caller's    *)
(* constants.  Numbers are integers, of which PRECISION digits are printed *)
(* where the code prints 15, and the code's DBL_EPSILON is 1/INV_EPSILON.  *)
(***************************************************************************)
EXTENDS CJsonText, CJsonList

CONSTANTS CELLS,                 \* cells malloc can hand out
          Static,                \* the caller's strings: a sequence of texts
          NAN,                   \* the double that is not a number
          PRECISION,             \* significant digits of a printed number
          INV_EPSILON,           \* one over the relative error of a double
          LLONG_MIN, LLONG_MAX,  \* the range of valueint
          CJSON_NESTING_LIMIT    \* containers inside containers when parsing

ASSUME CJsonAssumption ==
  /\ CELLS \in Nat \ {0} /\ CJSON_NESTING_LIMIT \in Nat
  /\ LLONG_MIN \in Int /\ LLONG_MAX \in Int /\ LLONG_MIN < LLONG_MAX
  /\ NAN \in Int \ (LLONG_MIN .. LLONG_MAX)
  /\ PRECISION \in Nat \ {0} /\ INV_EPSILON \in Nat \ {0}

Blank == [type |-> "free", next |-> NULL, prev |-> NULL, child |-> NULL,
          valuestring |-> NULL, string |-> NULL, valueint |-> 0,
          valuedouble |-> 0, ref |-> FALSE, const |-> FALSE, text |-> <<>>]

EmptyHeap(size) == [a \in 0 .. size |-> Blank]
Live(h) == {a \in DOMAIN h \ {NULL} : h[a].type # "free"}
Text(h, p) == IF p < 0 THEN Static[-p] ELSE h[p].text

allocate(h, cell) ==
  LET free == (DOMAIN h \ {NULL}) \ Live(h)
      a == CHOOSE x \in free : \A y \in free : x <= y
  IN IF free = {} THEN [h |-> h, r |-> NULL]
     ELSE [h |-> [h EXCEPT ![a] = cell], r |-> a]

deallocate(h, p) ==
  IF p = NULL THEN h
  ELSE IF p \in Live(h) THEN [h EXCEPT ![p] = Blank]
  ELSE [h EXCEPT ![NULL].type = "bad"]

cJSON_New_Item(h) == allocate(h, [Blank EXCEPT !.type = "invalid"])

cJSON_strdup(h, text) ==
  allocate(h, [Blank EXCEPT !.type = "text", !.text = text])

(***************************************************************************)
(* An item, those behind it in its list, and all that they own.            *)
(***************************************************************************)
RECURSIVE cJSON_Delete(_, _)
cJSON_Delete(h, item) ==
  IF item = NULL THEN h
  ELSE LET n == h[item]
           h1 == IF n.ref THEN h ELSE cJSON_Delete(h, n.child)
           h2 == IF n.ref THEN h1 ELSE deallocate(h1, n.valuestring)
           h3 == IF n.const THEN h2 ELSE deallocate(h2, n.string)
       IN cJSON_Delete(deallocate(h3, item), n.next)

(***************************************************************************)
(* Creating items                                                          *)
(***************************************************************************)
(* valueint: the number cut to an integer, with saturation; what is not a  *)
(* number converts to the least integer on the machines of the build.      *)
cJSON_SetNumberHelper(d) ==
  IF d = NAN THEN LLONG_MIN
  ELSE IF d >= LLONG_MAX THEN LLONG_MAX
  ELSE IF d <= LLONG_MIN THEN LLONG_MIN
  ELSE d

CreateTyped(h, type) ==
  Bind(cJSON_New_Item(h), LAMBDA item :
    IF item.r = NULL THEN item ELSE [item EXCEPT !.h[item.r].type = type])

cJSON_CreateNumber(h, num) ==
  Bind(CreateTyped(h, "number"), LAMBDA item :
    IF item.r = NULL THEN item
    ELSE [item EXCEPT !.h[item.r].valuedouble = num,
                      !.h[item.r].valueint = cJSON_SetNumberHelper(num)])

cJSON_CreateString(h, text) ==
  Bind(CreateTyped(h, "string"), LAMBDA item :
    IF item.r = NULL THEN item
    ELSE Bind(cJSON_strdup(item.h, text), LAMBDA copy :
           IF copy.r = NULL THEN [h |-> cJSON_Delete(item.h, item.r), r |-> NULL]
           ELSE [h |-> [copy.h EXCEPT ![item.r].valuestring = copy.r], r |-> item.r]))

cJSON_CreateStringReference(h, k) ==
  Bind(CreateTyped(h, "string"), LAMBDA item :
    IF item.r = NULL THEN item
    ELSE [item EXCEPT !.h[item.r].ref = TRUE, !.h[item.r].valuestring = -k])

(* A value to create: its type and, for a number or a string, its content. *)
Create(h, v) ==
  CASE v.type = "number" -> cJSON_CreateNumber(h, v.num)
    [] v.type = "string" -> cJSON_CreateString(h, Static[v.key])
    [] OTHER -> CreateTyped(h, v.type)

(* An array of the numbers: the list has no pointer to its last item.      *)
RECURSIVE CreateElements(_, _, _, _)
CreateElements(h, a, p, numbers) ==
  IF numbers = <<>> THEN [h |-> h, r |-> a]
  ELSE Bind(cJSON_CreateNumber(h, Head(numbers)), LAMBDA n :
         IF n.r = NULL THEN [h |-> cJSON_Delete(h, a), r |-> NULL]
         ELSE CreateElements(IF p = NULL THEN [n.h EXCEPT ![a].child = n.r]
                             ELSE suffix_object(n.h, p, n.r),
                             a, n.r, Tail(numbers)))

cJSON_CreateIntArray(h, numbers) ==
  Bind(CreateTyped(h, "array"), LAMBDA a :
    IF a.r = NULL THEN a ELSE CreateElements(a.h, a.r, NULL, numbers))

(***************************************************************************)
(* Looking up                                                              *)
(***************************************************************************)
RECURSIVE ItemAt(_, _, _)
ItemAt(h, e, index) ==
  IF e = NULL \/ index = 0 THEN e ELSE ItemAt(h, h[e].next, index - 1)

get_array_item(h, array, index) == ItemAt(h, h[array].child, index)

Lower(text) == [k \in DOMAIN text |->
                  IF text[k] \in 65 .. 90 THEN text[k] + 32 ELSE text[k]]

SameName(h, p, name, case_sensitive) ==
  IF case_sensitive THEN Text(h, p) = name ELSE Lower(Text(h, p)) = Lower(name)

(* The first member with the name.  A member without a name ends a search  *)
(* that minds the case and is passed over by the other one.                *)
RECURSIVE MemberFrom(_, _, _, _)
MemberFrom(h, e, name, case_sensitive) ==
  CASE e = NULL -> NULL
    [] h[e].string = NULL ->
         IF case_sensitive THEN NULL ELSE MemberFrom(h, h[e].next, name, case_sensitive)
    [] SameName(h, h[e].string, name, case_sensitive) -> e
    [] OTHER -> MemberFrom(h, h[e].next, name, case_sensitive)

get_object_item(h, object, name, case_sensitive) ==
  MemberFrom(h, h[object].child, name, case_sensitive)

(***************************************************************************)
(* Adding                                                                  *)
(***************************************************************************)
RECURSIVE LastFrom(_, _)
LastFrom(h, e) == IF h[e].next = NULL THEN e ELSE LastFrom(h, h[e].next)

(* The prev of a list's head is its last item, or NULL if nobody set it.   *)
(* If it is neither, the code writes the next of an item that is in another *)
(* list, in none, or freed: what the heap holds from there on is undefined. *)
add_item_to_array(h, array, item) ==
  LET child == h[array].child
      last == LastFrom(h, child)
      stale == child # NULL /\ h[child].prev \notin {NULL, last}
  IN IF item = NULL \/ array = item THEN [h |-> h, r |-> FALSE]
     ELSE IF stale THEN [h |-> [h EXCEPT ![NULL].type = "wild"], r |-> TRUE]
     ELSE [h |-> LinkLast(h, array, last, item), r |-> TRUE]

(* The key k of the caller becomes the item's name: a copy of it, or the   *)
(* constant itself.                                                        *)
add_item_to_object(h, object, k, item, constant_key) ==
  LET old == IF h[item].const THEN NULL ELSE h[item].string
  IN IF item = NULL \/ object = item THEN [h |-> h, r |-> FALSE]
     ELSE Bind(IF constant_key THEN [h |-> h, r |-> -k] ELSE cJSON_strdup(h, Static[k]),
            LAMBDA key :
              IF key.r = NULL THEN [h |-> h, r |-> FALSE]
              ELSE add_item_to_array([deallocate(key.h, old) EXCEPT ![item].string = key.r,
                                                                    ![item].const = constant_key],
                                     object, item))

(* A second item with the child and the value of the first, owning neither. *)
create_reference(h, item) ==
  Bind(cJSON_New_Item(h), LAMBDA new :
    IF new.r = NULL THEN new
    ELSE [new EXCEPT !.h[new.r] = [h[item] EXCEPT !.string = NULL, !.ref = TRUE,
                                                  !.next = NULL, !.prev = NULL]])

cJSON_AddItemReferenceToArray(h, array, item) ==
  Bind(create_reference(h, item), LAMBDA new : add_item_to_array(new.h, array, new.r))

(* The reference is nobody's when its name cannot be copied.               *)
cJSON_AddItemReferenceToObject(h, object, k, item) ==
  Bind(create_reference(h, item), LAMBDA new :
    add_item_to_object(new.h, object, k, new.r, FALSE))

(* cJSON_AddNumberToObject and its like: create, add, or delete again.     *)
AddNewToObject(h, object, k, v) ==
  Bind(Create(h, v), LAMBDA item :
    Bind(add_item_to_object(item.h, object, k, item.r, FALSE), LAMBDA added :
      IF added.r THEN [h |-> added.h, r |-> item.r]
      ELSE [h |-> cJSON_Delete(added.h, item.r), r |-> NULL]))

(***************************************************************************)
(* Taking out, inserting, replacing                                        *)
(***************************************************************************)
cJSON_DetachItemViaPointer(h, parent, item) ==
  IF item = NULL THEN [h |-> h, r |-> NULL] ELSE [h |-> Unlink(h, parent, item), r |-> item]

cJSON_InsertItemInArray(h, array, which, newitem) ==
  Bind(get_array_item(h, array, which), LAMBDA after :
    IF after = NULL THEN add_item_to_array(h, array, newitem)
    ELSE [h |-> InsertBefore(h, array, after, newitem), r |-> TRUE])

cJSON_ReplaceItemViaPointer(h, parent, item, replacement) ==
  CASE item = NULL -> [h |-> h, r |-> FALSE]
    [] replacement = item -> [h |-> h, r |-> TRUE]
    [] OTHER -> [h |-> cJSON_Delete(Relink(h, parent, item, replacement), item), r |-> TRUE]

(* The name of the replacement is freed and copied before the member is    *)
(* looked up; a copy that fails leaves it without one.                     *)
replace_item_in_object(h, object, k, replacement, case_sensitive) ==
  LET old == IF h[replacement].const THEN NULL ELSE h[replacement].string
  IN Bind(cJSON_strdup(deallocate(h, old), Static[k]), LAMBDA key :
       Bind([key.h EXCEPT ![replacement].string = key.r, ![replacement].const = FALSE],
         LAMBDA named :
           cJSON_ReplaceItemViaPointer(named, object,
             get_object_item(named, object, Static[k], case_sensitive), replacement)))

cJSON_SetValuestring(h, object, k) ==
  LET old == h[object].valuestring
  IN IF h[object].type # "string" \/ h[object].ref THEN [h |-> h, r |-> NULL]
     ELSE IF Len(Static[k]) <= Len(h[old].text)
          THEN [h |-> [h EXCEPT ![old].text = Static[k]], r |-> old]
     ELSE Bind(cJSON_strdup(h, Static[k]), LAMBDA copy :
            IF copy.r = NULL THEN copy
            ELSE [copy EXCEPT !.h = [deallocate(@, old) EXCEPT ![object].valuestring = copy.r]])

(***************************************************************************)
(* Copying and comparing                                                   *)
(***************************************************************************)
(* The fields of a copy: it owns its value, even if the original does not. *)
CopyOf_flags(n, value, name) ==
  [n EXCEPT !.valuestring = value, !.string = name,
            !.next = NULL, !.prev = NULL, !.child = NULL]
CopyOf(n, value, name) ==
  [n EXCEPT !.ref = FALSE, !.valuestring = value, !.string = name,
            !.next = NULL, !.prev = NULL, !.child = NULL]

RECURSIVE cJSON_Duplicate(_, _, _), CopyChildren(_, _, _, _)
CopyChildren(h, newitem, child, last) ==
  IF child = NULL THEN [h |-> h, r |-> newitem]
  ELSE Bind(cJSON_Duplicate(h, child, TRUE), LAMBDA copy :
         IF copy.r = NULL THEN [h |-> cJSON_Delete(copy.h, newitem), r |-> NULL]
         ELSE CopyChildren(IF last = NULL THEN [copy.h EXCEPT ![newitem].child = copy.r]
                           ELSE suffix_object(copy.h, last, copy.r),
                           newitem, h[child].next, copy.r))

(* A string of the copy: NULL and constants are taken over.                *)
CopyText(h, p, taken) ==
  IF p = NULL \/ taken THEN [h |-> h, r |-> p] ELSE cJSON_strdup(h, Text(h, p))

cJSON_Duplicate(h, item, recurse) ==
  LET n == h[item]
      filled(g, new, value, name) ==
        IF recurse THEN CopyChildren([g EXCEPT ![new] = CopyOf(n, value, name)], new, n.child, NULL)
        ELSE [h |-> [g EXCEPT ![new] = CopyOf(n, value, name)], r |-> new]
      valued(new, value) ==
        Bind(CopyText(value.h, n.string, n.const), LAMBDA name :
          IF n.string # NULL /\ name.r = NULL
          THEN [h |-> cJSON_Delete([value.h EXCEPT ![new].valuestring = value.r], new), r |-> NULL]
          ELSE filled(name.h, new, value.r, name.r))
  IN Bind(cJSON_New_Item(h), LAMBDA new :
       IF new.r = NULL THEN new
       ELSE Bind(CopyText(new.h, n.valuestring, FALSE), LAMBDA value :
              IF n.valuestring # NULL /\ value.r = NULL
              THEN [h |-> cJSON_Delete(new.h, new.r), r |-> NULL]
              ELSE valued(new.r, value)))

(* Equal up to the relative error; nothing is equal to NAN.                *)
Magnitude(d) == IF d < 0 THEN -d ELSE d
compare_double(a, b) ==
  /\ NAN \notin {a, b}
  /\ \E m \in {Magnitude(a), Magnitude(b)} : INV_EPSILON * Magnitude(a - b) <= m

RECURSIVE cJSON_Compare(_, _, _, _), SameElements(_, _, _, _)
SameElements(h, a, b, cs) ==
  IF a = NULL \/ b = NULL THEN a = b
  ELSE cJSON_Compare(h, a, b, cs) /\ SameElements(h, h[a].next, h[b].next, cs)

RECURSIVE ListFrom(_, _)
ListFrom(h, e) == IF e = NULL THEN <<>> ELSE <<e>> \o ListFrom(h, h[e].next)

(* Every member of a is compared with the first member of b of its name.   *)
MembersIn(h, a, b, cs) ==
  \A e \in Range(ListFrom(h, h[a].child)) :
    LET other == IF h[e].string = NULL THEN NULL
                 ELSE get_object_item(h, b, Text(h, h[e].string), cs)
    IN other # NULL /\ cJSON_Compare(h, e, other, cs)

SameMembers_half(h, a, b, cs) == MembersIn(h, a, b, cs)
SameMembers(h, a, b, cs) == MembersIn(h, a, b, cs) /\ MembersIn(h, b, a, cs)

cJSON_Compare(h, a, b, cs) ==
  /\ h[a].type = h[b].type
  /\ \/ a = b
     \/ h[a].type \in {"null", "true", "false"}
     \/ h[a].type = "number" /\ compare_double(h[a].valuedouble, h[b].valuedouble)
     \/ h[a].type = "string" /\ Text(h, h[a].valuestring) = Text(h, h[b].valuestring)
     \/ h[a].type = "array" /\ SameElements(h, h[a].child, h[b].child, cs)
     \/ h[a].type = "object" /\ SameMembers(h, a, b, cs)

(***************************************************************************)
(* Printing and parsing.  JSON text is a sequence of tokens; layout is     *)
(* left out, a string literal is kept byte for byte.                       *)
(***************************************************************************)
Token(k) == [k |-> k, b |-> <<>>, d |-> 0]

Number(d) == [Token("number") EXCEPT !.d = d]

(* sprintf with PRECISION significant digits, halves to the even digit.    *)
Rounded(d) ==
  LET m == Magnitude(d)
      unit == 10 ^ (CHOOSE k \in 0 .. m :
                      m < 10 ^ (k + PRECISION) /\ (k = 0 \/ m >= 10 ^ (k - 1 + PRECISION)))
      low == m \div unit
      rest == 2 * (m % unit)
      near == unit * (IF rest > unit \/ (rest = unit /\ low % 2 = 1) THEN low + 1 ELSE low)
  IN IF d < 0 THEN -near ELSE near

(* The short form is kept if the number it is read as is equal to d up to  *)
(* the relative error; the long form is exact.                             *)
print_number_short(d) == IF d = NAN THEN Token("null") ELSE Number(Rounded(d))
print_number(d) ==
  CASE d = NAN -> Token("null")
    [] d # NAN /\ compare_double(Rounded(d), d) -> Number(Rounded(d))
    [] OTHER -> Number(d)

print_string(h, p) ==
  [k |-> "string", d |-> 0,
   b |-> IF p = NULL THEN <<QUOTE, QUOTE>> ELSE print_string_ptr(Text(h, p))]

RECURSIVE print_value(_, _), print_list(_, _, _)
print_list(h, e, named) ==
  IF e = NULL THEN <<>>
  ELSE (IF named THEN <<print_string(h, h[e].string), Token(":")>> ELSE <<>>)
       \o print_value(h, e)
       \o (IF h[e].next = NULL THEN <<>> ELSE <<Token(",")>>)
       \o print_list(h, h[e].next, named)

print_array(h, item) ==
  <<Token("[")>> \o print_list(h, h[item].child, FALSE) \o <<Token("]")>>

print_object(h, item) ==
  <<Token("{")>> \o print_list(h, h[item].child, TRUE) \o <<Token("}")>>

print_value(h, item) ==
  LET n == h[item]
  IN CASE n.type = "number" -> <<print_number(n.valuedouble)>>
       [] n.type = "string" -> <<print_string(h, n.valuestring)>>
       [] n.type = "array" -> print_array(h, item)
       [] n.type = "object" -> print_object(h, item)
       [] OTHER -> <<Token(n.type)>>

cJSON_Print(h, item) == print_value(h, item)

TokenAt(in, i, k) == i <= Len(in) /\ in[i].k = k

(* A parser takes the offset i and returns it behind what it has read.     *)
parse_string_item(h, item, in, i) ==
  LET bad == [h |-> h, ok |-> FALSE, i |-> i]
      copied(copy) ==
        IF copy.r = NULL THEN bad
        ELSE [h |-> [copy.h EXCEPT ![item].type = "string", ![item].valuestring = copy.r],
              ok |-> TRUE, i |-> i + 1]
      read(literal) == IF literal.ok THEN copied(cJSON_strdup(h, literal.text)) ELSE bad
  IN IF TokenAt(in, i, "string") THEN read(parse_string(in[i].b, 1)) ELSE bad

(* The name of a member and the colon behind it.                           *)
parse_name(h, item, in, i) ==
  Bind(parse_string_item(h, item, in, i), LAMBDA read :
    IF ~read.ok THEN read
    ELSE [h |-> [read.h EXCEPT ![item].string = read.h[item].valuestring,
                               ![item].valuestring = NULL],
          ok |-> TokenAt(in, read.i, ":"), i |-> read.i + 1])

(* A list that cannot be read to its end is deleted.                       *)
parse_failed_leak(h, head, i) == [h |-> h, ok |-> FALSE, i |-> i, head |-> NULL]
parse_failed(h, head, i) ==
  [h |-> cJSON_Delete(h, head), ok |-> FALSE, i |-> i, head |-> NULL]

RECURSIVE parse_value(_, _, _, _, _), parse_list(_, _, _, _, _, _, _)
(* The items from the one behind offset i on.                              *)
parse_list(h, head, current, in, i, depth, named) ==
  LET close == IF named THEN "}" ELSE "]"
      done(first, new, value) ==
        IF ~value.ok THEN parse_failed(value.h, first, i)
        ELSE IF TokenAt(in, value.i, ",")
             THEN parse_list(value.h, first, new, in, value.i, depth, named)
        ELSE IF TokenAt(in, value.i, close)
             THEN [h |-> value.h, ok |-> TRUE, i |-> value.i + 1, head |-> first]
        ELSE parse_failed(value.h, first, i)
      member(g, first, new) ==
        Bind(IF named THEN parse_name(g, new, in, i + 1)
             ELSE [h |-> g, ok |-> TRUE, i |-> i + 1], LAMBDA name :
          IF name.ok THEN done(first, new, parse_value(name.h, new, in, name.i, depth))
          ELSE parse_failed(name.h, first, i))
  IN Bind(cJSON_New_Item(h), LAMBDA new :
       IF new.r = NULL THEN parse_failed(h, head, i)
       ELSE member(IF head = NULL THEN new.h ELSE suffix_object(new.h, current, new.r),
                   IF head = NULL THEN new.r ELSE head, new.r))

(* parse_array and parse_object: the item has its children only when all   *)
(* of them are read.                                                       *)
parse_container(h, item, in, i, depth, named) ==
  LET close == IF named THEN "}" ELSE "]"
      made(read) ==
        IF ~read.ok THEN [h |-> read.h, ok |-> FALSE, i |-> i]
        ELSE [h |-> [read.h EXCEPT ![item].type = IF named THEN "object" ELSE "array",
                                   ![item].child = read.head],
              ok |-> TRUE, i |-> read.i]
  IN IF depth >= CJSON_NESTING_LIMIT \/ i + 1 > Len(in)
     THEN [h |-> h, ok |-> FALSE, i |-> i]
     ELSE made(IF TokenAt(in, i + 1, close)
               THEN [h |-> h, ok |-> TRUE, i |-> i + 2, head |-> NULL]
               ELSE parse_list(h, NULL, NULL, in, i, depth + 1, named))

parse_array(h, item, in, i, depth) == parse_container(h, item, in, i, depth, FALSE)
parse_object(h, item, in, i, depth) == parse_container(h, item, in, i, depth, TRUE)

(* strtod reads the digits there are: the rounded ones, if d was rounded.  *)
parse_number(h, item, in, i) ==
  [h |-> [h EXCEPT ![item].type = "number", ![item].valuedouble = in[i].d,
                   ![item].valueint = cJSON_SetNumberHelper(in[i].d)],
   ok |-> TRUE, i |-> i + 1]

parse_value(h, item, in, i, depth) ==
  CASE i > Len(in) -> [h |-> h, ok |-> FALSE, i |-> i]
    [] in[i].k \in {"null", "true", "false"} ->
         [h |-> [h EXCEPT ![item].type = in[i].k,
                          ![item].valueint = IF in[i].k = "true" THEN 1 ELSE @],
          ok |-> TRUE, i |-> i + 1]
    [] in[i].k = "string" -> parse_string_item(h, item, in, i)
    [] in[i].k = "number" -> parse_number(h, item, in, i)
    [] in[i].k = "[" -> parse_array(h, item, in, i, depth)
    [] in[i].k = "{" -> parse_object(h, item, in, i, depth)
    [] OTHER -> [h |-> h, ok |-> FALSE, i |-> i]

cJSON_Parse(h, in) ==
  Bind(cJSON_New_Item(h), LAMBDA item :
    IF item.r = NULL THEN item
    ELSE Bind(parse_value(item.h, item.r, in, 1, 0), LAMBDA value :
           IF value.ok THEN [h |-> value.h, r |-> item.r]
           ELSE [h |-> cJSON_Delete(value.h, item.r), r |-> NULL]))
==============================================================================
