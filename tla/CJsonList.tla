------------------------------ MODULE CJsonList ------------------------------
(***************************************************************************)
(* The lists of iperf's JSON library (src/cjson.c): the items of an array  *)
(* or object are linked by next and prev, the first one is the child of    *)
(* their parent, and its prev is the last one (or NULL, if nobody set it). *)
(* These are the assignments by which an item joins or leaves a list; the  *)
(* heap h is a function from addresses to items.                           *)
(***************************************************************************)
EXTENDS Integers, Sequences

NULL == 0

suffix_object(h, prev, item) == [h EXCEPT ![prev].next = item, ![item].prev = prev]

(* add_item_to_array puts the item behind the last one. Only an item that   *)
(* is alone gets its next set.                                              *)
LinkLast(h, array, last, item) ==
  IF h[array].child = NULL
  THEN [h EXCEPT ![array].child = item, ![item].prev = item, ![item].next = NULL]
  ELSE [suffix_object(h, last, item) EXCEPT ![h[array].child].prev = item]

(* cJSON_DetachItemViaPointer takes an item out. The prev of the list's     *)
(* head is not set anew when the last of several items leaves.              *)
Unlink(h, parent, item) ==
  LET n == h[item]
  IN [a \in DOMAIN h |->
        CASE a = item -> [n EXCEPT !.prev = NULL, !.next = NULL]
          [] a = parent /\ h[parent].child = item -> [h[a] EXCEPT !.child = n.next]
          [] a = n.prev /\ h[parent].child # item -> [h[a] EXCEPT !.next = n.next]
          [] a = n.next /\ a # NULL -> [h[a] EXCEPT !.prev = n.prev]
          [] OTHER -> h[a]]

(* cJSON_InsertItemInArray puts the new item before the one at the place.   *)
InsertBefore_head(h, array, after, newitem) ==
  [h EXCEPT ![newitem].next = after, ![newitem].prev = h[after].prev,
            ![after].prev = newitem, ![array].child = newitem]
InsertBefore(h, array, after, newitem) ==
  LET new == [h[newitem] EXCEPT !.next = after, !.prev = h[after].prev]
  IN IF h[array].child = after
     THEN [h EXCEPT ![newitem] = new, ![after].prev = newitem, ![array].child = newitem]
     ELSE [h EXCEPT ![newitem] = new, ![after].prev = newitem, ![h[after].prev].next = newitem]

(* cJSON_ReplaceItemViaPointer puts the replacement where the item was.     *)
Relink(h, parent, item, replacement) ==
  LET n == h[item]
  IN [a \in DOMAIN h |->
        CASE a = item -> [n EXCEPT !.next = NULL, !.prev = NULL]
          [] a = replacement -> [h[replacement] EXCEPT !.next = n.next, !.prev = n.prev]
          [] a = parent /\ h[parent].child = item -> [h[a] EXCEPT !.child = replacement]
          [] a # NULL /\ a = n.prev /\ h[parent].child # item -> [h[a] EXCEPT !.next = replacement]
          [] a # NULL /\ a = n.next -> [h[a] EXCEPT !.prev = replacement]
          [] OTHER -> h[a]]
===============================================================================
