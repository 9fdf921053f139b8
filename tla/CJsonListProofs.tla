---------------------------- MODULE CJsonListProofs ----------------------------
(***************************************************************************)
(* Theorems: the assignments by which cjson.c adds, inserts, takes out and *)
(* replaces items keep every list intact, for lists of any length and any  *)
(* number of them, provided that the last of several items stays.          *)
(***************************************************************************)
EXTENDS CJsonList, TLAPS

(* A heap of items. The other fields of an item do not matter here.         *)
Heap(h) ==
  \A a \in DOMAIN h : "next" \in DOMAIN h[a] /\ "prev" \in DOMAIN h[a] /\ "child" \in DOMAIN h[a]

In(x, L) == \E i \in 1 .. Len(L) : L[i] = x

(* L are the items below p: no item twice, each prev undoes a next, the     *)
(* list ends, and the prev of its head is the last item or NULL.            *)
Linked(h, L) ==
  /\ \A i \in 1 .. Len(L) - 1 : h[L[i]].next = L[i + 1] /\ h[L[i + 1]].prev = L[i]
  /\ Len(L) # 0 => h[L[Len(L)]].next = NULL
  /\ Len(L) # 0 => h[L[1]].prev = NULL \/ h[L[1]].prev = L[Len(L)]

IsList(h, p, L) ==
  /\ L \in Seq(DOMAIN h) /\ ~In(NULL, L) /\ ~In(p, L)
  /\ \A i, j \in 1 .. Len(L) : L[i] = L[j] => i = j
  /\ Len(L) = 0 => h[p].child = NULL
  /\ Len(L) # 0 => h[p].child = L[1]
  /\ Linked(h, L)

(* F[p] are the items below p, for every item p that may have some; no item *)
(* is below two of them.                                                    *)
Forest(h, F) ==
  /\ Heap(h)
  /\ \A p \in DOMAIN F : p \in DOMAIN h /\ p # NULL /\ IsList(h, p, F[p])
  /\ \A p, q \in DOMAIN F : \A x : In(x, F[p]) /\ In(x, F[q]) => p = q

(* The item is in no list.                                                  *)
Free(h, F, item) ==
  /\ item \in DOMAIN h /\ item # NULL
  /\ \A p \in DOMAIN F : ~In(item, F[p])

Removed(L, i) == [k \in 1 .. Len(L) - 1 |-> IF k < i THEN L[k] ELSE L[k + 1]]
Inserted(L, i, x) ==
  [k \in 1 .. Len(L) + 1 |-> IF k < i THEN L[k] ELSE IF k = i THEN x ELSE L[k - 1]]
Replaced(L, i, x) == [k \in 1 .. Len(L) |-> IF k = i THEN x ELSE L[k]]

---------------------------------------------------------------------------------
(* What changes is the list of p and, in it or new to it, item.             *)
Local(h, g, p, L, item) ==
  /\ Heap(g) /\ DOMAIN g = DOMAIN h
  /\ \A a \in DOMAIN h : a # p => g[a].child = h[a].child
  /\ \A a \in DOMAIN h : a # item /\ ~In(a, L) => g[a].next = h[a].next /\ g[a].prev = h[a].prev

(* Then the other lists are as they were.                                   *)
LEMMA Others ==
  ASSUME NEW h, NEW F, Forest(h, F), NEW p \in DOMAIN F, NEW item, NEW g,
         Local(h, g, p, F[p], item), \A q \in DOMAIN F : q # p => ~In(item, F[q]),
         NEW M, IsList(g, p, M), \A x : In(x, M) => x = item \/ In(x, F[p])
  PROVE  Forest(g, [F EXCEPT ![p] = M])
<1> DEFINE G == [F EXCEPT ![p] = M]
<1>1. DOMAIN G = DOMAIN F /\ G[p] = M /\ \A q \in DOMAIN F : q # p => G[q] = F[q]
  OBVIOUS
<1> HIDE DEF G
<1>2. ASSUME NEW q \in DOMAIN F, q # p
      PROVE  IsList(g, q, F[q])
  <2> DEFINE L == F[q]
  <2>1. q \in DOMAIN h /\ IsList(h, q, L) /\ DOMAIN g = DOMAIN h
    BY DEF Forest, Local
  <2>2. \A i \in 1 .. Len(L) : In(L[i], L)
    BY DEF In
  <2>3. \A i \in 1 .. Len(L) : L[i] # item /\ ~In(L[i], F[p])
    BY <1>2, <2>2 DEF Forest
  <2>4. L \in Seq(DOMAIN h) /\ Len(L) \in Nat
    BY <2>1 DEF IsList
  <2> HIDE DEF L
  <2>5. \A i \in 1 .. Len(L) : L[i] \in DOMAIN h
    BY <2>4
  <2>6. \A i \in 1 .. Len(L) : g[L[i]].next = h[L[i]].next /\ g[L[i]].prev = h[L[i]].prev
    BY <2>3, <2>5 DEF Local
  <2>7. g[q].child = h[q].child
    BY <1>2, <2>1 DEF Local
  <2>8. Linked(h, L)
    BY <2>1 DEF IsList
  <2>9. \A i \in 1 .. Len(L) - 1 : g[L[i]].next = L[i + 1] /\ g[L[i + 1]].prev = L[i]
    <3> SUFFICES ASSUME NEW i \in 1 .. Len(L) - 1
                 PROVE  g[L[i]].next = L[i + 1] /\ g[L[i + 1]].prev = L[i]
      OBVIOUS
    <3>1. i \in 1 .. Len(L) /\ i + 1 \in 1 .. Len(L)
      BY <2>4
    <3>2. h[L[i]].next = L[i + 1] /\ h[L[i + 1]].prev = L[i]
      BY <2>8 DEF Linked
    <3> QED
      BY <2>6, <3>1, <3>2
  <2>10. ASSUME Len(L) # 0
         PROVE  /\ g[L[Len(L)]].next = NULL
                /\ g[L[1]].prev = NULL \/ g[L[1]].prev = L[Len(L)]
    <3>1. 1 \in 1 .. Len(L) /\ Len(L) \in 1 .. Len(L)
      BY <2>4, <2>10
    <3>2. h[L[Len(L)]].next = NULL /\ (h[L[1]].prev = NULL \/ h[L[1]].prev = L[Len(L)])
      BY <2>8, <2>10 DEF Linked
    <3> QED
      BY <2>6, <3>1, <3>2
  <2>11. Linked(g, L)
    BY <2>9, <2>10 DEF Linked
  <2>12. IsList(g, q, L)
    BY <2>1, <2>7, <2>11 DEF IsList
  <2> QED
    BY <2>12 DEF L
<1>3. ASSUME NEW q \in DOMAIN G
      PROVE  q \in DOMAIN g /\ q # NULL /\ IsList(g, q, G[q])
  BY <1>1, <1>2 DEF Forest, Local
<1>4. ASSUME NEW q \in DOMAIN G, NEW r \in DOMAIN G, NEW x, In(x, G[q]), In(x, G[r])
      PROVE  q = r
  BY <1>1, <1>4 DEF Forest
<1>5. Forest(g, G)
  BY <1>3, <1>4 DEF Forest, Local
<1> QED
  BY <1>5 DEF G

(* What is known of a list and its places.                                  *)
LEMMA ListFacts ==
  ASSUME NEW h, NEW p, NEW L, IsList(h, p, L)
  PROVE  /\ Len(L) \in Nat /\ \A i \in 1 .. Len(L) : /\ L[i] \in DOMAIN h /\ L[i] # NULL
                                                    /\ L[i] # p /\ In(L[i], L)
         /\ \A i, j \in 1 .. Len(L) : L[i] = L[j] => i = j
  BY DEF IsList, In

(* A list is given by its places.                                           *)
LEMMA ListOf ==
  ASSUME NEW g, NEW p, NEW n \in Nat, NEW M \in [1 .. n -> DOMAIN g],
         \A i \in 1 .. n : M[i] # NULL /\ M[i] # p,
         \A i, j \in 1 .. n : M[i] = M[j] => i = j,
         n = 0 => g[p].child = NULL,
         n # 0 => /\ g[p].child = M[1]
                  /\ g[M[n]].next = NULL
                  /\ g[M[1]].prev = NULL \/ g[M[1]].prev = M[n],
         \A i \in 1 .. n - 1 : g[M[i]].next = M[i + 1] /\ g[M[i + 1]].prev = M[i]
  PROVE  IsList(g, p, M) /\ Len(M) = n
<1>1. M \in Seq(DOMAIN g) /\ Len(M) = n
  OBVIOUS
<1>2. Linked(g, M)
  BY <1>1 DEF Linked
<1> QED
  BY <1>1, <1>2 DEF IsList, In

---------------------------------------------------------------------------------
(* add_item_to_array.                                                       *)
LEMMA LinkFirst ==
  ASSUME NEW h, Heap(h), NEW p \in DOMAIN h, NEW item \in DOMAIN h, p # item, h[p].child = NULL,
         NEW last, NEW g, g = LinkLast(h, p, last, item)
  PROVE  /\ Heap(g) /\ DOMAIN g = DOMAIN h
         /\ g[p].child = item /\ g[item].next = NULL /\ g[item].prev = item
         /\ \A a \in DOMAIN h : a # p => g[a].child = h[a].child
         /\ \A a \in DOMAIN h : a # item => g[a].next = h[a].next /\ g[a].prev = h[a].prev
<1>1. g = [h EXCEPT ![p].child = item, ![item].prev = item, ![item].next = NULL]
  BY DEF LinkLast
<1>2. /\ DOMAIN g = DOMAIN h
      /\ g[p] = [h[p] EXCEPT !.child = item]
      /\ g[item] = [[h[item] EXCEPT !.prev = item] EXCEPT !.next = NULL]
      /\ \A a \in DOMAIN h : a # p /\ a # item => g[a] = h[a]
  BY <1>1
<1>3. /\ DOMAIN g[p] = DOMAIN h[p] /\ g[p].child = item
      /\ g[p].next = h[p].next /\ g[p].prev = h[p].prev
  BY <1>2 DEF Heap
<1>4. /\ DOMAIN g[item] = DOMAIN h[item] /\ g[item].child = h[item].child
      /\ g[item].next = NULL /\ g[item].prev = item
  BY <1>2 DEF Heap
<1>5. Heap(g)
  BY <1>2, <1>3, <1>4 DEF Heap
<1> QED
  BY <1>2, <1>3, <1>4, <1>5

LEMMA LinkNext ==
  ASSUME NEW h, Heap(h), NEW p \in DOMAIN h, NEW item \in DOMAIN h, h[p].child # NULL,
         NEW head, head = h[p].child, head \in DOMAIN h, head # item,
         NEW last \in DOMAIN h, last # item, NEW g, g = LinkLast(h, p, last, item)
  PROVE  /\ Heap(g) /\ DOMAIN g = DOMAIN h
         /\ \A a \in DOMAIN h : g[a].child = h[a].child
         /\ g[last].next = item /\ \A a \in DOMAIN h : a # last => g[a].next = h[a].next
         /\ g[head].prev = item /\ g[item].prev = last
         /\ \A a \in DOMAIN h : a # head /\ a # item => g[a].prev = h[a].prev
<1> DEFINE s == suffix_object(h, last, item)
<1>1. g = [s EXCEPT ![head].prev = item]
  BY DEF LinkLast
<1>2. /\ DOMAIN s = DOMAIN h
      /\ s[last] = [h[last] EXCEPT !.next = item]
      /\ s[item] = [h[item] EXCEPT !.prev = last]
      /\ \A a \in DOMAIN h : a # last /\ a # item => s[a] = h[a]
  BY DEF suffix_object
<1> HIDE DEF s
<1>3. /\ DOMAIN s[last] = DOMAIN h[last] /\ s[last].child = h[last].child
      /\ s[last].next = item /\ s[last].prev = h[last].prev
  BY <1>2 DEF Heap
<1>4. /\ DOMAIN s[item] = DOMAIN h[item] /\ s[item].child = h[item].child
      /\ s[item].next = h[item].next /\ s[item].prev = last
  BY <1>2 DEF Heap
<1>5. Heap(s)
  BY <1>2, <1>3, <1>4 DEF Heap
<1>6. /\ DOMAIN g = DOMAIN h /\ g[head] = [s[head] EXCEPT !.prev = item]
      /\ \A a \in DOMAIN h : a # head => g[a] = s[a]
  BY <1>1, <1>2
<1>7. /\ DOMAIN g[head] = DOMAIN s[head] /\ g[head].child = s[head].child
      /\ g[head].next = s[head].next /\ g[head].prev = item
  BY <1>2, <1>5, <1>6 DEF Heap
<1>8. Heap(g)
  BY <1>2, <1>5, <1>6, <1>7 DEF Heap
<1>9. \A a \in DOMAIN h : g[a].child = s[a].child /\ g[a].next = s[a].next
  BY <1>6, <1>7
<1>10. \A a \in DOMAIN h : s[a].child = h[a].child /\ (a # last => s[a].next = h[a].next)
                           /\ (a # item => s[a].prev = h[a].prev)
  BY <1>2, <1>3, <1>4
<1> QED
  BY <1>3, <1>4, <1>6, <1>7, <1>8, <1>9, <1>10

(* add_item_to_array puts a free item behind the last one: the list grows   *)
(* by it and the others stay. The last one is the prev of the head or, if   *)
(* that is NULL, where the walk along next ends.                            *)
THEOREM AppendKeeps ==
  ASSUME NEW h, NEW F, Forest(h, F), NEW p \in DOMAIN F, NEW item, Free(h, F, item),
         h[item].next = NULL, item # p, NEW last,
         F[p] # <<>> => last = IF h[h[p].child].prev # NULL THEN h[h[p].child].prev
                               ELSE F[p][Len(F[p])]
  PROVE  Forest(LinkLast(h, p, last, item), [F EXCEPT ![p] = Append(F[p], item)])
<1> DEFINE g == LinkLast(h, p, last, item)
           L == F[p]
           n == Len(L)
           M == Append(L, item)
<1>1. /\ IsList(h, p, L) /\ Heap(h) /\ p \in DOMAIN h /\ item \in DOMAIN h /\ item # NULL
      /\ ~In(item, L) /\ \A q \in DOMAIN F : q # p => ~In(item, F[q])
  BY DEF Forest, Free
<1>2. /\ n \in Nat /\ \A i \in 1 .. n : L[i] \in DOMAIN h /\ L[i] # NULL /\ L[i] # p /\ In(L[i], L)
      /\ \A i, j \in 1 .. n : L[i] = L[j] => i = j
  BY <1>1, ListFacts
<1>3. L \in Seq(DOMAIN h) /\ Linked(h, L)
  BY <1>1 DEF IsList
<1>4. n = 0 => h[p].child = NULL
  BY <1>1 DEF IsList
<1>5. n # 0 => /\ h[p].child = L[1] /\ h[L[n]].next = NULL
               /\ h[L[1]].prev = NULL \/ h[L[1]].prev = L[n]
  BY <1>1 DEF IsList, Linked
<1>6. \A i \in 1 .. n - 1 : h[L[i]].next = L[i + 1] /\ h[L[i + 1]].prev = L[i]
  BY <1>3 DEF Linked
<1>7. \A i \in 1 .. n : L[i] # item
  BY <1>1, <1>2
<1>8. ASSUME n # 0 PROVE last = L[n]
  <2>1. L # <<>>
    BY <1>8
  <2>2. last = IF h[L[1]].prev # NULL THEN h[L[1]].prev ELSE L[n]
    BY <1>5, <1>8, <2>1
  <2> QED
    BY <1>5, <1>8, <2>2
<1> HIDE DEF g, L, M
<1>9. Len(M) = n + 1 /\ M \in Seq(DOMAIN h)
  BY <1>1, <1>3 DEF M
<1>10. M \in [1 .. n + 1 -> DOMAIN h] /\ M[n + 1] = item /\ \A i \in 1 .. n : M[i] = L[i]
  <2>1. M[n + 1] = item /\ \A i \in 1 .. n : M[i] = L[i]
    BY <1>3 DEF M
  <2>2. M \in [1 .. n + 1 -> DOMAIN h]
    BY <1>9
  <2> QED
    BY <2>1, <2>2
<1> HIDE DEF n
<1>11. (\A i \in 1 .. n + 1 : M[i] # NULL /\ M[i] # p)
       /\ (\A i, j \in 1 .. n + 1 : M[i] = M[j] => i = j)
  BY <1>1, <1>2, <1>7, <1>10
<1>12. \A x : In(x, M) => x = item \/ In(x, L)
  <2> SUFFICES ASSUME NEW x, In(x, M) PROVE x = item \/ In(x, L)
    OBVIOUS
  <2>1. PICK i \in 1 .. n + 1 : M[i] = x
    BY <1>9 DEF In
  <2>2. i = n + 1 \/ i \in 1 .. n
    BY <1>2
  <2> QED
    BY <1>2, <1>10, <2>1, <2>2
<1>13. CASE n = 0
  <2>1. /\ Heap(g) /\ DOMAIN g = DOMAIN h
        /\ g[p].child = item /\ g[item].next = NULL /\ g[item].prev = item
        /\ \A a \in DOMAIN h : a # p => g[a].child = h[a].child
        /\ \A a \in DOMAIN h : a # item => g[a].next = h[a].next /\ g[a].prev = h[a].prev
    BY <1>1, <1>4, <1>13, LinkFirst DEF g
  <2>2. Local(h, g, p, L, item)
    BY <2>1 DEF Local
  <2>3. IsList(g, p, M)
    <3> HIDE DEF M
    <3>1. /\ n + 1 \in Nat /\ n + 1 # 0 /\ M \in [1 .. n + 1 -> DOMAIN g]
          /\ \A i \in 1 .. (n + 1) - 1 : g[M[i]].next = M[i + 1] /\ g[M[i + 1]].prev = M[i]
      BY <1>10, <1>13, <2>1
    <3>2. g[p].child = M[1] /\ g[M[n + 1]].next = NULL /\ g[M[1]].prev = M[n + 1]
      BY <1>10, <1>13, <2>1
    <3> QED
      BY <1>11, <3>1, <3>2, ListOf
  <2>4. Forest(g, [F EXCEPT ![p] = M])
    BY <1>1, <1>12, <2>2, <2>3, Others DEF L
  <2> QED
    BY <2>4 DEF g, L, M
<1>14. CASE n # 0
  <2>1. 1 \in 1 .. n /\ n \in 1 .. n
    BY <1>2, <1>14
  <2>2. /\ h[p].child # NULL /\ h[p].child = L[1] /\ L[1] \in DOMAIN h /\ L[1] # item
        /\ last \in DOMAIN h /\ last # item /\ last = L[n]
    BY <1>2, <1>5, <1>7, <1>8, <1>14, <2>1
  <2>3. /\ Heap(g) /\ DOMAIN g = DOMAIN h
        /\ \A a \in DOMAIN h : g[a].child = h[a].child
        /\ g[last].next = item /\ \A a \in DOMAIN h : a # last => g[a].next = h[a].next
        /\ g[L[1]].prev = item /\ g[item].prev = last
        /\ \A a \in DOMAIN h : a # L[1] /\ a # item => g[a].prev = h[a].prev
    BY <1>1, <2>2, LinkNext DEF g
  <2>4. Local(h, g, p, L, item)
    BY <1>2, <2>1, <2>2, <2>3 DEF Local
  <2>5. ASSUME NEW i \in 1 .. (n + 1) - 1
        PROVE  g[M[i]].next = M[i + 1] /\ g[M[i + 1]].prev = M[i]
    <3>1. CASE i = n
      BY <1>2, <1>10, <2>1, <2>2, <2>3, <3>1
    <3>2. CASE i # n
      <4>1. i \in 1 .. n /\ i + 1 \in 1 .. n /\ i \in 1 .. n - 1 /\ i + 1 # 1
        BY <1>2, <3>2
      <4>2. L[i] # last /\ L[i + 1] # L[1] /\ L[i + 1] # item
        BY <1>2, <1>7, <2>1, <2>2, <3>2, <4>1
      <4>3. L[i] \in DOMAIN h /\ L[i + 1] \in DOMAIN h
        BY <1>2, <4>1
      <4>4. g[L[i]].next = h[L[i]].next /\ g[L[i + 1]].prev = h[L[i + 1]].prev
        BY <2>3, <4>2, <4>3
      <4> QED
        BY <1>6, <1>10, <4>1, <4>4
    <3> QED
      BY <3>1, <3>2
  <2>6. n + 1 \in Nat /\ n + 1 # 0 /\ 1 \in 1 .. n + 1 /\ n + 1 \in 1 .. n + 1
    BY <1>2
  <2>7. g[p].child = M[1] /\ g[M[n + 1]].next = NULL /\ g[M[1]].prev = M[n + 1]
    BY <1>1, <1>10, <2>1, <2>2, <2>3
  <2>8. IsList(g, p, M)
    BY <1>10, <1>11, <2>3, <2>5, <2>6, <2>7, ListOf
  <2>9. Forest(g, [F EXCEPT ![p] = M])
    BY <1>1, <1>12, <2>4, <2>8, Others DEF L
  <2> QED
    BY <2>9 DEF g, L, M
<1> QED
  BY <1>13, <1>14

---------------------------------------------------------------------------------
(* cJSON_InsertItemInArray, before the first item and further back.         *)
LEMMA InsertFirst ==
  ASSUME NEW h, Heap(h), NEW p \in DOMAIN h, NEW item \in DOMAIN h, p # item,
         NEW after \in DOMAIN h, after # item, after # p, h[p].child = after,
         NEW g, g = InsertBefore(h, p, after, item)
  PROVE  /\ Heap(g) /\ DOMAIN g = DOMAIN h
         /\ g[p].child = item /\ \A a \in DOMAIN h : a # p => g[a].child = h[a].child
         /\ g[item].next = after /\ \A a \in DOMAIN h : a # item => g[a].next = h[a].next
         /\ g[item].prev = h[after].prev /\ g[after].prev = item
         /\ \A a \in DOMAIN h : a # item /\ a # after => g[a].prev = h[a].prev
<1> DEFINE new == [h[item] EXCEPT !.next = after, !.prev = h[after].prev]
<1>1. /\ DOMAIN new = DOMAIN h[item] /\ new.child = h[item].child
      /\ new.next = after /\ new.prev = h[after].prev
  BY DEF Heap
<1>2. g = [h EXCEPT ![item] = new, ![after].prev = item, ![p].child = item]
  BY DEF InsertBefore
<1> HIDE DEF new
<1>3. /\ DOMAIN g = DOMAIN h /\ g[item] = new
      /\ g[after] = [h[after] EXCEPT !.prev = item]
      /\ g[p] = [h[p] EXCEPT !.child = item]
      /\ \A a \in DOMAIN h : a # p /\ a # item /\ a # after => g[a] = h[a]
  BY <1>2
<1>4. /\ DOMAIN g[after] = DOMAIN h[after] /\ g[after].child = h[after].child
      /\ g[after].next = h[after].next /\ g[after].prev = item
  BY <1>3 DEF Heap
<1>5. /\ DOMAIN g[p] = DOMAIN h[p] /\ g[p].child = item
      /\ g[p].next = h[p].next /\ g[p].prev = h[p].prev
  BY <1>3 DEF Heap
<1>6. Heap(g)
  BY <1>1, <1>3, <1>4, <1>5 DEF Heap
<1> QED
  BY <1>1, <1>3, <1>4, <1>5, <1>6

LEMMA InsertLater ==
  ASSUME NEW h, Heap(h), NEW p \in DOMAIN h, NEW item \in DOMAIN h,
         NEW after \in DOMAIN h, after # item, h[p].child # after,
         NEW before \in DOMAIN h, before = h[after].prev, before # after, before # item,
         NEW g, g = InsertBefore(h, p, after, item)
  PROVE  /\ Heap(g) /\ DOMAIN g = DOMAIN h
         /\ \A a \in DOMAIN h : g[a].child = h[a].child
         /\ g[item].next = after /\ g[before].next = item
         /\ \A a \in DOMAIN h : a # item /\ a # before => g[a].next = h[a].next
         /\ g[item].prev = before /\ g[after].prev = item
         /\ \A a \in DOMAIN h : a # item /\ a # after => g[a].prev = h[a].prev
<1> DEFINE new == [h[item] EXCEPT !.next = after, !.prev = h[after].prev]
<1>1. /\ DOMAIN new = DOMAIN h[item] /\ new.child = h[item].child
      /\ new.next = after /\ new.prev = before
  BY DEF Heap
<1>2. g = [h EXCEPT ![item] = new, ![after].prev = item, ![before].next = item]
  BY DEF InsertBefore
<1> HIDE DEF new
<1>3. /\ DOMAIN g = DOMAIN h /\ g[item] = new
      /\ g[after] = [h[after] EXCEPT !.prev = item]
      /\ g[before] = [h[before] EXCEPT !.next = item]
      /\ \A a \in DOMAIN h : a # before /\ a # item /\ a # after => g[a] = h[a]
  BY <1>2
<1>4. /\ DOMAIN g[after] = DOMAIN h[after] /\ g[after].child = h[after].child
      /\ g[after].next = h[after].next /\ g[after].prev = item
  BY <1>3 DEF Heap
<1>5. /\ DOMAIN g[before] = DOMAIN h[before] /\ g[before].child = h[before].child
      /\ g[before].next = item /\ g[before].prev = h[before].prev
  BY <1>3 DEF Heap
<1>6. Heap(g)
  BY <1>1, <1>3, <1>4, <1>5 DEF Heap
<1>7. ASSUME NEW a \in DOMAIN h PROVE g[a].child = h[a].child
  <2>1. CASE a = item
    BY <1>1, <1>3, <2>1
  <2>2. CASE a # item
    BY <1>3, <1>4, <1>5, <2>2
  <2> QED
    BY <2>1, <2>2
<1>8. \A a \in DOMAIN h : a # item /\ a # before => g[a].next = h[a].next
  BY <1>3, <1>4
<1>9. \A a \in DOMAIN h : a # item /\ a # after => g[a].prev = h[a].prev
  BY <1>3, <1>5
<1> QED
  BY <1>1, <1>3, <1>4, <1>5, <1>6, <1>7, <1>8, <1>9

(* cJSON_InsertItemInArray puts a free item at a place of the list: those   *)
(* from there on move back by one, and the other lists stay.                *)
THEOREM InsertKeeps ==
  ASSUME NEW h, NEW F, Forest(h, F), NEW p \in DOMAIN F, NEW item, Free(h, F, item),
         item # p, NEW i \in 1 .. Len(F[p])
  PROVE  Forest(InsertBefore(h, p, F[p][i], item), [F EXCEPT ![p] = Inserted(F[p], i, item)])
<1> DEFINE L == F[p]
           n == Len(L)
           after == L[i]
           g == InsertBefore(h, p, after, item)
           M == Inserted(L, i, item)
<1>1. /\ IsList(h, p, L) /\ Heap(h) /\ p \in DOMAIN h /\ item \in DOMAIN h /\ item # NULL
      /\ ~In(item, L) /\ \A q \in DOMAIN F : q # p => ~In(item, F[q])
  BY DEF Forest, Free
<1>2. /\ n \in Nat /\ \A k \in 1 .. n : L[k] \in DOMAIN h /\ L[k] # NULL /\ L[k] # p /\ In(L[k], L)
      /\ \A k, j \in 1 .. n : L[k] = L[j] => k = j
  BY <1>1, ListFacts
<1> HIDE DEF L
<1>3. n # 0 /\ i \in 1 .. n /\ 1 \in 1 .. n /\ n \in 1 .. n
  BY <1>2 DEF L
<1>4. /\ h[p].child = L[1] /\ h[L[n]].next = NULL
      /\ h[L[1]].prev = NULL \/ h[L[1]].prev = L[n]
  BY <1>1, <1>3 DEF IsList, Linked
<1>5. \A k \in 1 .. n - 1 : h[L[k]].next = L[k + 1] /\ h[L[k + 1]].prev = L[k]
  BY <1>1 DEF IsList, Linked
<1>6. \A k \in 1 .. n : L[k] # item
  BY <1>1, <1>2
<1>7. M = [k \in 1 .. n + 1 |-> IF k < i THEN L[k] ELSE IF k = i THEN item ELSE L[k - 1]]
  BY DEF Inserted
<1> HIDE DEF n, after, g, M
<1>8. /\ \A k \in 1 .. n : k < i => M[k] = L[k]
      /\ M[i] = item
      /\ \A k \in 1 .. n : k >= i => M[k + 1] = L[k]
  BY <1>2, <1>3, <1>7
<1>9. ASSUME NEW k \in 1 .. n + 1
      PROVE  (M[k] = item /\ k = i) \/ \E j \in 1 .. n : M[k] = L[j] /\ k = IF j < i THEN j ELSE j + 1
  <2>1. CASE k < i
    BY <1>2, <1>3, <1>8, <2>1
  <2>2. CASE k = i
    BY <1>8, <2>2
  <2>3. CASE k > i
    <3>1. k - 1 \in 1 .. n /\ k - 1 >= i /\ (k - 1) + 1 = k
      BY <1>2, <1>3, <2>3
    <3> QED
      BY <1>8, <3>1
  <2> QED
    BY <1>3, <2>1, <2>2, <2>3
<1>10. M \in [1 .. n + 1 -> DOMAIN h] /\ \A k \in 1 .. n + 1 : M[k] # NULL /\ M[k] # p
  <2>1. \A k \in 1 .. n + 1 : M[k] \in DOMAIN h /\ M[k] # NULL /\ M[k] # p
    BY <1>1, <1>2, <1>9
  <2> QED
    BY <1>7, <2>1
<1>11. \A k, j \in 1 .. n + 1 : M[k] = M[j] => k = j
  BY <1>2, <1>6, <1>9
<1>12. \A x : In(x, M) => x = item \/ In(x, L)
  <2> SUFFICES ASSUME NEW x, In(x, M) PROVE x = item \/ In(x, L)
    OBVIOUS
  <2>1. Len(M) = n + 1
    BY <1>2, <1>7
  <2>2. PICK k \in 1 .. n + 1 : M[k] = x
    BY <2>1 DEF In
  <2> QED
    BY <1>2, <1>9, <2>2
<1>13. after \in DOMAIN h /\ after # item /\ after # p /\ after # NULL /\ In(after, L)
  BY <1>2, <1>3, <1>6 DEF after
<1>14. n + 1 \in Nat /\ n + 1 # 0 /\ (n + 1) - 1 = n
  BY <1>2
<1>15. CASE i = 1
  <2>1. /\ Heap(g) /\ DOMAIN g = DOMAIN h
        /\ g[p].child = item /\ \A a \in DOMAIN h : a # p => g[a].child = h[a].child
        /\ g[item].next = after /\ \A a \in DOMAIN h : a # item => g[a].next = h[a].next
        /\ g[item].prev = h[after].prev /\ g[after].prev = item
        /\ \A a \in DOMAIN h : a # item /\ a # after => g[a].prev = h[a].prev
    <3>1. h[p].child = after
      BY <1>4, <1>15 DEF after
    <3> QED
      BY <1>1, <1>13, <3>1, InsertFirst DEF g
  <2>2. Local(h, g, p, L, item)
    BY <1>13, <2>1 DEF Local
  <2>3. ASSUME NEW k \in 1 .. (n + 1) - 1
        PROVE  g[M[k]].next = M[k + 1] /\ g[M[k + 1]].prev = M[k]
    <3>1. k \in 1 .. n /\ M[k + 1] = L[k]
      BY <1>8, <1>14, <1>15
    <3>2. CASE k = 1
      BY <1>8, <1>15, <2>1, <3>1, <3>2 DEF after
    <3>3. CASE k # 1
      <4>1. k - 1 \in 1 .. n /\ k - 1 \in 1 .. n - 1 /\ (k - 1) + 1 = k /\ k - 1 >= i
        BY <1>2, <1>15, <3>1, <3>3
      <4>2. M[k] = L[k - 1]
        BY <1>8, <4>1
      <4>3. h[L[k - 1]].next = L[k] /\ h[L[k]].prev = L[k - 1]
        BY <1>5, <4>1
      <4>4. L[k] # after /\ L[k] # item /\ L[k - 1] # item /\ L[k] \in DOMAIN h /\ L[k - 1] \in DOMAIN h
        BY <1>2, <1>3, <1>6, <1>15, <3>1, <3>3, <4>1 DEF after
      <4>5. g[L[k - 1]].next = h[L[k - 1]].next /\ g[L[k]].prev = h[L[k]].prev
        BY <2>1, <4>4
      <4> QED
        BY <3>1, <4>2, <4>3, <4>5
    <3> QED
      BY <3>2, <3>3
  <2>4. M[1] = item /\ M[n + 1] = L[n]
    BY <1>3, <1>8, <1>15
  <2>5. L[n] \in DOMAIN h /\ L[n] # item
    BY <1>2, <1>3, <1>6
  <2>6. /\ g[p].child = M[1] /\ g[M[n + 1]].next = NULL
        /\ g[M[1]].prev = NULL \/ g[M[1]].prev = M[n + 1]
    BY <1>4, <1>15, <2>1, <2>4, <2>5 DEF after
  <2>7. IsList(g, p, M)
    BY <1>10, <1>11, <1>14, <2>1, <2>3, <2>6, ListOf
  <2>8. Forest(g, [F EXCEPT ![p] = M])
    BY <1>1, <1>12, <2>2, <2>7, Others DEF L
  <2> QED
    BY <2>8 DEF g, M, after, L
<1>16. CASE i # 1
  <2> DEFINE before == L[i - 1]
  <2>1. i - 1 \in 1 .. n /\ i - 1 \in 1 .. n - 1 /\ (i - 1) + 1 = i /\ i - 1 < i /\ 1 < i
    BY <1>2, <1>3, <1>16
  <2>2. h[after].prev = before /\ h[before].next = after
    BY <1>5, <2>1 DEF after
  <2>3. /\ before \in DOMAIN h /\ before # after /\ before # item /\ before # NULL
        /\ In(before, L) /\ after # L[1]
    BY <1>2, <1>3, <1>6, <1>16, <2>1 DEF after
  <2>4. M[1] = L[1] /\ M[i - 1] = before
    BY <1>3, <1>8, <2>1
  <2>5. before = L[i - 1]
    OBVIOUS
  <2> HIDE DEF before
  <2>6. /\ Heap(g) /\ DOMAIN g = DOMAIN h
        /\ \A a \in DOMAIN h : g[a].child = h[a].child
        /\ g[item].next = after /\ g[before].next = item
        /\ \A a \in DOMAIN h : a # item /\ a # before => g[a].next = h[a].next
        /\ g[item].prev = before /\ g[after].prev = item
        /\ \A a \in DOMAIN h : a # item /\ a # after => g[a].prev = h[a].prev
    BY <1>1, <1>4, <1>13, <2>2, <2>3, InsertLater DEF g
  <2>7. Local(h, g, p, L, item)
    BY <1>13, <2>3, <2>6 DEF Local
  <2>8. ASSUME NEW k \in 1 .. (n + 1) - 1
        PROVE  g[M[k]].next = M[k + 1] /\ g[M[k + 1]].prev = M[k]
    <3> k \in 1 .. n
      BY <1>14
    <3>1. CASE k = i
      BY <1>8, <2>6, <3>1 DEF after
    <3>2. CASE k = i - 1
      BY <1>8, <2>1, <2>4, <2>6, <3>2
    <3>3. CASE k < i - 1
      <4>1. k < i /\ k + 1 < i /\ k + 1 \in 1 .. n /\ k \in 1 .. n - 1 /\ k # i - 1 /\ k + 1 # i
        BY <1>2, <1>3, <3>3
      <4>2. M[k] = L[k] /\ M[k + 1] = L[k + 1]
        BY <1>8, <4>1
      <4>3. /\ L[k] \in DOMAIN h /\ L[k] # item /\ L[k] # before
            /\ L[k + 1] \in DOMAIN h /\ L[k + 1] # item /\ L[k + 1] # after
        BY <1>2, <1>3, <1>6, <2>1, <2>5, <4>1 DEF after
      <4>4. g[L[k]].next = h[L[k]].next /\ g[L[k + 1]].prev = h[L[k + 1]].prev
        BY <2>6, <4>3
      <4> QED
        BY <1>5, <4>1, <4>2, <4>4
    <3>4. CASE k > i
      <4>1. /\ k - 1 \in 1 .. n /\ k - 1 \in 1 .. n - 1 /\ (k - 1) + 1 = k /\ k - 1 >= i
            /\ k >= i /\ k # i /\ k - 1 # i - 1
        BY <1>2, <1>3, <3>4
      <4>2. M[k] = L[k - 1] /\ M[k + 1] = L[k]
        BY <1>8, <4>1
      <4>3. /\ L[k - 1] \in DOMAIN h /\ L[k - 1] # item /\ L[k - 1] # before
            /\ L[k] \in DOMAIN h /\ L[k] # item /\ L[k] # after
        BY <1>2, <1>3, <1>6, <2>1, <2>5, <4>1 DEF after
      <4>4. g[L[k - 1]].next = h[L[k - 1]].next /\ g[L[k]].prev = h[L[k]].prev
        BY <2>6, <4>3
      <4>5. h[L[k - 1]].next = L[k] /\ h[L[k]].prev = L[k - 1]
        BY <1>5, <4>1
      <4> QED
        BY <4>2, <4>4, <4>5
    <3> QED
      BY <1>3, <3>1, <3>2, <3>3, <3>4
  <2>9. M[n + 1] = L[n] /\ L[n] \in DOMAIN h /\ L[n] # item /\ L[n] # before
    BY <1>2, <1>3, <1>6, <1>8, <2>1, <2>5
  <2>10. L[1] \in DOMAIN h /\ L[1] # item /\ L[1] # after
    BY <1>2, <1>3, <1>6, <2>3
  <2>11. /\ g[p].child = M[1] /\ g[M[n + 1]].next = NULL
         /\ g[M[1]].prev = NULL \/ g[M[1]].prev = M[n + 1]
    <3>1. g[p].child = h[p].child
      BY <1>1, <2>6
    <3>2. g[L[n]].next = h[L[n]].next /\ g[L[1]].prev = h[L[1]].prev
      BY <2>6, <2>9, <2>10
    <3> QED
      BY <1>4, <2>4, <2>9, <3>1, <3>2
  <2>12. IsList(g, p, M)
    BY <1>10, <1>11, <1>14, <2>6, <2>8, <2>11, ListOf
  <2>13. Forest(g, [F EXCEPT ![p] = M])
    BY <1>1, <1>12, <2>7, <2>12, Others DEF L
  <2> QED
    BY <2>13 DEF g, M, after, L
<1> QED
  BY <1>15, <1>16

---------------------------------------------------------------------------------
(* cJSON_DetachItemViaPointer, the first item and a later one.              *)
LEMMA UnlinkFirst ==
  ASSUME NEW h, Heap(h), NEW p \in DOMAIN h, NEW item \in DOMAIN h, p # item,
         h[p].child = item, h[item].next # item, h[item].next # p,
         NEW g, g = Unlink(h, p, item)
  PROVE  /\ Heap(g) /\ DOMAIN g = DOMAIN h
         /\ g[p].child = h[item].next /\ \A a \in DOMAIN h : a # p => g[a].child = h[a].child
         /\ g[item].next = NULL /\ g[item].prev = NULL
         /\ \A a \in DOMAIN h : a # item => g[a].next = h[a].next
         /\ h[item].next \in DOMAIN h \ {NULL} => g[h[item].next].prev = h[item].prev
         /\ \A a \in DOMAIN h : a # item /\ (a # h[item].next \/ a = NULL) => g[a].prev = h[a].prev
<1> DEFINE n == h[item]
<1>1. DOMAIN g = DOMAIN h
  BY DEF Unlink
<1>2. /\ g[item] = [n EXCEPT !.prev = NULL, !.next = NULL]
      /\ g[p] = [h[p] EXCEPT !.child = n.next]
  BY DEF Unlink
<1>3. n.next \in DOMAIN h \ {NULL} => g[n.next] = [h[n.next] EXCEPT !.prev = n.prev]
  BY DEF Unlink
<1>4. ASSUME NEW a \in DOMAIN h, a # item, a # p, a # n.next \/ a = NULL
      PROVE  g[a] = h[a]
  BY <1>4 DEF Unlink
<1>5. /\ DOMAIN g[item] = DOMAIN n /\ g[item].child = n.child
      /\ g[item].next = NULL /\ g[item].prev = NULL
  BY <1>2 DEF Heap
<1>6. /\ DOMAIN g[p] = DOMAIN h[p] /\ g[p].child = n.next
      /\ g[p].next = h[p].next /\ g[p].prev = h[p].prev
  BY <1>2 DEF Heap
<1>7. ASSUME n.next \in DOMAIN h \ {NULL}
      PROVE  /\ DOMAIN g[n.next] = DOMAIN h[n.next] /\ g[n.next].child = h[n.next].child
             /\ g[n.next].next = h[n.next].next /\ g[n.next].prev = n.prev
  BY <1>3, <1>7 DEF Heap
<1> HIDE DEF n
<1>8. ASSUME NEW a \in DOMAIN h
      PROVE  /\ DOMAIN g[a] = DOMAIN h[a]
             /\ a # p => g[a].child = h[a].child
             /\ a # item => g[a].next = h[a].next
             /\ a # item /\ (a # n.next \/ a = NULL) => g[a].prev = h[a].prev
  <2>1. CASE a = item
    BY <1>5, <2>1 DEF n
  <2>2. CASE a = p
    BY <1>6, <2>2
  <2>3. CASE a = n.next /\ a # NULL
    BY <1>7, <2>3
  <2>4. CASE a # item /\ a # p /\ ~(a = n.next /\ a # NULL)
    BY <1>4, <2>4
  <2> QED
    BY <2>1, <2>2, <2>3, <2>4
<1>9. Heap(g)
  BY <1>1, <1>8 DEF Heap
<1> QED
  BY <1>1, <1>5, <1>6, <1>7, <1>8, <1>9 DEF n

LEMMA UnlinkLater ==
  ASSUME NEW h, Heap(h), NEW p \in DOMAIN h, NEW item \in DOMAIN h, h[p].child # item,
         NEW before \in DOMAIN h, before = h[item].prev, before # item,
         h[item].next # item, h[item].next # before,
         NEW g, g = Unlink(h, p, item)
  PROVE  /\ Heap(g) /\ DOMAIN g = DOMAIN h
         /\ \A a \in DOMAIN h : g[a].child = h[a].child
         /\ g[item].next = NULL /\ g[item].prev = NULL /\ g[before].next = h[item].next
         /\ \A a \in DOMAIN h : a # item /\ a # before => g[a].next = h[a].next
         /\ h[item].next \in DOMAIN h \ {NULL} => g[h[item].next].prev = before
         /\ \A a \in DOMAIN h : a # item /\ (a # h[item].next \/ a = NULL) => g[a].prev = h[a].prev
<1> DEFINE n == h[item]
<1>1. DOMAIN g = DOMAIN h
  BY DEF Unlink
<1>2. /\ g[item] = [n EXCEPT !.prev = NULL, !.next = NULL]
      /\ g[before] = [h[before] EXCEPT !.next = n.next]
  BY DEF Unlink
<1>3. n.next \in DOMAIN h \ {NULL} => g[n.next] = [h[n.next] EXCEPT !.prev = before]
  BY DEF Unlink
<1>4. ASSUME NEW a \in DOMAIN h, a # item, a # before, a # n.next \/ a = NULL
      PROVE  g[a] = h[a]
  BY <1>4 DEF Unlink
<1>5. /\ DOMAIN g[item] = DOMAIN n /\ g[item].child = n.child
      /\ g[item].next = NULL /\ g[item].prev = NULL
  BY <1>2 DEF Heap
<1>6. /\ DOMAIN g[before] = DOMAIN h[before] /\ g[before].child = h[before].child
      /\ g[before].next = n.next /\ g[before].prev = h[before].prev
  BY <1>2 DEF Heap
<1>7. ASSUME n.next \in DOMAIN h \ {NULL}
      PROVE  /\ DOMAIN g[n.next] = DOMAIN h[n.next] /\ g[n.next].child = h[n.next].child
             /\ g[n.next].next = h[n.next].next /\ g[n.next].prev = before
  BY <1>3, <1>7 DEF Heap
<1> HIDE DEF n
<1>8. ASSUME NEW a \in DOMAIN h
      PROVE  /\ DOMAIN g[a] = DOMAIN h[a]
             /\ g[a].child = h[a].child
             /\ a # item /\ a # before => g[a].next = h[a].next
             /\ a # item /\ (a # n.next \/ a = NULL) => g[a].prev = h[a].prev
  <2>1. CASE a = item
    BY <1>5, <2>1 DEF n
  <2>2. CASE a = before
    BY <1>6, <2>2
  <2>3. CASE a = n.next /\ a # NULL
    BY <1>7, <2>3
  <2>4. CASE a # item /\ a # before /\ ~(a = n.next /\ a # NULL)
    BY <1>4, <2>4
  <2> QED
    BY <2>1, <2>2, <2>3, <2>4
<1>9. Heap(g)
  BY <1>1, <1>8 DEF Heap
<1> QED
  BY <1>1, <1>5, <1>6, <1>7, <1>8, <1>9 DEF n

(* cJSON_DetachItemViaPointer takes an item out: the list closes up behind  *)
(* it, the item is free and the other lists stay. It may not be the last of *)
(* several items when the head's prev points to it: nobody sets that anew.  *)
THEOREM DetachKeeps ==
  ASSUME NEW h, NEW F, Forest(h, F), NEW p \in DOMAIN F, NEW i \in 1 .. Len(F[p]),
         i = 1 \/ i < Len(F[p]) \/ h[F[p][1]].prev = NULL
  PROVE  LET item == F[p][i]
             g == Unlink(h, p, item)
             G == [F EXCEPT ![p] = Removed(F[p], i)]
         IN Forest(g, G) /\ Free(g, G, item) /\ g[item].next = NULL
<1> DEFINE L == F[p]
           n == Len(L)
           item == L[i]
           g == Unlink(h, p, item)
           M == Removed(L, i)
           G == [F EXCEPT ![p] = M]
<1>1. IsList(h, p, L) /\ Heap(h) /\ p \in DOMAIN h /\ p # NULL
  BY DEF Forest
<1>2. /\ n \in Nat /\ \A k \in 1 .. n : L[k] \in DOMAIN h /\ L[k] # NULL /\ L[k] # p /\ In(L[k], L)
      /\ \A k, j \in 1 .. n : L[k] = L[j] => k = j
  BY <1>1, ListFacts
<1>3. ASSUME NEW q \in DOMAIN F, q # p PROVE ~In(item, F[q])
  BY <1>2, <1>3 DEF Forest
<1>4. i = 1 \/ i < n \/ h[L[1]].prev = NULL
  OBVIOUS
<1> HIDE DEF L
<1>5. n # 0 /\ i \in 1 .. n /\ 1 \in 1 .. n /\ n \in 1 .. n
  BY <1>2 DEF L
<1>6. /\ h[p].child = L[1] /\ h[L[n]].next = NULL
      /\ h[L[1]].prev = NULL \/ h[L[1]].prev = L[n]
  BY <1>1, <1>5 DEF IsList, Linked
<1>7. \A k \in 1 .. n - 1 : h[L[k]].next = L[k + 1] /\ h[L[k + 1]].prev = L[k]
  BY <1>1 DEF IsList, Linked
<1>8. M = [k \in 1 .. n - 1 |-> IF k < i THEN L[k] ELSE L[k + 1]]
  BY DEF Removed
<1> HIDE DEF n, item, g, M
<1>9. /\ \A k \in 1 .. n - 1 : k < i => M[k] = L[k]
      /\ \A k \in 1 .. n - 1 : k >= i => M[k] = L[k + 1]
  BY <1>2, <1>5, <1>8
<1>10. ASSUME NEW k \in 1 .. n - 1
       PROVE  \E j \in 1 .. n : j # i /\ M[k] = L[j] /\ k = IF j < i THEN j ELSE j - 1
  <2>1. CASE k < i
    BY <1>2, <1>9, <2>1
  <2>2. CASE k >= i
    <3>1. k + 1 \in 1 .. n /\ k + 1 # i /\ ~(k + 1 < i) /\ k = (k + 1) - 1
      BY <1>2, <1>5, <2>2
    <3> QED
      BY <1>9, <2>2, <3>1
  <2> QED
    BY <1>5, <2>1, <2>2
<1>11. item = L[i] /\ item \in DOMAIN h /\ item # NULL /\ item # p /\ In(item, L)
  BY <1>2, <1>5 DEF item
<1>12. M \in [1 .. n - 1 -> DOMAIN h] /\ \A k \in 1 .. n - 1 : M[k] # NULL /\ M[k] # p /\ M[k] # item
  <2>1. \A k \in 1 .. n - 1 : M[k] \in DOMAIN h /\ M[k] # NULL /\ M[k] # p /\ M[k] # item
    BY <1>2, <1>5, <1>10, <1>11
  <2> QED
    BY <1>8, <2>1
<1>13. \A k, j \in 1 .. n - 1 : M[k] = M[j] => k = j
  BY <1>2, <1>10
<1>14. n - 1 \in Nat /\ Len(M) = n - 1
  BY <1>2, <1>5, <1>8
<1>15. ~In(item, M) /\ \A x : In(x, M) => In(x, L)
  <2> SUFFICES ASSUME NEW x, In(x, M) PROVE x # item /\ In(x, L)
    OBVIOUS
  <2>1. PICK k \in 1 .. n - 1 : M[k] = x
    BY <1>14 DEF In
  <2> QED
    BY <1>2, <1>10, <1>12, <2>1
(* It is enough to see what the assignments do.                             *)
<1>16. ASSUME Local(h, g, p, L, item), IsList(g, p, M), g[item].next = NULL
       PROVE  Forest(g, G) /\ Free(g, G, item) /\ g[item].next = NULL
  <2>1. Forest(g, G)
    BY <1>3, <1>15, <1>16, Others DEF L
  <2>2. DOMAIN G = DOMAIN F /\ \A q \in DOMAIN F : G[q] = IF q = p THEN M ELSE F[q]
    OBVIOUS
  <2>3. item \in DOMAIN g
    BY <1>11, <1>16 DEF Local
  <2> HIDE DEF G
  <2>4. Free(g, G, item)
    BY <1>3, <1>11, <1>15, <2>2, <2>3 DEF Free
  <2> QED
    BY <1>16, <2>1, <2>4
(* The item after it, or NULL.                                              *)
<1>17. i < n => /\ h[item].next = L[i + 1] /\ i + 1 \in 1 .. n /\ i \in 1 .. n - 1
                /\ L[i + 1] \in DOMAIN h \ {NULL} /\ In(L[i + 1], L)
  BY <1>2, <1>5, <1>7, <1>11
<1>18. i = n => h[item].next = NULL
  BY <1>6, <1>11
<1>19. h[item].next # item /\ h[item].next # p
  <2>1. CASE i = n
    BY <1>1, <1>11, <1>18, <2>1
  <2>2. CASE i < n
    <3>1. L[i + 1] # L[i]
      BY <1>2, <1>5, <1>17, <2>2
    <3> QED
      BY <1>2, <1>11, <1>17, <2>2, <3>1
  <2> QED
    BY <1>2, <1>5, <2>1, <2>2
<1>20. CASE i = 1
  <2>1. /\ Heap(g) /\ DOMAIN g = DOMAIN h
        /\ g[p].child = h[item].next /\ \A a \in DOMAIN h : a # p => g[a].child = h[a].child
        /\ g[item].next = NULL /\ g[item].prev = NULL
        /\ \A a \in DOMAIN h : a # item => g[a].next = h[a].next
        /\ h[item].next \in DOMAIN h \ {NULL} => g[h[item].next].prev = h[item].prev
        /\ \A a \in DOMAIN h : a # item /\ (a # h[item].next \/ a = NULL) => g[a].prev = h[a].prev
    <3>1. h[p].child = item
      BY <1>6, <1>11, <1>20
    <3> QED
      BY <1>1, <1>11, <1>19, <3>1, UnlinkFirst DEF g
  <2>2. Local(h, g, p, L, item)
    <3>1. i < n \/ i = n
      BY <1>2, <1>5
    <3>2. h[item].next = NULL \/ In(h[item].next, L)
      BY <1>17, <1>18, <3>1
    <3> QED
      BY <2>1, <3>2 DEF Local
  <2>3. \A k \in 1 .. n - 1 : M[k] = L[k + 1] /\ k + 1 \in 1 .. n /\ L[k + 1] # item
    BY <1>2, <1>5, <1>9, <1>11, <1>20
  <2>4. ASSUME NEW k \in 1 .. (n - 1) - 1
        PROVE  g[M[k]].next = M[k + 1] /\ g[M[k + 1]].prev = M[k]
    <3>1. /\ k \in 1 .. n - 1 /\ k + 1 \in 1 .. n - 1 /\ (k + 1) + 1 \in 1 .. n /\ i + 1 \in 1 .. n
          /\ (k + 1) + 1 # i + 1 /\ i < n
      BY <1>2, <1>20
    <3>2. M[k] = L[k + 1] /\ M[k + 1] = L[(k + 1) + 1]
      BY <2>3, <3>1
    <3>3. /\ L[k + 1] \in DOMAIN h /\ L[k + 1] # item
          /\ L[(k + 1) + 1] \in DOMAIN h /\ L[(k + 1) + 1] # item /\ L[(k + 1) + 1] # L[i + 1]
      BY <1>2, <2>3, <3>1
    <3>4. g[L[k + 1]].next = h[L[k + 1]].next /\ g[L[(k + 1) + 1]].prev = h[L[(k + 1) + 1]].prev
      BY <1>17, <2>1, <3>1, <3>3
    <3> QED
      BY <1>7, <3>1, <3>2, <3>4
  <2>5. ASSUME n = 1 PROVE IsList(g, p, M)
    <3>1. n - 1 = 0 /\ g[p].child = NULL
      BY <1>18, <1>20, <2>1, <2>5
    <3> QED
      BY <1>12, <1>13, <1>14, <2>1, <2>4, <3>1, ListOf
  <2>6. ASSUME n # 1 PROVE IsList(g, p, M)
    <3>1. i < n /\ n - 1 # 0 /\ 1 \in 1 .. n - 1 /\ n - 1 \in 1 .. n - 1 /\ (n - 1) + 1 = n /\ i + 1 = 1 + 1
      BY <1>2, <1>5, <1>20, <2>6
    <3>2. M[1] = L[i + 1] /\ M[n - 1] = L[n] /\ L[n] # item
      BY <2>3, <3>1
    <3>3. g[L[n]].next = h[L[n]].next
      BY <1>2, <1>5, <2>1, <3>2
    <3>4. /\ g[p].child = M[1] /\ g[M[n - 1]].next = NULL
          /\ g[M[1]].prev = NULL \/ g[M[1]].prev = M[n - 1]
      BY <1>6, <1>11, <1>17, <1>20, <2>1, <3>1, <3>2, <3>3
    <3> QED
      BY <1>12, <1>13, <1>14, <2>1, <2>4, <3>1, <3>4, ListOf
  <2>7. Forest(g, G) /\ Free(g, G, item) /\ g[item].next = NULL
    BY <1>16, <2>1, <2>2, <2>5, <2>6
  <2> QED
    BY <2>7 DEF g, item, M, L
<1>21. CASE i # 1
  <2> DEFINE before == L[i - 1]
  <2>1. i - 1 \in 1 .. n /\ i - 1 \in 1 .. n - 1 /\ (i - 1) + 1 = i /\ i - 1 < i /\ 1 < i
    BY <1>2, <1>5, <1>21
  <2>2. h[item].prev = before /\ before \in DOMAIN h /\ before # item /\ In(before, L)
    BY <1>2, <1>5, <1>7, <1>11, <2>1
  <2>3. h[p].child # item /\ L[1] # item
    BY <1>2, <1>5, <1>6, <1>11, <1>21
  <2>4. h[item].next # before
    <3>1. CASE i = n
      BY <1>2, <1>18, <2>1, <3>1
    <3>2. CASE i < n
      <4>1. i + 1 # i - 1
        BY <1>5
      <4> QED
        BY <1>2, <1>17, <2>1, <3>2, <4>1
    <3> QED
      BY <1>2, <1>5, <3>1, <3>2
  <2>5. before = L[i - 1]
    OBVIOUS
  <2> HIDE DEF before
  <2>6. /\ Heap(g) /\ DOMAIN g = DOMAIN h
        /\ \A a \in DOMAIN h : g[a].child = h[a].child
        /\ g[item].next = NULL /\ g[item].prev = NULL /\ g[before].next = h[item].next
        /\ \A a \in DOMAIN h : a # item /\ a # before => g[a].next = h[a].next
        /\ h[item].next \in DOMAIN h \ {NULL} => g[h[item].next].prev = before
        /\ \A a \in DOMAIN h : a # item /\ (a # h[item].next \/ a = NULL) => g[a].prev = h[a].prev
    BY <1>1, <1>11, <1>19, <2>2, <2>3, <2>4, UnlinkLater DEF g
  <2>7. Local(h, g, p, L, item)
    <3>1. i < n \/ i = n
      BY <1>2, <1>5
    <3>2. h[item].next = NULL \/ In(h[item].next, L)
      BY <1>17, <1>18, <3>1
    <3> QED
      BY <2>2, <2>6, <3>2 DEF Local
  <2>8. ASSUME NEW k \in 1 .. n, k < i - 1
        PROVE  g[L[k]].next = L[k + 1] /\ g[L[k + 1]].prev = L[k]
    <3>1. k \in 1 .. n - 1 /\ k + 1 \in 1 .. n /\ k + 1 # i /\ k # i /\ k # i - 1
      BY <1>2, <1>5, <2>8
    <3>2. /\ L[k] \in DOMAIN h /\ L[k] # item /\ L[k] # before
          /\ L[k + 1] \in DOMAIN h /\ L[k + 1] # item
      BY <1>2, <1>5, <1>11, <2>1, <2>5, <3>1
    <3>3. L[k + 1] # h[item].next \/ L[k + 1] = NULL
      <4>1. CASE i = n
        BY <1>18, <4>1
      <4>2. CASE i < n
        <5>1. k + 1 # i + 1
          BY <2>8, <1>5
        <5> QED
          BY <1>2, <1>17, <3>1, <4>2, <5>1
      <4> QED
        BY <1>2, <1>5, <4>1, <4>2
    <3>4. g[L[k]].next = h[L[k]].next /\ g[L[k + 1]].prev = h[L[k + 1]].prev
      BY <2>6, <3>2, <3>3
    <3> QED
      BY <1>7, <3>1, <3>4
  <2>9. ASSUME NEW k \in 1 .. n - 1, k > i
        PROVE  g[L[k]].next = L[k + 1] /\ g[L[k + 1]].prev = L[k]
    <3>1. k \in 1 .. n /\ k + 1 \in 1 .. n /\ k + 1 # i /\ k # i /\ k # i - 1 /\ i < n /\ k + 1 # i + 1
      BY <1>2, <1>5, <2>9
    <3>2. /\ L[k] \in DOMAIN h /\ L[k] # item /\ L[k] # before
          /\ L[k + 1] \in DOMAIN h /\ L[k + 1] # item /\ L[k + 1] # L[i + 1]
      BY <1>2, <1>5, <1>11, <1>17, <2>1, <2>5, <3>1
    <3>3. g[L[k]].next = h[L[k]].next /\ g[L[k + 1]].prev = h[L[k + 1]].prev
      BY <1>17, <2>6, <3>1, <3>2
    <3> QED
      BY <1>7, <3>3
  <2>10. i < n => g[before].next = L[i + 1] /\ g[L[i + 1]].prev = before
    BY <1>17, <2>6
  <2>11. ASSUME NEW k \in 1 .. (n - 1) - 1
         PROVE  g[M[k]].next = M[k + 1] /\ g[M[k + 1]].prev = M[k]
    <3>1. k \in 1 .. n - 1 /\ k + 1 \in 1 .. n - 1 /\ k \in 1 .. n
      BY <1>2
    <3>2. CASE k < i - 1
      <4>1. k < i /\ k + 1 < i
        BY <1>5, <3>1, <3>2
      <4>2. M[k] = L[k] /\ M[k + 1] = L[k + 1]
        BY <1>9, <3>1, <4>1
      <4> QED
        BY <2>8, <3>1, <3>2, <4>2
    <3>3. CASE k = i - 1
      <4>1. k < i /\ k + 1 >= i /\ k + 1 = i /\ i < n
        BY <1>2, <1>5, <3>1, <3>3
      <4>2. M[k] = before /\ M[k + 1] = L[i + 1]
        BY <1>9, <2>5, <3>1, <3>3, <4>1
      <4> QED
        BY <2>10, <4>1, <4>2
    <3>4. CASE k >= i
      <4>1. k + 1 >= i /\ k + 1 > i
        BY <1>5, <3>1, <3>4
      <4>2. M[k] = L[k + 1] /\ M[k + 1] = L[(k + 1) + 1]
        BY <1>9, <3>1, <3>4, <4>1
      <4> QED
        BY <2>9, <3>1, <4>1, <4>2
    <3> QED
      BY <1>5, <3>1, <3>2, <3>3, <3>4
  <2>12. n - 1 # 0 /\ 1 \in 1 .. n - 1 /\ n - 1 \in 1 .. n - 1 /\ (n - 1) + 1 = n
    BY <1>2, <1>5, <2>1
  <2>13. M[1] = L[1]
    BY <1>9, <2>1, <2>12
  <2>14. g[p].child = M[1]
    BY <1>1, <1>6, <2>6, <2>13
  <2>15. L[1] # h[item].next \/ L[1] = NULL
    <3>1. CASE i = n
      BY <1>18, <3>1
    <3>2. CASE i < n
      <4>1. 1 # i + 1
        BY <1>5
      <4> QED
        BY <1>2, <1>5, <1>17, <3>2, <4>1
    <3> QED
      BY <1>2, <1>5, <3>1, <3>2
  <2>16. g[L[1]].prev = h[L[1]].prev
    BY <1>2, <1>5, <2>3, <2>6, <2>15
  <2>17. ASSUME i < n
         PROVE  g[M[n - 1]].next = NULL /\ (g[M[1]].prev = NULL \/ g[M[1]].prev = M[n - 1])
    <3>1. n - 1 >= i /\ n # i /\ n # i - 1
      BY <1>2, <1>5, <2>17
    <3>2. M[n - 1] = L[n]
      BY <1>9, <2>12, <3>1
    <3>3. L[n] \in DOMAIN h /\ L[n] # item /\ L[n] # before
      BY <1>2, <1>5, <1>11, <2>1, <2>5, <3>1
    <3>4. g[L[n]].next = h[L[n]].next
      BY <2>6, <3>3
    <3> QED
      BY <1>6, <2>13, <2>16, <3>2, <3>4
  <2>18. ASSUME i = n
         PROVE  g[M[n - 1]].next = NULL /\ (g[M[1]].prev = NULL \/ g[M[1]].prev = M[n - 1])
    <3>1. n - 1 < i
      BY <1>2, <2>18
    <3>2. M[n - 1] = before
      BY <1>9, <2>5, <2>12, <2>18, <3>1
    <3> QED
      BY <1>2, <1>4, <1>18, <1>21, <2>6, <2>13, <2>16, <2>18, <3>2
  <2>19. g[M[n - 1]].next = NULL /\ (g[M[1]].prev = NULL \/ g[M[1]].prev = M[n - 1])
    BY <1>2, <1>5, <2>17, <2>18
  <2>20. IsList(g, p, M)
    BY <1>12, <1>13, <1>14, <2>6, <2>11, <2>12, <2>14, <2>19, ListOf
  <2>21. Forest(g, G) /\ Free(g, G, item) /\ g[item].next = NULL
    BY <1>16, <2>6, <2>7, <2>20
  <2> QED
    BY <2>21 DEF g, item, M, L
<1> QED
  BY <1>20, <1>21

---------------------------------------------------------------------------------
(* cJSON_ReplaceItemViaPointer. What it does, with the item after the one   *)
(* that goes or NULL, and the item before it unless it is the first.        *)
LEMMA RelinkFirst ==
  ASSUME NEW h, Heap(h), NEW p \in DOMAIN h, NEW item \in DOMAIN h, p # item,
         NEW new \in DOMAIN h, new # item, new # p,
         h[p].child = item, h[item].next # item, h[item].next # p, h[item].next # new,
         NEW g, g = Relink(h, p, item, new)
  PROVE  /\ Heap(g) /\ DOMAIN g = DOMAIN h
         /\ g[p].child = new /\ \A a \in DOMAIN h : a # p => g[a].child = h[a].child
         /\ g[new].next = h[item].next /\ g[new].prev = h[item].prev
         /\ \A a \in DOMAIN h : a # item /\ a # new => g[a].next = h[a].next
         /\ h[item].next \in DOMAIN h \ {NULL} => g[h[item].next].prev = new
         /\ \A a \in DOMAIN h : a # item /\ a # new /\ (a # h[item].next \/ a = NULL) =>
              g[a].prev = h[a].prev
<1> DEFINE n == h[item]
<1>1. DOMAIN g = DOMAIN h
  BY DEF Relink
<1>2. g[item] = [n EXCEPT !.next = NULL, !.prev = NULL]
  BY DEF Relink
<1>3. g[new] = [h[new] EXCEPT !.next = n.next, !.prev = n.prev]
  BY DEF Relink
<1>4. g[p] = [h[p] EXCEPT !.child = new]
  BY DEF Relink
<1>5. n.next \in DOMAIN h \ {NULL} => g[n.next] = [h[n.next] EXCEPT !.prev = new]
  BY DEF Relink
<1>6. ASSUME NEW a \in DOMAIN h, a # item, a # new, a # p, a # n.next \/ a = NULL
      PROVE  g[a] = h[a]
  BY <1>6 DEF Relink
<1>7. DOMAIN g[item] = DOMAIN n /\ g[item].child = n.child
  BY <1>2 DEF Heap
<1>8. /\ DOMAIN g[new] = DOMAIN h[new] /\ g[new].child = h[new].child
      /\ g[new].next = n.next /\ g[new].prev = n.prev
  BY <1>3 DEF Heap
<1>9. /\ DOMAIN g[p] = DOMAIN h[p] /\ g[p].child = new
      /\ g[p].next = h[p].next /\ g[p].prev = h[p].prev
  BY <1>4 DEF Heap
<1>10. ASSUME n.next \in DOMAIN h \ {NULL}
       PROVE  /\ DOMAIN g[n.next] = DOMAIN h[n.next] /\ g[n.next].child = h[n.next].child
              /\ g[n.next].next = h[n.next].next /\ g[n.next].prev = new
  BY <1>5, <1>10 DEF Heap
<1> HIDE DEF n
<1>11. ASSUME NEW a \in DOMAIN h
       PROVE  /\ DOMAIN g[a] = DOMAIN h[a]
              /\ a # p => g[a].child = h[a].child
              /\ a # item /\ a # new => g[a].next = h[a].next
              /\ a # item /\ a # new /\ (a # n.next \/ a = NULL) => g[a].prev = h[a].prev
  <2>1. CASE a = item
    BY <1>7, <2>1 DEF n
  <2>2. CASE a = p
    BY <1>9, <2>2
  <2>3. CASE a = new
    BY <1>8, <2>3
  <2>4. CASE a = n.next /\ a # NULL
    BY <1>10, <2>4
  <2>5. CASE a # item /\ a # p /\ a # new /\ ~(a = n.next /\ a # NULL)
    BY <1>6, <2>5
  <2> QED
    BY <2>1, <2>2, <2>3, <2>4, <2>5
<1>12. Heap(g)
  BY <1>1, <1>11 DEF Heap
<1> QED
  BY <1>1, <1>8, <1>9, <1>10, <1>11, <1>12 DEF n

LEMMA RelinkLater ==
  ASSUME NEW h, Heap(h), NEW p \in DOMAIN h, NEW item \in DOMAIN h,
         NEW new \in DOMAIN h, new # item, h[p].child # item,
         NEW before \in DOMAIN h, before = h[item].prev, before # item, before # new, before # NULL,
         h[item].next # item, h[item].next # before, h[item].next # new,
         NEW g, g = Relink(h, p, item, new)
  PROVE  /\ Heap(g) /\ DOMAIN g = DOMAIN h
         /\ \A a \in DOMAIN h : g[a].child = h[a].child
         /\ g[new].next = h[item].next /\ g[new].prev = before /\ g[before].next = new
         /\ \A a \in DOMAIN h : a # item /\ a # new /\ a # before => g[a].next = h[a].next
         /\ h[item].next \in DOMAIN h \ {NULL} => g[h[item].next].prev = new
         /\ \A a \in DOMAIN h : a # item /\ a # new /\ (a # h[item].next \/ a = NULL) =>
              g[a].prev = h[a].prev
<1> DEFINE n == h[item]
<1>1. DOMAIN g = DOMAIN h
  BY DEF Relink
<1>2. g[item] = [n EXCEPT !.next = NULL, !.prev = NULL]
  BY DEF Relink
<1>3. g[new] = [h[new] EXCEPT !.next = n.next, !.prev = before]
  BY DEF Relink
<1>4. g[before] = [h[before] EXCEPT !.next = new]
  BY DEF Relink
<1>5. n.next \in DOMAIN h \ {NULL} => g[n.next] = [h[n.next] EXCEPT !.prev = new]
  BY DEF Relink
<1>6. ASSUME NEW a \in DOMAIN h, a # item, a # new, a # before, a # n.next \/ a = NULL
      PROVE  g[a] = h[a]
  BY <1>6 DEF Relink
<1>7. DOMAIN g[item] = DOMAIN n /\ g[item].child = n.child
  BY <1>2 DEF Heap
<1>8. /\ DOMAIN g[new] = DOMAIN h[new] /\ g[new].child = h[new].child
      /\ g[new].next = n.next /\ g[new].prev = before
  BY <1>3 DEF Heap
<1>9. /\ DOMAIN g[before] = DOMAIN h[before] /\ g[before].child = h[before].child
      /\ g[before].next = new /\ g[before].prev = h[before].prev
  BY <1>4 DEF Heap
<1>10. ASSUME n.next \in DOMAIN h \ {NULL}
       PROVE  /\ DOMAIN g[n.next] = DOMAIN h[n.next] /\ g[n.next].child = h[n.next].child
              /\ g[n.next].next = h[n.next].next /\ g[n.next].prev = new
  BY <1>5, <1>10 DEF Heap
<1> HIDE DEF n
<1>11. ASSUME NEW a \in DOMAIN h
       PROVE  /\ DOMAIN g[a] = DOMAIN h[a]
              /\ g[a].child = h[a].child
              /\ a # item /\ a # new /\ a # before => g[a].next = h[a].next
              /\ a # item /\ a # new /\ (a # n.next \/ a = NULL) => g[a].prev = h[a].prev
  <2>1. CASE a = item
    BY <1>7, <2>1 DEF n
  <2>2. CASE a = before
    BY <1>9, <2>2
  <2>3. CASE a = new
    BY <1>8, <2>3
  <2>4. CASE a = n.next /\ a # NULL
    BY <1>10, <2>4
  <2>5. CASE a # item /\ a # before /\ a # new /\ ~(a = n.next /\ a # NULL)
    BY <1>6, <2>5
  <2> QED
    BY <2>1, <2>2, <2>3, <2>4, <2>5
<1>12. Heap(g)
  BY <1>1, <1>11 DEF Heap
<1> QED
  BY <1>1, <1>8, <1>9, <1>10, <1>11, <1>12 DEF n

(* cJSON_ReplaceItemViaPointer puts a free item in the place of another,    *)
(* which is free then, and the other lists stay. Not the last item, if the  *)
(* head's prev points to it: nobody sets that anew.                         *)
THEOREM ReplaceKeeps ==
  ASSUME NEW h, NEW F, Forest(h, F), NEW p \in DOMAIN F, NEW new, Free(h, F, new),
         new # p, NEW i \in 1 .. Len(F[p]), i < Len(F[p]) \/ h[F[p][1]].prev = NULL
  PROVE  LET item == F[p][i]
             g == Relink(h, p, item, new)
             G == [F EXCEPT ![p] = Replaced(F[p], i, new)]
         IN Forest(g, G) /\ Free(g, G, item)
<1> DEFINE L == F[p]
           n == Len(L)
           item == L[i]
           g == Relink(h, p, item, new)
           M == Replaced(L, i, new)
           G == [F EXCEPT ![p] = M]
<1>1. /\ IsList(h, p, L) /\ Heap(h) /\ p \in DOMAIN h /\ p # NULL
      /\ new \in DOMAIN h /\ new # NULL /\ ~In(new, L)
  BY DEF Forest, Free
<1>2. /\ n \in Nat /\ \A k \in 1 .. n : L[k] \in DOMAIN h /\ L[k] # NULL /\ L[k] # p /\ In(L[k], L)
      /\ \A k, j \in 1 .. n : L[k] = L[j] => k = j
  BY <1>1, ListFacts
<1>3. ASSUME NEW q \in DOMAIN F, q # p PROVE ~In(item, F[q]) /\ ~In(new, F[q])
  BY <1>2, <1>3 DEF Forest, Free
<1>4. i < n \/ h[L[1]].prev = NULL
  OBVIOUS
<1> HIDE DEF L
<1>5. n # 0 /\ i \in 1 .. n /\ 1 \in 1 .. n /\ n \in 1 .. n
  BY <1>2 DEF L
<1>6. /\ h[p].child = L[1] /\ h[L[n]].next = NULL
      /\ h[L[1]].prev = NULL \/ h[L[1]].prev = L[n]
  BY <1>1, <1>5 DEF IsList, Linked
<1>7. \A k \in 1 .. n - 1 : h[L[k]].next = L[k + 1] /\ h[L[k + 1]].prev = L[k]
  BY <1>1 DEF IsList, Linked
<1>8. M = [k \in 1 .. n |-> IF k = i THEN new ELSE L[k]]
  BY DEF Replaced
<1> HIDE DEF n, item, g, M
<1>9. M[i] = new /\ \A k \in 1 .. n : k # i => M[k] = L[k]
  BY <1>5, <1>8
<1>10. /\ item = L[i] /\ item \in DOMAIN h /\ item # NULL /\ item # p /\ In(item, L) /\ item # new
       /\ \A k \in 1 .. n : L[k] # new /\ (k # i => L[k] # item)
  BY <1>1, <1>2, <1>5 DEF item
<1>11. M \in [1 .. n -> DOMAIN h] /\ \A k \in 1 .. n : M[k] # NULL /\ M[k] # p /\ M[k] # item
  <2>1. \A k \in 1 .. n : M[k] \in DOMAIN h /\ M[k] # NULL /\ M[k] # p /\ M[k] # item
    BY <1>1, <1>2, <1>9, <1>10
  <2> QED
    BY <1>8, <2>1
<1>12. \A k, j \in 1 .. n : M[k] = M[j] => k = j
  BY <1>2, <1>9, <1>10
<1>13. Len(M) = n
  BY <1>2, <1>8
<1>14. ~In(item, M) /\ \A x : In(x, M) => x = new \/ In(x, L)
  <2> SUFFICES ASSUME NEW x, In(x, M) PROVE x # item /\ (x = new \/ In(x, L))
    OBVIOUS
  <2>1. PICK k \in 1 .. n : M[k] = x
    BY <1>13 DEF In
  <2> QED
    BY <1>2, <1>9, <1>11, <2>1
(* It is enough to see what the assignments do.                             *)
<1>15. ASSUME Local(h, g, p, L, new), IsList(g, p, M)
       PROVE  Forest(g, G) /\ Free(g, G, item)
  <2>1. Forest(g, G)
    BY <1>3, <1>14, <1>15, Others DEF L
  <2>2. DOMAIN G = DOMAIN F /\ \A q \in DOMAIN F : G[q] = IF q = p THEN M ELSE F[q]
    OBVIOUS
  <2>3. item \in DOMAIN g
    BY <1>10, <1>15 DEF Local
  <2> HIDE DEF G
  <2>4. Free(g, G, item)
    BY <1>3, <1>10, <1>14, <2>2, <2>3 DEF Free
  <2> QED
    BY <2>1, <2>4
(* The item after it, or NULL.                                              *)
<1>16. i < n => /\ h[item].next = L[i + 1] /\ i + 1 \in 1 .. n /\ i \in 1 .. n - 1 /\ i + 1 # i
                /\ L[i + 1] \in DOMAIN h \ {NULL} /\ In(L[i + 1], L)
  BY <1>2, <1>5, <1>7, <1>10
<1>17. i = n => h[item].next = NULL
  BY <1>6, <1>10
<1>18. i < n \/ i = n
  BY <1>2, <1>5
<1>19. /\ h[item].next # item /\ h[item].next # p /\ h[item].next # new
       /\ h[item].next = NULL \/ In(h[item].next, L)
  <2>1. CASE i = n
    BY <1>1, <1>10, <1>17, <2>1
  <2>2. CASE i < n
    BY <1>2, <1>10, <1>16, <2>2
  <2> QED
    BY <1>18, <2>1, <2>2
<1>20. \A k \in 1 .. n : k # i + 1 => L[k] # h[item].next \/ L[k] = NULL
  <2>1. CASE i = n
    BY <1>17, <2>1
  <2>2. CASE i < n
    BY <1>2, <1>16, <2>2
  <2> QED
    BY <1>18, <2>1, <2>2
<1>21. CASE i = 1
  <2>1. /\ Heap(g) /\ DOMAIN g = DOMAIN h
        /\ g[p].child = new /\ \A a \in DOMAIN h : a # p => g[a].child = h[a].child
        /\ g[new].next = h[item].next /\ g[new].prev = h[item].prev
        /\ \A a \in DOMAIN h : a # item /\ a # new => g[a].next = h[a].next
        /\ h[item].next \in DOMAIN h \ {NULL} => g[h[item].next].prev = new
        /\ \A a \in DOMAIN h : a # item /\ a # new /\ (a # h[item].next \/ a = NULL) =>
             g[a].prev = h[a].prev
    <3>1. h[p].child = item
      BY <1>6, <1>10, <1>21
    <3> QED
      BY <1>1, <1>10, <1>19, <3>1, RelinkFirst DEF g
  <2>2. Local(h, g, p, L, new)
    BY <1>10, <1>19, <2>1 DEF Local
  <2>3. ASSUME NEW k \in 1 .. n - 1
        PROVE  g[M[k]].next = M[k + 1] /\ g[M[k + 1]].prev = M[k]
    <3>1. k \in 1 .. n /\ k + 1 \in 1 .. n /\ k + 1 # i /\ M[k + 1] = L[k + 1]
      BY <1>2, <1>9, <1>21
    <3>2. CASE k = i
      <4>1. i < n
        BY <1>2, <3>2
      <4> QED
        BY <1>9, <1>16, <2>1, <3>1, <3>2, <4>1
    <3>3. CASE k # i
      <4>1. M[k] = L[k] /\ k + 1 # i + 1
        BY <1>9, <3>1, <3>3
      <4>2. g[L[k]].next = h[L[k]].next
        BY <1>2, <1>10, <2>1, <3>1, <3>3
      <4>3. g[L[k + 1]].prev = h[L[k + 1]].prev
        BY <1>2, <1>10, <1>20, <2>1, <3>1, <4>1
      <4> QED
        BY <1>7, <3>1, <4>1, <4>2, <4>3
    <3> QED
      BY <3>2, <3>3
  <2>4. g[p].child = M[1] /\ M[1] = new
    BY <1>9, <1>21, <2>1
  <2>5. ASSUME i = n
        PROVE  g[M[n]].next = NULL /\ (g[M[1]].prev = NULL \/ g[M[1]].prev = M[n])
    <3>1. h[L[1]].prev = NULL
      BY <1>2, <1>4, <2>5
    <3>2. M[n] = new /\ h[item].next = NULL /\ h[item].prev = NULL
      BY <1>9, <1>10, <1>17, <1>21, <2>5, <3>1
    <3> QED
      BY <2>1, <2>4, <3>2
  <2>6. ASSUME i < n
        PROVE  g[M[n]].next = NULL /\ (g[M[1]].prev = NULL \/ g[M[1]].prev = M[n])
    <3>1. M[n] = L[n] /\ n # i
      BY <1>5, <1>9, <2>6
    <3>2. g[L[n]].next = h[L[n]].next
      BY <1>2, <1>5, <1>10, <2>1, <3>1
    <3> QED
      BY <1>6, <1>10, <1>21, <2>1, <2>4, <3>1, <3>2
  <2>7. IsList(g, p, M)
    <3>1. g[M[n]].next = NULL /\ (g[M[1]].prev = NULL \/ g[M[1]].prev = M[n])
      BY <1>18, <2>5, <2>6
    <3>2. n \in Nat /\ n # 0 /\ M \in [1 .. n -> DOMAIN g]
      BY <1>2, <1>5, <1>11, <2>1
    <3>3. /\ n = 0 => g[p].child = NULL
          /\ n # 0 => /\ g[p].child = M[1] /\ g[M[n]].next = NULL
                      /\ g[M[1]].prev = NULL \/ g[M[1]].prev = M[n]
      BY <2>4, <3>1, <3>2
    <3>4. (\A k \in 1 .. n : M[k] # NULL /\ M[k] # p) /\ (\A k, j \in 1 .. n : M[k] = M[j] => k = j)
      BY <1>11, <1>12
    <3>5. \A k \in 1 .. n - 1 : g[M[k]].next = M[k + 1] /\ g[M[k + 1]].prev = M[k]
      BY <2>3
    <3> QED
      BY <3>2, <3>3, <3>4, <3>5, ListOf
  <2>8. Forest(g, G) /\ Free(g, G, item)
    BY <1>15, <2>2, <2>7
  <2> QED
    BY <2>8 DEF g, item, M, L
<1>22. CASE i # 1
  <2> DEFINE before == L[i - 1]
  <2>1. i - 1 \in 1 .. n /\ i - 1 \in 1 .. n - 1 /\ (i - 1) + 1 = i /\ i - 1 # i /\ i - 1 # i + 1
    BY <1>2, <1>5, <1>22
  <2>2. /\ h[item].prev = before /\ before \in DOMAIN h /\ before # item /\ before # new
        /\ before # NULL /\ In(before, L) /\ h[before].next = item
    BY <1>2, <1>7, <1>10, <2>1
  <2>3. h[p].child # item
    BY <1>5, <1>6, <1>10, <1>22
  <2>4. h[item].next # before
    BY <1>20, <2>1, <2>2
  <2>5. before = L[i - 1]
    OBVIOUS
  <2> HIDE DEF before
  <2>6. /\ Heap(g) /\ DOMAIN g = DOMAIN h
        /\ \A a \in DOMAIN h : g[a].child = h[a].child
        /\ g[new].next = h[item].next /\ g[new].prev = before /\ g[before].next = new
        /\ \A a \in DOMAIN h : a # item /\ a # new /\ a # before => g[a].next = h[a].next
        /\ h[item].next \in DOMAIN h \ {NULL} => g[h[item].next].prev = new
        /\ \A a \in DOMAIN h : a # item /\ a # new /\ (a # h[item].next \/ a = NULL) =>
             g[a].prev = h[a].prev
    <3>1. /\ Heap(h) /\ p \in DOMAIN h /\ item \in DOMAIN h /\ new \in DOMAIN h /\ new # item
          /\ h[p].child # item
      BY <1>1, <1>10, <2>3
    <3>2. /\ before \in DOMAIN h /\ before = h[item].prev /\ before # item /\ before # new
          /\ before # NULL /\ h[item].next # item /\ h[item].next # before /\ h[item].next # new
      BY <1>19, <2>2, <2>4
    <3>3. g = Relink(h, p, item, new)
      BY DEF g
    <3> QED
      BY <3>1, <3>2, <3>3, RelinkLater
  <2>7. Local(h, g, p, L, new)
    BY <1>10, <1>19, <2>2, <2>6 DEF Local
  <2>8. \A k \in 1 .. n : k # i - 1 => L[k] # before
    BY <1>2, <2>1, <2>5
  <2>9. ASSUME NEW k \in 1 .. n - 1
        PROVE  g[M[k]].next = M[k + 1] /\ g[M[k + 1]].prev = M[k]
    <3>1. k \in 1 .. n /\ k + 1 \in 1 .. n
      BY <1>2
    <3>2. CASE k = i
      <4>1. i < n /\ k + 1 # i
        BY <1>2, <3>2
      <4> QED
        BY <1>9, <1>16, <2>6, <3>1, <3>2, <4>1
    <3>3. CASE k = i - 1
      <4>1. k + 1 = i /\ k # i
        BY <2>1, <3>3
      <4>2. M[k] = before /\ M[k + 1] = new
        BY <1>9, <2>5, <3>1, <3>3, <4>1
      <4> QED
        BY <2>6, <4>2
    <3>4. CASE k # i /\ k # i - 1
      <4>1. k + 1 # i + 1 /\ k + 1 # i
        BY <1>5, <3>1, <3>4
      <4>2. M[k] = L[k] /\ M[k + 1] = L[k + 1]
        BY <1>9, <3>1, <3>4, <4>1
      <4>3. g[L[k]].next = h[L[k]].next
        BY <1>2, <1>10, <2>6, <2>8, <3>1, <3>4
      <4>4. g[L[k + 1]].prev = h[L[k + 1]].prev
        BY <1>2, <1>10, <1>20, <2>6, <3>1, <4>1
      <4> QED
        BY <1>7, <4>2, <4>3, <4>4
    <3> QED
      BY <3>2, <3>3, <3>4
  <2>10. M[1] = L[1] /\ g[p].child = M[1]
    BY <1>1, <1>5, <1>6, <1>9, <1>22, <2>6
  <2>11. g[L[1]].prev = h[L[1]].prev
    <3>1. 1 # i + 1
      BY <1>5
    <3> QED
      BY <1>2, <1>5, <1>10, <1>20, <1>22, <2>6, <3>1
  <2>12. ASSUME i = n
         PROVE  g[M[n]].next = NULL /\ (g[M[1]].prev = NULL \/ g[M[1]].prev = M[n])
    BY <1>2, <1>4, <1>9, <1>17, <2>6, <2>10, <2>11, <2>12
  <2>13. ASSUME i < n
         PROVE  g[M[n]].next = NULL /\ (g[M[1]].prev = NULL \/ g[M[1]].prev = M[n])
    <3>1. M[n] = L[n] /\ n # i /\ n # i - 1
      BY <1>5, <1>9, <2>1, <2>13
    <3>2. g[L[n]].next = h[L[n]].next
      BY <1>2, <1>5, <1>10, <2>6, <2>8, <3>1
    <3> QED
      BY <1>6, <2>10, <2>11, <3>1, <3>2
  <2>14. IsList(g, p, M)
    <3>1. g[M[n]].next = NULL /\ (g[M[1]].prev = NULL \/ g[M[1]].prev = M[n])
      BY <1>18, <2>12, <2>13
    <3>2. n \in Nat /\ n # 0 /\ M \in [1 .. n -> DOMAIN g]
      BY <1>2, <1>5, <1>11, <2>6
    <3>3. /\ n = 0 => g[p].child = NULL
          /\ n # 0 => /\ g[p].child = M[1] /\ g[M[n]].next = NULL
                      /\ g[M[1]].prev = NULL \/ g[M[1]].prev = M[n]
      BY <2>10, <3>1, <3>2
    <3>4. (\A k \in 1 .. n : M[k] # NULL /\ M[k] # p) /\ (\A k, j \in 1 .. n : M[k] = M[j] => k = j)
      BY <1>11, <1>12
    <3>5. \A k \in 1 .. n - 1 : g[M[k]].next = M[k + 1] /\ g[M[k + 1]].prev = M[k]
      BY <2>9
    <3> QED
      BY <3>2, <3>3, <3>4, <3>5, ListOf
  <2>15. Forest(g, G) /\ Free(g, G, item)
    BY <1>15, <2>7, <2>14
  <2> QED
    BY <2>15 DEF g, item, M, L
<1> QED
  BY <1>21, <1>22
===============================================================================
