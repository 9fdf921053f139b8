-------------------------------- MODULE IperfTime --------------------------------
(***************************************************************************)
(* iperf_time.c and timer.c: points in time as seconds and microseconds,   *)
(* and the list of timers of one iperf3 process. A list is a record of the *)
(* active timers, first the one that is due first, and of the free list,   *)
(* whose cells tmr_create takes first; a free cell keeps its contents. A   *)
(* timer is known by its cell (id), the way the program knows it by its    *)
(* address; NULL is 0.                                                     *)
(***************************************************************************)
EXTENDS Integers, Sequences

MILLION == 1000000

Time == [secs : Nat, usecs : 0 .. (MILLION - 1)]

(* Add a number of microseconds to a time, with the carry.                  *)
iperf_time_add_usecs(t, usecs) ==
  LET u == t.usecs + (usecs % MILLION) IN
  IF u >= MILLION
  THEN [secs |-> t.secs + (usecs \div MILLION) + (u \div MILLION), usecs |-> u % MILLION]
  ELSE [secs |-> t.secs + (usecs \div MILLION), usecs |-> u]

iperf_time_in_usecs(t) == t.secs * MILLION + t.usecs

(* -1 if t1 is earlier, 1 if it is later, 0 if they are equal.              *)
iperf_time_compare(t1, t2) ==
  CASE t1.secs < t2.secs -> -1
    [] t1.secs > t2.secs -> 1
    [] t1.secs = t2.secs /\ t1.usecs < t2.usecs -> -1
    [] t1.secs = t2.secs /\ t1.usecs > t2.usecs -> 1
    [] OTHER -> 0

(* The borrow of iperf_time_diff, for a later than b.                       *)
Minus(a, b) ==
  IF a.usecs < b.usecs
  THEN [secs |-> a.secs - b.secs - 1, usecs |-> a.usecs + MILLION - b.usecs]
  ELSE [secs |-> a.secs - b.secs, usecs |-> a.usecs - b.usecs]

(* The distance of two times; `past` says that t1 is not the later one.     *)
iperf_time_diff(t1, t2) ==
  LET cmp == iperf_time_compare(t1, t2) IN
  [past |-> cmp # 1,
   diff |-> CASE cmp = 0 -> [secs |-> 0, usecs |-> 0]
              [] cmp = 1 -> Minus(t1, t2)
              [] cmp = -1 -> Minus(t2, t1)]

---------------------------------------------------------------------------------

NULL == 0

NoTimers == [active |-> <<>>, free |-> <<>>]

Ids(L) == {L.active[i].id : i \in DOMAIN L.active}

(* The contents of the cell with this id.                                   *)
CellOf(L, id) ==
  LET all == L.active \o L.free IN all[CHOOSE i \in DOMAIN all : all[i].id = id]

(* Insert timer t before the first one that is due later.                   *)
list_add_front(a, t) ==
  LET later == {i \in DOMAIN a : iperf_time_compare(t.time, a[i].time) <= 0}
      k == IF later = {} THEN Len(a)
           ELSE (CHOOSE i \in later : \A j \in later : i <= j) - 1
  IN SubSeq(a, 1, k) \o <<t>> \o SubSeq(a, k + 1, Len(a))
list_add(a, t) ==
  LET later == {i \in DOMAIN a : iperf_time_compare(t.time, a[i].time) < 0}
      k == IF later = {} THEN Len(a)
           ELSE (CHOOSE i \in later : \A j \in later : i <= j) - 1
  IN SubSeq(a, 1, k) \o <<t>> \o SubSeq(a, k + 1, Len(a))

list_remove(a, id) ==
  LET k == CHOOSE k \in DOMAIN a : a[k].id = id
  IN SubSeq(a, 1, k - 1) \o SubSeq(a, k + 1, Len(a))

(* r is the list without the timer.                                         *)
list_resort(a, t) == CHOOSE b \in {list_add(r, t) : r \in {list_remove(a, t.id)}} : TRUE

(* The cell of the next timer: the head of the free list, or a new one.     *)
NewCell(L) == IF L.free # <<>> THEN Head(L.free).id ELSE Len(L.active) + 1

tmr_create(L, now, proc, data, usecs, periodic) ==
  LET t == [id |-> NewCell(L), proc |-> proc, data |-> data, usecs |-> usecs,
            periodic |-> periodic, time |-> iperf_time_add_usecs(now, usecs)]
  IN [active |-> list_add(L.active, t),
      free |-> IF L.free # <<>> THEN Tail(L.free) ELSE <<>>]

tmr_reset(L, now, id) ==
  LET t == CellOf(L, id) IN
  [L EXCEPT !.active = list_resort(@, [t EXCEPT !.time = iperf_time_add_usecs(now, t.usecs)])]

tmr_cancel(L, id) ==
  [active |-> list_remove(L.active, id), free |-> <<CellOf(L, id)>> \o L.free]

(* tmr_reset as the program calls it: not for NULL.                         *)
ResetIfSet(L, now, id) == IF id = NULL THEN L ELSE tmr_reset(L, now, id)

(* tmr_cancel of several timers, one after the other, but not of NULL; m is *)
(* what the cancellations so far have left.                                 *)
CancelAll(L, ids) ==
  LET c[k \in 0 .. Len(ids)] ==
        IF k = 0 THEN L
        ELSE CHOOSE n \in {IF ids[k] = NULL THEN m ELSE tmr_cancel(m, ids[k]) : m \in {c[k - 1]}} : TRUE
  IN c[Len(ids)]

(* tmr_timeout: microseconds until the first timer is due; with no timer    *)
(* there is no timeout, which -1 stands for.                                *)
tmr_timeout(L, now) ==
  IF L.active = <<>> THEN -1
  ELSE LET d == iperf_time_diff(Head(L.active).time, now) IN
       IF d.past THEN 0 ELSE iperf_time_in_usecs(d.diff)

(* The loop of tmr_run begins at First; as it comes to cell id it notes     *)
(* NextOf(id), before the callback, and goes on there. A cell on the free   *)
(* list has a next as well, the cell behind it there.                       *)
First(L) == IF L.active = <<>> THEN NULL ELSE Head(L.active).id

NextOf(L, id) ==
  LET list == IF id \in Ids(L) THEN L.active ELSE L.free
      i == CHOOSE i \in DOMAIN list : list[i].id = id
  IN IF i = Len(list) THEN NULL ELSE list[i + 1].id

(* The loop ends at the end of the list or at a timer that is not ready.    *)
LoopEnds(L, id, now) ==
  IF id = NULL THEN TRUE ELSE iperf_time_compare(CellOf(L, id).time, now) > 0

(* What tmr_run does with timer id after its callback: a periodic timer is  *)
(* due again, the others are cancelled.                                     *)
Reschedule(L, id) ==
  LET t == CellOf(L, id) IN
  IF t.periodic
  THEN [L EXCEPT !.active = list_resort(@, [t EXCEPT !.time = iperf_time_add_usecs(t.time, t.usecs)])]
  ELSE tmr_cancel(L, id)

(* The list is sorted, and no cell is in it twice or also free: what        *)
(* tmr_timeout and the break in tmr_run rely on.                            *)
WellFormed(L) ==
  /\ \A i, j \in DOMAIN L.active :
       i < j => /\ iperf_time_compare(L.active[i].time, L.active[j].time) <= 0
                /\ L.active[i].id # L.active[j].id
  /\ \A i, j \in DOMAIN L.free : i # j => L.free[i].id # L.free[j].id
  /\ \A i \in DOMAIN L.free : L.free[i].id \notin Ids(L)
===============================================================================
