------------------------------ MODULE HashTable ------------------------------
(***************************************************************************)
(* uthash.h, the hash table behind `nodes' and `detected_states'.  A table *)
(* is a value h = [head, tbl, hh]: the user's head pointer, the            *)
(* UT_hash_table (NULL without elements) and the hash handle of every      *)
(* element, with the doubly linked list of insertion order (prev, next)    *)
(* and that of its bucket (hh_prev, hh_next).  hh has a function for each  *)
(* field of a handle.  Each operator is a macro: it takes a table and      *)
(* returns the table it leaves, or what it finds.                          *)
(*                                                                         *)
(* An element stands for itself and its key: the program looks a key up    *)
(* before it adds it.  Hash values are arguments, as in _BYHASHVALUE.      *)
(***************************************************************************)
EXTENDS Naturals, SequencesExt

CONSTANTS
  Elements,        \* numbers, in the order strcmp gives their keys
  InitialBuckets,  \* HASH_INITIAL_NUM_BUCKETS
  CapacityThresh,  \* HASH_BKT_CAPACITY_THRESH
  NULL

ASSUME ElementsAreNat == Elements \subseteq Nat /\ IsFiniteSet(Elements)
ASSUME NullIsNoElement == NULL \notin Elements
ASSUME SizesArePositive == {InitialBuckets, CapacityThresh} \subseteq Nat \ {0}

(* The types: a link, a link in every handle, the handles, a bucket.       *)
Pointers == Elements \cup {NULL}
Links == [Elements -> Pointers]
Handles == [prev : Links, next : Links, hh_prev : Links, hh_next : Links,
            hashv : [Elements -> Nat]]
Buckets == [hh_head : Pointers, count : Nat, expand_mult : Nat]

NoLinks == [e \in Elements |-> NULL]

EmptyTable ==
  [head |-> NULL, tbl |-> NULL,
   hh |-> [prev |-> NoLinks, next |-> NoLinks,
           hh_prev |-> NoLinks, hh_next |-> NoLinks,
           hashv |-> [e \in Elements |-> 0]]]

NoItems == [hh_head |-> NULL, count |-> 0, expand_mult |-> 0]

MakeTable(e) ==
  [buckets |-> [b \in 0..InitialBuckets-1 |-> NoItems],
   num_buckets |-> InitialBuckets, num_items |-> 0, tail |-> e,
   ideal_chain_maxlen |-> 0, nonideal_items |-> 0,
   ineff_expands |-> 0, noexpand |-> FALSE]

(* num_bkts is a power of two: hashv & (num_bkts - 1)                      *)
ToBkt(hashv, num_bkts) == hashv % num_bkts

(* The i-th element of a list, NULL beyond its ends.                       *)
Nth(list, i) == IF i \in DOMAIN list THEN list[i] ELSE NULL

(* Where n steps along a link lead from e, up to one step more than there  *)
(* are elements, so that a cycle does not go unnoticed.                    *)
Steps(link, e) ==
  LET at[n \in 0..Cardinality(Elements)] ==
        IF n = 0 THEN e
        ELSE LET x == at[n - 1] IN IF x = NULL THEN NULL ELSE link[x]
  IN at

(* The elements met from e along a link.                                   *)
Walk(link, e) ==
  LET at == Steps(link, e)
  IN [i \in 1..Cardinality({n \in DOMAIN at : at[n] # NULL}) |-> at[i - 1]]

Chain(h, b) == Walk(h.hh.hh_next, h.tbl.buckets[b].hh_head)

(* The elements in application order.                                      *)
AppOrder(h) == Walk(h.hh.next, h.head)

(* The elements in the order of the buckets.                               *)
Items(h) == FlattenSeq([i \in 1..h.tbl.num_buckets |-> Chain(h, i - 1)])

------------------------------------------------------------------------------
(* HASH_FIND: walk the chain of the bucket.                                *)

FindInBkt(h, b, key, hashv) ==
  IF key \in ToSet(Chain(h, b)) /\ h.hh.hashv[key] = hashv THEN key ELSE NULL

Find(h, key, hashv) ==
  IF h.head = NULL THEN NULL
  ELSE FindInBkt(h, ToBkt(hashv, h.tbl.num_buckets), key, hashv)

------------------------------------------------------------------------------
(* HASH_ADD.                                                               *)

(* One link of one element changed.                                        *)
Linked(link, at, to) == [e \in Elements |-> IF e = at THEN to ELSE link[e]]

(* Put e at the head of a chain.                                           *)
Pushed(buckets, hh, b, e) ==
  LET old == buckets[b].hh_head
  IN [buckets |-> [buckets EXCEPT ![b].count = @ + 1, ![b].hh_head = e],
      hh |-> [hh EXCEPT !.hh_next = Linked(@, e, old),
                        !.hh_prev = Linked(Linked(@, e, NULL), old, e)]]

(* ceil(items / new number of buckets)                                     *)
IdealChain(items, num) == items \div num + (IF items % num # 0 THEN 1 ELSE 0)

(* A mutant: the mask of the old number of buckets.                        *)
MovedByOldMask(acc, e) ==
  LET put == Pushed(acc.buckets, acc.hh, ToBkt(acc.hh.hashv[e], acc.num \div 2), e)
  IN [acc EXCEPT !.hh = put.hh, !.buckets = put.buckets]

(* Move one element to the doubled buckets, counting it when its chain is  *)
(* longer than ideal.                                                      *)
Moved(acc, e) ==
  LET b == ToBkt(acc.hh.hashv[e], acc.num)
      put == Pushed(acc.buckets, acc.hh, b, e)
      long == put.buckets[b].count > acc.ideal
  IN [acc EXCEPT
        !.hh = put.hh,
        !.nonideal = IF long THEN @ + 1 ELSE @,
        !.buckets = IF long
          THEN [put.buckets EXCEPT ![b].expand_mult = put.buckets[b].count \div acc.ideal]
          ELSE put.buckets]

(* Moved, for the elements of a sequence one by one.                       *)
MovedUpTo(start, items) ==
  LET acc[n \in 0..Len(items)] ==
        IF n = 0 THEN start ELSE Moved(acc[n - 1], items[n])
  IN acc

ExpandBuckets(h) ==
  LET t == h.tbl
      num == 2 * t.num_buckets
      start == [buckets |-> [b \in 0..num-1 |-> NoItems], hh |-> h.hh, num |-> num,
                ideal |-> IdealChain(t.num_items, num), nonideal |-> 0]
      acc == MovedUpTo(start, Items(h))[Len(Items(h))]
      ineff == IF acc.nonideal > t.num_items \div 2 THEN t.ineff_expands + 1 ELSE 0
  IN [h EXCEPT
        !.hh = acc.hh,
        !.tbl = [t EXCEPT !.buckets = acc.buckets, !.num_buckets = num,
                          !.ideal_chain_maxlen = acc.ideal,
                          !.nonideal_items = acc.nonideal,
                          !.ineff_expands = ineff,
                          !.noexpand = @ \/ ineff > 1]]

(* A mutant.                                                               *)
MustExpandLater(h, b) ==
  /\ h.tbl.buckets[b].count > (h.tbl.buckets[b].expand_mult + 1) * CapacityThresh
  /\ ~h.tbl.noexpand

MustExpand(h, b) ==
  /\ h.tbl.buckets[b].count >= (h.tbl.buckets[b].expand_mult + 1) * CapacityThresh
  /\ ~h.tbl.noexpand

AddToBkt(h, b, e) ==
  LET put == Pushed(h.tbl.buckets, h.hh, b, e)
      added == [h EXCEPT !.hh = put.hh, !.tbl.buckets = put.buckets]
  IN IF MustExpand(added, b) THEN ExpandBuckets(added) ELSE added

AddToTable(h, e) ==
  AddToBkt([h EXCEPT !.tbl.num_items = @ + 1],
           ToBkt(h.hh.hashv[e], h.tbl.num_buckets), e)

AppendList(h, e) ==
  [h EXCEPT !.hh.next = Linked(Linked(@, e, NULL), h.tbl.tail, e),
            !.hh.prev = Linked(@, e, h.tbl.tail),
            !.tbl.tail = e]

Added(h, e, hashv) ==
  LET keyed == [h EXCEPT !.hh.hashv[e] = hashv]
      first == [keyed EXCEPT !.hh.next = Linked(@, e, NULL),
                             !.hh.prev = Linked(@, e, NULL),
                             !.tbl = MakeTable(e), !.head = e]
  IN AddToTable(IF h.head = NULL THEN first ELSE AppendList(keyed, e), e)

------------------------------------------------------------------------------
(* HASH_DEL and HASH_ITER.                                                 *)

(* A mutant: the next one still points back to e.                          *)
DelInBktOneWay(h, b, e) ==
  LET before == h.hh.hh_prev[e]
      after == h.hh.hh_next[e]
      shorter == [h.tbl.buckets[b] EXCEPT !.count = @ - 1,
                                          !.hh_head = IF @ = e THEN after ELSE @]
  IN [h EXCEPT !.tbl.buckets[b] = shorter, !.hh.hh_next = Linked(@, before, after)]

DelInBkt(h, b, e) ==
  LET before == h.hh.hh_prev[e]
      after == h.hh.hh_next[e]
      shorter == [h.tbl.buckets[b] EXCEPT !.count = @ - 1,
                                          !.hh_head = IF @ = e THEN after ELSE @]
  IN [h EXCEPT !.tbl.buckets[b] = shorter,
               !.hh.hh_next = Linked(@, before, after),
               !.hh.hh_prev = Linked(@, after, before)]

(* Patch the list of insertion order around e.                             *)
Unlisted(h, e) ==
  LET before == h.hh.prev[e]
      after == h.hh.next[e]
  IN [h EXCEPT
        !.head = IF before = NULL THEN after ELSE @,
        !.tbl.tail = IF @ = e THEN before ELSE @,
        !.hh.next = Linked(@, before, after),
        !.hh.prev = Linked(@, after, before)]

(* A mutant: the table is not freed with the last element.                 *)
DeletedKeepsTable(h, e) ==
  IF h.hh.prev[e] = NULL /\ h.hh.next[e] = NULL
  THEN [h EXCEPT !.head = NULL]
  ELSE DelInBkt([Unlisted(h, e) EXCEPT !.tbl.num_items = @ - 1],
                ToBkt(h.hh.hashv[e], h.tbl.num_buckets), e)

Deleted(h, e) ==
  IF h.hh.prev[e] = NULL /\ h.hh.next[e] = NULL
  THEN [h EXCEPT !.tbl = NULL, !.head = NULL]
  ELSE DelInBkt([Unlisted(h, e) EXCEPT !.tbl.num_items = @ - 1],
                ToBkt(h.hh.hashv[e], h.tbl.num_buckets), e)

(* One turn of HASH_ITER { HASH_DEL }: tmp, the successor of el, was read  *)
(* before el is deleted.                                                   *)
Turn(st) ==
  IF st.el = NULL THEN st
  ELSE LET d == Deleted(st.h, st.el)
       IN [h |-> d, el |-> st.tmp,
           tmp |-> IF st.tmp = NULL THEN NULL ELSE d.hh.next[st.tmp]]

Turns(h) ==
  LET st[n \in 0..Cardinality(Elements)] ==
        IF n = 0
        THEN [h |-> h, el |-> h.head,
              tmp |-> IF h.head = NULL THEN NULL ELSE h.hh.next[h.head]]
        ELSE Turn(st[n - 1])
  IN st

(* There are no more turns than elements.                                  *)
AllDeleted(h) == Turns(h)[Cardinality(Elements)].h

------------------------------------------------------------------------------
(* HASH_SORT: bottom-up merge sort of the application order; the buckets   *)
(* stay as they are.                                                       *)

(* One element from the front of p or of q to the end of the list: i and j *)
(* of them are there already.                                              *)
Taken(p, q, st) ==
  IF st.j = Len(q) \/ (st.i < Len(p) /\ p[st.i + 1] <= q[st.j + 1])
  THEN [i |-> st.i + 1, j |-> st.j, out |-> Append(st.out, p[st.i + 1])]
  ELSE [i |-> st.i, j |-> st.j + 1, out |-> Append(st.out, q[st.j + 1])]

MergeSteps(p, q) ==
  LET st[n \in 0..Len(p) + Len(q)] ==
        IF n = 0 THEN [i |-> 0, j |-> 0, out |-> <<>>] ELSE Taken(p, q, st[n - 1])
  IN st

Merge(p, q) == MergeSteps(p, q)[Len(p) + Len(q)].out

(* The run of at most insize elements behind the s-th.                     *)
Run(list, s, insize) ==
  SubSeq(list, s + 1, IF s + insize < Len(list) THEN s + insize ELSE Len(list))

(* One pass over the list: each run of insize is merged with the next one. *)
Pass(list, insize) ==
  [n \in DOMAIN list |->
    LET s == 2 * insize * ((n - 1) \div (2 * insize))
    IN Merge(Run(list, s, insize), Run(list, s + insize, insize))[n - s]]

(* It is done again with twice the size unless there was one merge only.   *)
Again(st) ==
  IF ~st.looping THEN st
  ELSE [list |-> Pass(st.list, st.insize), insize |-> 2 * st.insize,
        looping |-> 2 * st.insize < Len(st.list)]

Passes(list) ==
  LET st[n \in 0..Len(list)] ==
        IF n = 0 THEN [list |-> list, insize |-> 1, looping |-> TRUE]
        ELSE Again(st[n - 1])
  IN st

(* There are no more passes than elements.                                 *)
MergeSort(list) == Passes(list)[Len(list)].list

(* Link the elements of a sequence in both directions.                     *)
LinkedAlong(hh, list) ==
  LET place == [e \in ToSet(list) |-> CHOOSE i \in DOMAIN list : list[i] = e]
  IN [hh EXCEPT
        !.prev = [e \in Elements |->
          IF e \in ToSet(list) THEN Nth(list, place[e] - 1) ELSE @[e]],
        !.next = [e \in Elements |->
          IF e \in ToSet(list) THEN Nth(list, place[e] + 1) ELSE @[e]]]

(* A mutant: the list without its tail.                                    *)
RelinkedKeepsTail(h, list) ==
  [h EXCEPT !.head = list[1], !.hh = LinkedAlong(@, list)]

(* And keep its ends.                                                      *)
Relinked(h, list) ==
  [h EXCEPT !.head = list[1], !.tbl.tail = list[Len(list)],
            !.hh = LinkedAlong(@, list)]

Sort(h) == IF h.head = NULL THEN h ELSE Relinked(h, MergeSort(AppOrder(h)))

------------------------------------------------------------------------------
(* HASH_FSCK, the integrity check uthash makes under HASH_DEBUG.           *)

(* Each element of a walk points back to the one before it.                *)
PointsBack(back, walk) ==
  \A i \in DOMAIN walk : back[walk[i]] = Nth(walk, i - 1)

Fsck(h) ==
  h.head # NULL =>
    /\ \A b \in DOMAIN h.tbl.buckets :
         /\ PointsBack(h.hh.hh_prev, Chain(h, b))
         /\ h.tbl.buckets[b].count = Len(Chain(h, b))
    /\ PointsBack(h.hh.prev, AppOrder(h))
    /\ h.tbl.num_items = Len(AppOrder(h))
    /\ h.tbl.num_items = Len(Items(h))
==============================================================================
