----------------------------- MODULE GroupCodec -----------------------------
(***************************************************************************)
(* How a membership group travels: the table `nodes' of one process, the   *)
(* value serialize_hash makes of it, and the list another process keeps    *)
(* of what it received.  Composes HashTable and Tpl as utils.c does.       *)
(*                                                                         *)
(* Each change of the table and the submission that follows are one step,  *)
(* as they are under hashmap_lock.                                         *)
(***************************************************************************)
EXTENDS HashTable, Tpl

CONSTANTS
  Self,       \* the address of this process
  Uuid,       \* the UUID of a Paxos run
  Hashes,     \* the hash functions to try, as functions of the key
  MaxBuckets  \* bound: no addition that doubles the buckets beyond this

ASSUME SelfIsElement == Self \in Elements
ASSUME HashesAreFunctions == Hashes \subseteq [Elements -> Nat]

VARIABLES
  hash,               \* HASH_VALUE
  nodes,              \* the hash table
  members,            \* history: the keys added and not deleted
  value,              \* the image submitted last
  sent,               \* history: the group it was made of
  paxos_state_array,  \* the list the receiver holds
  learned,            \* history: the group of the value delivered to it last
  running             \* FALSE after clean_up_hashmap

vars == <<hash, nodes, members, value, sent, paxos_state_array, learned, running>>

------------------------------------------------------------------------------
(* utils.c                                                                 *)

GroupFormat == <<"c", "#", "c", "#", "A", "(", "c", "#", ")">>
ZuuidLen == 16
MaxSizeIp == 16

GroupMap(uuid, ip, element) ==
  Map(GroupFormat, <<uuid, ZuuidLen, ip, MaxSizeIp, element, MaxSizeIp>>)

(* tn after the first n elements of a list are packed, each through the    *)
(* variable ipaddress.                                                     *)
PackedUpTo(tn, mem, list) ==
  LET after[n \in 0..Len(list)] ==
        IF n = 0 THEN tn
        ELSE PackA(after[n - 1], 1, [mem EXCEPT !.ipaddress = list[n]])
  IN after

(* The table is iterated over after HASH_SORT.                             *)
SerializeHash(table) ==
  LET mem == [uuid |-> Uuid, current_node_ip |-> Self, ipaddress |-> 0]
      mapped == GroupMap("uuid", "current_node_ip", "ipaddress")
      twice == PackRoot(PackRoot(mapped, mem), mem)
      list == AppOrder(table)
  IN Dump(PackedUpTo(twice, mem, list)[Len(list)])

(* zlist_push puts a string in front of the list.                          *)
Push(list, s) == <<s>> \o list

(* Each address of the table is pushed.                                    *)
GetMembershipGroup(table) == Reverse(AppOrder(table))

(* One turn of the loop that unpacks the elements and pushes them.         *)
Unpacked(image, st) ==
  LET u == UnpackA(st.tn, 1, image, st.mem)
  IN IF u.rc > 0
     THEN [tn |-> u.tn, mem |-> u.mem, result |-> Push(st.result, u.mem.temp)]
     ELSE st

(* An image has no more elements than cells.                               *)
UnpackAll(tn, image, mem) ==
  LET st[n \in 0..Len(image.cells)] ==
        IF n = 0 THEN [tn |-> tn, mem |-> mem, result |-> <<>>]
        ELSE Unpacked(image, st[n - 1])
  IN st

DeserializeHash(image) ==
  LET l == Load(GroupMap("uuid", "sender_ip", "temp"), image)
      once == UnpackRoot(l.tn, image, [uuid |-> 0, sender_ip |-> 0, temp |-> 0])
      twice == UnpackRoot(once.tn, image, once.mem)
  IN IF l.rc = -1 THEN [rc |-> -1]
     ELSE [rc |-> 0, uuid |-> twice.mem.uuid, sender_ip |-> twice.mem.sender_ip,
           result |-> UnpackAll(twice.tn, image, twice.mem)[Len(image.cells)].result]

(* A mutant.                                                               *)
EqualLengths(l1, l2) == l1 # <<>> /\ Len(l1) = Len(l2)

(* Element by element; two empty lists are not equal.                      *)
IsEqualLists(l1, l2) ==
  /\ l1 # <<>> /\ l2 # <<>>
  /\ Len(l1) = Len(l2)
  /\ \A i \in DOMAIN l1 : l1[i] = l2[i]

CopyList(source) == [i \in DOMAIN source |-> source[i]]

------------------------------------------------------------------------------
Init ==
  /\ hash \in Hashes
  /\ nodes = Added(EmptyTable, Self, hash[Self])
  /\ members = {Self}
  /\ value = NULL
  /\ sent = {}
  /\ paxos_state_array = <<>>
  /\ learned = {}
  /\ running = TRUE

(* paxos_serialize_and_submit: sort for the list of the group, and again   *)
(* for the image.                                                          *)
Submit(table) ==
  /\ nodes' = Sort(Sort(table))
  /\ value' = SerializeHash(nodes')
  /\ sent' = members'
  /\ UNCHANGED <<hash, paxos_state_array, learned, running>>

(* The first beacon of k.                                                  *)
AddNode(k) ==
  /\ running
  /\ Find(nodes, k, hash[k]) = NULL
  /\ Added(nodes, k, hash[k]).tbl.num_buckets <= MaxBuckets
  /\ members' = members \cup {k}
  /\ Submit(Added(nodes, k, hash[k]))

(* free_node_struct: what the handle of k holds is gone.                   *)
Freed(table, k) ==
  [table EXCEPT !.hh.prev[k] = NULL, !.hh.next[k] = NULL,
                !.hh.hh_prev[k] = NULL, !.hh.hh_next[k] = NULL, !.hh.hashv[k] = 0]

(* The timeout of k.                                                       *)
DeleteNode(k) ==
  /\ running
  /\ k # Self
  /\ Find(nodes, k, hash[k]) # NULL
  /\ members' = members \ {k}
  /\ Submit(Freed(Deleted(nodes, Find(nodes, k, hash[k])), k))

(* on_deliver at another process.                                          *)
OnDeliver ==
  /\ value # NULL
  /\ LET d == DeserializeHash(value)
     IN /\ d.rc = 0
        /\ paxos_state_array' = IF IsEqualLists(d.result, paxos_state_array)
                                THEN paxos_state_array ELSE CopyList(d.result)
  /\ learned' = sent
  /\ UNCHANGED <<hash, nodes, members, value, sent, running>>

CleanUpHashmap ==
  /\ running
  /\ nodes' = AllDeleted(nodes)
  /\ members' = {}
  /\ running' = FALSE
  /\ UNCHANGED <<hash, value, sent, paxos_state_array, learned>>

Next ==
  \/ \E k \in Elements : AddNode(k) \/ DeleteNode(k)
  \/ OnDeliver
  \/ CleanUpHashmap

Spec == Init /\ [][Next]_vars

------------------------------------------------------------------------------
(* Properties.                                                             *)

Lists == UNION {[1..n -> Elements] : n \in 0..Cardinality(Elements)}

(* The table, its keys, the lists and the flag have their types (value and *)
(* learned are RoundTrip's and ListIsGroup's); the table is freed when its *)
(* last element goes, and has num_buckets buckets while it has elements.   *)
TypeOK ==
  /\ hash \in Hashes
  /\ nodes.head \in Pointers /\ nodes.hh \in Handles
  /\ IF nodes.head = NULL THEN nodes.tbl = NULL
     ELSE nodes.tbl.buckets \in [0..nodes.tbl.num_buckets-1 -> Buckets]
  /\ members \subseteq Elements
  /\ sent \subseteq Elements
  /\ paxos_state_array \in Lists
  /\ running \in BOOLEAN

(* uthash's own integrity check holds after every addition, deletion, sort *)
(* and expansion, and clean_up_hashmap leaves no table.                    *)
Intact == Fsck(nodes) /\ (~running => nodes.head = NULL)

(* HASH_FIND finds exactly the keys added and not deleted, also after the  *)
(* buckets were doubled and when keys share a bucket.                      *)
FindsMembers ==
  \A k \in Elements :
    Find(nodes, k, hash[k]) = IF k \in members THEN k ELSE NULL

(* The tail, which HASH_FSCK does not look at, is the last element of the  *)
(* list: the next addition does not cut off the elements behind it.        *)
TailIsLast == nodes.head # NULL => nodes.tbl.tail = Last(AppOrder(nodes))

(* "the hash keeps a bound on the chain length": after every operation a   *)
(* chain is no longer than its expand_mult allows, until the table gives   *)
(* up expanding.                                                           *)
ChainsBounded ==
  nodes.head # NULL /\ ~nodes.tbl.noexpand =>
    \A b \in DOMAIN nodes.tbl.buckets :
      LET bkt == nodes.tbl.buckets[b]
      IN \/ bkt.count < (bkt.expand_mult + 1) * CapacityThresh
         \/ bkt.count <= (bkt.expand_mult + 1) * nodes.tbl.ideal_chain_maxlen

(* tpl_dump writes exactly the bytes it allocated, which tpl_pack has      *)
(* counted on the way, however often the root was packed.                  *)
DumpFillsBuffer == value # NULL => Bytes(value.cells) = value.sz

(* What is read back is what was sent: UUID, sender and every address      *)
(* once, in descending order: that of get_membership_group_from_hash.      *)
RoundTrip ==
  value # NULL =>
    LET d == DeserializeHash(value)
    IN /\ d.rc = 0
       /\ d.uuid = Uuid
       /\ d.sender_ip = Self
       /\ ToSet(d.result) = sent
       /\ \A i, j \in DOMAIN d.result : i < j => d.result[i] > d.result[j]
       /\ running => d.result = GetMembershipGroup(nodes)

(* Other images: cut at the end of a cell or one byte before it, the       *)
(* length word agreeing with the cut or not, and images with another word  *)
(* in place of the i-th.                                                   *)
Cuts(image) ==
  LET ends == {Offset(image, dv) : dv \in 0..Len(image.cells)}
  IN (ends \cup {n - 1 : n \in ends \ {0}}) \ {image.sz}
Cut(image, n) == [image EXCEPT !.sz = n]
CutAndRelabelled(image, n) == [image EXCEPT !.sz = n, !.cells[2].v = n]
Altered(image, i, w) == [image EXCEPT !.cells[i].v = w]

(* tpl_load takes no image that was cut or whose length, # lengths or      *)
(* array length was altered: "it should exactly match the buffer size      *)
(* (bufsz) and the internal recorded size (intlsz)".  So no shorter group  *)
(* is learned from a part of a value.                                      *)
DamagedRejected ==
  value # NULL =>
    /\ \A n \in Cuts(value) :
         /\ DeserializeHash(Cut(value, n)).rc = -1
         /\ DeserializeHash(CutAndRelabelled(value, n)).rc = -1
    /\ \A i \in {2, 4, 5, 6, 9} :
         LET v == value.cells[i].v
         IN \A w \in {0, v - 1, v + 1} \ {v} :
              DeserializeHash(Altered(value, i, w)).rc = -1

(* The receiver holds the group of the value delivered last: whatever the  *)
(* order the members joined in, is_equal_lists takes two lists for equal   *)
(* only when they are of one group, and so the list follows the group.     *)
ListIsGroup ==
  /\ ToSet(paxos_state_array) = learned
  /\ IsInjective(paxos_state_array)
==============================================================================
