---------------------------- MODULE MCGroupCodec ----------------------------
(* GroupCodec with four addresses and three hash functions: every key in   *)
(* one bucket for ever, two keys that part only when the buckets double,   *)
(* and a good one.                                                         *)
EXTENDS GroupCodec

Addresses == 1..4
Collide == [k \in Addresses |-> 3]
Pairs == [k \in Addresses |-> (k \div 2) + 4 * (k % 2)]
Spread == [k \in Addresses |-> k]
SomeHashes == {Collide, Pairs, Spread}
=============================================================================
