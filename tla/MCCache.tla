------------------------------ MODULE MCCache ------------------------------
(* Instances of the cache for model checking: two tags on one index, so that *)
(* accesses evict each other, and an address that other hosts write.         *)
EXTENDS Cache

MCTag == {0, 1}
MCValue == {0, 1}

Load(a) == [rw |-> FALSE, ben |-> TRUE, bypass |-> FALSE, addr |-> a]
Store(a, lane) == [rw |-> TRUE, ben |-> lane, bypass |-> FALSE, addr |-> a]
Uncached(a, store) == [rw |-> store, ben |-> TRUE, bypass |-> TRUE, addr |-> a]

(* Data cache with bursts of four words: two blocks of memory compete for   *)
(* the only block; the last word of one is stored and loaded, the first word *)
(* of the other is stored.                                                   *)
Bursts ==
  [NUM_BLOCKS |-> 1, BLOCK_WORDS |-> 4, READ_ONLY |-> FALSE, BURSTS_EN |-> TRUE,
   requests |-> {Store(<<0, 0, 3>>, TRUE), Load(<<0, 0, 3>>), Store(<<1, 0, 0>>, TRUE)},
   shared |-> {}]

(* Data cache of two blocks, single transfers: a block that is stored to and *)
(* a block that others write, accessed cached and uncached, compete for the  *)
(* last block.                                                               *)
Singles ==
  [NUM_BLOCKS |-> 2, BLOCK_WORDS |-> 2, READ_ONLY |-> FALSE, BURSTS_EN |-> FALSE,
   requests |-> {Store(<<0, 1, 1>>, TRUE), Load(<<1, 1, 0>>), Uncached(<<1, 1, 0>>, TRUE)},
   shared |-> {<<1, 1, 0>>}]

MCGenerics == {Bursts, Singles}

(* The hypothesis of the theorems about the cache holds of both. *)
ASSUME MCSeparate == Separate
=============================================================================
