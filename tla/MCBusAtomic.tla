---------------------------- MODULE MCBusAtomic ----------------------------
(* Instances of BusAtomic for TLC. *)
EXTENDS BusAtomic

MCData == [a \in Agent |-> CASE a = "h0" -> 1 [] a = "h1" -> 2 [] a = "dma" -> 3]

(* One hart with everything, another one with everything but reservations, *)
(* the DMA, and a second location.                                          *)
MCMayDo == [a \in Agent |->
  CASE a = "h0"  -> [op : Ops, addr : {0}] \cup [op : {"lw"}, addr : {1}]
    [] a = "h1"  -> [op : {"sw", "amo"}, addr : {0}]
    [] a = "dma" -> [op : {"sw"}, addr : Addr]]

(* Two harts in load-reserved/store-conditional loops. *)
MCDual == [a \in Agent |-> IF a = "dma" THEN {} ELSE [op : {"lr", "sc"}, addr : Addr]]

=============================================================================
