------------------------------ MODULE FifoQueue -----------------------------
(***************************************************************************)
(* What neorv32_prim_fifo promises: a bounded queue that takes at most one *)
(* word and gives at most one word per clock edge, ignores a write when it *)
(* is full and a read when it is empty, and forgets its content on clear.  *)
(***************************************************************************)
EXTENDS Integers, Sequences

CONSTANTS Depth, Data

VARIABLE q

Init == q = <<>>

Clear == q' = <<>>

Push(d) == Len(q) < Depth /\ q' = Append(q, d)

Pop == q # <<>> /\ q' = Tail(q)

(* Both ports in the same cycle.  A write to an empty FIFO cannot be read  *)
(* in that cycle and a read does not make room for a write in it.          *)
PushPop(d) ==
  /\ q # <<>>
  /\ Len(q) < Depth
  /\ q' = Append(Tail(q), d)

Next == Clear \/ Pop \/ \E d \in Data : Push(d) \/ PushPop(d)

Spec == Init /\ [][Next]_q

=============================================================================
