---------------------------- MODULE AtomicMemory ----------------------------
(***************************************************************************)
(* What the bus system promises to the agents behind it (the harts and the *)
(* DMA): every access takes effect as a whole at one moment, and a         *)
(* store-conditional succeeds only if no other agent has written the       *)
(* reserved location since the hart's own load-reserved.                   *)
(***************************************************************************)
EXTENDS Integers

CONSTANTS Agent, Addr, WordSpace, DataOf, MayDo

VARIABLES
  mem,   \* the memory
  todo,  \* agent -> its pending operation, or Nothing
  res,   \* agent -> data of its last load, AMO or store-conditional
  resv   \* agent -> address it holds a reservation for, or -1

Nothing == [op |-> "none", addr |-> 0]
NoAddr == -1

Init ==
  /\ mem = [x \in Addr |-> 0]
  /\ todo = [a \in Agent |-> Nothing]
  /\ res = [a \in Agent |-> 0]
  /\ resv = [a \in Agent |-> NoAddr]

Amo(old, data) == (old + data) % WordSpace

(* A write by agent a ends the reservations of the others at that address. *)
Reservations(a, x) ==
  [b \in Agent |-> IF b # a /\ resv[b] = x THEN NoAddr ELSE resv[b]]

Load(a, x) ==
  /\ mem' = mem /\ resv' = resv
  /\ res' = [res EXCEPT ![a] = mem[x]]

Store(a, x) ==
  /\ mem' = [mem EXCEPT ![x] = DataOf[a]]
  /\ resv' = Reservations(a, x)
  /\ res' = res

LoadReserved(a, x) ==
  /\ mem' = mem
  /\ resv' = [resv EXCEPT ![a] = x]
  /\ res' = [res EXCEPT ![a] = mem[x]]

StoreConditional(a, x) ==
  \/ /\ resv[a] = x
     /\ mem' = [mem EXCEPT ![x] = DataOf[a]]
     /\ resv' = [Reservations(a, x) EXCEPT ![a] = NoAddr]
     /\ res' = [res EXCEPT ![a] = 0]
  \/ /\ mem' = mem
     /\ resv' = [resv EXCEPT ![a] = NoAddr]
     /\ res' = [res EXCEPT ![a] = 1]

ReadModifyWrite(a, x) ==
  /\ mem' = [mem EXCEPT ![x] = Amo(@, DataOf[a])]
  /\ resv' = Reservations(a, x)
  /\ res' = [res EXCEPT ![a] = mem[x]]

Effect(a) ==
  LET x == todo[a].addr
  IN  CASE todo[a].op = "lw"  -> Load(a, x)
        [] todo[a].op = "sw"  -> Store(a, x)
        [] todo[a].op = "lr"  -> LoadReserved(a, x)
        [] todo[a].op = "sc"  -> StoreConditional(a, x)
        [] todo[a].op = "amo" -> ReadModifyWrite(a, x)

(* In one step at most one operation takes effect, and any agent may post  *)
(* its next one.                                                           *)
Post(a) == todo'[a] \in {todo[a]} \cup
             (IF todo[a] = Nothing THEN MayDo[a] ELSE {})

Step(a) ==
  /\ todo[a] # Nothing
  /\ Effect(a)
  /\ todo'[a] \in {Nothing} \cup MayDo[a]
  /\ \A b \in Agent \ {a} : Post(b)

Quiet ==
  /\ \A b \in Agent : Post(b)
  /\ UNCHANGED <<mem, res, resv>>

Next == Quiet \/ \E a \in Agent : Step(a)

Spec == Init /\ [][Next]_<<mem, todo, res, resv>>

=============================================================================
