----------------------------- MODULE BusAtomic -----------------------------
(***************************************************************************)
(* The path from the cores and the DMA to the memory, as rtl/core/         *)
(* neorv32_top.vhd wires it: the load/store units of two harts meet in the *)
(* round-robin complex arbiter, the DMA joins in a prioritising switch,    *)
(* then come the read-modify-write unit and the reservation station of     *)
(* rtl/core/neorv32_bus.vhd.  One step is one clock edge; the requests     *)
(* travel down and the answers travel up combinationally.                  *)
(*                                                                         *)
(* Every agent writes one constant value, so that operation and address    *)
(* are its whole request.  The AMO is an addition; AmoAlu has the others.  *)
(***************************************************************************)
EXTENDS Integers, BusSwitch

CONSTANTS
  Addr,      \* addresses
  WordSpace, \* values of a word
  DataOf,    \* agent -> the value it writes or adds
  MayDo      \* agent -> operations it performs: op, addr

Hart == {"h0", "h1"}
Agent == Hart \cup {"dma"}
Ops == {"lw", "sw", "lr", "sc", "amo", "fence"}

ASSUME BusAtomicAssumption ==
  /\ WordSpace \in Nat \ {0, 1}
  /\ Addr \subseteq Nat /\ 0 \in Addr  \* 0 stands in where there is no access
  /\ DataOf \in [Agent -> 0 .. WordSpace - 1]
  /\ \A a \in Agent : MayDo[a] \subseteq [op : Ops, addr : Addr]

VARIABLES
  host,  \* agent -> bus interface: pc, op, addr, lock
  sw1,   \* complex arbiter
  sw2,   \* DMA bus switch
  rmw,   \* read-modify-write unit
  rvs,   \* reservation station
  dev,   \* the access the memory works on: busy, rw, addr, data
  mem,   \* the memory
  res,   \* agent -> data of its last answer
  resv   \* agent -> location reserved in the sense of the ISA, or -1

vars == <<host, sw1, sw2, rmw, rvs, dev, mem, res, resv>>

Word == 0 .. WordSpace - 1
NoAddr == -1

-----------------------------------------------------------------------------
(* Requests on their way down.  A request names its agent, which stands    *)
(* for address, data and operation that the agent holds stable.            *)

PortHart == [p \in Port |-> IF p = "A" THEN "h0" ELSE "h1"]

stb1 == [p \in Port |-> host[PortHart[p]].pc = "stb"]
lock1 == [p \in Port |-> host[PortHart[p]].lock]
sys1_agent == PortHart[sel(sw1, stb1, TRUE)]
sys1_stb == x_stb(sw1, stb1, TRUE)

stb2 == [p \in Port |-> IF p = "A" THEN sys1_stb ELSE host["dma"].pc = "stb"]
lock2 == [p \in Port |-> p = "A" /\ host[sys1_agent].lock]
sys2_agent == IF sel(sw2, stb2, FALSE) = "A" THEN sys1_agent ELSE "dma"
sys2_stb == x_stb(sw2, stb2, FALSE)

fence == \E a \in Agent : host[a].pc = "fence"
op == host[sys2_agent].op
addr == host[sys2_agent].addr

(* Read-modify-write unit: inserts the write access of an AMO. *)
Writing == rmw.state \in {"S_WRITE", "S_WRITE_WAIT"}
amo_stb == rmw.state = "S_WRITE" \/ sys2_stb
amo_rw == Writing \/ op \in {"sw", "sc"}
amo_data == IF Writing THEN rmw.alu_res ELSE DataOf[sys2_agent]

(* Reservation station: holds back a store-conditional. *)
sys3_stb == amo_stb /\ (op = "sc" => rvs.valid)

-----------------------------------------------------------------------------
(* Answers on their way up.  dev_ack is the acknowledge of the memory.     *)

(* The data lines of a write acknowledge carry no meaningful value. *)
rdata == mem[dev.addr]

amo_ack(dev_ack) == dev_ack \/ rvs.sc_fail
amo_rdata == IF rvs.sc_fail THEN 1 ELSE IF rvs.sc_pend THEN 0 ELSE rdata

sys2_ack(dev_ack) == amo_ack(dev_ack) /\ rmw.state \in {"S_IDLE", "S_WRITE_WAIT"}
sys2_rdata == IF rmw.state = "S_IDLE" THEN amo_rdata ELSE rmw.rdata

(* The agent an acknowledge reaches. *)
Answered == IF RspTo(sw2) = "B" THEN "dma" ELSE PortHart[RspTo(sw1)]
Acked(a, dev_ack) == sys2_ack(dev_ack) /\ Answered = a

-----------------------------------------------------------------------------
Init ==
  /\ host = [a \in Agent |-> [pc |-> "idle", op |-> "none", addr |-> 0, lock |-> FALSE]]
  /\ sw1 = SwitchReset
  /\ sw2 = SwitchReset
  /\ rmw = [state |-> "S_IDLE", rdata |-> 0, wdata |-> 0, alu_res |-> 0]
  /\ rvs = [valid |-> FALSE, sc_fail |-> FALSE, sc_pend |-> FALSE]
  /\ dev = [busy |-> FALSE, rw |-> FALSE, addr |-> 0, data |-> 0]
  /\ mem = [x \in Addr |-> 0]
  /\ res = [a \in Agent |-> 0]
  /\ resv = [a \in Agent |-> NoAddr]

(* Load/store unit, DMA.  A store-conditional only follows the hart's own  *)
(* load-reserved of the same address (a fence may lie in between).  Only   *)
(* AMOs lock the bus.                                                      *)
Issues(a) ==
  LET allowed == {r \in MayDo[a] :
                    r.op = "sc" => host[a].op = "lr" /\ host[a].addr = r.addr}
  IN  {IF r.op = "fence" THEN [host[a] EXCEPT !.pc = "fence"]
       ELSE [pc |-> "stb", op |-> r.op, addr |-> r.addr, lock |-> r.op = "amo"] : r \in allowed}

(* The states agent a can be in after the clock edge. *)
amo_reg(a, ack) ==
  CASE host[a].pc = "idle"  -> {host[a]} \cup Issues(a)
    [] host[a].pc = "stb"   -> {[host[a] EXCEPT !.pc = "wait"]}
    [] host[a].pc = "fence" -> {[host[a] EXCEPT !.pc = "idle"]}
    [] host[a].pc = "wait" /\ ack  -> {[host[a] EXCEPT !.pc = "idle", !.lock = FALSE]}
    [] host[a].pc = "wait" /\ ~ack -> {host[a]}

alu == (rmw.rdata + rmw.wdata) % WordSpace

AfterRead_Write == "S_WRITE"  \* mutant: the registered result is not awaited

AfterRead == "S_EXECUTE"

arbiter_comb(dev_ack) ==
  rmw' = [state |->
            CASE rmw.state = "S_IDLE" ->
                   IF sys2_stb /\ op = "amo" THEN "S_READ_WAIT" ELSE "S_IDLE"
              [] rmw.state = "S_READ_WAIT" ->
                   IF amo_ack(dev_ack) THEN AfterRead ELSE "S_READ_WAIT"
              [] rmw.state = "S_EXECUTE" -> "S_WRITE"
              [] rmw.state = "S_WRITE" -> "S_WRITE_WAIT"
              [] rmw.state = "S_WRITE_WAIT" ->
                   IF amo_ack(dev_ack) THEN "S_IDLE" ELSE "S_WRITE_WAIT",
          rdata |-> IF rmw.state = "S_READ_WAIT" THEN amo_rdata ELSE rmw.rdata,
          wdata |-> IF rmw.state = "S_IDLE" /\ sys2_stb /\ op = "amo"
                    THEN DataOf[sys2_agent] ELSE rmw.wdata,
          alu_res |-> alu]

rvs_control_KeepOnStore ==  \* mutant: other accesses keep the reservation
  IF fence THEN FALSE ELSE rvs.valid \/ (amo_stb /\ op = "lr")

rvs_control ==
  IF fence THEN FALSE ELSE IF amo_stb THEN op = "lr" ELSE rvs.valid

sc_result(dev_ack) ==
  rvs' = [valid |-> rvs_control,
          sc_fail |-> amo_stb /\ op = "sc" /\ ~rvs.valid,
          sc_pend |-> (amo_stb /\ op = "sc" /\ rvs.valid) \/ (rvs.sc_pend /\ ~dev_ack)]

(* The memory: reads and writes when it acknowledges. *)
memory(dev_ack) ==
  /\ dev_ack => dev.busy
  /\ mem' = IF dev_ack /\ dev.rw THEN [mem EXCEPT ![dev.addr] = dev.data] ELSE mem
  /\ dev' = IF sys3_stb
            THEN [busy |-> TRUE, rw |-> amo_rw, addr |-> addr, data |-> amo_data]
            ELSE IF dev_ack THEN [busy |-> FALSE, rw |-> FALSE, addr |-> 0, data |-> 0]
            ELSE dev

(* Book-keeping for the abstract memory. *)
history(dev_ack) ==
  LET done == sys2_ack(dev_ack)
      a == Answered
      o == host[a].op
      x == host[a].addr
      writes == o \in {"sw", "amo"} \/ (o = "sc" /\ ~rvs.sc_fail)
  IN  /\ res' = IF done /\ o # "sw" THEN [res EXCEPT ![a] = sys2_rdata] ELSE res
      /\ resv' = IF ~done THEN resv
                 ELSE [b \in Agent |->
                         IF b = a THEN (IF o = "lr" THEN x
                                        ELSE IF o = "sc" THEN NoAddr ELSE resv[b])
                         ELSE IF writes /\ resv[b] = x THEN NoAddr ELSE resv[b]]

Edge(dev_ack) ==
  /\ sw1' = SwitchNext(sw1, stb1, lock1, sys2_ack(dev_ack) /\ RspTo(sw2) = "A", TRUE)
  /\ sw2' = SwitchNext(sw2, stb2, lock2, sys2_ack(dev_ack), FALSE)
  /\ arbiter_comb(dev_ack)
  /\ sc_result(dev_ack)
  /\ memory(dev_ack)
  /\ history(dev_ack)
  /\ \E h0 \in amo_reg("h0", Acked("h0", dev_ack)), h1 \in amo_reg("h1", Acked("h1", dev_ack)),
        d \in amo_reg("dma", Acked("dma", dev_ack)) :
       host' = [a \in Agent |-> CASE a = "h0" -> h0 [] a = "h1" -> h1 [] a = "dma" -> d]

Next == \E dev_ack \in BOOLEAN : Edge(dev_ack)

Spec == Init /\ [][Next]_vars

-----------------------------------------------------------------------------
(* Type invariant. *)
TypeOK ==
  /\ host \in [Agent -> [pc : {"idle", "stb", "wait", "fence"}, op : Ops \cup {"none"},
                         addr : Addr, lock : BOOLEAN]]
  /\ sw1 \in SwitchState
  /\ sw2 \in SwitchState
  /\ rmw \in [state : {"S_IDLE", "S_READ_WAIT", "S_EXECUTE", "S_WRITE", "S_WRITE_WAIT"},
              rdata : Word, wdata : Word, alu_res : Word]
  /\ rvs \in [valid : BOOLEAN, sc_fail : BOOLEAN, sc_pend : BOOLEAN]
  /\ dev \in [busy : BOOLEAN, rw : BOOLEAN, addr : Addr, data : Word]
  /\ mem \in [Addr -> Word]
  /\ res \in [Agent -> Word]
  /\ resv \in [Agent -> Addr \cup {NoAddr}]

(***************************************************************************)
(* "This guarantees atomic accesses and thus, mutually exclusive access":  *)
(* a store-conditional reaches the memory only if no other agent has       *)
(* written the location since the hart's load-reserved.                    *)
(***************************************************************************)
StoreConditionalExclusive ==
  sys3_stb /\ op = "sc" => resv[sys2_agent] = addr

(***************************************************************************)
(* Every access through the arbiters, the read-modify-write unit and the   *)
(* reservation station takes effect at one moment, at the acknowledge.     *)
(***************************************************************************)
todo == [a \in Agent |->
           IF host[a].pc \in {"stb", "wait"}
           THEN [op |-> host[a].op, addr |-> host[a].addr]
           ELSE [op |-> "none", addr |-> 0]]
M == INSTANCE AtomicMemory
Atomic == M!Spec

=============================================================================
