-------------------------- MODULE BusAtomicProofs --------------------------
(***************************************************************************)
(* The memory path for any addresses, word sizes and programs of the two   *)
(* harts and the DMA: every access takes effect at one moment, at its      *)
(* acknowledge, so that the path implements AtomicMemory.                  *)
(***************************************************************************)
EXTENDS BusAtomic, TLAPS

(* One agent at most uses reservations.  The station has one bit for all   *)
(* of them: two harts in LR/SC loops break exclusiveness.                  *)
OneReserver == \E h \in Agent : \A a \in Agent \ {h} : \A r \in MayDo[a] : r.op # "lr"
Reserver == CHOOSE h \in Agent : \A a \in Agent \ {h} : \A r \in MayDo[a] : r.op # "lr"

Active(a) == host[a].pc \in {"stb", "wait"}
HartPort == [p \in Port |-> host[PortHart[p]]]

(* Only AMOs lock the bus; at most one agent reserves, if that is assumed. *)
HostInv ==
  \A a \in Agent : /\ host[a].lock <=> Active(a) /\ host[a].op = "amo"
                   /\ Active(a) => host[a].op \notin {"none", "fence"}
                   /\ OneReserver /\ host[a].op \in {"lr", "sc"} => a = Reserver

(* A waiting hart is latched by the complex arbiter or served by it; after *)
(* a locked access the arbiter is released one cycle later.                *)
Releasing(p) == HartPort[p].pc = "idle" /\ sw1.lock[p] /\ sw2.state = "S_BUSY_A"
ArbiterInv ==
  \A p \in Port : /\ sw1.req[p] => HartPort[p].pc = "wait"
                  /\ HartPort[p].pc = "wait" => sw1.req[p] \/ sw1.state = Busy(p)
                  /\ sw1.state = Busy(p) =>
                       /\ sw1.sel_q = p
                       /\ \/ HartPort[p].pc = "wait" /\ (sw1.lock[p] <=> HartPort[p].lock)
                          \/ Releasing(p)

(* The same for the DMA switch, whose port A is the complex arbiter.       *)
DmaSwitchInv ==
  /\ sw2.req["A"] => \E p \in Port : sw1.state = Busy(p) /\ HartPort[p].pc = "wait"
  /\ sw2.state = "S_BUSY_A" =>
       sw2.sel_q = "A" /\ \E p \in Port : sw1.state = Busy(p) /\ (sw2.lock["A"] <=> sw1.lock[p])
  /\ sw1.state # "S_IDLE" => sw2.req["A"] \/ sw2.state = "S_BUSY_A"
  /\ sw2.req["B"] => host["dma"].pc = "wait"
  /\ host["dma"].pc = "wait" => sw2.req["B"] \/ sw2.state = "S_BUSY_B"
  /\ sw2.state = "S_BUSY_B" => sw2.sel_q = "B" /\ host["dma"].pc = "wait"
  /\ ~sw2.lock["B"]

(* The agent whose access is under way behind the switches. *)
Server == IF sw2.state = "S_BUSY_B" THEN "dma" ELSE IF sw1.state = "S_BUSY_B" THEN "h1" ELSE "h0"
InService == sw2.state # "S_IDLE" /\ host[Server].pc = "wait"

(* How far it has come in the read-modify-write unit, the reservation      *)
(* station and the memory.                                                 *)
Quiet == rmw.state = "S_IDLE" /\ ~dev.busy /\ ~rvs.sc_fail /\ ~rvs.sc_pend
Reading(x) == dev.busy /\ ~dev.rw /\ dev.addr = x
Storing(x, v) == dev.busy /\ dev.rw /\ dev.addr = x /\ dev.data = v
SumOf(a) == (mem[host[a].addr] + DataOf[a]) % WordSpace

LoadServed(a) ==
  /\ host[a].op \in {"lw", "lr"} /\ rmw.state = "S_IDLE" /\ Reading(host[a].addr)
  /\ ~rvs.sc_fail /\ ~rvs.sc_pend
StoreServed(a) ==
  /\ host[a].op = "sw" /\ rmw.state = "S_IDLE" /\ Storing(host[a].addr, DataOf[a])
  /\ ~rvs.sc_fail /\ ~rvs.sc_pend
ConditionalServed(a) ==
  /\ host[a].op = "sc" /\ rmw.state = "S_IDLE"
  /\ \/ ~dev.busy /\ rvs.sc_fail /\ ~rvs.sc_pend
     \/ /\ Storing(host[a].addr, DataOf[a]) /\ ~rvs.sc_fail /\ rvs.sc_pend
        /\ OneReserver => resv[a] = host[a].addr
AmoServed(a) ==
  /\ host[a].op = "amo" /\ rmw.wdata = DataOf[a] /\ ~rvs.sc_fail /\ ~rvs.sc_pend
  /\ \/ rmw.state = "S_READ_WAIT" /\ Reading(host[a].addr)
     \/ /\ rmw.rdata = mem[host[a].addr]
        /\ \/ rmw.state = "S_EXECUTE" /\ ~dev.busy
           \/ rmw.state = "S_WRITE" /\ ~dev.busy /\ rmw.alu_res = SumOf(a)
           \/ rmw.state = "S_WRITE_WAIT" /\ Storing(host[a].addr, SumOf(a))
ServiceInv ==
  IF InService
  THEN LoadServed(Server) \/ StoreServed(Server) \/ ConditionalServed(Server) \/ AmoServed(Server)
  ELSE Quiet

(* The reservation bit stands for the reservation of the one agent that    *)
(* reserves, from its load-reserved up to the next access of any agent.    *)
ReservationInv ==
  rvs.valid =>
    /\ InService => host[Server].op = "lr"
    /\ OneReserver /\ ~InService /\ (host[Reserver].op = "lr" => ~Active(Reserver))
         /\ host[Reserver].op \in {"lr", "sc"} => resv[Reserver] = host[Reserver].addr

AtomicInv ==
  TypeOK /\ HostInv /\ ArbiterInv /\ DmaSwitchInv /\ ServiceInv /\ ReservationInv

-----------------------------------------------------------------------------
(* The switches *)

(* Ports and the busy states of the arbiters. *)
LEMMA BusyFacts ==
  /\ \A p, q \in Port : Busy(p) = Busy(q) => p = q
  /\ \A p \in Port : Busy(p) # "S_IDLE"
  /\ Busy("A") = "S_BUSY_A" /\ Busy("B") = "S_BUSY_B" /\ "A" \in Port /\ "B" \in Port
  /\ \A s \in SwitchState : s.state = "S_IDLE" \/ \E p \in Port : s.state = Busy(p)
  /\ PortHart["A"] = "h0" /\ PortHart["B"] = "h1"
  /\ \A p \in Port : PortHart[p] \in Hart /\ PortHart[p] \in Agent /\ PortHart[p] # "dma"
BY DEF Busy, Port, SwitchState, PortHart, Hart, Agent

(* What a switch does in a cycle, seen from port p; n is its next state.   *)
StepOf(n, s, stb, l, ack, r, p) ==
  /\ s.state = Busy(p) =>
       /\ sel(s, stb, r) = p
       /\ x_stb(s, stb, r) <=> stb[p]
       /\ n.state = IF Ends(s, l, ack, p) THEN "S_IDLE" ELSE Busy(p)
       /\ n.lock = s.lock
  /\ s.state = "S_IDLE" =>
       /\ x_stb(s, stb, r) <=> \E q \in Port : Wants(s, stb, q)
       /\ x_stb(s, stb, r) => Wants(s, stb, sel(s, stb, r))
       /\ n.state = IF x_stb(s, stb, r) THEN Busy(sel(s, stb, r)) ELSE "S_IDLE"
       /\ n.lock = l
  /\ n.sel_q = sel(s, stb, r)
  /\ n.req[p] <=> s.state # Busy(p) /\ (s.req[p] \/ stb[p])
  /\ sel(s, stb, r) \in Port

(* A switch at one clock edge, seen from port p. *)
LEMMA SwitchFacts ==
  ASSUME NEW s \in SwitchState, NEW stb \in [Port -> BOOLEAN], NEW l \in [Port -> BOOLEAN],
         NEW ack \in BOOLEAN, NEW r \in BOOLEAN, NEW p \in Port
  PROVE  StepOf(SwitchNext(s, stb, l, ack, r), s, stb, l, ack, r, p)
<1>1. CASE s.state = "S_IDLE"
  BY <1>1 DEF StepOf, SwitchNext, SwitchState, Port, Busy, sel, x_stb, Grants, First, Wants, Other, req
<1>2. CASE s.state = "S_BUSY_A"
  BY <1>2 DEF StepOf, SwitchNext, SwitchState, Port, Busy, sel, x_stb, Grants, First, Wants, Other, req
<1>3. CASE s.state = "S_BUSY_B"
  BY <1>3 DEF StepOf, SwitchNext, SwitchState, Port, Busy, sel, x_stb, Grants, First, Wants, Other, req
<1> QED
  BY <1>1, <1>2, <1>3 DEF SwitchState

(* What it selects in a cycle. *)
LEMMA Selects ==
  ASSUME NEW s \in SwitchState, NEW stb \in [Port -> BOOLEAN], NEW r, NEW p \in Port
  PROVE  /\ sel(s, stb, r) \in Port
         /\ s.state = Busy(p) => sel(s, stb, r) = p /\ (x_stb(s, stb, r) <=> stb[p])
         /\ s.state = "S_IDLE" /\ x_stb(s, stb, r) => Wants(s, stb, sel(s, stb, r))
<1>1. CASE s.state = "S_IDLE"
  BY <1>1 DEF SwitchState, Port, Busy, sel, x_stb, Grants, First, Wants, Other
<1>2. CASE s.state \in {"S_BUSY_A", "S_BUSY_B"}
  BY <1>2 DEF SwitchState, Port, Busy, sel, x_stb, Grants
<1> QED
  BY <1>1, <1>2 DEF SwitchState

(* The registers of a switch keep their ranges. *)
LEMMA SwitchType ==
  ASSUME NEW s \in SwitchState, NEW stb \in [Port -> BOOLEAN], NEW l \in [Port -> BOOLEAN],
         NEW ack, NEW r
  PROVE  SwitchNext(s, stb, l, ack, r) \in SwitchState
<1> DEFINE n == SwitchNext(s, stb, l, ack, r)
<1>1. (IF s.state = "S_IDLE"
       THEN IF x_stb(s, stb, r) THEN Busy(sel(s, stb, r)) ELSE "S_IDLE"
       ELSE IF \E p \in Port : s.state = Busy(p) /\ Ends(s, l, ack, p) THEN "S_IDLE" ELSE s.state)
      \in {"S_IDLE", "S_BUSY_A", "S_BUSY_B"}
  BY SMT DEF SwitchState, Busy
<1>2. req(s, stb) \in [Port -> BOOLEAN]
  BY DEF req
<1>3. sel(s, stb, r) \in Port
  BY DEF sel, Port
<1>4. (IF s.state = "S_IDLE" THEN l ELSE s.lock) \in [Port -> BOOLEAN]
  BY DEF SwitchState
<1> QED
  BY <1>1, <1>2, <1>3, <1>4 DEF SwitchNext, SwitchState

(* The hosts *)

HostState == [pc : {"idle", "stb", "wait", "fence"}, op : Ops \cup {"none"}, addr : Addr,
              lock : BOOLEAN]

(* What a host does at one clock edge. *)
LEMMA HostFacts ==
  ASSUME NEW a \in Agent, host[a] \in HostState, NEW ack, NEW n \in amo_reg(a, ack)
  PROVE  /\ n \in HostState
         /\ host[a].pc = "idle" =>
              \/ n.pc \in {"idle", "fence"} /\ n.op = host[a].op /\ n.addr = host[a].addr
                 /\ n.lock = host[a].lock
              \/ /\ n.pc = "stb" /\ [op |-> n.op, addr |-> n.addr] \in MayDo[a]
                 /\ n.op \in Ops \ {"fence"} /\ (n.lock <=> n.op = "amo")
                 /\ n.op = "sc" => host[a].op = "lr" /\ host[a].addr = n.addr
         /\ host[a].pc = "stb" => n.pc = "wait" /\ n.op = host[a].op /\ n.addr = host[a].addr
                                  /\ n.lock = host[a].lock
         /\ host[a].pc = "fence" => n.pc = "idle" /\ n.op = host[a].op /\ n.addr = host[a].addr
                                    /\ n.lock = host[a].lock
         /\ host[a].pc = "wait" /\ ack => n.pc = "idle" /\ n.op = host[a].op
                                          /\ n.addr = host[a].addr /\ ~n.lock
         /\ host[a].pc = "wait" /\ ~ack => n = host[a]
<1>1. MayDo[a] \subseteq [op : Ops, addr : Addr]
  BY BusAtomicAssumption
<1>2. CASE host[a].pc = "idle"
  <2>1. n = host[a] \/ n \in Issues(a)
    BY <1>2 DEF amo_reg
  <2>2. CASE n \in Issues(a)
    <3>1. PICK r \in MayDo[a] :
            /\ r.op = "sc" => host[a].op = "lr" /\ host[a].addr = r.addr
            /\ n = IF r.op = "fence" THEN [host[a] EXCEPT !.pc = "fence"]
                   ELSE [pc |-> "stb", op |-> r.op, addr |-> r.addr, lock |-> r.op = "amo"]
      BY <2>2, Zenon DEF Issues
    <3>2. r \in [op : Ops, addr : Addr]
      BY <1>1, <3>1
    <3>3. CASE r.op = "fence"
      BY <1>2, <3>1, <3>3 DEF HostState
    <3>4. CASE r.op # "fence"
      <4>1. n = [pc |-> "stb", op |-> r.op, addr |-> r.addr, lock |-> r.op = "amo"]
        BY <3>1, <3>4
      <4>2. /\ n.pc = "stb" /\ n.op = r.op /\ n.addr = r.addr /\ r.op \in Ops
            /\ r = [op |-> n.op, addr |-> n.addr]
        BY <3>2, <4>1
      <4>3. n.lock <=> r.op = "amo"
        BY <4>1, Zenon
      <4>4. n \in HostState
        <5>1. (r.op = "amo") \in BOOLEAN
          OBVIOUS
        <5>2. "stb" \in {"idle", "stb", "wait", "fence"} /\ r.op \in Ops \cup {"none"} /\ r.addr \in Addr
          BY <3>2
        <5> QED
          BY <4>1, <5>1, <5>2, Zenon DEF HostState
      <4> QED
        BY <1>2, <3>1, <3>4, <4>2, <4>3, <4>4
    <3> QED
      BY <3>3, <3>4
  <2> QED
    BY <1>2, <2>1, <2>2
<1>3. CASE host[a].pc = "stb"
  <2>1. n = [host[a] EXCEPT !.pc = "wait"]
    BY <1>3 DEF amo_reg
  <2> QED
    BY <1>3, <2>1 DEF HostState
<1>4. CASE host[a].pc = "fence"
  <2>1. n = [host[a] EXCEPT !.pc = "idle"]
    BY <1>4 DEF amo_reg
  <2> QED
    BY <1>4, <2>1 DEF HostState
<1>5. CASE host[a].pc = "wait" /\ ack
  <2>1. n = [host[a] EXCEPT !.pc = "idle", !.lock = FALSE]
    BY <1>5 DEF amo_reg
  <2> QED
    BY <1>5, <2>1 DEF HostState
<1>6. CASE host[a].pc = "wait" /\ ~ack
  <2>1. n = host[a]
    BY <1>6 DEF amo_reg
  <2> QED
    BY <1>6, <2>1
<1> QED
  BY <1>2, <1>3, <1>4, <1>5, <1>6 DEF HostState

(* Each agent makes one of its own moves. *)
LEMMA HostsMove ==
  ASSUME NEW k, Edge(k)
  PROVE  \A a \in Agent : host'[a] \in amo_reg(a, Acked(a, k))
<1>1. PICK h0 \in amo_reg("h0", Acked("h0", k)), h1 \in amo_reg("h1", Acked("h1", k)),
           d \in amo_reg("dma", Acked("dma", k)) :
        host' = [a \in Agent |-> CASE a = "h0" -> h0 [] a = "h1" -> h1 [] a = "dma" -> d]
  BY DEF Edge
<1> QED
  BY <1>1 DEF Agent, Hart

-----------------------------------------------------------------------------
(* What goes down and up in a state of the invariant *)

(* Ranges of the signals between the hosts and the switches. *)
LEMMA Typed ==
  ASSUME TypeOK
  PROVE  /\ stb1 \in [Port -> BOOLEAN] /\ lock1 \in [Port -> BOOLEAN]
         /\ stb2 \in [Port -> BOOLEAN] /\ lock2 \in [Port -> BOOLEAN]
         /\ sw1 \in SwitchState /\ sw2 \in SwitchState
         /\ \A a \in Agent : host[a] \in HostState
         /\ sys1_agent \in Hart /\ sys1_agent \in Agent /\ sys2_agent \in Agent /\ Server \in Agent
<1>1. \A a \in Agent : host[a] \in HostState
  BY DEF TypeOK, HostState
<1>2. sys1_agent \in Hart /\ sys1_agent \in Agent
  BY DEF sys1_agent, sel, PortHart, Port, Hart, Agent
<1>3. sys2_agent \in Agent /\ Server \in Agent
  BY <1>2 DEF sys2_agent, Server, Agent, Hart
<1>4. stb1 \in [Port -> BOOLEAN]
  BY DEF stb1
<1>5. \A a \in Agent : host[a].lock \in BOOLEAN
  BY <1>1 DEF HostState
<1>6. lock1 \in [Port -> BOOLEAN]
  BY <1>5, BusyFacts DEF lock1
<1>7. stb2 \in [Port -> BOOLEAN]
  <2>1. sys1_stb \in BOOLEAN
    BY DEF sys1_stb, x_stb
  <2> QED
    BY <2>1 DEF stb2
<1>8. lock2 \in [Port -> BOOLEAN]
  BY <1>2, <1>5 DEF lock2
<1> QED
  BY <1>1, <1>2, <1>3, <1>4, <1>6, <1>7, <1>8 DEF TypeOK

(* The strobe of the complex arbiter. *)
LEMMA Upper ==
  ASSUME TypeOK, ArbiterInv
  PROVE  /\ sys1_stb => sw1.state = "S_IDLE" /\ Active(sys1_agent)
         /\ \A p \in Port : sw1.state = Busy(p) => sys1_agent = PortHart[p] /\ ~sys1_stb
<1>1. \A p \in Port : /\ HartPort[p] = host[PortHart[p]]
                      /\ stb1[p] <=> host[PortHart[p]].pc = "stb"
  BY DEF HartPort, stb1
<1>2. ASSUME NEW p \in Port, sw1.state = Busy(p) PROVE sys1_agent = PortHart[p] /\ ~sys1_stb
  <2>1. sel(sw1, stb1, TRUE) = p /\ (x_stb(sw1, stb1, TRUE) <=> stb1[p])
    BY <1>2, Typed, Selects
  <2>2. ~stb1[p]
    BY <1>1, <1>2 DEF ArbiterInv, Releasing
  <2> QED
    BY <2>1, <2>2 DEF sys1_agent, sys1_stb
<1>3. ASSUME sw1.state = "S_IDLE", sys1_stb PROVE Active(sys1_agent)
  <2> DEFINE q == sel(sw1, stb1, TRUE)
  <2>1. q \in Port /\ Wants(sw1, stb1, q)
    BY <1>3, Typed, Selects, BusyFacts DEF sys1_stb
  <2>2. stb1[q] \/ sw1.req[q]
    BY <2>1 DEF Wants
  <2>4. sys1_agent = PortHart[q]
    BY DEF sys1_agent
  <2> HIDE DEF q
  <2>3. host[PortHart[q]].pc \in {"stb", "wait"}
    BY <1>1, <2>1, <2>2 DEF ArbiterInv
  <2> QED
    BY <2>3, <2>4 DEF Active
<1> QED
  BY <1>2, <1>3, Typed, BusyFacts

(* The strobe of the DMA switch: only while it is idle, on behalf of an    *)
(* agent that has an access to make; while it is busy it stays with the    *)
(* agent that it serves.                                                   *)
LEMMA Lower ==
  ASSUME TypeOK, ArbiterInv, DmaSwitchInv
  PROVE  /\ sys2_stb => sw2.state = "S_IDLE" /\ Active(sys2_agent)
         /\ sw2.state # "S_IDLE" => sys2_agent = Server /\ ~sys2_stb
         /\ sys2_stb /\ sel(sw2, stb2, FALSE) = "A" =>
              sys2_agent = sys1_agent /\ (sw2.req["A"] \/ sys1_stb)
<1>1. stb2["A"] = sys1_stb /\ (stb2["B"] <=> host["dma"].pc = "stb")
  BY BusyFacts DEF stb2
<1>2. CASE sw2.state = "S_BUSY_A"
  <2>1. PICK p \in Port : sw1.state = Busy(p)
    BY <1>2 DEF DmaSwitchInv
  <2>2. sel(sw2, stb2, FALSE) = "A" /\ (x_stb(sw2, stb2, FALSE) <=> stb2["A"])
    BY <1>2, Typed, Selects, BusyFacts
  <2>3. ~sys2_stb /\ sys2_agent = PortHart[p]
    BY <1>1, <2>1, <2>2, Upper DEF sys2_stb, sys2_agent
  <2>4. Server = PortHart[p]
    BY <1>2, <2>1, BusyFacts DEF Server, Port, Busy
  <2> QED
    BY <1>2, <2>3, <2>4
<1>3. CASE sw2.state = "S_BUSY_B"
  <2>1. sel(sw2, stb2, FALSE) = "B" /\ (x_stb(sw2, stb2, FALSE) <=> stb2["B"])
    BY <1>3, Typed, Selects, BusyFacts
  <2> QED
    BY <1>1, <1>3, <2>1 DEF sys2_stb, sys2_agent, Server, DmaSwitchInv
<1>4. CASE sw2.state = "S_IDLE"
  <2> SUFFICES ASSUME sys2_stb
               PROVE  /\ Active(sys2_agent)
                      /\ sel(sw2, stb2, FALSE) = "A" =>
                           sys2_agent = sys1_agent /\ (sw2.req["A"] \/ sys1_stb)
    BY <1>4
  <2> DEFINE q == sel(sw2, stb2, FALSE)
  <2>1. q \in Port /\ Wants(sw2, stb2, q)
    BY <1>4, Typed, Selects, BusyFacts DEF sys2_stb
  <2>2. stb2[q] \/ sw2.req[q]
    BY <2>1 DEF Wants
  <2>3. CASE q = "A"
    <3>1. sys2_agent = sys1_agent
      BY <2>3 DEF sys2_agent
    <3>2. CASE sys1_stb
      BY <3>1, <3>2, Upper
    <3>3. CASE sw2.req["A"]
      <4>1. PICK p \in Port : sw1.state = Busy(p) /\ HartPort[p].pc = "wait"
        BY <3>3 DEF DmaSwitchInv
      <4>2. sys1_agent = PortHart[p] /\ HartPort[p] = host[PortHart[p]]
        BY <4>1, Upper DEF HartPort
      <4> QED
        BY <3>1, <3>3, <4>1, <4>2 DEF Active
    <3> QED
      BY <1>1, <2>2, <2>3, <3>2, <3>3
  <2>4. CASE q = "B"
    <3>1. sys2_agent = "dma"
      BY <2>4 DEF sys2_agent
    <3>2. host["dma"].pc \in {"stb", "wait"}
      BY <1>1, <2>2, <2>4 DEF DmaSwitchInv
    <3> QED
      BY <2>4, <3>1, <3>2 DEF Active
  <2> QED
    BY <2>1, <2>3, <2>4 DEF Port
<1> QED
  BY <1>2, <1>3, <1>4, Typed, BusyFacts DEF SwitchState

(* Answers reach the agent that is served, and nobody else.                *)
LEMMA Answers ==
  ASSUME AtomicInv, NEW k, k => dev.busy
  PROVE  /\ sys2_ack(k) => InService
         /\ sw2.state = "S_BUSY_B" => RspTo(sw2) = "B" /\ Server = "dma"
         /\ \A p \in Port : sw2.state = "S_BUSY_A" /\ sw1.state = Busy(p) =>
              RspTo(sw2) = "A" /\ RspTo(sw1) = p /\ Server = PortHart[p]
         /\ InService => Answered = Server
         /\ \A a \in Agent : Acked(a, k) <=> sys2_ack(k) /\ a = Server
<1>1. sys2_ack(k) => InService
  BY DEF AtomicInv, ServiceInv, Quiet, sys2_ack, amo_ack
<1>2. sw2.state = "S_BUSY_B" => RspTo(sw2) = "B" /\ Server = "dma"
  BY DEF AtomicInv, DmaSwitchInv, RspTo, Server
<1>3. ASSUME NEW p \in Port, sw2.state = "S_BUSY_A", sw1.state = Busy(p)
      PROVE  RspTo(sw2) = "A" /\ RspTo(sw1) = p /\ Server = PortHart[p]
  BY <1>3, BusyFacts DEF AtomicInv, DmaSwitchInv, ArbiterInv, RspTo, Server, Port, Busy
<1>4. ASSUME InService PROVE Answered = Server
  <2>1. CASE sw2.state = "S_BUSY_B"
    BY <1>2, <2>1 DEF Answered
  <2>2. CASE sw2.state = "S_BUSY_A"
    <3>1. PICK p \in Port : sw1.state = Busy(p)
      BY <2>2 DEF AtomicInv, DmaSwitchInv
    <3>2. RspTo(sw2) = "A" /\ RspTo(sw1) = p /\ Server = PortHart[p]
      BY <1>3, <2>2, <3>1
    <3> QED
      BY <3>2 DEF Answered
  <2> QED
    BY <1>4, <2>1, <2>2, Typed DEF InService, AtomicInv, SwitchState
<1> QED
  BY <1>1, <1>2, <1>3, <1>4 DEF Acked

-----------------------------------------------------------------------------
(* The switches at a clock edge *)

(* The grant of port p ends with the acknowledge of a single access, and   *)
(* one cycle after that of a locked one.                                   *)
Ending(p, k) ==
  \/ HartPort[p].pc = "idle"
  \/ ~HartPort[p].lock /\ sys2_ack(k) /\ sw2.state = "S_BUSY_A"

(* The complex arbiter at a clock edge: what it latches, grants and releases. *)
LEMMA Edge1 ==
  ASSUME AtomicInv, NEW k, Edge(k)
  PROVE  /\ sw1' \in SwitchState
         /\ \A p \in Port : sw1'.req[p] <=> sw1.state # Busy(p) /\ Active(PortHart[p])
         /\ \A p \in Port : sw1.state = Busy(p) =>
              /\ sw1'.state = IF Ending(p, k) THEN "S_IDLE" ELSE Busy(p)
              /\ sw1'.lock = sw1.lock /\ sw1'.sel_q = p
         /\ sw1.state = "S_IDLE" =>
              /\ ~sys1_stb => sw1'.state = "S_IDLE"
              /\ sys1_stb => \E p \in Port :
                   /\ sw1'.state = Busy(p) /\ sw1'.sel_q = p /\ sys1_agent = PortHart[p]
                   /\ sw1'.lock[p] <=> HartPort[p].lock
<1> DEFINE e == sys2_ack(k) /\ RspTo(sw2) = "A"
<1>1. TypeOK /\ ArbiterInv /\ DmaSwitchInv /\ HostInv
  BY DEF AtomicInv
<1>2. sw1' = SwitchNext(sw1, stb1, lock1, e, TRUE)
  BY DEF Edge
<1>3. k => dev.busy
  BY DEF Edge, memory
<1>4. \A p \in Port : /\ HartPort[p] = host[PortHart[p]]
                      /\ stb1[p] <=> host[PortHart[p]].pc = "stb"
                      /\ lock1[p] = HartPort[p].lock
  BY DEF HartPort, stb1, lock1
<1>5. sw1' \in SwitchState
  BY <1>1, <1>2, Typed, SwitchType
<1> HIDE DEF e
<1>6. \A p \in Port :
        /\ sw1.state = Busy(p) =>
             /\ sw1'.state = IF Ends(sw1, lock1, e, p) THEN "S_IDLE" ELSE Busy(p)
             /\ sw1'.lock = sw1.lock /\ sw1'.sel_q = p
        /\ sw1.state = "S_IDLE" =>
             /\ sw1'.state = IF sys1_stb THEN Busy(sel(sw1, stb1, TRUE)) ELSE "S_IDLE"
             /\ sw1'.lock = lock1
        /\ sw1'.sel_q = sel(sw1, stb1, TRUE)
        /\ sw1'.req[p] <=> sw1.state # Busy(p) /\ (sw1.req[p] \/ stb1[p])
  <2> SUFFICES ASSUME NEW p \in Port
               PROVE /\ sw1.state = Busy(p) =>
                          /\ sw1'.state = IF Ends(sw1, lock1, e, p) THEN "S_IDLE" ELSE Busy(p)
                          /\ sw1'.lock = sw1.lock /\ sw1'.sel_q = p
                     /\ sw1.state = "S_IDLE" =>
                          /\ sw1'.state = IF sys1_stb THEN Busy(sel(sw1, stb1, TRUE)) ELSE "S_IDLE"
                          /\ sw1'.lock = lock1
                     /\ sw1'.sel_q = sel(sw1, stb1, TRUE)
                     /\ sw1'.req[p] <=> sw1.state # Busy(p) /\ (sw1.req[p] \/ stb1[p])
    OBVIOUS
  <2>1. stb1 \in [Port -> BOOLEAN] /\ lock1 \in [Port -> BOOLEAN] /\ sw1 \in SwitchState
    BY <1>1, Typed
  <2> DEFINE r == TRUE
  <2>2. e \in BOOLEAN /\ r \in BOOLEAN
    BY DEF e, sys2_ack
  <2>3. sw1' = SwitchNext(sw1, stb1, lock1, e, r)
    BY <1>2
  <2>4. (sys1_stb <=> x_stb(sw1, stb1, r)) /\ sel(sw1, stb1, r) = sel(sw1, stb1, TRUE)
    BY DEF sys1_stb
  <2> HIDE DEF r
  <2>5. StepOf(sw1', sw1, stb1, lock1, e, r, p)
    BY <2>1, <2>2, <2>3, SwitchFacts
  <2>6. sw1.state = Busy(p) =>
          /\ sw1'.state = IF Ends(sw1, lock1, e, p) THEN "S_IDLE" ELSE Busy(p)
          /\ sw1'.lock = sw1.lock /\ sel(sw1, stb1, r) = p
    BY <2>5 DEF StepOf
  <2>7. sw1.state = "S_IDLE" =>
          /\ sw1'.state = IF x_stb(sw1, stb1, r) THEN Busy(sel(sw1, stb1, r)) ELSE "S_IDLE"
          /\ sw1'.lock = lock1
    BY <2>5 DEF StepOf
  <2>8. sw1'.sel_q = sel(sw1, stb1, r)
    BY <2>5 DEF StepOf
  <2>9. sw1'.req[p] <=> sw1.state # Busy(p) /\ (sw1.req[p] \/ stb1[p])
    BY <2>5 DEF StepOf
  <2> QED
    BY <2>4, <2>6, <2>7, <2>8, <2>9
<1>7. ASSUME NEW p \in Port PROVE sw1'.req[p] <=> sw1.state # Busy(p) /\ Active(PortHart[p])
  <2>1. sw1.req[p] => HartPort[p].pc = "wait"
    BY <1>1 DEF ArbiterInv
  <2>2. HartPort[p].pc = "wait" => sw1.req[p] \/ sw1.state = Busy(p)
    BY <1>1 DEF ArbiterInv
  <2> QED
    BY <1>4, <1>6, <2>1, <2>2 DEF Active
<1>8. ASSUME NEW p \in Port, sw1.state = Busy(p) PROVE Ends(sw1, lock1, e, p) <=> Ending(p, k)
  <2>1. \/ HartPort[p].pc = "wait" /\ (sw1.lock[p] <=> HartPort[p].lock)
        \/ HartPort[p].pc = "idle" /\ sw1.lock[p] /\ ~HartPort[p].lock
    <3>1. HartPort[p].pc = "idle" => ~HartPort[p].lock
      BY <1>1, <1>4, BusyFacts DEF HostInv, Active
    <3> QED
      BY <1>1, <1>8, <3>1 DEF ArbiterInv, Releasing
  <2>2. e <=> sys2_ack(k) /\ sw2.state = "S_BUSY_A"
    <3>1. sys2_ack(k) => sw2.state \in {"S_BUSY_A", "S_BUSY_B"}
      BY <1>1, <1>3, Answers, Typed DEF InService, SwitchState
    <3>2. sw2.state = "S_BUSY_A" => RspTo(sw2) = "A"
      BY <1>3, <1>8, Answers
    <3>3. sw2.state = "S_BUSY_B" => RspTo(sw2) = "B"
      BY <1>3, Answers
    <3> QED
      BY <3>1, <3>2, <3>3 DEF e
  <2> QED
    BY <1>4, <2>1, <2>2 DEF Ends, Ending
<1>9. ASSUME sw1.state = "S_IDLE", sys1_stb
      PROVE  \E p \in Port : /\ sw1'.state = Busy(p) /\ sw1'.sel_q = p /\ sys1_agent = PortHart[p]
                             /\ sw1'.lock[p] <=> HartPort[p].lock
  <2>1. PICK p \in Port : p = sel(sw1, stb1, TRUE)
    BY <1>1, Typed, Selects, BusyFacts
  <2>2. /\ sw1'.state = Busy(p) /\ sw1'.sel_q = p /\ sys1_agent = PortHart[p]
        /\ sw1'.lock[p] <=> HartPort[p].lock
    BY <1>4, <1>6, <1>9, <2>1 DEF sys1_agent
  <2> QED
    BY <2>2
<1> QED
  BY <1>5, <1>6, <1>7, <1>8, <1>9, BusyFacts

(* The DMA switch at a clock edge. *)
LEMMA Edge2 ==
  ASSUME AtomicInv, NEW k, Edge(k)
  PROVE  /\ sw2' \in SwitchState
         /\ sw2'.req["A"] <=> sw2.state # "S_BUSY_A" /\ (sw2.req["A"] \/ sys1_stb)
         /\ sw2'.req["B"] <=> sw2.state # "S_BUSY_B" /\ Active("dma")
         /\ \A p \in Port : sw2.state = "S_BUSY_A" /\ sw1.state = Busy(p) =>
              /\ sw2'.state = IF Ending(p, k) THEN "S_IDLE" ELSE "S_BUSY_A"
              /\ sw2'.lock = sw2.lock /\ sw2'.sel_q = "A"
         /\ sw2.state = "S_BUSY_B" =>
              /\ sw2'.state = IF sys2_ack(k) THEN "S_IDLE" ELSE "S_BUSY_B"
              /\ sw2'.sel_q = "B"
         /\ sw2.state = "S_IDLE" =>
              /\ ~sys2_stb => sw2'.state = "S_IDLE"
              /\ sys2_stb => \E q \in Port :
                   /\ sw2'.state = Busy(q) /\ sw2'.sel_q = q
                   /\ q = "A" => sys2_agent = sys1_agent /\ (sw2.req["A"] \/ sys1_stb)
                   /\ q = "B" => sys2_agent = "dma"
                   /\ sw2'.lock["A"] <=> host[sys1_agent].lock
         /\ ~sw2'.lock["B"]
<1> DEFINE e == sys2_ack(k)
<1>1. TypeOK /\ ArbiterInv /\ DmaSwitchInv /\ HostInv
  BY DEF AtomicInv
<1>2. sw2' = SwitchNext(sw2, stb2, lock2, e, FALSE)
  BY DEF Edge
<1>3. k => dev.busy
  BY DEF Edge, memory
<1>4. /\ stb2["A"] = sys1_stb /\ (stb2["B"] <=> host["dma"].pc = "stb")
      /\ (lock2["A"] <=> host[sys1_agent].lock) /\ ~lock2["B"]
  BY BusyFacts DEF stb2, lock2
<1>5. sw2' \in SwitchState
  BY <1>1, <1>2, Typed, SwitchType
<1> HIDE DEF e
<1>6. ASSUME NEW p \in Port
      PROVE /\ sw2.state = Busy(p) =>
                 /\ sw2'.state = IF Ends(sw2, lock2, e, p) THEN "S_IDLE" ELSE Busy(p)
                 /\ sw2'.lock = sw2.lock /\ sw2'.sel_q = p
            /\ sw2.state = "S_IDLE" =>
                 /\ sw2'.state = IF sys2_stb THEN Busy(sel(sw2, stb2, FALSE)) ELSE "S_IDLE"
                 /\ sw2'.lock = lock2
            /\ sw2'.sel_q = sel(sw2, stb2, FALSE)
            /\ sw2'.req[p] <=> sw2.state # Busy(p) /\ (sw2.req[p] \/ stb2[p])
  <2>1. stb2 \in [Port -> BOOLEAN] /\ lock2 \in [Port -> BOOLEAN] /\ sw2 \in SwitchState
    BY <1>1, Typed
  <2> DEFINE r == FALSE
  <2>2. e \in BOOLEAN /\ r \in BOOLEAN
    BY DEF e, sys2_ack
  <2>3. sw2' = SwitchNext(sw2, stb2, lock2, e, r)
    BY <1>2
  <2>4. (sys2_stb <=> x_stb(sw2, stb2, r)) /\ sel(sw2, stb2, r) = sel(sw2, stb2, FALSE)
    BY DEF sys2_stb
  <2> HIDE DEF r
  <2>5. StepOf(sw2', sw2, stb2, lock2, e, r, p)
    BY <2>1, <2>2, <2>3, SwitchFacts
  <2>6. sw2.state = Busy(p) =>
          /\ sw2'.state = IF Ends(sw2, lock2, e, p) THEN "S_IDLE" ELSE Busy(p)
          /\ sw2'.lock = sw2.lock /\ sel(sw2, stb2, r) = p
    BY <2>5 DEF StepOf
  <2>7. sw2.state = "S_IDLE" =>
          /\ sw2'.state = IF x_stb(sw2, stb2, r) THEN Busy(sel(sw2, stb2, r)) ELSE "S_IDLE"
          /\ sw2'.lock = lock2
    BY <2>5 DEF StepOf
  <2>8. sw2'.sel_q = sel(sw2, stb2, r)
    BY <2>5 DEF StepOf
  <2>9. sw2'.req[p] <=> sw2.state # Busy(p) /\ (sw2.req[p] \/ stb2[p])
    BY <2>5 DEF StepOf
  <2> QED
    BY <2>4, <2>6, <2>7, <2>8, <2>9
<1>7. /\ sw2'.req["A"] <=> sw2.state # "S_BUSY_A" /\ (sw2.req["A"] \/ sys1_stb)
      /\ sw2'.req["B"] <=> sw2.state # "S_BUSY_B" /\ Active("dma")
  BY <1>1, <1>4, <1>6, BusyFacts DEF DmaSwitchInv, Active
<1>8. ASSUME NEW p \in Port, sw2.state = "S_BUSY_A", sw1.state = Busy(p)
      PROVE  Ends(sw2, lock2, e, "A") <=> Ending(p, k)
  <2>1. sys1_agent = PortHart[p] /\ HartPort[p] = host[PortHart[p]]
    BY <1>1, <1>8, Upper DEF HartPort
  <2>2. sw2.lock["A"] <=> sw1.lock[p]
    BY <1>1, <1>8, BusyFacts DEF DmaSwitchInv
  <2>3. \/ HartPort[p].pc = "wait" /\ (sw1.lock[p] <=> HartPort[p].lock)
        \/ HartPort[p].pc = "idle" /\ sw1.lock[p] /\ ~HartPort[p].lock
    <3>1. HartPort[p].pc = "idle" => ~HartPort[p].lock
      BY <1>1, <2>1, BusyFacts DEF HostInv, Active
    <3> QED
      BY <1>1, <1>8, <3>1 DEF ArbiterInv, Releasing
  <2> QED
    BY <1>4, <1>8, <2>1, <2>2, <2>3 DEF Ends, Ending, e
<1>9. ASSUME sw2.state = "S_BUSY_B" PROVE Ends(sw2, lock2, e, "B") <=> sys2_ack(k)
  BY <1>1 DEF DmaSwitchInv, Ends, e
<1>10. ASSUME sw2.state = "S_IDLE", sys2_stb
       PROVE  \E q \in Port : /\ sw2'.state = Busy(q) /\ sw2'.sel_q = q
                              /\ q = "A" => sys2_agent = sys1_agent /\ (sw2.req["A"] \/ sys1_stb)
                              /\ q = "B" => sys2_agent = "dma"
                              /\ sw2'.lock["A"] <=> host[sys1_agent].lock
  <2>1. PICK q \in Port : q = sel(sw2, stb2, FALSE)
    BY <1>1, Typed, Selects, BusyFacts
  <2>2. /\ sw2'.state = Busy(q) /\ sw2'.sel_q = q
        /\ sw2'.lock["A"] <=> host[sys1_agent].lock
    BY <1>4, <1>6, <1>10, <2>1
  <2>3. q = "A" => sys2_agent = sys1_agent /\ (sw2.req["A"] \/ sys1_stb)
    BY <1>1, <1>10, <2>1, Lower
  <2>4. q = "B" => sys2_agent = "dma"
    BY <2>1 DEF sys2_agent
  <2> QED
    BY <2>2, <2>3, <2>4
<1>11. ~sw2'.lock["B"]
  BY <1>1, <1>4, <1>6, BusyFacts, Typed DEF DmaSwitchInv
<1> QED
  BY <1>1, <1>5, <1>6, <1>7, <1>8, <1>9, <1>10, <1>11, BusyFacts

-----------------------------------------------------------------------------
(* The hosts at a clock edge *)

Ack(a, k) == sys2_ack(k) /\ a = Server

(* What one agent does at a clock edge, the answer being for the one served. *)
LEMMA HostNext ==
  ASSUME AtomicInv, NEW k, Edge(k), NEW a \in Agent
  PROVE  /\ host'[a] \in HostState /\ host[a] \in HostState
         /\ host[a].pc = "idle" =>
              \/ host'[a].pc \in {"idle", "fence"} /\ host'[a].op = host[a].op
                 /\ host'[a].addr = host[a].addr /\ ~host'[a].lock
              \/ /\ host'[a].pc = "stb"
                 /\ [op |-> host'[a].op, addr |-> host'[a].addr] \in MayDo[a]
                 /\ host'[a].op \in Ops \ {"fence"}
                 /\ host'[a].lock <=> host'[a].op = "amo"
                 /\ host'[a].op = "sc" => host[a].op = "lr" /\ host[a].addr = host'[a].addr
         /\ host[a].pc = "fence" =>
              host'[a].pc = "idle" /\ host'[a].op = host[a].op /\ host'[a].addr = host[a].addr
              /\ ~host'[a].lock
         /\ Active(a) /\ ~Ack(a, k) =>
              host'[a].pc = "wait" /\ host'[a].op = host[a].op /\ host'[a].addr = host[a].addr
              /\ (host'[a].lock <=> host[a].lock)
         /\ Ack(a, k) => host[a].pc = "wait" /\ host'[a].pc = "idle" /\ host'[a].op = host[a].op
                         /\ host'[a].addr = host[a].addr /\ ~host'[a].lock
<1>1. host[a] \in HostState
  BY Typed DEF AtomicInv
<1>2. Acked(a, k) <=> Ack(a, k)
  BY Answers DEF Edge, memory, Ack
<1>3. host'[a] \in amo_reg(a, Acked(a, k))
  BY HostsMove
<1>4. Ack(a, k) => host[a].pc = "wait"
  BY Answers DEF Edge, memory, Ack, InService
<1>5. host[a].pc \in {"idle", "fence"} => ~host[a].lock
  BY DEF AtomicInv, HostInv, Active
<1> DEFINE n == host'[a]
           b == Acked(a, k)
<1>6. n \in amo_reg(a, b) /\ (b <=> Ack(a, k))
  BY <1>2, <1>3
<1> HIDE DEF b, n
<1>7. /\ n \in HostState
      /\ host[a].pc = "idle" =>
           \/ n.pc \in {"idle", "fence"} /\ n.op = host[a].op /\ n.addr = host[a].addr
              /\ n.lock = host[a].lock
           \/ /\ n.pc = "stb" /\ [op |-> n.op, addr |-> n.addr] \in MayDo[a]
              /\ n.op \in Ops \ {"fence"} /\ (n.lock <=> n.op = "amo")
              /\ n.op = "sc" => host[a].op = "lr" /\ host[a].addr = n.addr
      /\ host[a].pc = "stb" => n.pc = "wait" /\ n.op = host[a].op /\ n.addr = host[a].addr
                               /\ n.lock = host[a].lock
      /\ host[a].pc = "fence" => n.pc = "idle" /\ n.op = host[a].op /\ n.addr = host[a].addr
                                 /\ n.lock = host[a].lock
      /\ host[a].pc = "wait" /\ b => n.pc = "idle" /\ n.op = host[a].op
                                     /\ n.addr = host[a].addr /\ ~n.lock
      /\ host[a].pc = "wait" /\ ~b => n = host[a]
  BY <1>1, <1>6, HostFacts
<1>8. /\ host[a].pc = "idle" =>
           \/ n.pc \in {"idle", "fence"} /\ n.op = host[a].op /\ n.addr = host[a].addr /\ ~n.lock
           \/ /\ n.pc = "stb" /\ [op |-> n.op, addr |-> n.addr] \in MayDo[a]
              /\ n.op \in Ops \ {"fence"} /\ (n.lock <=> n.op = "amo")
              /\ n.op = "sc" => host[a].op = "lr" /\ host[a].addr = n.addr
      /\ host[a].pc = "fence" => n.pc = "idle" /\ n.op = host[a].op /\ n.addr = host[a].addr
                                 /\ ~n.lock
  BY <1>5, <1>7
<1>9. /\ Active(a) /\ ~Ack(a, k) => n.pc = "wait" /\ n.op = host[a].op /\ n.addr = host[a].addr
                                    /\ (n.lock <=> host[a].lock)
      /\ Ack(a, k) => host[a].pc = "wait" /\ n.pc = "idle" /\ n.op = host[a].op
                      /\ n.addr = host[a].addr /\ ~n.lock
  BY <1>4, <1>6, <1>7 DEF Active
<1> QED
  BY <1>1, <1>7, <1>8, <1>9 DEF n

(* Locks and operations of the agents stay consistent. *)
LEMMA HostStep ==
  ASSUME AtomicInv, NEW k, Edge(k)
  PROVE  HostInv'
<1> SUFFICES ASSUME NEW a \in Agent
             PROVE  /\ host'[a].lock <=> Active(a)' /\ host'[a].op = "amo"
                    /\ Active(a)' => host'[a].op \notin {"none", "fence"}
                    /\ OneReserver /\ host'[a].op \in {"lr", "sc"} => a = Reserver
  BY DEF HostInv
<1>1. /\ host[a].lock <=> Active(a) /\ host[a].op = "amo"
      /\ Active(a) => host[a].op \notin {"none", "fence"}
      /\ OneReserver /\ host[a].op \in {"lr", "sc"} => a = Reserver
  BY DEF AtomicInv, HostInv
<1>2. OneReserver =>
        Reserver \in Agent /\ \A c \in Agent \ {Reserver} : \A r \in MayDo[c] : r.op # "lr"
  BY DEF OneReserver, Reserver
<1>3. host[a].pc \in {"idle", "stb", "wait", "fence"}
  BY HostNext DEF HostState
<1>4. CASE host'[a].pc = "stb"
  <2>1. /\ host[a].pc = "idle" /\ [op |-> host'[a].op, addr |-> host'[a].addr] \in MayDo[a]
        /\ host'[a].op \in Ops \ {"fence"} /\ (host'[a].lock <=> host'[a].op = "amo")
        /\ host'[a].op = "sc" => host[a].op = "lr"
    BY <1>3, <1>4, HostNext DEF Active
  <2>2. OneReserver /\ host'[a].op = "lr" => a = Reserver
    BY <1>2, <2>1
  <2> QED
    BY <1>1, <1>4, <2>1, <2>2 DEF Active, Ops
<1>5. CASE host'[a].pc # "stb"
  <2>1. host'[a].op = host[a].op
    BY <1>3, <1>5, HostNext DEF Active
  <2>2. /\ host'[a].pc = "wait" => Active(a) /\ (host'[a].lock <=> host[a].lock)
        /\ host'[a].pc # "wait" => ~host'[a].lock
    BY <1>3, <1>5, HostNext DEF Active
  <2> QED
    BY <1>1, <1>5, <2>1, <2>2 DEF Active
<1> QED
  BY <1>4, <1>5

-----------------------------------------------------------------------------
(* The switches keep their part of the invariant. *)

(* A port of the complex arbiter at a clock edge. *)
LEMMA ArbiterStep ==
  ASSUME AtomicInv, NEW k, Edge(k)
  PROVE  ArbiterInv'
<1> SUFFICES ASSUME NEW p \in Port
             PROVE  /\ sw1'.req[p] => HartPort'[p].pc = "wait"
                    /\ HartPort'[p].pc = "wait" => sw1'.req[p] \/ sw1'.state = Busy(p)
                    /\ sw1'.state = Busy(p) =>
                         /\ sw1'.sel_q = p
                         /\ \/ HartPort'[p].pc = "wait" /\ (sw1'.lock[p] <=> HartPort'[p].lock)
                            \/ HartPort'[p].pc = "idle" /\ sw1'.lock[p] /\ sw2'.state = "S_BUSY_A"
  BY DEF ArbiterInv, Releasing
<1> DEFINE a == PortHart[p]
<1>1. a \in Agent /\ HartPort[p] = host[a] /\ HartPort'[p] = host'[a]
  BY BusyFacts DEF HartPort
<1>2. k => dev.busy
  BY DEF Edge, memory
<1>3. Ack(a, k) => sw1.state = Busy(p) /\ sw2.state = "S_BUSY_A"
  <2> SUFFICES ASSUME Ack(a, k) PROVE sw1.state = Busy(p) /\ sw2.state = "S_BUSY_A"
    OBVIOUS
  <2>1. a = Server /\ sw2.state # "S_IDLE"
    BY <1>2, Answers DEF Ack, InService
  <2>2. sw2.state = "S_BUSY_A"
    BY <1>2, <2>1, Answers, Typed, BusyFacts DEF AtomicInv, SwitchState
  <2>3. PICK q \in Port : sw1.state = Busy(q)
    BY <2>2 DEF AtomicInv, DmaSwitchInv
  <2>4. PortHart[q] = PortHart[p]
    BY <1>2, <2>1, <2>2, <2>3, Answers
  <2> QED
    BY <2>2, <2>3, <2>4, BusyFacts DEF Port
<1> HIDE DEF a
<1>4. sw1.state \in {"S_IDLE", "S_BUSY_A", "S_BUSY_B"} /\ sw2.state \in {"S_IDLE", "S_BUSY_A", "S_BUSY_B"}
  BY DEF AtomicInv, TypeOK, SwitchState
<1>5. sw1'.req[p] <=> sw1.state # Busy(p) /\ Active(a)
  BY Edge1 DEF a
<1>6. sw1'.req[p] => HartPort'[p].pc = "wait"
  BY <1>1, <1>3, <1>5, HostNext
<1>7. /\ sw1.state = Busy(p) =>
           \/ HartPort[p].pc = "wait" /\ (sw1.lock[p] <=> HartPort[p].lock)
           \/ HartPort[p].pc = "idle" /\ sw1.lock[p] /\ ~HartPort[p].lock
      /\ host[a].pc \in {"idle", "stb", "wait", "fence"}
  <2>1. HartPort[p].pc = "idle" => ~HartPort[p].lock
    BY <1>1 DEF AtomicInv, HostInv, Active
  <2>2. host[a].pc \in {"idle", "stb", "wait", "fence"}
    BY <1>1, HostNext DEF HostState
  <2> QED
    BY <2>1, <2>2 DEF AtomicInv, ArbiterInv, Releasing
<1>8. HartPort'[p].pc = "wait" => sw1'.req[p] \/ sw1'.state = Busy(p)
  <2> SUFFICES ASSUME host'[a].pc = "wait", sw1.state = Busy(p) PROVE sw1'.state = Busy(p)
    <3>1. host'[a].pc = "wait" => Active(a)
      BY <1>1, <1>7, HostNext DEF Active
    <3> QED
      BY <1>1, <1>5, <3>1
  <2>1. host[a].pc = "wait" /\ ~Ack(a, k)
    BY <1>1, <1>7, HostNext DEF Active
  <2>2. ~Ending(p, k)
    <3>1. sw2.state = "S_BUSY_A" => Server = a
      BY <1>2, Answers DEF a
    <3> QED
      BY <1>1, <2>1, <3>1 DEF Ending, Ack
  <2> QED
    BY <2>2, Edge1
<1>9. ASSUME sw1'.state = Busy(p)
      PROVE /\ sw1'.sel_q = p
            /\ \/ HartPort'[p].pc = "wait" /\ (sw1'.lock[p] <=> HartPort'[p].lock)
               \/ HartPort'[p].pc = "idle" /\ sw1'.lock[p] /\ sw2'.state = "S_BUSY_A"
  <2>1. CASE sw1.state = "S_IDLE"
    <3>1. PICK q \in Port : /\ sw1'.state = Busy(q) /\ sw1'.sel_q = q /\ sys1_agent = PortHart[q]
                            /\ sw1'.lock[q] <=> HartPort[q].lock
                            /\ sys1_stb
      BY <1>9, <2>1, Edge1, BusyFacts
    <3>2. q = p
      BY <1>9, <3>1, BusyFacts
    <3>3. Active(a) /\ ~Ack(a, k)
      BY <1>3, <2>1, <3>1, <3>2, Upper, BusyFacts DEF AtomicInv, a
    <3> QED
      BY <1>1, <3>1, <3>2, <3>3, HostNext
  <2>2. CASE sw1.state # "S_IDLE"
    <3>1. sw1.state = Busy(p) /\ ~Ending(p, k) /\ sw1'.lock = sw1.lock /\ sw1'.sel_q = p
      <4>1. PICK q \in Port : sw1.state = Busy(q)
        BY <2>2, BusyFacts DEF AtomicInv, TypeOK
      <4>2. sw1'.state = (IF Ending(q, k) THEN "S_IDLE" ELSE Busy(q)) /\ sw1'.lock = sw1.lock
            /\ sw1'.sel_q = q
        BY <4>1, Edge1
      <4> QED
        BY <1>9, <4>1, <4>2, BusyFacts
    <3>2. host[a].pc = "wait" /\ (sw1.lock[p] <=> host[a].lock)
      BY <1>1, <1>7, <3>1 DEF Ending
    <3>3. CASE ~Ack(a, k)
      BY <1>1, <3>1, <3>2, <3>3, HostNext DEF Active
    <3>4. CASE Ack(a, k)
      <4>1. sw2.state = "S_BUSY_A" /\ host[a].lock
        BY <1>1, <1>3, <3>1, <3>4 DEF Ending, Ack
      <4>2. sw2'.state = "S_BUSY_A"
        BY <3>1, <4>1, Edge2
      <4>3. sw1'.lock[p]
        BY <3>1, <3>2, <4>1
      <4>4. host'[a].pc = "idle"
        BY <1>1, <3>4, HostNext
      <4> QED
        BY <1>1, <3>1, <4>2, <4>3, <4>4
    <3> QED
      BY <3>3, <3>4
  <2> QED
    BY <2>1, <2>2
<1> QED
  BY <1>6, <1>8, <1>9

(* What the complex arbiter passes on in this cycle or has passed on       *)
(* before is served by it after the edge, until the access ends.           *)
LEMMA Held ==
  ASSUME AtomicInv, NEW k, Edge(k), sys1_stb \/ sw2.req["A"], sw2.state # "S_BUSY_A"
  PROVE  /\ ~Ack(sys1_agent, k) /\ Active(sys1_agent)
         /\ \E p \in Port : /\ sw1'.state = Busy(p) /\ PortHart[p] = sys1_agent
                            /\ HartPort'[p].pc = "wait"
                            /\ sw1'.lock[p] <=> host[sys1_agent].lock
<1>1. k => dev.busy
  BY DEF Edge, memory
<1>2. sys1_agent \in Agent /\ sys1_agent # "dma" /\ HartPort' = [p \in Port |-> host'[PortHart[p]]]
  BY Typed DEF AtomicInv, Hart, HartPort
<1>3. ~Ack(sys1_agent, k)
  <2> SUFFICES ASSUME Ack(sys1_agent, k) PROVE FALSE
    OBVIOUS
  <2>1. sw2.state # "S_IDLE" /\ sys1_agent = Server
    BY <1>1, Answers DEF Ack, InService
  <2>2. sw2.state = "S_BUSY_B"
    BY <2>1, Typed DEF AtomicInv, SwitchState
  <2> QED
    BY <1>2, <2>1, <2>2 DEF Server
<1>4. CASE sys1_stb
  <2>1. sw1.state = "S_IDLE" /\ Active(sys1_agent)
    BY <1>4, Upper DEF AtomicInv
  <2>2. PICK p \in Port : /\ sw1'.state = Busy(p) /\ sys1_agent = PortHart[p]
                          /\ sw1'.lock[p] <=> HartPort[p].lock
    BY <1>4, <2>1, Edge1
  <2>3. HartPort'[p].pc = "wait" /\ HartPort[p] = host[sys1_agent]
    BY <1>2, <1>3, <2>1, <2>2, HostNext DEF HartPort
  <2> QED
    BY <1>3, <2>1, <2>2, <2>3
<1>5. CASE sw2.req["A"]
  <2>1. PICK p \in Port : sw1.state = Busy(p) /\ HartPort[p].pc = "wait"
    BY <1>5 DEF AtomicInv, DmaSwitchInv
  <2>2. sys1_agent = PortHart[p] /\ HartPort[p] = host[sys1_agent]
    BY <2>1, Upper DEF AtomicInv, HartPort
  <2>3. Active(sys1_agent)
    BY <2>1, <2>2 DEF Active
  <2>4. HartPort'[p].pc = "wait"
    BY <1>2, <1>3, <2>2, <2>3, HostNext
  <2>5. sw1'.state = Busy(p) /\ sw1'.lock = sw1.lock
    BY <2>1, Edge1 DEF Ending
  <2>6. sw1.lock[p] <=> HartPort[p].lock
    BY <2>1 DEF AtomicInv, ArbiterInv, Releasing
  <2> QED
    BY <1>3, <2>2, <2>3, <2>4, <2>5, <2>6
<1> QED
  BY <1>4, <1>5

(* The DMA switch stays consistent with the complex arbiter and the DMA. *)
LEMMA DmaSwitchStep ==
  ASSUME AtomicInv, NEW k, Edge(k)
  PROVE  DmaSwitchInv'
<1>1. k => dev.busy
  BY DEF Edge, memory
<1>2. /\ sw2.state = "S_BUSY_A" =>
           sw2.sel_q = "A" /\ \E p \in Port : sw1.state = Busy(p) /\ (sw2.lock["A"] <=> sw1.lock[p])
      /\ sw1.state # "S_IDLE" => sw2.req["A"] \/ sw2.state = "S_BUSY_A"
      /\ sw2.req["B"] => host["dma"].pc = "wait"
      /\ host["dma"].pc = "wait" => sw2.req["B"] \/ sw2.state = "S_BUSY_B"
      /\ sw2.state = "S_BUSY_B" => sw2.sel_q = "B" /\ host["dma"].pc = "wait"
  BY DEF AtomicInv, DmaSwitchInv
<1>3. sw2.state \in {"S_IDLE", "S_BUSY_A", "S_BUSY_B"} /\ "dma" \in Agent
  BY DEF AtomicInv, TypeOK, SwitchState, Agent
<1>4. Ack("dma", k) <=> sys2_ack(k) /\ sw2.state = "S_BUSY_B"
  <2>1. sys2_ack(k) => sw2.state # "S_IDLE"
    BY <1>1, Answers DEF InService
  <2>2. sw2.state = "S_BUSY_A" => Server # "dma"
    BY DEF Server
  <2>3. sw2.state = "S_BUSY_B" => Server = "dma"
    BY DEF Server
  <2> QED
    BY <1>3, <2>1, <2>2, <2>3 DEF Ack
<1>5. ASSUME sw2'.req["A"] PROVE \E p \in Port : sw1'.state = Busy(p) /\ HartPort'[p].pc = "wait"
  <2>1. sw2.state # "S_BUSY_A" /\ (sw2.req["A"] \/ sys1_stb)
    BY <1>5, Edge2
  <2> QED
    BY <2>1, Held
<1>6. ASSUME sw2'.state = "S_BUSY_A"
      PROVE  sw2'.sel_q = "A" /\ \E p \in Port : sw1'.state = Busy(p) /\ (sw2'.lock["A"] <=> sw1'.lock[p])
  <2>1. CASE sw2.state = "S_IDLE"
    <3>1. PICK q \in Port : /\ sw2'.state = Busy(q) /\ sw2'.sel_q = q
                            /\ q = "A" => sw2.req["A"] \/ sys1_stb
                            /\ sw2'.lock["A"] <=> host[sys1_agent].lock
      BY <1>6, <2>1, Edge2
    <3>2. q = "A"
      BY <1>6, <3>1, BusyFacts DEF Port
    <3>3. PICK p \in Port : sw1'.state = Busy(p) /\ (sw1'.lock[p] <=> host[sys1_agent].lock)
      BY <2>1, <3>1, <3>2, Held
    <3> QED
      BY <3>1, <3>2, <3>3
  <2>2. CASE sw2.state = "S_BUSY_A"
    <3>1. PICK p \in Port : sw1.state = Busy(p) /\ (sw2.lock["A"] <=> sw1.lock[p])
      BY <1>2, <2>2
    <3>2. ~Ending(p, k) /\ sw2'.lock = sw2.lock /\ sw2'.sel_q = "A"
      BY <1>6, <2>2, <3>1, Edge2
    <3>3. sw1'.state = Busy(p) /\ sw1'.lock = sw1.lock
      BY <3>1, <3>2, Edge1
    <3> QED
      BY <3>1, <3>2, <3>3
  <2>3. sw2.state # "S_BUSY_B"
    BY <1>6, Edge2
  <2> QED
    BY <1>3, <2>1, <2>2, <2>3
<1>7. ASSUME sw1'.state # "S_IDLE" PROVE sw2'.req["A"] \/ sw2'.state = "S_BUSY_A"
  <2>1. CASE sw2.state = "S_BUSY_A"
    <3>1. PICK p \in Port : sw1.state = Busy(p)
      BY <1>2, <2>1
    <3>2. ~Ending(p, k)
      BY <1>7, <3>1, Edge1
    <3> QED
      BY <2>1, <3>1, <3>2, Edge2
  <2>2. CASE sw2.state # "S_BUSY_A"
    <3>1. sys1_stb \/ sw1.state # "S_IDLE"
      BY <1>7, Edge1
    <3> QED
      BY <1>2, <2>2, <3>1, Edge2
  <2> QED
    BY <2>1, <2>2
<1>8. host["dma"].pc \in {"idle", "stb", "wait", "fence"}
  BY <1>3, HostNext DEF HostState
<1>9. host'["dma"].pc = "wait" <=> Active("dma") /\ ~Ack("dma", k)
  BY <1>3, <1>8, HostNext DEF Active
<1>10. sw2'.req["B"] => host'["dma"].pc = "wait"
  BY <1>4, <1>9, Edge2
<1>11. host'["dma"].pc = "wait" => sw2'.req["B"] \/ sw2'.state = "S_BUSY_B"
  BY <1>4, <1>9, Edge2
<1>12. ASSUME sw2'.state = "S_BUSY_B" PROVE sw2'.sel_q = "B" /\ host'["dma"].pc = "wait"
  <2>1. CASE sw2.state = "S_IDLE"
    <3>1. PICK q \in Port : /\ sw2'.state = Busy(q) /\ sw2'.sel_q = q
                            /\ q = "B" => sys2_agent = "dma"
                            /\ sys2_stb
      BY <1>12, <2>1, Edge2
    <3>2. q = "B"
      BY <1>12, <3>1, BusyFacts DEF Port
    <3>3. Active("dma")
      BY <3>1, <3>2, Lower DEF AtomicInv
    <3> QED
      BY <1>4, <1>9, <2>1, <3>1, <3>2, <3>3
  <2>2. CASE sw2.state = "S_BUSY_B"
    BY <1>2, <1>4, <1>9, <1>12, <2>2, Edge2 DEF Active
  <2>3. CASE sw2.state = "S_BUSY_A"
    <3>1. PICK p \in Port : sw1.state = Busy(p)
      BY <1>2, <2>3
    <3> QED
      BY <1>12, <2>3, <3>1, Edge2
  <2> QED
    BY <1>3, <2>1, <2>2, <2>3
<1> QED
  BY <1>5, <1>6, <1>7, <1>10, <1>11, <1>12, Edge2 DEF DmaSwitchInv

-----------------------------------------------------------------------------
(* The service of an access begins with the strobe behind the switches and *)
(* ends with the answer; in between it stays with its agent.               *)
LEMMA ServiceMoves ==
  ASSUME AtomicInv, NEW k, Edge(k)
  PROVE  /\ sys2_stb => ~InService /\ InService' /\ Server' = sys2_agent /\ Active(sys2_agent)
         /\ ~sys2_stb /\ ~InService => ~InService'
         /\ InService /\ ~sys2_ack(k) => InService' /\ Server' = Server
         /\ InService /\ sys2_ack(k) => ~InService'
         /\ InService => sys2_agent = Server /\ ~sys2_stb /\ Active(Server)
         /\ \A a \in Agent : Active(a) /\ ~Ack(a, k) => host'[a].op = host[a].op
                                                        /\ host'[a].addr = host[a].addr
<1>1. k => dev.busy
  BY DEF Edge, memory
<1>2. sw2.state \in {"S_IDLE", "S_BUSY_A", "S_BUSY_B"} /\ Server \in Agent
  BY Typed DEF AtomicInv, SwitchState
<1>3. sys2_ack(k) => InService
  BY <1>1, Answers
<1>4. ASSUME sys2_stb
      PROVE  ~InService /\ InService' /\ Server' = sys2_agent /\ Active(sys2_agent)
  <2>1. sw2.state = "S_IDLE" /\ Active(sys2_agent) /\ ~InService /\ ~sys2_ack(k)
    BY <1>3, <1>4, Lower DEF AtomicInv, InService
  <2>2. PICK q \in Port : /\ sw2'.state = Busy(q)
                          /\ q = "A" => sys2_agent = sys1_agent /\ (sw2.req["A"] \/ sys1_stb)
                          /\ q = "B" => sys2_agent = "dma"
    BY <1>4, <2>1, Edge2
  <2>3. host'[sys2_agent].pc = "wait"
    BY <2>1, HostNext, Typed DEF AtomicInv, Ack
  <2>4. Server' = sys2_agent
    <3>1. CASE q = "A"
      <4>1. PICK p \in Port : sw1'.state = Busy(p) /\ PortHart[p] = sys1_agent
        BY <2>1, <2>2, <3>1, Held
      <4> QED
        BY <2>2, <3>1, <4>1, BusyFacts DEF Server, Port, Busy
    <3>2. CASE q = "B"
      BY <2>2, <3>2, BusyFacts DEF Server
    <3> QED
      BY <3>1, <3>2 DEF Port
  <2>5. InService'
    BY <2>2, <2>3, <2>4, BusyFacts DEF InService
  <2> QED
    BY <2>1, <2>4, <2>5
<1>5. ASSUME ~sys2_stb, ~InService PROVE ~InService'
  <2>1. CASE sw2.state = "S_IDLE"
    BY <1>5, <2>1, Edge2 DEF InService
  <2>2. CASE sw2.state = "S_BUSY_A"
    <3>1. PICK p \in Port : sw1.state = Busy(p)
      BY <2>2 DEF AtomicInv, DmaSwitchInv
    <3>2. Server = PortHart[p] /\ HartPort[p] = host[PortHart[p]]
      BY <1>1, <2>2, <3>1, Answers DEF HartPort
    <3>3. HartPort[p].pc = "idle"
      BY <1>5, <2>2, <3>1, <3>2 DEF InService, AtomicInv, ArbiterInv, Releasing
    <3>4. sw2'.state = "S_IDLE"
      BY <2>2, <3>1, <3>3, Edge2 DEF Ending
    <3> QED
      BY <3>4 DEF InService
  <2>3. sw2.state # "S_BUSY_B"
    BY <1>5 DEF InService, Server, AtomicInv, DmaSwitchInv
  <2> QED
    BY <1>2, <2>1, <2>2, <2>3
<1>6. ASSUME InService, ~sys2_ack(k) PROVE InService' /\ Server' = Server
  <2>1. host'[Server].pc = "wait"
    BY <1>2, <1>6, HostNext DEF InService, Active, Ack
  <2>2. CASE sw2.state = "S_BUSY_B"
    <3>1. sw2'.state = "S_BUSY_B"
      BY <1>6, <2>2, Edge2
    <3> QED
      BY <2>1, <2>2, <3>1 DEF InService, Server
  <2>3. CASE sw2.state = "S_BUSY_A"
    <3>1. PICK p \in Port : sw1.state = Busy(p)
      BY <2>3 DEF AtomicInv, DmaSwitchInv
    <3>2. Server = PortHart[p] /\ HartPort[p] = host[PortHart[p]]
      BY <1>1, <2>3, <3>1, Answers DEF HartPort
    <3>3. ~Ending(p, k)
      BY <1>6, <3>2 DEF Ending, InService
    <3>4. sw1'.state = Busy(p) /\ sw2'.state = "S_BUSY_A"
      BY <2>3, <3>1, <3>3, Edge1, Edge2
    <3>5. Server' = Server
      BY <3>1, <3>4, <2>3 DEF Server
    <3> QED
      BY <2>1, <3>4, <3>5 DEF InService
  <2> QED
    BY <1>2, <1>6, <2>2, <2>3 DEF InService
<1>7. ASSUME InService, sys2_ack(k) PROVE ~InService'
  <2>1. host'[Server].pc = "idle"
    BY <1>2, <1>7, HostNext DEF Ack
  <2>2. CASE sw2.state = "S_BUSY_B"
    BY <1>7, <2>2, Edge2 DEF InService
  <2>3. CASE sw2.state = "S_BUSY_A"
    <3>1. PICK p \in Port : sw1.state = Busy(p)
      BY <2>3 DEF AtomicInv, DmaSwitchInv
    <3>2. CASE Ending(p, k)
      BY <2>3, <3>1, <3>2, Edge2 DEF InService
    <3>3. CASE ~Ending(p, k)
      <4>1. sw1'.state = Busy(p) /\ sw2'.state = "S_BUSY_A"
        BY <2>3, <3>1, <3>3, Edge1, Edge2
      <4>2. Server' = Server
        BY <3>1, <4>1, <2>3 DEF Server
      <4> QED
        BY <2>1, <4>2 DEF InService
    <3> QED
      BY <3>2, <3>3
  <2> QED
    BY <1>2, <1>7, <2>2, <2>3 DEF InService
<1>8. InService => sys2_agent = Server /\ ~sys2_stb /\ Active(Server)
  BY Lower DEF AtomicInv, InService, Active
<1>9. \A a \in Agent : Active(a) /\ ~Ack(a, k) => host'[a].op = host[a].op /\ host'[a].addr = host[a].addr
  BY HostNext
<1> QED
  BY <1>4, <1>5, <1>6, <1>7, <1>8, <1>9

-----------------------------------------------------------------------------
(* The read-modify-write unit, the reservation station and the memory *)

(* Their registers, field by field. *)
LEMMA Units ==
  ASSUME TypeOK, NEW k, Edge(k)
  PROVE  /\ k => dev.busy
         /\ rmw'.state = CASE rmw.state = "S_IDLE" ->
                                IF sys2_stb /\ op = "amo" THEN "S_READ_WAIT" ELSE "S_IDLE"
                           [] rmw.state = "S_READ_WAIT" ->
                                IF k \/ rvs.sc_fail THEN "S_EXECUTE" ELSE "S_READ_WAIT"
                           [] rmw.state = "S_EXECUTE" -> "S_WRITE"
                           [] rmw.state = "S_WRITE" -> "S_WRITE_WAIT"
                           [] rmw.state = "S_WRITE_WAIT" ->
                                IF k \/ rvs.sc_fail THEN "S_IDLE" ELSE "S_WRITE_WAIT"
         /\ rmw'.rdata = IF rmw.state = "S_READ_WAIT" THEN amo_rdata ELSE rmw.rdata
         /\ rmw'.wdata = IF rmw.state = "S_IDLE" /\ sys2_stb /\ op = "amo" THEN DataOf[sys2_agent]
                         ELSE rmw.wdata
         /\ rmw'.alu_res = (rmw.rdata + rmw.wdata) % WordSpace
         /\ rvs'.valid <=> ~fence /\ IF amo_stb THEN op = "lr" ELSE rvs.valid
         /\ rvs'.sc_fail <=> amo_stb /\ op = "sc" /\ ~rvs.valid
         /\ rvs'.sc_pend <=> (amo_stb /\ op = "sc" /\ rvs.valid) \/ (rvs.sc_pend /\ ~k)
         /\ sys3_stb => /\ dev'.busy /\ (dev'.rw <=> amo_rw) /\ dev'.addr = addr
                        /\ dev'.data = amo_data
         /\ ~sys3_stb /\ k => ~dev'.busy
         /\ ~sys3_stb /\ ~k => dev' = dev
         /\ mem' = IF k /\ dev.rw THEN [mem EXCEPT ![dev.addr] = dev.data] ELSE mem
<1>1. /\ arbiter_comb(k) /\ sc_result(k) /\ memory(k)
  BY DEF Edge
<1>2. k => dev.busy
  BY <1>1 DEF memory
<1>3. mem' = IF k /\ dev.rw THEN [mem EXCEPT ![dev.addr] = dev.data] ELSE mem
  BY <1>1 DEF memory
<1>4. /\ rmw'.state = CASE rmw.state = "S_IDLE" ->
                             IF sys2_stb /\ op = "amo" THEN "S_READ_WAIT" ELSE "S_IDLE"
                        [] rmw.state = "S_READ_WAIT" ->
                             IF k \/ rvs.sc_fail THEN "S_EXECUTE" ELSE "S_READ_WAIT"
                        [] rmw.state = "S_EXECUTE" -> "S_WRITE"
                        [] rmw.state = "S_WRITE" -> "S_WRITE_WAIT"
                        [] rmw.state = "S_WRITE_WAIT" ->
                             IF k \/ rvs.sc_fail THEN "S_IDLE" ELSE "S_WRITE_WAIT"
      /\ rmw'.rdata = IF rmw.state = "S_READ_WAIT" THEN amo_rdata ELSE rmw.rdata
      /\ rmw'.wdata = IF rmw.state = "S_IDLE" /\ sys2_stb /\ op = "amo" THEN DataOf[sys2_agent]
                      ELSE rmw.wdata
      /\ rmw'.alu_res = (rmw.rdata + rmw.wdata) % WordSpace
  BY <1>1 DEF arbiter_comb, amo_ack, AfterRead, alu
<1>5. rvs'.valid <=> ~fence /\ IF amo_stb THEN op = "lr" ELSE rvs.valid
  BY <1>1, Zenon DEF sc_result, rvs_control
<1>6. rvs'.sc_fail <=> amo_stb /\ op = "sc" /\ ~rvs.valid
  BY <1>1, Zenon DEF sc_result
<1>7. rvs'.sc_pend <=> (amo_stb /\ op = "sc" /\ rvs.valid) \/ (rvs.sc_pend /\ ~k)
  BY <1>1, Zenon DEF sc_result
<1>8. ASSUME sys3_stb
      PROVE  dev'.busy /\ (dev'.rw <=> amo_rw) /\ dev'.addr = addr /\ dev'.data = amo_data
  <2>1. dev' = [busy |-> TRUE, rw |-> amo_rw, addr |-> addr, data |-> amo_data]
    BY <1>1, <1>8 DEF memory
  <2>2. dev'.rw <=> amo_rw
    BY <2>1, Zenon
  <2> QED
    BY <2>1, <2>2
<1>9. ASSUME ~sys3_stb PROVE (k => ~dev'.busy) /\ (~k => dev' = dev)
  BY <1>1, <1>9 DEF memory
<1> QED
  BY <1>2, <1>3, <1>4, <1>5, <1>6, <1>7, <1>8, <1>9

(* While nobody strobes and no access is under way, everything rests.      *)
LEMMA Rests ==
  ASSUME AtomicInv, NEW k, Edge(k), ~InService, ~sys2_stb
  PROVE  ~k /\ ~sys2_ack(k) /\ Quiet' /\ mem' = mem /\ (rvs'.valid => rvs.valid)
<1>1. Quiet /\ TypeOK
  BY DEF AtomicInv, ServiceInv
<1>2. ~k /\ ~amo_stb /\ ~sys3_stb
  BY <1>1, Units DEF Quiet, amo_stb, sys3_stb
<1>3. ~sys2_ack(k)
  BY <1>1, <1>2 DEF sys2_ack, amo_ack, Quiet
<1>4. /\ rmw'.state = "S_IDLE" /\ dev' = dev /\ mem' = mem
      /\ ~rvs'.sc_fail /\ ~rvs'.sc_pend /\ (rvs'.valid => rvs.valid)
  BY <1>1, <1>2, Units DEF Quiet
<1> QED
  BY <1>1, <1>2, <1>3, <1>4 DEF Quiet

(* A strobe starts an access. *)
LEMMA Starts ==
  ASSUME AtomicInv, NEW k, Edge(k), sys2_stb
  PROVE  ~sys2_ack(k) /\ ServiceInv' /\ mem' = mem /\ (rvs'.valid => op = "lr")
<1> DEFINE a == sys2_agent
<1>1. Quiet /\ TypeOK /\ a \in Agent
  BY ServiceMoves, Typed DEF AtomicInv, ServiceInv
<1>2. /\ InService' /\ Server' = a /\ ~InService
      /\ Active(a) /\ host'[a].op = op /\ host'[a].addr = addr
  <2>1. InService' /\ Server' = a /\ Active(a) /\ ~InService
    BY ServiceMoves
  <2>2. ~Ack(a, k)
    <3>1. ~sys2_ack(k)
      BY <2>1, Units, Answers, <1>1
    <3> QED
      BY <3>1 DEF Ack
  <2> QED
    BY <1>1, <2>1, <2>2, ServiceMoves DEF op, addr
<1> HIDE DEF a
<1>3. ~k /\ amo_stb /\ ~Writing /\ (sys3_stb <=> (op = "sc" => rvs.valid))
      /\ (amo_rw <=> op \in {"sw", "sc"}) /\ amo_data = DataOf[a]
  BY <1>1, Units DEF Quiet, amo_stb, sys3_stb, amo_rw, amo_data, Writing, a
<1>4. ~sys2_ack(k)
  BY <1>1, <1>3 DEF sys2_ack, amo_ack, Quiet
<1>5. op \in {"lw", "sw", "lr", "sc", "amo"}
  <2>1. host[a].op \in Ops \cup {"none"} /\ host[a].op \notin {"none", "fence"}
    BY <1>1, <1>2, Typed DEF AtomicInv, HostInv, HostState
  <2> QED
    BY <2>1 DEF op, Ops, a
<1>6. mem' = mem /\ (rvs'.valid => op = "lr")
  BY <1>1, <1>3, Units
<1>7. resv' = resv
  BY <1>4 DEF Edge, history
<1>8. CASE op \in {"lw", "lr"}
  <2>1. rmw'.state = "S_IDLE" /\ ~rvs'.sc_fail /\ ~rvs'.sc_pend
    BY <1>1, <1>3, <1>8, Units DEF Quiet
  <2>2. dev'.busy /\ ~dev'.rw /\ dev'.addr = addr
    BY <1>1, <1>3, <1>8, Units
  <2>3. LoadServed(Server)'
    BY <1>2, <1>8, <2>1, <2>2 DEF LoadServed, Reading
  <2> QED
    BY <1>2, <1>4, <1>6, <2>3 DEF ServiceInv
<1>9. CASE op = "sw"
  <2>1. rmw'.state = "S_IDLE" /\ ~rvs'.sc_fail /\ ~rvs'.sc_pend
    BY <1>1, <1>3, <1>9, Units DEF Quiet
  <2>2. dev'.busy /\ dev'.rw /\ dev'.addr = addr /\ dev'.data = DataOf[a]
    BY <1>1, <1>3, <1>9, Units
  <2>3. StoreServed(Server)'
    BY <1>2, <1>9, <2>1, <2>2 DEF StoreServed, Storing
  <2> QED
    BY <1>2, <1>4, <1>6, <2>3 DEF ServiceInv
<1>10. CASE op = "sc"
  <2>1. rmw'.state = "S_IDLE" /\ (rvs'.sc_fail <=> ~rvs.valid) /\ (rvs'.sc_pend <=> rvs.valid)
    BY <1>1, <1>3, <1>10, Units DEF Quiet
  <2>2. CASE rvs.valid
    <3>1. dev'.busy /\ dev'.rw /\ dev'.addr = addr /\ dev'.data = DataOf[a]
      BY <1>1, <1>3, <1>10, <2>2, Units
    <3>2. ASSUME OneReserver PROVE resv[a] = addr
      <4>1. a = Reserver /\ host[Reserver].op = "sc" /\ host[Reserver].addr = addr
        BY <1>1, <1>10, <3>2 DEF AtomicInv, HostInv, op, addr, a
      <4> QED
        BY <1>2, <2>2, <3>2, <4>1 DEF AtomicInv, ReservationInv
    <3>3. ConditionalServed(Server)'
      BY <1>2, <1>7, <1>10, <2>1, <2>2, <3>1, <3>2 DEF ConditionalServed, Storing
    <3> QED
      BY <1>2, <1>4, <1>6, <3>3 DEF ServiceInv
  <2>3. CASE ~rvs.valid
    <3>1. ~dev'.busy
      BY <1>1, <1>3, <1>10, <2>3, Units DEF Quiet
    <3>2. ConditionalServed(Server)'
      BY <1>2, <1>10, <2>1, <2>3, <3>1 DEF ConditionalServed
    <3> QED
      BY <1>2, <1>4, <1>6, <3>2 DEF ServiceInv
  <2> QED
    BY <2>2, <2>3
<1>11. CASE op = "amo"
  <2>1. /\ rmw'.state = "S_READ_WAIT" /\ rmw'.wdata = DataOf[a]
        /\ ~rvs'.sc_fail /\ ~rvs'.sc_pend
    BY <1>1, <1>3, <1>11, Units DEF Quiet, a
  <2>2. dev'.busy /\ ~dev'.rw /\ dev'.addr = addr
    BY <1>1, <1>3, <1>11, Units
  <2>3. AmoServed(Server)'
    BY <1>2, <1>11, <2>1, <2>2 DEF AmoServed, Reading
  <2> QED
    BY <1>2, <1>4, <1>6, <2>3 DEF ServiceInv
<1> QED
  BY <1>5, <1>8, <1>9, <1>10, <1>11

(* An access under way takes its next step, or takes effect with its answer. *)
Effects(a, x, o) ==
  /\ o \in {"lw", "lr"} => mem' = mem /\ sys2_rdata = mem[x]
  /\ o = "sw" => mem' = [mem EXCEPT ![x] = DataOf[a]]
  /\ o = "sc" => \/ rvs.sc_fail /\ mem' = mem /\ sys2_rdata = 1
                 \/ /\ ~rvs.sc_fail /\ (OneReserver => resv[a] = x) /\ sys2_rdata = 0
                    /\ mem' = [mem EXCEPT ![x] = DataOf[a]]
  /\ o = "amo" => mem' = [mem EXCEPT ![x] = SumOf(a)] /\ sys2_rdata = mem[x]

(* What the access under way does at a clock edge. *)
LEMMA Serves ==
  ASSUME AtomicInv, NEW k, Edge(k), InService
  PROVE  /\ ServiceInv' /\ (rvs'.valid => rvs.valid)
         /\ ~sys2_ack(k) => mem' = mem
         /\ sys2_ack(k) => Effects(Server, addr, op)
         /\ op = host[Server].op /\ addr = host[Server].addr
<1> DEFINE a == Server
<1>1. /\ TypeOK /\ a \in Agent /\ ~sys2_stb /\ op = host[a].op /\ addr = host[a].addr /\ Active(a)
      /\ amo_stb <=> rmw.state = "S_WRITE"
  BY ServiceMoves, Typed DEF AtomicInv, op, addr, amo_stb
<1>2. CASE sys2_ack(k) /\ LoadServed(a)
  <2>1. k /\ ~sys3_stb
    BY <1>1, <1>2 DEF sys2_ack, amo_ack, LoadServed, sys3_stb
  <2>2. /\ rmw'.state = "S_IDLE" /\ ~dev'.busy /\ mem' = mem
        /\ ~rvs'.sc_fail /\ ~rvs'.sc_pend /\ (rvs'.valid => rvs.valid)
    BY <1>1, <1>2, <2>1, Units DEF LoadServed, Reading
  <2>3. sys2_rdata = mem[addr]
    BY <1>1, <1>2 DEF sys2_rdata, amo_rdata, rdata, LoadServed, Reading
  <2>4. ServiceInv'
    BY <1>2, <2>2, ServiceMoves DEF ServiceInv, Quiet
  <2> QED
    BY <1>1, <1>2, <2>2, <2>3, <2>4 DEF Effects, LoadServed
<1>3. CASE sys2_ack(k) /\ StoreServed(a)
  <2>1. k /\ ~sys3_stb
    BY <1>1, <1>3 DEF sys2_ack, amo_ack, StoreServed, sys3_stb
  <2>2. /\ rmw'.state = "S_IDLE" /\ ~dev'.busy /\ mem' = [mem EXCEPT ![addr] = DataOf[a]]
        /\ ~rvs'.sc_fail /\ ~rvs'.sc_pend /\ (rvs'.valid => rvs.valid)
    BY <1>1, <1>3, <2>1, Units DEF StoreServed, Storing
  <2>3. ServiceInv'
    BY <1>3, <2>2, ServiceMoves DEF ServiceInv, Quiet
  <2> QED
    BY <1>1, <1>3, <2>2, <2>3 DEF Effects, StoreServed
<1>4. CASE sys2_ack(k) /\ ConditionalServed(a) /\ rvs.sc_fail
  <2>1. ~dev.busy /\ ~sys3_stb /\ ~k
    BY <1>1, <1>4, Units DEF ConditionalServed, Storing, sys3_stb
  <2>2. /\ rmw'.state = "S_IDLE" /\ ~dev'.busy /\ mem' = mem
        /\ ~rvs'.sc_fail /\ ~rvs'.sc_pend /\ (rvs'.valid => rvs.valid)
    BY <1>1, <1>4, <2>1, Units DEF ConditionalServed
  <2>3. sys2_rdata = 1
    BY <1>4 DEF sys2_rdata, amo_rdata, ConditionalServed
  <2>4. ServiceInv'
    BY <1>4, <2>2, ServiceMoves DEF ServiceInv, Quiet
  <2> QED
    BY <1>1, <1>4, <2>2, <2>3, <2>4 DEF Effects, ConditionalServed
<1>5. CASE sys2_ack(k) /\ ConditionalServed(a) /\ ~rvs.sc_fail
  <2>1. k /\ ~sys3_stb
    BY <1>1, <1>5 DEF sys2_ack, amo_ack, ConditionalServed, sys3_stb
  <2>2. /\ rmw'.state = "S_IDLE" /\ ~dev'.busy /\ mem' = [mem EXCEPT ![addr] = DataOf[a]]
        /\ ~rvs'.sc_fail /\ ~rvs'.sc_pend /\ (rvs'.valid => rvs.valid)
    BY <1>1, <1>5, <2>1, Units DEF ConditionalServed, Storing
  <2>3. sys2_rdata = 0 /\ (OneReserver => resv[a] = addr)
    BY <1>1, <1>5 DEF sys2_rdata, amo_rdata, ConditionalServed
  <2>4. ServiceInv'
    BY <1>5, <2>2, ServiceMoves DEF ServiceInv, Quiet
  <2> QED
    BY <1>1, <1>5, <2>2, <2>3, <2>4 DEF Effects, ConditionalServed
<1>6. CASE sys2_ack(k) /\ AmoServed(a)
  <2>1. rmw.state = "S_WRITE_WAIT" /\ k /\ ~sys3_stb
    BY <1>1, <1>6 DEF sys2_ack, amo_ack, AmoServed, sys3_stb
  <2>2. /\ rmw'.state = "S_IDLE" /\ ~dev'.busy /\ mem' = [mem EXCEPT ![addr] = SumOf(a)]
        /\ ~rvs'.sc_fail /\ ~rvs'.sc_pend /\ (rvs'.valid => rvs.valid)
    BY <1>1, <1>6, <2>1, Units DEF AmoServed, Storing
  <2>3. sys2_rdata = mem[addr]
    BY <1>1, <1>6, <2>1 DEF sys2_rdata, AmoServed
  <2>4. ServiceInv'
    BY <1>6, <2>2, ServiceMoves DEF ServiceInv, Quiet
  <2> QED
    BY <1>1, <1>6, <2>2, <2>3, <2>4 DEF Effects, AmoServed
<1>7. ASSUME ~sys2_ack(k)
      PROVE  /\ InService' /\ Server' = a /\ host'[a].op = op /\ host'[a].addr = addr
             /\ resv' = resv
  <2>1. InService' /\ Server' = a
    BY <1>7, ServiceMoves
  <2>2. host'[a].op = op /\ host'[a].addr = addr
    BY <1>1, <1>7, ServiceMoves DEF Ack
  <2>3. resv' = resv
    BY <1>7 DEF Edge, history
  <2> QED
    BY <2>1, <2>2, <2>3
<1>8. CASE ~sys2_ack(k) /\ LoadServed(a)
  <2>1. ~k /\ ~sys3_stb
    BY <1>1, <1>8 DEF sys2_ack, amo_ack, LoadServed, sys3_stb
  <2>2. /\ rmw'.state = "S_IDLE" /\ dev' = dev /\ mem' = mem
        /\ ~rvs'.sc_fail /\ ~rvs'.sc_pend /\ (rvs'.valid => rvs.valid)
    BY <1>1, <1>8, <2>1, Units DEF LoadServed
  <2>3. LoadServed(Server)'
    BY <1>1, <1>7, <1>8, <2>2 DEF LoadServed, Reading
  <2> QED
    BY <1>1, <1>7, <1>8, <2>2, <2>3 DEF ServiceInv
<1>9. CASE ~sys2_ack(k) /\ StoreServed(a)
  <2>1. ~k /\ ~sys3_stb
    BY <1>1, <1>9 DEF sys2_ack, amo_ack, StoreServed, sys3_stb
  <2>2. /\ rmw'.state = "S_IDLE" /\ dev' = dev /\ mem' = mem
        /\ ~rvs'.sc_fail /\ ~rvs'.sc_pend /\ (rvs'.valid => rvs.valid)
    BY <1>1, <1>9, <2>1, Units DEF StoreServed
  <2>3. StoreServed(Server)'
    BY <1>1, <1>7, <1>9, <2>2 DEF StoreServed, Storing
  <2> QED
    BY <1>1, <1>7, <1>9, <2>2, <2>3 DEF ServiceInv
<1>10. CASE ~sys2_ack(k) /\ ConditionalServed(a)
  <2>1. ~k /\ ~sys3_stb /\ ~rvs.sc_fail
    BY <1>1, <1>10 DEF sys2_ack, amo_ack, ConditionalServed, sys3_stb
  <2>2. /\ rmw'.state = "S_IDLE" /\ dev' = dev /\ mem' = mem
        /\ ~rvs'.sc_fail /\ rvs'.sc_pend /\ (rvs'.valid => rvs.valid)
    BY <1>1, <1>10, <2>1, Units DEF ConditionalServed
  <2>3. ConditionalServed(Server)'
    BY <1>1, <1>7, <1>10, <2>1, <2>2 DEF ConditionalServed, Storing
  <2> QED
    BY <1>1, <1>7, <1>10, <2>2, <2>3 DEF ServiceInv
<1>11. CASE ~sys2_ack(k) /\ AmoServed(a)
  <2>1. /\ op = "amo" /\ rmw.wdata = DataOf[a] /\ ~rvs.sc_fail /\ ~rvs.sc_pend
        /\ ~rvs'.sc_fail /\ ~rvs'.sc_pend /\ (rvs'.valid => rvs.valid)
        /\ rmw'.wdata = rmw.wdata /\ (sys3_stb <=> rmw.state = "S_WRITE")
    <3>1. op = "amo" /\ rmw.wdata = DataOf[a] /\ ~rvs.sc_fail /\ ~rvs.sc_pend
      BY <1>1, <1>11 DEF AmoServed
    <3> QED
      BY <1>1, <3>1, Units DEF sys3_stb
  <2>2. CASE rmw.state = "S_READ_WAIT" /\ ~k
    <3>1. rmw'.state = "S_READ_WAIT" /\ dev' = dev /\ mem' = mem
      BY <1>1, <2>1, <2>2, Units
    <3>2. AmoServed(Server)'
      BY <1>1, <1>7, <1>11, <2>1, <2>2, <3>1 DEF AmoServed, Reading
    <3> QED
      BY <1>1, <1>7, <1>11, <2>1, <3>1, <3>2 DEF ServiceInv
  <2>3. CASE rmw.state = "S_READ_WAIT" /\ k
    <3>1. Reading(addr)
      BY <1>1, <1>11, <2>3 DEF AmoServed
    <3>2. rmw'.state = "S_EXECUTE" /\ ~dev'.busy /\ mem' = mem /\ rmw'.rdata = mem[addr]
      BY <1>1, <2>1, <2>3, <3>1, Units DEF Reading, amo_rdata, rdata
    <3>3. AmoServed(Server)'
      BY <1>1, <1>7, <1>11, <2>1, <3>2 DEF AmoServed
    <3> QED
      BY <1>1, <1>7, <1>11, <2>1, <3>2, <3>3 DEF ServiceInv
  <2>4. CASE rmw.state = "S_EXECUTE"
    <3>1. ~dev.busy /\ rmw.rdata = mem[addr]
      BY <1>1, <1>11, <2>4 DEF AmoServed
    <3>2. /\ rmw'.state = "S_WRITE" /\ ~dev'.busy /\ mem' = mem /\ rmw'.rdata = mem[addr]
          /\ rmw'.alu_res = SumOf(a)
      BY <1>1, <2>1, <2>4, <3>1, Units DEF SumOf
    <3>3. AmoServed(Server)'
      BY <1>1, <1>7, <1>11, <2>1, <3>2 DEF AmoServed, SumOf
    <3> QED
      BY <1>1, <1>7, <1>11, <2>1, <3>2, <3>3 DEF ServiceInv
  <2>5. CASE rmw.state = "S_WRITE"
    <3>1. ~dev.busy /\ rmw.rdata = mem[addr] /\ rmw.alu_res = SumOf(a)
      BY <1>1, <1>11, <2>5 DEF AmoServed
    <3>2. amo_rw /\ amo_data = SumOf(a)
      BY <2>5, <3>1 DEF amo_rw, amo_data, Writing
    <3>3. /\ rmw'.state = "S_WRITE_WAIT" /\ dev'.busy /\ dev'.rw /\ dev'.addr = addr
          /\ dev'.data = SumOf(a) /\ mem' = mem /\ rmw'.rdata = mem[addr]
      BY <1>1, <2>1, <2>5, <3>1, <3>2, Units
    <3>4. AmoServed(Server)'
      BY <1>1, <1>7, <1>11, <2>1, <3>3 DEF AmoServed, Storing, SumOf
    <3> QED
      BY <1>1, <1>7, <1>11, <2>1, <3>3, <3>4 DEF ServiceInv
  <2>6. CASE rmw.state = "S_WRITE_WAIT"
    <3>1. ~k /\ Storing(addr, SumOf(a)) /\ rmw.rdata = mem[addr]
      BY <1>1, <1>11, <2>6 DEF AmoServed, sys2_ack, amo_ack
    <3>2. rmw'.state = "S_WRITE_WAIT" /\ dev' = dev /\ mem' = mem /\ rmw'.rdata = mem[addr]
      BY <1>1, <2>1, <2>6, <3>1, Units
    <3>3. AmoServed(Server)'
      BY <1>1, <1>7, <1>11, <2>1, <3>1, <3>2 DEF AmoServed, Storing, SumOf
    <3> QED
      BY <1>1, <1>7, <1>11, <2>1, <3>2, <3>3 DEF ServiceInv
  <2> QED
    BY <1>11, <2>2, <2>3, <2>4, <2>5, <2>6 DEF AmoServed
<1>12. LoadServed(a) \/ StoreServed(a) \/ ConditionalServed(a) \/ AmoServed(a)
  BY DEF AtomicInv, ServiceInv
<1> QED
  BY <1>2, <1>3, <1>4, <1>5, <1>6, <1>8, <1>9, <1>10, <1>11, <1>12, <1>1

(* The book-keeping for the abstract memory. *)
LEMMA History ==
  ASSUME AtomicInv, NEW k, Edge(k)
  PROVE  /\ ~sys2_ack(k) => res' = res /\ resv' = resv
         /\ sys2_ack(k) =>
              /\ res' = IF op # "sw" THEN [res EXCEPT ![Server] = sys2_rdata] ELSE res
              /\ resv' = [b \in Agent |->
                            IF b = Server THEN (IF op = "lr" THEN addr
                                                ELSE IF op = "sc" THEN NoAddr ELSE resv[b])
                            ELSE IF (op \in {"sw", "amo"} \/ (op = "sc" /\ ~rvs.sc_fail))
                                    /\ resv[b] = addr
                            THEN NoAddr ELSE resv[b]]
<1>1. ~sys2_ack(k) => res' = res /\ resv' = resv
  BY DEF Edge, history
<1>2. ASSUME sys2_ack(k)
      PROVE  /\ res' = IF op # "sw" THEN [res EXCEPT ![Server] = sys2_rdata] ELSE res
             /\ resv' = [b \in Agent |->
                           IF b = Server THEN (IF op = "lr" THEN addr
                                               ELSE IF op = "sc" THEN NoAddr ELSE resv[b])
                           ELSE IF (op \in {"sw", "amo"} \/ (op = "sc" /\ ~rvs.sc_fail))
                                   /\ resv[b] = addr
                           THEN NoAddr ELSE resv[b]]
  <2>1. Answered = Server /\ op = host[Server].op /\ addr = host[Server].addr
    BY <1>2, Answers, ServiceMoves DEF Edge, memory, op, addr
  <2> QED
    BY <1>2, <2>1 DEF Edge, history
<1> QED
  BY <1>1, <1>2

(* The station drops its bit with every access and every fence, so that it *)
(* never outlives the reservation it stands for.                           *)
LEMMA ReservationStep ==
  ASSUME AtomicInv, NEW k, Edge(k)
  PROVE  ReservationInv'
<1> SUFFICES ASSUME rvs'.valid
             PROVE  /\ InService' => host'[Server'].op = "lr"
                    /\ OneReserver /\ ~InService' /\ (host'[Reserver].op = "lr" => ~Active(Reserver)')
                         /\ host'[Reserver].op \in {"lr", "sc"} => resv'[Reserver] = host'[Reserver].addr
  BY DEF ReservationInv
<1>1. (OneReserver => Reserver \in Agent) /\ Server \in Agent /\ sys2_agent \in Agent
  BY Typed DEF AtomicInv, OneReserver, Reserver
<1>2. CASE sys2_stb
  <2>1. ~sys2_ack(k) /\ op = "lr" /\ InService' /\ Server' = sys2_agent /\ Active(sys2_agent)
    BY <1>2, Starts, ServiceMoves
  <2>2. host'[sys2_agent].op = op
    BY <1>1, <2>1, ServiceMoves DEF Ack, op
  <2> QED
    BY <2>1, <2>2
<1>3. CASE InService
  <2>1. rvs.valid /\ op = host[Server].op /\ addr = host[Server].addr
    BY <1>3, Serves
  <2>2. op = "lr" /\ (OneReserver => Server = Reserver) /\ Active(Server)
    BY <1>1, <1>3, <2>1, ServiceMoves DEF AtomicInv, ReservationInv, HostInv
  <2>3. CASE sys2_ack(k)
    <3>1. ~InService' /\ host'[Server].addr = addr /\ host'[Server].op = op
      BY <1>1, <1>3, <2>1, <2>3, ServiceMoves, HostNext DEF Ack
    <3>2. resv'[Server] = addr
      BY <1>1, <2>2, <2>3, History
    <3> QED
      BY <2>2, <3>1, <3>2
  <2>4. CASE ~sys2_ack(k)
    <3>1. InService' /\ Server' = Server
      BY <1>3, <2>4, ServiceMoves
    <3>2. host'[Server].op = op
      BY <1>1, <2>1, <2>2, <2>4, HostNext DEF Ack
    <3> QED
      BY <2>2, <3>1, <3>2
  <2> QED
    BY <2>3, <2>4
<1>4. CASE ~sys2_stb /\ ~InService
  <2>1. ~sys2_ack(k) /\ rvs.valid /\ ~InService'
    BY <1>4, Rests, ServiceMoves
  <2>2. resv' = resv
    BY <2>1, History
  <2>3. ASSUME OneReserver, host'[Reserver].op = "lr" => ~Active(Reserver)',
               host'[Reserver].op \in {"lr", "sc"}
        PROVE  /\ host[Reserver].addr = host'[Reserver].addr /\ host[Reserver].op \in {"lr", "sc"}
               /\ host[Reserver].op = "lr" => ~Active(Reserver)
    <3>1. ~Ack(Reserver, k) /\ host[Reserver].pc \in {"idle", "stb", "wait", "fence"}
      BY <1>1, <2>3, <2>1, HostNext DEF Ack, HostState
    <3>2. CASE Active(Reserver)
      <4>1. /\ host'[Reserver].pc = "wait" /\ host'[Reserver].op = host[Reserver].op
            /\ host'[Reserver].addr = host[Reserver].addr
        BY <1>1, <2>3, <3>1, <3>2, HostNext
      <4>2. Active(Reserver)'
        BY <4>1 DEF Active
      <4> QED
        BY <2>3, <4>1, <4>2
    <3>3. CASE host[Reserver].pc = "idle"
      <4>1. CASE host'[Reserver].pc = "stb"
        <5>1. Active(Reserver)'
          BY <4>1 DEF Active
        <5>2. host'[Reserver].op = "sc"
          BY <2>3, <5>1
        <5> QED
          BY <1>1, <2>3, <3>3, <4>1, <5>2, HostNext DEF Active
      <4>2. CASE host'[Reserver].pc # "stb"
        BY <1>1, <2>3, <3>3, <4>2, HostNext DEF Active
      <4> QED
        BY <4>1, <4>2
    <3>4. CASE host[Reserver].pc = "fence"
      BY <1>1, <2>3, <3>4, HostNext DEF Active
    <3> QED
      BY <3>1, <3>2, <3>3, <3>4 DEF Active
  <2> QED
    BY <1>4, <2>1, <2>2, <2>3 DEF AtomicInv, ReservationInv
<1> QED
  BY <1>2, <1>3, <1>4

(* The registers and the memory keep their ranges. *)
LEMMA TypeStep ==
  ASSUME AtomicInv, NEW k, Edge(k)
  PROVE  TypeOK'
<1>1. /\ TypeOK /\ Server \in Agent /\ sys2_agent \in Agent
      /\ op = host[sys2_agent].op /\ addr = host[sys2_agent].addr
  BY Typed DEF AtomicInv, op, addr
<1>2. 0 \in Word /\ 1 \in Word /\ \A a \in Agent : DataOf[a] \in Word
  BY BusAtomicAssumption DEF Word
<1>3. addr \in Addr
  BY <1>1 DEF TypeOK
<1>4. host' \in [Agent -> HostState]
  <2>1. \A a \in Agent : host'[a] \in HostState
    BY HostNext
  <2>2. PICK h0 \in amo_reg("h0", Acked("h0", k)), h1 \in amo_reg("h1", Acked("h1", k)),
             d \in amo_reg("dma", Acked("dma", k)) :
          host' = [a \in Agent |-> CASE a = "h0" -> h0 [] a = "h1" -> h1 [] a = "dma" -> d]
    BY DEF Edge
  <2> QED
    BY <2>1, <2>2
<1>5. sw1' \in SwitchState /\ sw2' \in SwitchState
  BY Edge1, Edge2
<1>6. amo_rdata \in Word
  BY <1>1, <1>2 DEF amo_rdata, rdata, TypeOK
<1>7. rmw' \in [state : {"S_IDLE", "S_READ_WAIT", "S_EXECUTE", "S_WRITE", "S_WRITE_WAIT"},
                rdata : Word, wdata : Word, alu_res : Word]
  <2>1. rmw.rdata \in Word /\ rmw.wdata \in Word
        /\ rmw.state \in {"S_IDLE", "S_READ_WAIT", "S_EXECUTE", "S_WRITE", "S_WRITE_WAIT"}
    BY <1>1 DEF TypeOK
  <2>2. alu \in Word
    BY <2>1, BusAtomicAssumption DEF alu, Word
  <2>3. arbiter_comb(k)
    BY DEF Edge
  <2> QED
    BY <1>1, <1>2, <1>6, <2>1, <2>2, <2>3 DEF arbiter_comb, AfterRead
<1>8. rvs' \in [valid : BOOLEAN, sc_fail : BOOLEAN, sc_pend : BOOLEAN]
  <2>1. rvs_control \in BOOLEAN
    BY <1>1 DEF rvs_control, TypeOK
  <2>2. (amo_stb /\ op = "sc" /\ ~rvs.valid) \in BOOLEAN
        /\ ((amo_stb /\ op = "sc" /\ rvs.valid) \/ (rvs.sc_pend /\ ~k)) \in BOOLEAN
    OBVIOUS
  <2> QED
    BY <2>1, <2>2, Zenon DEF Edge, sc_result
<1>9. dev' \in [busy : BOOLEAN, rw : BOOLEAN, addr : Addr, data : Word]
  <2>1. amo_rw \in BOOLEAN
    BY DEF amo_rw
  <2>2. amo_data \in Word
    BY <1>1, <1>2 DEF amo_data, TypeOK
  <2>3. dev' = [busy |-> TRUE, rw |-> amo_rw, addr |-> addr, data |-> amo_data]
        \/ dev' = [busy |-> FALSE, rw |-> FALSE, addr |-> 0, data |-> 0]
        \/ dev' = dev
    BY DEF Edge, memory
  <2>4. CASE dev' = [busy |-> TRUE, rw |-> amo_rw, addr |-> addr, data |-> amo_data]
    BY <1>3, <2>1, <2>2, <2>4, Zenon
  <2>5. CASE dev' = [busy |-> FALSE, rw |-> FALSE, addr |-> 0, data |-> 0]
    BY <1>2, <2>5, BusAtomicAssumption
  <2>6. CASE dev' = dev
    BY <1>1, <2>6 DEF TypeOK
  <2> QED
    BY <2>3, <2>4, <2>5, <2>6, Zenon
<1>10. mem' \in [Addr -> Word]
  BY <1>1 DEF Edge, memory, TypeOK
<1>11. sys2_rdata \in Word
  BY <1>1, <1>6 DEF sys2_rdata, TypeOK
<1>12. res' \in [Agent -> Word]
  BY <1>1, <1>11, History DEF TypeOK
<1>13. resv' \in [Agent -> Addr \cup {NoAddr}]
  BY <1>1, <1>3, History DEF TypeOK
<1> QED
  BY <1>4, <1>5, <1>7, <1>8, <1>9, <1>10, <1>12, <1>13 DEF TypeOK, HostState

-----------------------------------------------------------------------------
(* The invariant *)

(* The invariant holds after reset. *)
LEMMA AtomicInit ==
  Init => AtomicInv
<1> SUFFICES ASSUME Init
             PROVE  AtomicInv
  OBVIOUS
<1>1. 0 \in Word /\ 0 \in Addr
  BY BusAtomicAssumption DEF Word
<1>2. TypeOK
  <2>1. SwitchReset \in SwitchState
    BY DEF SwitchReset, SwitchState, Port
  <2> QED
    BY <1>1, <2>1 DEF Init, TypeOK
<1>3. /\ \A a \in Agent : /\ host[a].pc = "idle" /\ host[a].op = "none" /\ ~host[a].lock
                          /\ ~Active(a)
      /\ \A p \in Port : HartPort[p].pc = "idle" /\ HartPort[p].op = "none"
  BY BusyFacts DEF Init, Active, HartPort
<1>4. /\ sw1.state = "S_IDLE" /\ \A p \in Port : ~sw1.req[p]
      /\ sw2.state = "S_IDLE" /\ \A p \in Port : ~sw2.req[p] /\ ~sw2.lock[p]
  BY DEF Init, SwitchReset
<1>5. HostInv
  BY <1>3 DEF HostInv
<1>6. ArbiterInv
  <2> SUFFICES ASSUME NEW p \in Port PROVE HartPort[p].pc = "idle" /\ ~sw1.req[p] /\ sw1.state # Busy(p)
    BY DEF ArbiterInv
  <2> QED
    BY <1>3, <1>4, BusyFacts
<1>7. DmaSwitchInv
  <2>1. "dma" \in Agent /\ "A" \in Port /\ "B" \in Port
    BY DEF Agent, Port
  <2> QED
    BY <1>3, <1>4, <2>1 DEF DmaSwitchInv
<1>8. ServiceInv
  BY <1>4 DEF Init, ServiceInv, InService, Quiet
<1>9. ReservationInv
  BY DEF Init, ReservationInv
<1> QED
  BY <1>2, <1>5, <1>6, <1>7, <1>8, <1>9 DEF AtomicInv

(* Every clock edge keeps the invariant. *)
LEMMA AtomicStep ==
  ASSUME AtomicInv, [Next]_vars
  PROVE  AtomicInv'
<1>1. CASE UNCHANGED vars
  <2>1. TypeOK'
    BY <1>1 DEF vars, AtomicInv, TypeOK
  <2>2. HostInv'
    BY <1>1 DEF vars, AtomicInv, HostInv, Active
  <2>3. ArbiterInv' /\ DmaSwitchInv'
    BY <1>1 DEF vars, AtomicInv, ArbiterInv, DmaSwitchInv, HartPort, Releasing
  <2>4. Server' = Server /\ (InService' <=> InService)
    BY <1>1 DEF vars, Server, InService
  <2>5. ServiceInv'
    <3>1. Quiet' <=> Quiet
      BY <1>1 DEF vars, Quiet
    <3>2. LoadServed(Server)' <=> LoadServed(Server)
      BY <1>1, <2>4 DEF vars, LoadServed, Reading
    <3>3. StoreServed(Server)' <=> StoreServed(Server)
      BY <1>1, <2>4 DEF vars, StoreServed, Storing
    <3>4. ConditionalServed(Server)' <=> ConditionalServed(Server)
      BY <1>1, <2>4 DEF vars, ConditionalServed, Storing
    <3>5. AmoServed(Server)' <=> AmoServed(Server)
      BY <1>1, <2>4 DEF vars, AmoServed, Reading, Storing, SumOf
    <3> QED
      BY <2>4, <3>1, <3>2, <3>3, <3>4, <3>5 DEF AtomicInv, ServiceInv
  <2>6. ReservationInv'
    BY <1>1, <2>4 DEF vars, AtomicInv, ReservationInv, Active
  <2> QED
    BY <2>1, <2>2, <2>3, <2>5, <2>6 DEF AtomicInv
<1>2. ASSUME NEW k \in BOOLEAN, Edge(k)
      PROVE  AtomicInv'
  <2>1. ServiceInv'
    <3>1. CASE InService
      BY <1>2, <3>1, Serves
    <3>2. CASE sys2_stb
      BY <1>2, <3>2, Starts
    <3>3. CASE ~InService /\ ~sys2_stb
      BY <1>2, <3>3, Rests, ServiceMoves DEF ServiceInv
    <3> QED
      BY <3>1, <3>2, <3>3
  <2> QED
    BY <1>2, <2>1, TypeStep, HostStep, ArbiterStep, DmaSwitchStep, ReservationStep DEF AtomicInv
<1> QED
  BY <1>1, <1>2 DEF Next

(* The invariant holds throughout. *)
LEMMA AtomicInvariant == Spec => []AtomicInv
<1>1. Init => AtomicInv
  BY AtomicInit
<1>2. AtomicInv /\ [Next]_vars => AtomicInv'
  BY AtomicStep
<1> QED
  BY <1>1, <1>2, PTL DEF Spec

(***************************************************************************)
(* Every register of the path keeps to its range, also with two harts in   *)
(* LR/SC loops.                                                            *)
(***************************************************************************)
THEOREM AtomicTypeCorrect == Spec => []TypeOK
<1>1. AtomicInv => TypeOK
  BY DEF AtomicInv
<1> QED
  BY <1>1, AtomicInvariant, PTL

(***************************************************************************)
(* With one agent that reserves, the store-conditional that the            *)
(* reservation station lets through holds its reservation: nobody wrote    *)
(* the location since the load-reserved.                                   *)
(***************************************************************************)
THEOREM AtomicConditionalExclusive ==
  ASSUME OneReserver
  PROVE  Spec => []StoreConditionalExclusive
<1>1. ASSUME AtomicInv
      PROVE  StoreConditionalExclusive
  <2> SUFFICES ASSUME sys3_stb, op = "sc"
               PROVE  resv[sys2_agent] = addr
    BY DEF StoreConditionalExclusive
  <2>1. rvs.valid /\ amo_stb
    BY DEF sys3_stb
  <2>2. sys2_agent \in Agent /\ (InService => sys2_agent = Server)
    BY <1>1, Typed, Lower DEF AtomicInv, InService
  <2>3. ~InService
    BY <1>1, <2>1, <2>2 DEF AtomicInv, ReservationInv, op
  <2>4. sys2_stb
    BY <1>1, <2>1, <2>3 DEF AtomicInv, ServiceInv, Quiet, amo_stb
  <2>5. sys2_agent = Reserver
    BY <1>1, <2>2 DEF AtomicInv, HostInv, op
  <2> QED
    BY <1>1, <2>1, <2>3, <2>5 DEF AtomicInv, ReservationInv, op, addr
<1> QED
  BY <1>1, AtomicInvariant, PTL

-----------------------------------------------------------------------------
(* The path implements AtomicMemory *)

(* What the abstract memory sees of an agent before and after the edge. *)
LEMMA TodoFacts ==
  ASSUME AtomicInv, NEW k, Edge(k), NEW a \in Agent
  PROVE  /\ Active(a) => /\ todo[a].op = host[a].op /\ todo[a].addr = host[a].addr
                         /\ todo[a] # M!Nothing
         /\ ~Ack(a, k) => M!Post(a)
         /\ Ack(a, k) => todo'[a] = M!Nothing
<1>1. /\ Active(a) => todo[a] = [op |-> host[a].op, addr |-> host[a].addr]
      /\ ~Active(a) => todo[a] = M!Nothing
  BY DEF todo, Active, M!Nothing
<1>2. /\ Active(a)' => todo'[a] = [op |-> host'[a].op, addr |-> host'[a].addr]
      /\ ~Active(a)' => todo'[a] = M!Nothing
  BY DEF todo, Active, M!Nothing
<1>3. Active(a) => host[a].op # "none"
  BY DEF AtomicInv, HostInv
<1>4. ASSUME Active(a)
      PROVE  todo[a].op = host[a].op /\ todo[a].addr = host[a].addr /\ todo[a] # M!Nothing
  BY <1>1, <1>3, <1>4 DEF M!Nothing
<1>5. Ack(a, k) => todo'[a] = M!Nothing
  BY <1>2, HostNext DEF Active
<1>6. ASSUME ~Ack(a, k)
      PROVE  todo'[a] = todo[a] \/ (todo[a] = M!Nothing /\ todo'[a] \in MayDo[a])
  <2>1. CASE Active(a)
    <3>1. Active(a)' /\ host'[a].op = host[a].op /\ host'[a].addr = host[a].addr
      BY <1>6, <2>1, HostNext DEF Active
    <3> QED
      BY <1>1, <1>2, <2>1, <3>1
  <2>2. CASE ~Active(a)
    <3>1. host[a].pc \in {"idle", "fence"}
      BY <2>2, HostNext DEF Active, HostState
    <3>2. CASE host'[a].pc = "stb"
      <4>1. [op |-> host'[a].op, addr |-> host'[a].addr] \in MayDo[a]
        BY <3>1, <3>2, HostNext
      <4>2. Active(a)'
        BY <3>2 DEF Active
      <4> QED
        BY <1>1, <1>2, <2>2, <4>1, <4>2
    <3>3. CASE host'[a].pc # "stb"
      <4>1. ~Active(a)'
        BY <3>1, <3>3, HostNext DEF Active
      <4> QED
        BY <1>1, <1>2, <2>2, <4>1
    <3> QED
      BY <3>2, <3>3
  <2> QED
    BY <2>1, <2>2
<1>7. ~Ack(a, k) => M!Post(a)
  BY <1>6 DEF M!Post
<1> QED
  BY <1>4, <1>5, <1>7

(* The acknowledge is the moment at which the access takes effect. *)
LEMMA EffectFacts ==
  ASSUME OneReserver, AtomicInv, NEW k, Edge(k), sys2_ack(k)
  PROVE  M!Effect(Server)
<1> DEFINE a == Server
           x == addr
<1>1. /\ InService /\ a \in Agent /\ Active(a) /\ TypeOK
      /\ op = host[a].op /\ x = host[a].addr
  BY Answers, Serves, ServiceMoves, Typed DEF Edge, memory, AtomicInv
<1>2. todo[a].op = op /\ todo[a].addr = x
  BY <1>1, TodoFacts
<1>3. Effects(a, x, op)
  BY <1>1, Serves
<1>4. /\ res' = IF op # "sw" THEN [res EXCEPT ![a] = sys2_rdata] ELSE res
      /\ resv' = [b \in Agent |->
                    IF b = a THEN (IF op = "lr" THEN x ELSE IF op = "sc" THEN NoAddr ELSE resv[b])
                    ELSE IF (op \in {"sw", "amo"} \/ (op = "sc" /\ ~rvs.sc_fail)) /\ resv[b] = x
                    THEN NoAddr ELSE resv[b]]
  BY History
<1>5. op \in {"lw", "sw", "lr", "sc", "amo"}
  BY <1>1 DEF AtomicInv, HostInv, TypeOK, Ops
<1>6. resv \in [Agent -> Addr \cup {NoAddr}] /\ NoAddr = M!NoAddr /\ x \in Addr
      /\ mem \in [Addr -> Word]
  BY <1>1 DEF TypeOK, NoAddr, M!NoAddr
<1>7. SumOf(a) = M!Amo(mem[x], DataOf[a])
  BY <1>1 DEF SumOf, M!Amo
<1> HIDE DEF a, x
<1>8. CASE op = "lw"
  <2>1. M!Load(a, x)
    BY <1>1, <1>3, <1>4, <1>6, <1>8 DEF Effects, M!Load
  <2> QED
    BY <1>2, <1>8, <2>1 DEF M!Effect, a
<1>9. CASE op = "sw"
  <2>1. M!Store(a, x)
    BY <1>1, <1>3, <1>4, <1>6, <1>9 DEF Effects, M!Store, M!Reservations
  <2> QED
    BY <1>2, <1>9, <2>1 DEF M!Effect, a
<1>10. CASE op = "lr"
  <2>1. M!LoadReserved(a, x)
    BY <1>1, <1>3, <1>4, <1>6, <1>10 DEF Effects, M!LoadReserved
  <2> QED
    BY <1>2, <1>10, <2>1 DEF M!Effect, a
<1>11. CASE op = "sc"
  <2>1. M!StoreConditional(a, x)
    BY <1>1, <1>3, <1>4, <1>6, <1>11 DEF Effects, M!StoreConditional, M!Reservations
  <2> QED
    BY <1>2, <1>11, <2>1 DEF M!Effect, a
<1>12. CASE op = "amo"
  <2>1. M!ReadModifyWrite(a, x)
    BY <1>1, <1>3, <1>4, <1>6, <1>7, <1>12 DEF Effects, M!ReadModifyWrite, M!Reservations
  <2> QED
    BY <1>2, <1>12, <2>1 DEF M!Effect, a
<1> QED
  BY <1>5, <1>8, <1>9, <1>10, <1>11, <1>12

(* Every clock edge is a step of the abstract memory or a stutter. *)
LEMMA EdgeMaps ==
  ASSUME OneReserver, AtomicInv, NEW k, Edge(k)
  PROVE  M!Next
<1>1. CASE sys2_ack(k)
  <2>1. Server \in Agent /\ Active(Server) /\ InService
    BY <1>1, Answers, ServiceMoves, Typed DEF Edge, memory, AtomicInv
  <2>2. todo[Server] # M!Nothing /\ todo'[Server] = M!Nothing
    BY <1>1, <2>1, TodoFacts DEF Ack
  <2>3. \A b \in Agent \ {Server} : M!Post(b)
    BY <1>1, TodoFacts DEF Ack
  <2>4. M!Step(Server)
    BY <1>1, <2>1, <2>2, <2>3, EffectFacts DEF M!Step
  <2> QED
    BY <2>1, <2>4 DEF M!Next
<1>2. CASE ~sys2_ack(k)
  <2>1. mem' = mem
    BY <1>2, Serves, Starts, Rests
  <2>2. res' = res /\ resv' = resv
    BY <1>2, History
  <2>3. \A b \in Agent : M!Post(b)
    BY <1>2, TodoFacts DEF Ack
  <2> QED
    BY <2>1, <2>2, <2>3 DEF M!Next, M!Quiet
<1> QED
  BY <1>1, <1>2

(***************************************************************************)
(* The path of the two harts and the DMA through both arbiters, the        *)
(* read-modify-write unit and the reservation station implements the       *)
(* atomic memory: loads, stores, LR/SC and AMOs of all agents take effect  *)
(* one after the other, each as a whole.                                   *)
(* (AtomicMemory promises an exclusive store-conditional, hence the         *)
(* hypothesis; it holds in particular if no agent uses reservations.)      *)
(***************************************************************************)
THEOREM AtomicRefinement ==
  ASSUME OneReserver
  PROVE  Spec => Atomic
<1>1. Init => M!Init
  BY DEF Init, M!Init, todo, M!Nothing, M!NoAddr, NoAddr
<1>2. AtomicInv /\ [Next]_vars => [M!Next]_<<mem, todo, res, resv>>
  <2> SUFFICES ASSUME AtomicInv, [Next]_vars
               PROVE  [M!Next]_<<mem, todo, res, resv>>
    OBVIOUS
  <2>1. CASE UNCHANGED vars
    BY <2>1 DEF vars, todo
  <2>2. CASE Next
    BY <2>2, EdgeMaps DEF Next
  <2> QED
    BY <2>1, <2>2
<1> QED
  BY <1>1, <1>2, AtomicInvariant, PTL DEF Spec, Atomic, M!Spec
=============================================================================
