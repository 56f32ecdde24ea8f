----------------------------- MODULE BusSwitch -----------------------------
(***************************************************************************)
(* neorv32_bus_switch, rtl/core/neorv32_bus.vhd: two host ports A and B    *)
(* share one device port.  A locked sequence of accesses keeps the grant   *)
(* until the host drops "lock"; a single access keeps it until "ack".      *)
(*                                                                         *)
(* The switch is defined as functions of its register state "s" and of its *)
(* inputs (port -> strobe, port -> lock, acknowledge), to be used wherever *)
(* the processor has a switch.                                             *)
(***************************************************************************)
Port == {"A", "B"}
Other(p) == IF p = "A" THEN "B" ELSE "A"

(* The registers. *)
SwitchState ==
  [state : {"S_IDLE", "S_BUSY_A", "S_BUSY_B"},  \* arbiter
   req   : [Port -> BOOLEAN],                   \* a_req, b_req: latched requests
   sel_q : Port,                                \* port selected in the last cycle
   lock  : [Port -> BOOLEAN]]                   \* lock inputs at the grant

SwitchReset ==
  [state |-> "S_IDLE", req |-> [p \in Port |-> FALSE], sel_q |-> "A",
   lock |-> [p \in Port |-> FALSE]]

Busy(p) == IF p = "A" THEN "S_BUSY_A" ELSE "S_BUSY_B"

(* Port p asks for the bus, now or since an earlier cycle. *)
Wants(s, stb, p) == stb[p] \/ s.req[p]

(* The port an idle arbiter looks at first. *)
First_A(s, roundRobin) == "A"  \* mutant: no round robin

First(s, roundRobin) == IF s.sel_q = "B" \/ ~roundRobin THEN "A" ELSE "B"

Grants(s, stb, roundRobin, p) ==
  /\ s.state = "S_IDLE"
  /\ Wants(s, stb, p)
  /\ p = First(s, roundRobin) \/ ~Wants(s, stb, Other(p))

(* Selected port (A unless B is served) and request strobe. *)
sel(s, stb, roundRobin) ==
  IF s.state = "S_BUSY_B" \/ Grants(s, stb, roundRobin, "B") THEN "B" ELSE "A"

x_stb(s, stb, roundRobin) ==
  \/ \E p \in Port : Grants(s, stb, roundRobin, p)
  \/ \E p \in Port : s.state = Busy(p) /\ stb[p]

(* The access of port p ends in this cycle. *)
Ends_AckOnly(s, lock, ack, p) == ack                   \* mutant: lock is ignored

Ends(s, lock, ack, p) == IF s.lock[p] THEN ~lock[p] ELSE ack

(* Latched requests: cleared as soon as their port is served. *)
req_NoLatch(s, stb) == [p \in Port |-> FALSE]             \* mutant

req(s, stb) == [p \in Port |-> s.state # Busy(p) /\ (s.req[p] \/ stb[p])]

(* arbiter_fsm and arbiter_sync: the registers after the clock edge. *)
SwitchNext(s, stb, lock, ack, roundRobin) ==
  [state |-> IF s.state = "S_IDLE"
             THEN IF x_stb(s, stb, roundRobin) THEN Busy(sel(s, stb, roundRobin)) ELSE "S_IDLE"
             ELSE IF \E p \in Port : s.state = Busy(p) /\ Ends(s, lock, ack, p)
                  THEN "S_IDLE" ELSE s.state,
   req   |-> req(s, stb),
   sel_q |-> sel(s, stb, roundRobin),
   lock  |-> IF s.state = "S_IDLE" THEN lock ELSE s.lock]

(* Response switch: the port that sees the device's answer. *)
RspTo_A(s) == "A"  \* mutant: port B gets no answers

RspTo(s) == s.sel_q

=============================================================================
