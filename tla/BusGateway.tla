----------------------------- MODULE BusGateway -----------------------------
(***************************************************************************)
(* The address region gateway with its bus monitor ("the keeper") of       *)
(* rtl/core/neorv32_bus.vhd, and the external bus interface                *)
(* rtl/core/neorv32_xbus.vhd (without register stage) behind it.           *)
(*                                                                         *)
(* The host performs single accesses and locked sequences, as in BusPorts. *)
(* It addresses an internal device that always answers ("int"), an address *)
(* nobody answers for ("hole"), or the external bus ("ext").  An external  *)
(* device answers when it likes up to MaxLatency cycles after the strobe,  *)
(* or never; it gives up when the bus cycle ends or a new strobe arrives.  *)
(***************************************************************************)
EXTENDS Naturals

CONSTANTS
  TMO_INT, TMO_EXT,  \* time-out windows in cycles, powers of two (0 = disabled)
  IntLatency,        \* cycles an internal device takes at most
  MaxLatency,        \* latest cycle in which an external device answers
  DeadlineAnswer,    \* it may answer in the very cycle the window ends
  MaxSequence           \* bound: accesses of a locked sequence

ASSUME GatewayAssumption ==
  /\ TMO_INT \in Nat /\ TMO_EXT \in Nat
  /\ IntLatency \in Nat \ {0} /\ MaxLatency \in Nat \ {0} /\ MaxSequence \in Nat \ {0}
  /\ DeadlineAnswer \in BOOLEAN

VARIABLES
  master,  \* the host: pc, lock, accesses left in the sequence, target
  keeper,  \* bus monitor
  pending, locked,  \* arbiter of the external bus interface
  intdev,  \* cycles since the strobe to the internal device, 0 if idle
  extdev   \* cycles since the strobe to the external device, 0 if idle

gatewayVars == <<master, keeper, pending, locked, intdev, extdev>>

Target == {"int", "hole", "ext"}
CntSpace == 2 * (TMO_INT + TMO_EXT + 1)  \* the counter is wide enough for both

-----------------------------------------------------------------------------
stb == master.pc = "stb"
port_sel(t) == master.target = t

(* Answers: those of the devices, gated by the external bus interface, and *)
(* the error response of the keeper.                                       *)
int_rsp_ack(i, x) == i \/ (pending /\ x)
keeper_err == keeper.state = "11"
rsp_ack(i, x) == int_rsp_ack(i, x) \/ keeper_err

Timeout_ExtOnly ==  \* mutant: no time-out for internal accesses
  keeper.ext /\ TMO_EXT > 0 /\ keeper.cnt = TMO_EXT

Timeout ==
  \/ ~keeper.ext /\ TMO_INT > 0 /\ keeper.cnt = TMO_INT
  \/ keeper.ext /\ TMO_EXT > 0 /\ keeper.cnt = TMO_EXT

(* The watched access or locked sequence is over. *)
AccessEnds_LockOnly(i, x) == ~master.lock  \* mutant: the acknowledge is not awaited

AccessEnds(i, x) == IF keeper.lock THEN ~master.lock ELSE int_rsp_ack(i, x)

(* Time-out counter, restarted by each element of a sequence. *)
cnt_NoRestart(i, x) == (keeper.cnt + 1) % CntSpace  \* mutant: runs on during a sequence

cnt(i, x) == IF int_rsp_ack(i, x) THEN 0 ELSE (keeper.cnt + 1) % CntSpace

(* The time-out is tested before the end of the access.  After it, every   *)
(* access is answered with an error until the locked sequence ends.        *)
bus_monitor(i, x) ==
  keeper' = CASE keeper.state = "00" ->
                   [state |-> IF stb THEN "01" ELSE "00", lock |-> master.lock,
                    ext |-> port_sel("ext"), cnt |-> 0]
              [] keeper.state = "01" ->
                   [state |-> IF Timeout THEN "11"
                              ELSE IF AccessEnds(i, x) THEN "00" ELSE "01",
                    lock |-> keeper.lock, ext |-> keeper.ext, cnt |-> cnt(i, x)]
              [] OTHER ->
                   [keeper EXCEPT !.state = IF keeper.lock /\ master.lock THEN @ ELSE "00"]

(* Arbiter of the external bus interface; the keeper terminates it. *)
arbiter_NoTerm(x) ==  \* mutant: a single access ignores the termination
  IF ~pending
  THEN /\ pending' = (stb /\ port_sel("ext"))
       /\ locked' = (stb /\ port_sel("ext") /\ master.lock)
  ELSE /\ pending' = IF locked THEN ~keeper_err /\ master.lock ELSE ~x
       /\ UNCHANGED locked

arbiter(x) ==
  IF ~pending
  THEN /\ pending' = (stb /\ port_sel("ext"))
       /\ locked' = (stb /\ port_sel("ext") /\ master.lock)
  ELSE /\ pending' = IF locked THEN ~keeper_err /\ master.lock ELSE ~keeper_err /\ ~x
       /\ UNCHANGED locked

xbus_cyc == pending \/ (stb /\ port_sel("ext"))

-----------------------------------------------------------------------------
GatewayInit ==
  /\ master = [pc |-> "idle", lock |-> FALSE, left |-> 0, target |-> "int"]
  /\ keeper = [state |-> "00", lock |-> FALSE, ext |-> FALSE, cnt |-> 0]
  /\ pending = FALSE
  /\ locked = FALSE
  /\ intdev = 0
  /\ extdev = 0

(* The states the host can be in after the edge. *)
HostNext(ack) ==
  LET rest == {[pc |-> "idle", lock |-> FALSE, left |-> 0, target |-> master.target]}
      single == {[pc |-> "stb", lock |-> FALSE, left |-> 0, target |-> t] : t \in Target}
      sequence == {[pc |-> "stb", lock |-> TRUE, left |-> n, target |-> t] :
                     n \in 0 .. MaxSequence - 1, t \in Target}
      again == IF master.left = 0 THEN {}
               ELSE {[pc |-> "stb", lock |-> master.lock, left |-> master.left - 1,
                      target |-> master.target]}
  IN  CASE master.pc = "idle" -> rest \cup single \cup sequence
        [] master.pc = "stb"  -> {[master EXCEPT !.pc = "wait"]}
        [] master.pc = "wait" /\ ~ack -> {master}
        [] master.pc = "wait" /\ ack /\ ~master.lock -> rest \cup single \cup sequence
        [] master.pc = "wait" /\ ack /\ master.lock ->
             rest \cup again \cup {[master EXCEPT !.pc = "hold"]}
        [] master.pc = "hold" -> rest \cup again

(* An internal device answers within IntLatency cycles. *)
IntDevice(i) ==
  /\ i => intdev > 0
  /\ intdev = IntLatency => i
  /\ intdev' = IF stb /\ port_sel("int") THEN 1
               ELSE IF intdev = 0 \/ i THEN 0 ELSE intdev + 1

ExtDevice(x) ==
  /\ x => extdev > 0 /\ (Timeout => DeadlineAnswer)
  /\ extdev' = IF stb /\ port_sel("ext") THEN 1
               ELSE IF extdev = 0 \/ x \/ ~xbus_cyc \/ extdev = MaxLatency THEN 0
               ELSE extdev + 1

GatewayEdge(i, x) ==
  /\ IntDevice(i)
  /\ ExtDevice(x)
  /\ arbiter(x)
  /\ bus_monitor(i, x)
  /\ master' \in HostNext(rsp_ack(i, x))

GatewayNext == \E i, x \in BOOLEAN : GatewayEdge(i, x)

(* Only the clock is fair: nothing is assumed about the devices. *)
GatewaySpec == GatewayInit /\ [][GatewayNext]_gatewayVars /\ WF_gatewayVars(GatewayNext)

-----------------------------------------------------------------------------
(* Type invariant. *)
GatewayTypeOK ==
  /\ master \in [pc : {"idle", "stb", "wait", "hold"}, lock : BOOLEAN,
               left : 0 .. MaxSequence, target : Target]
  /\ keeper \in [state : {"00", "01", "11"}, lock : BOOLEAN, ext : BOOLEAN,
                 cnt : 0 .. CntSpace - 1]
  /\ pending \in BOOLEAN /\ locked \in BOOLEAN
  /\ intdev \in 0 .. IntLatency
  /\ extdev \in 0 .. MaxLatency

(***************************************************************************)
(* "For each single access the bus monitor starts an internal countdown":  *)
(* a waiting host is always watched by the keeper.                         *)
(***************************************************************************)
EveryAccessTracked == master.pc = "wait" => keeper.state # "00"

(***************************************************************************)
(* No access hangs, and no locked sequence does, although devices may fail *)
(* to answer: the host's wait ends.                                        *)
(***************************************************************************)
AccessTerminates == master.pc = "wait" ~> master.pc # "wait"

(***************************************************************************)
(* An error response of the keeper is for an access that really got no     *)
(* answer: the internal device, which answers in time, never finds its     *)
(* access failed, be it the last one of a long locked sequence, and after  *)
(* a single access no error is sent to a host that does not wait for it.   *)
(***************************************************************************)
ErrorMeansNoAnswer ==
  keeper_err => master.target # "int" /\ (~keeper.lock => master.pc = "wait")

(***************************************************************************)
(* The external bus interface follows the keeper: when the host is at rest *)
(* no external cycle is left open, and an external device can only answer  *)
(* the access the host is waiting for.                                     *)
(***************************************************************************)
ExternalCycleClosed ==
  pending => \/ master.pc = "wait" /\ master.target = "ext"
             \/ master.lock
             \/ locked /\ master.pc = "idle"

=============================================================================
