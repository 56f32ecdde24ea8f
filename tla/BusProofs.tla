----------------------------- MODULE BusProofs ------------------------------
(***************************************************************************)
(* The safety properties of the components of the bus: the bus switch, for *)
(* both arbitration schemes and locked sequences of every length; the bus  *)
(* gateway with its monitor and the external bus interface, for time-out   *)
(* windows, device latencies and locked sequences of every length; and the *)
(* byte lanes of the transfers of the DMA controller, for memories of      *)
(* every size and transfers of every length.                               *)
(*                                                                         *)
(* Of the switch, the inductive invariant ties the arbiter's state to what *)
(* its two hosts and the device are doing; of the gateway it says where    *)
(* the host can be in each state of the keeper and how far the countdown   *)
(* can have gone by then; of a transfer, which bytes it has written.       *)
(***************************************************************************)
EXTENDS BusPorts, BusGateway, DmaLanes, TLAPS

-----------------------------------------------------------------------------
(* The bus switch *)

(* What holds of one port. *)
PortInv(p) ==
  /\ host[p] = "idle" => ~lock[p]
  /\ host[p] = "hold" => lock[p]
  /\ switch.req[p] => host[p] = "wait"
  /\ host[p] = "wait" => device = p \/ switch.req[p]
  /\ device = p => switch.state = Busy(p) /\ host[p] = "wait"
  /\ switch.state = Busy(p) =>
       /\ switch.sel_q = p
       /\ host[p] = "wait" => device = p
       /\ ~switch.lock[p] => host[p] = "wait" /\ ~lock[p]
       /\ switch.lock[p] /\ ~lock[p] => host[p] = "idle"
  /\ owner = p /\ lock[p] => switch.state = Busy(p) /\ switch.lock[p]

IInv == TypeOK /\ \A p \in Port : PortInv(p)

-----------------------------------------------------------------------------
(* The arbiter always points to one of its ports. *)
LEMMA SelType ==
  ASSUME NEW s, NEW stbs, NEW r PROVE sel(s, stbs, r) \in Port
BY DEF sel, Port

(* The registers of the switch stay in their ranges. *)
LEMMA SwitchType ==
  ASSUME NEW s \in SwitchState, NEW stbs \in [Port -> BOOLEAN], NEW l \in [Port -> BOOLEAN],
         NEW ack \in BOOLEAN, NEW r \in BOOLEAN
  PROVE  SwitchNext(s, stbs, l, ack, r) \in SwitchState
<1> DEFINE n == SwitchNext(s, stbs, l, ack, r)
<1>1. (IF s.state = "S_IDLE"
       THEN IF x_stb(s, stbs, r) THEN Busy(sel(s, stbs, r)) ELSE "S_IDLE"
       ELSE IF \E p \in Port : s.state = Busy(p) /\ Ends(s, l, ack, p) THEN "S_IDLE" ELSE s.state)
      \in {"S_IDLE", "S_BUSY_A", "S_BUSY_B"}
  BY SMT DEF SwitchState, Busy
<1>2. req(s, stbs) \in [Port -> BOOLEAN]
  BY DEF req
<1>3. sel(s, stbs, r) \in Port
  BY SelType
<1>4. (IF s.state = "S_IDLE" THEN l ELSE s.lock) \in [Port -> BOOLEAN]
  BY DEF SwitchState
<1> QED
  BY <1>1, <1>2, <1>3, <1>4 DEF SwitchNext, SwitchState

(* Type correctness. *)
LEMMA TypeStep == TypeOK /\ [Next]_vars => TypeOK'
<1> SUFFICES ASSUME TypeOK, [Next]_vars PROVE TypeOK'
  OBVIOUS
<1>1. CASE UNCHANGED vars
  BY <1>1 DEF TypeOK, vars
<1>2. CASE Next
  <2>1. PICK ack \in BOOLEAN : Edge(ack)
    BY <1>2 DEF Next
  <2>2. Strobe \in [Port -> BOOLEAN]
    BY DEF Strobe
  <2>3. switch' \in SwitchState
    BY <2>1, <2>2, SwitchType, PortsAssumption DEF Edge, TypeOK
  <2>4. Selected \in Port
    BY SelType DEF Selected
  <2>5. device' \in Port \cup {"none"}
    BY <2>1, <2>4 DEF Edge, DeviceStep, TypeOK
  <2>6. owner' \in Port \cup {"none"}
    BY <2>1, <2>4 DEF Edge, OwnerStep, TypeOK
  <2>7. host' \in [Port -> HostState] /\ lock' \in [Port -> BOOLEAN] /\ left' \in [Port -> 0 .. MaxBurst]
    BY <2>1 DEF Edge
  <2> QED
    BY <2>3, <2>5, <2>6, <2>7 DEF TypeOK
<1> QED
  BY <1>1, <1>2 DEF Next

(* The types hold after reset. *)
LEMMA TypeInit == Init => TypeOK
BY PortsAssumption DEF Init, TypeOK, SwitchReset, SwitchState, HostState, Port

(***************************************************************************)
(* Type correctness of the switch and of its hosts.                        *)
(***************************************************************************)
THEOREM TypeCorrect == Spec => []TypeOK
<1>1. Init => TypeOK
  BY TypeInit
<1>2. TypeOK /\ [Next]_vars => TypeOK'
  BY TypeStep
<1> QED
  BY <1>1, <1>2, PTL DEF Spec

-----------------------------------------------------------------------------
(* A host leaves "stb" for "wait", leaves "wait" only with an acknowledge, *)
(* and drops lock only together with going idle.                           *)
LEMMA HostFacts ==
  ASSUME NEW p \in Port, NEW a \in BOOLEAN, TypeOK, TypeOK', HostStep(p, a)
  PROVE  /\ host[p] = "stb" => host'[p] = "wait" /\ lock'[p] = lock[p]
         /\ host[p] = "wait" /\ ~a => host'[p] = "wait" /\ lock'[p] = lock[p]
         /\ host[p] # "stb" /\ (host[p] = "wait" => a) => host'[p] # "wait"
         /\ host'[p] = "idle" => ~lock'[p]
         /\ host'[p] = "hold" => lock'[p]
         /\ host[p] # "idle" /\ lock[p] => lock'[p] \/ host'[p] = "idle"
<1>1. host[p] \in HostState
  BY DEF TypeOK
<1>2. CASE host[p] = "idle"
  BY <1>2 DEF HostStep
<1>3. CASE host[p] = "stb"
  BY <1>3 DEF HostStep
<1>4. CASE host[p] = "wait" /\ ~a
  BY <1>4 DEF HostStep
<1>5. CASE host[p] = "wait" /\ a /\ ~lock[p]
  BY <1>5 DEF HostStep
<1>6. CASE host[p] = "wait" /\ a /\ lock[p]
  BY <1>6 DEF HostStep
<1>7. CASE host[p] = "hold"
  BY <1>7 DEF HostStep
<1> QED
  BY <1>1, <1>2, <1>3, <1>4, <1>5, <1>6, <1>7 DEF HostState

(* The arbiter at one clock edge, seen from port p. *)
LEMMA SwitchFacts ==
  ASSUME NEW s \in SwitchState, NEW stbs \in [Port -> BOOLEAN], NEW l \in [Port -> BOOLEAN],
         NEW ack \in BOOLEAN, NEW r \in BOOLEAN, NEW p \in Port
  PROVE  LET n == SwitchNext(s, stbs, l, ack, r) IN
         /\ s.state = Busy(p) =>
              /\ sel(s, stbs, r) = p
              /\ x_stb(s, stbs, r) <=> stbs[p]
              /\ n.state = IF Ends(s, l, ack, p) THEN "S_IDLE" ELSE Busy(p)
              /\ n.lock = s.lock
         /\ s.state = "S_IDLE" =>
              /\ x_stb(s, stbs, r) <=> \E q \in Port : Wants(s, stbs, q)
              /\ x_stb(s, stbs, r) => Wants(s, stbs, sel(s, stbs, r))
              /\ n.state = IF x_stb(s, stbs, r) THEN Busy(sel(s, stbs, r)) ELSE "S_IDLE"
              /\ n.lock = l
         /\ n.sel_q = sel(s, stbs, r)
         /\ n.req[p] <=> s.state # Busy(p) /\ (s.req[p] \/ stbs[p])
<1>1. CASE s.state = "S_IDLE"
  BY <1>1 DEF SwitchNext, SwitchState, Port, Busy, sel, x_stb, Grants, First, Wants, Other, req
<1>2. CASE s.state = "S_BUSY_A"
  BY <1>2 DEF SwitchNext, SwitchState, Port, Busy, sel, x_stb, Grants, First, Wants, Other, req
<1>3. CASE s.state = "S_BUSY_B"
  BY <1>3 DEF SwitchNext, SwitchState, Port, Busy, sel, x_stb, Grants, First, Wants, Other, req
<1> QED
  BY <1>1, <1>2, <1>3 DEF SwitchState

(* Busy states and ports correspond. *)
LEMMA BusyFacts ==
  /\ \A p, q \in Port : Busy(p) = Busy(q) => p = q
  /\ \A p \in Port : Busy(p) # "S_IDLE" /\ Other(p) \in Port /\ Other(p) # p
  /\ \A p, q \in Port : q = p \/ q = Other(p)
  /\ \A s \in SwitchState : s.state = "S_IDLE" \/ \E p \in Port : s.state = Busy(p)
  /\ "none" \notin Port
BY DEF Busy, Port, Other, SwitchState

(* The invariant holds after reset. *)
LEMMA InvInit == Init => IInv
<1> SUFFICES ASSUME Init PROVE IInv
  OBVIOUS
<1>1. ASSUME NEW p \in Port PROVE PortInv(p)
  BY BusyFacts DEF Init, PortInv, SwitchReset
<1> QED
  BY <1>1, TypeInit DEF IInv

(***************************************************************************)
(* The step of the inductive invariant.  While a port is served the other  *)
(* one can only be idle, strobing or latched; while nobody is served the   *)
(* device is at rest and every waiting host is latched.                    *)
(***************************************************************************)
LEMMA InvStep == IInv /\ [Next]_vars => IInv'
<1> SUFFICES ASSUME IInv, [Next]_vars PROVE IInv'
  OBVIOUS
<1>0. TypeOK /\ TypeOK'
  BY TypeStep DEF IInv
<1>1. CASE UNCHANGED vars
  BY <1>1 DEF IInv, TypeOK, PortInv, vars
<1>2. CASE Next
  <2>1. PICK ack \in BOOLEAN : Edge(ack)
    BY <1>2 DEF Next
  <2> SUFFICES ASSUME NEW p \in Port PROVE PortInv(p)'
    BY <1>0 DEF IInv
  <2>2. Strobe \in [Port -> BOOLEAN] /\ \A q \in Port : Strobe[q] <=> host[q] = "stb"
    BY DEF Strobe
  <2>3. ack => device # "none"
    BY <2>1 DEF Edge, DeviceStep
  <2>4. \A q \in Port : HostStep(q, ack /\ switch.sel_q = q)
    BY <2>1 DEF Edge, RspTo
  <2>5. \A q \in Port : PortInv(q)
    BY DEF IInv
  <2>6. switch \in SwitchState /\ lock \in [Port -> BOOLEAN] /\ ROUND_ROBIN_EN \in BOOLEAN
        /\ device \in Port \cup {"none"} /\ owner \in Port \cup {"none"}
    BY <1>0, PortsAssumption DEF TypeOK
  <2>7. switch' = SwitchNext(switch, Strobe, lock, ack, ROUND_ROBIN_EN)
    BY <2>1 DEF Edge
  <2>8. device' = IF Forwarded THEN Selected ELSE IF ack THEN "none" ELSE device
    BY <2>1 DEF Edge, DeviceStep
  <2>9. owner' = IF Forwarded /\ lock[Selected] THEN Selected
                 ELSE IF owner # "none" /\ ~lock[owner] THEN "none" ELSE owner
    BY <2>1 DEF Edge, OwnerStep
  <2>10. ASSUME NEW q \in Port, NEW a \in BOOLEAN, a <=> ack /\ switch.sel_q = q
         PROVE  /\ host[q] = "stb" => host'[q] = "wait" /\ lock'[q] = lock[q]
                /\ host[q] = "wait" /\ ~a => host'[q] = "wait" /\ lock'[q] = lock[q]
                /\ host[q] # "stb" /\ (host[q] = "wait" => a) => host'[q] # "wait"
                /\ host'[q] = "idle" => ~lock'[q]
                /\ host'[q] = "hold" => lock'[q]
                /\ host[q] # "idle" /\ lock[q] => lock'[q] \/ host'[q] = "idle"
    <3>1. HostStep(q, a)
      BY <2>4, <2>10
    <3> QED
      BY <3>1, <1>0, HostFacts
  <2>11. CASE switch.state = "S_IDLE"
    <3>1. device = "none" /\ ack = FALSE
      BY <2>3, <2>5, <2>6, <2>11, BusyFacts DEF PortInv
    <3>2. /\ Forwarded <=> \E q \in Port : Wants(switch, Strobe, q)
          /\ Forwarded => Wants(switch, Strobe, Selected)
          /\ switch'.state = IF Forwarded THEN Busy(Selected) ELSE "S_IDLE"
          /\ switch'.lock = lock
          /\ switch'.sel_q = Selected
          /\ switch'.req[p] <=> switch.req[p] \/ Strobe[p]
      <4>1. /\ Forwarded <=> \E q \in Port : Wants(switch, Strobe, q)
            /\ Forwarded => Wants(switch, Strobe, Selected)
            /\ switch'.state = IF Forwarded THEN Busy(Selected) ELSE "S_IDLE"
            /\ switch'.lock = lock
        BY <2>2, <2>6, <2>7, <2>11, SwitchFacts DEF Forwarded, Selected
      <4>2. switch'.sel_q = Selected
        BY <2>7 DEF SwitchNext, Selected
      <4>3. switch'.req[p] <=> switch.state # Busy(p) /\ (switch.req[p] \/ Strobe[p])
        BY <2>2, <2>6, <2>7, SwitchFacts
      <4> QED
        BY <4>1, <4>2, <4>3, <2>11, BusyFacts
    <3>3. Selected \in Port
      BY SelType DEF Selected
    <3>4. /\ host[p] = "stb" => host'[p] = "wait" /\ lock'[p] = lock[p]
          /\ host[p] = "wait" => host'[p] = "wait" /\ lock'[p] = lock[p]
          /\ host[p] \notin {"stb", "wait"} => host'[p] # "wait"
          /\ host'[p] = "idle" => ~lock'[p]
          /\ host'[p] = "hold" => lock'[p]
      BY <2>10, <3>1
    <3>5. Forwarded /\ Selected = p => host[p] \in {"stb", "wait"}
      BY <3>2, <2>2, <2>5 DEF Wants, PortInv
    <3>6. owner = p => ~lock[p]
      BY <2>5, <2>11, BusyFacts DEF PortInv
    <3> QED
      BY <3>1, <3>2, <3>3, <3>4, <3>5, <3>6, <2>2, <2>5, <2>8, <2>9, <2>11, BusyFacts DEF PortInv
  <2>12. ASSUME NEW b \in Port, switch.state = Busy(b) PROVE PortInv(p)'
    <3>1. /\ Selected = b
          /\ Forwarded <=> host[b] = "stb"
          /\ switch'.state = IF Ends(switch, lock, ack, b) THEN "S_IDLE" ELSE Busy(b)
          /\ switch'.lock = switch.lock
          /\ switch'.sel_q = b
      BY <2>2, <2>6, <2>7, <2>12, SwitchFacts DEF Forwarded, Selected
    <3>2. switch'.req[p] <=> p # b /\ (switch.req[p] \/ host[p] = "stb")
      BY <2>2, <2>6, <2>7, <2>12, SwitchFacts, BusyFacts
    <3>3. switch.sel_q = b /\ device \in {b, "none"} /\ (device = b <=> host[b] = "wait")
      BY <2>5, <2>6, <2>12, BusyFacts DEF PortInv
    <3>4. CASE p = b
      <4>1. /\ host[p] = "stb" => host'[p] = "wait" /\ lock'[p] = lock[p]
            /\ host[p] = "wait" /\ ~ack => host'[p] = "wait" /\ lock'[p] = lock[p]
            /\ host[p] # "stb" /\ (host[p] = "wait" => ack) => host'[p] # "wait"
            /\ host'[p] = "idle" => ~lock'[p]
            /\ host'[p] = "hold" => lock'[p]
            /\ host[p] # "idle" /\ lock[p] => lock'[p] \/ host'[p] = "idle"
        BY <2>10, <3>3, <3>4
      <4>2. Ends(switch, lock, ack, p) <=> IF switch.lock[p] THEN ~lock[p] ELSE ack
        BY DEF Ends
      <4>3. device' = p <=> host'[p] = "wait"
        BY <2>3, <2>8, <3>1, <3>3, <3>4, <4>1, BusyFacts
      <4>4. owner' = p /\ lock'[p] => lock[p] /\ switch.lock[p]
        BY <2>5, <2>9, <2>12, <3>1, <3>4, <4>1, BusyFacts DEF PortInv
      <4>5. host[p] = "idle" => ~lock[p]
        BY <2>5 DEF PortInv
      <4>6. ~switch.lock[p] => host[p] = "wait" /\ ~lock[p]
        BY <2>5, <2>12, <3>4 DEF PortInv
      <4>7. switch.lock[p] /\ ~lock[p] => host[p] = "idle"
        BY <2>5, <2>12, <3>4 DEF PortInv
      <4> QED
        BY <2>3, <3>1, <3>2, <3>3, <3>4, <4>1, <4>2, <4>3, <4>4, <4>5, <4>6, <4>7, BusyFacts DEF PortInv
    <3>5. CASE p # b
      <4>1. /\ host[p] = "stb" => host'[p] = "wait" /\ lock'[p] = lock[p]
            /\ host[p] = "wait" => host'[p] = "wait" /\ lock'[p] = lock[p]
            /\ host[p] \notin {"stb", "wait"} => host'[p] # "wait"
            /\ host'[p] = "idle" => ~lock'[p]
            /\ host'[p] = "hold" => lock'[p]
        BY <2>10, <3>3, <3>5
      <4>2. device' # p
        BY <2>8, <3>1, <3>3, <3>5, BusyFacts
      <4>3. switch.req[p] => host[p] = "wait"
        BY <2>5 DEF PortInv
      <4>4. host[p] = "wait" => switch.req[p]
        BY <2>5, <3>3, <3>5, BusyFacts DEF PortInv
      <4>5. owner = p => ~lock[p]
        BY <2>5, <2>12, <3>5, BusyFacts DEF PortInv
      <4>6. owner' = p => owner = p /\ lock[p]
        BY <2>9, <3>1, <3>5, BusyFacts
      <4> QED
        BY <3>1, <3>2, <3>5, <4>1, <4>2, <4>3, <4>4, <4>5, <4>6, BusyFacts DEF PortInv
    <3> QED
      BY <3>4, <3>5
  <2> QED
    BY <2>6, <2>11, <2>12, BusyFacts
<1> QED
  BY <1>1, <1>2

(***************************************************************************)
(* The inductive invariant: the arbiter's view of the bus (state, latched  *)
(* requests, selected port, locked sequence) agrees with the hosts and the *)
(* device in every reachable state.                                        *)
(***************************************************************************)
THEOREM Inductive == Spec => []IInv
<1>1. Init => IInv
  BY InvInit
<1>2. IInv /\ [Next]_vars => IInv'
  BY InvStep
<1> QED
  BY <1>1, <1>2, PTL DEF Spec

-----------------------------------------------------------------------------
(* What the arbiter does in a state of the invariant. *)
LEMMA ServedPort ==
  ASSUME IInv
  PROVE  /\ switch.state = "S_IDLE" => device = "none"
         /\ \A b \in Port : switch.state = Busy(b) =>
              /\ Selected = b
              /\ Forwarded <=> host[b] = "stb"
              /\ device # "none" => device = b /\ host[b] = "wait" /\ switch.sel_q = b
<1>1. switch \in SwitchState /\ lock \in [Port -> BOOLEAN] /\ ROUND_ROBIN_EN \in BOOLEAN
      /\ device \in Port \cup {"none"}
  BY PortsAssumption DEF IInv, TypeOK
<1>2. Strobe \in [Port -> BOOLEAN] /\ \A q \in Port : Strobe[q] <=> host[q] = "stb"
  BY DEF Strobe
<1>3. ASSUME NEW b \in Port, switch.state = Busy(b)
      PROVE  Selected = b /\ (Forwarded <=> host[b] = "stb")
  <2>1. FALSE \in BOOLEAN
    OBVIOUS
  <2> QED
    BY <1>1, <1>2, <1>3, <2>1, SwitchFacts DEF Forwarded, Selected
<1>4. \A q \in Port : PortInv(q)
  BY DEF IInv
<1> QED
  BY <1>1, <1>3, <1>4, BusyFacts DEF PortInv

(***************************************************************************)
(* The arbiter never forwards a strobe while an access is outstanding.     *)
(***************************************************************************)
THEOREM OneAccess == Spec => []OneAccessAtATime
<1>1. IInv => OneAccessAtATime
  BY ServedPort, BusyFacts DEF OneAccessAtATime, IInv, TypeOK
<1> QED
  BY <1>1, Inductive, PTL

(***************************************************************************)
(* An answer of the device is routed to the waiting host that asked.       *)
(***************************************************************************)
THEOREM AnswerCorrect == Spec => []AnswerReachesRequester
<1>1. IInv => AnswerReachesRequester
  BY ServedPort, BusyFacts DEF AnswerReachesRequester, IInv, TypeOK, RspTo
<1> QED
  BY <1>1, Inductive, PTL

(***************************************************************************)
(* No strobe is lost, however long the other port keeps the bus.           *)
(***************************************************************************)
THEOREM NoLoss == Spec => []NoRequestLost
<1>1. IInv => NoRequestLost
  BY DEF NoRequestLost, IInv, PortInv
<1> QED
  BY <1>1, Inductive, PTL

(***************************************************************************)
(* Locked sequences of every length are uninterrupted.                     *)
(***************************************************************************)
THEOREM LockedAtomic == Spec => []LockedSequenceAtomic
<1>1. IInv => LockedSequenceAtomic
  <2> SUFFICES ASSUME IInv, owner # "none", lock[owner] PROVE Selected = owner
    BY DEF LockedSequenceAtomic
  <2>1. owner \in Port
    BY DEF IInv, TypeOK
  <2>2. switch.state = Busy(owner)
    BY <2>1 DEF IInv, PortInv
  <2> QED
    BY <2>1, <2>2, ServedPort
<1> QED
  BY <1>1, Inductive, PTL

-----------------------------------------------------------------------------
(* The bus gateway *)

(***************************************************************************)
(* The configurations in which the keeper works: an internal device is     *)
(* faster than the internal window by the two cycles that may lie between  *)
(* two elements of a sequence (latencies of a few cycles and a window of   *)
(* 16 in the processor), the external window is not a single cycle, in     *)
(* which the keeper would fire between two elements, and no external       *)
(* device answers in the very cycle in which the window ends.              *)
(***************************************************************************)
AnswersInTime ==
  /\ TMO_INT > 0 => TMO_INT > IntLatency + 1
  /\ TMO_EXT # 1
  /\ ~DeadlineAnswer

(* The host locks the bus only inside a sequence; the internal device      *)
(* works exactly on the access the host waits for.                         *)
HostShape ==
  /\ master.pc = "idle" => ~master.lock
  /\ master.pc = "hold" => master.lock
  /\ intdev > 0 <=> master.pc = "wait" /\ master.target = "int"

(* The external bus interface is in the cycle of the host's access. *)
ExternalShape ==
  pending => /\ master.target = "ext"
             /\ master.pc # "idle" => (locked <=> master.lock)
             /\ ~locked => master.pc = "wait"

(* The keeper is at rest before an access starts, and watches the host's   *)
(* access or sequence from then on.                                        *)
WatchShape ==
  /\ keeper.state = "00" => master.pc \in {"idle", "stb"}
  /\ keeper.state # "00" =>
       /\ keeper.ext <=> master.target = "ext"
       /\ ~keeper.lock => master.pc = "wait" /\ ~master.lock
       /\ keeper.lock => master.lock \/ master.pc = "idle"

(* How far the countdown is. *)
Countdown ==
  /\ keeper.state = "01" =>
       /\ master.pc = "hold" => keeper.cnt = 0
       /\ master.pc \in {"idle", "stb"} => keeper.cnt <= 1
       /\ master.pc = "wait" /\ master.target = "int" => keeper.cnt <= intdev + 1
  /\ keeper.state = "11" => master.target # "int"

GatewayInv == GatewayTypeOK /\ HostShape /\ ExternalShape /\ WatchShape /\ Countdown

-----------------------------------------------------------------------------
(* The counter's next value is in its range, and one more at the most. *)
LEMMA CounterStep ==
  ASSUME NEW c \in 0 .. CntSpace - 1
  PROVE  (c + 1) % CntSpace \in 0 .. CntSpace - 1 /\ (c + 1) % CntSpace <= c + 1
<1>1. CntSpace \in Nat \ {0}
  BY GatewayAssumption DEF CntSpace
<1> HIDE DEF CntSpace
<1>2. CASE c + 1 < CntSpace
  BY <1>1, <1>2
<1>3. CASE c + 1 = CntSpace
  BY <1>1, <1>3
<1> QED
  BY <1>1, <1>2, <1>3

(* What one clock edge makes of the host: a new access, or the next step   *)
(* of the one under way.                                                   *)
MasterState == [pc : {"idle", "stb", "wait", "hold"}, lock : BOOLEAN,
              left : 0 .. MaxSequence, target : Target]
Moves(pc, locks, target) == master'.pc = pc /\ master'.lock = locks /\ master'.target = target

(* The moves of the bus host in front of the gateway. *)
LEMMA HostCases ==
  ASSUME NEW ack \in BOOLEAN, master \in MasterState, master' \in HostNext(ack)
  PROVE  /\ master' \in MasterState
         /\ \/ /\ master.pc = "idle" \/ (master.pc = "wait" /\ ack /\ ~master.lock)
               /\ \E t \in Target, l \in BOOLEAN : Moves("stb", l, t)
            \/ /\ master.pc \in {"idle", "hold"} \/ (master.pc = "wait" /\ ack)
               /\ Moves("idle", FALSE, master.target)
            \/ /\ master.pc = "stb" \/ (master.pc = "wait" /\ ~ack)
               /\ Moves("wait", master.lock, master.target)
            \/ /\ master.pc = "hold" \/ (master.pc = "wait" /\ ack /\ master.lock)
               /\ Moves("stb", master.lock, master.target)
            \/ /\ master.pc = "wait" /\ ack /\ master.lock
               /\ Moves("hold", master.lock, master.target)
<1> DEFINE rest == {[pc |-> "idle", lock |-> FALSE, left |-> 0, target |-> master.target]}
           single == {[pc |-> "stb", lock |-> FALSE, left |-> 0, target |-> t] : t \in Target}
           sequence == {[pc |-> "stb", lock |-> TRUE, left |-> n, target |-> t] :
                          n \in 0 .. MaxSequence - 1, t \in Target}
           again == IF master.left = 0 THEN {}
                    ELSE {[pc |-> "stb", lock |-> master.lock, left |-> master.left - 1,
                           target |-> master.target]}
<1>0. master.pc \in {"idle", "stb", "wait", "hold"} /\ MaxSequence \in Nat
  BY GatewayAssumption DEF MasterState
<1>1. ASSUME master' \in rest
      PROVE  master' \in MasterState /\ Moves("idle", FALSE, master.target)
  <2>1. master' = [pc |-> "idle", lock |-> FALSE, left |-> 0, target |-> master.target]
    BY <1>1, Zenon
  <2> QED
    BY <1>0, <2>1 DEF MasterState, Moves
<1>2. ASSUME master' \in again
      PROVE  master' \in MasterState /\ Moves("stb", master.lock, master.target)
  <2>1. /\ master' = [pc |-> "stb", lock |-> master.lock, left |-> master.left - 1,
                      target |-> master.target]
        /\ master.left # 0
    BY <1>2, Zenon
  <2> QED
    BY <1>0, <2>1 DEF MasterState, Moves
<1>3. ASSUME master' \in single \cup sequence
      PROVE  master' \in MasterState /\ \E t \in Target, l \in BOOLEAN : Moves("stb", l, t)
  <2>1. CASE master' \in single
    <3>1. PICK t \in Target :
            master' = [pc |-> "stb", lock |-> FALSE, left |-> 0, target |-> t]
      BY <2>1, Zenon
    <3>2. master' \in MasterState
      BY <1>0, <3>1 DEF MasterState
    <3>3. Moves("stb", FALSE, t)
      BY <3>1 DEF Moves
    <3> QED
      BY <3>2, <3>3
  <2>2. CASE master' \in sequence
    <3>1. PICK n \in 0 .. MaxSequence - 1, t \in Target :
            master' = [pc |-> "stb", lock |-> TRUE, left |-> n, target |-> t]
      BY <2>2
    <3>2. master' \in MasterState
      BY <1>0, <3>1 DEF MasterState
    <3>3. Moves("stb", TRUE, t)
      BY <3>1 DEF Moves
    <3> QED
      BY <3>2, <3>3
  <2> QED
    BY <1>3, <2>1, <2>2
<1>4. CASE master.pc = "idle" \/ (master.pc = "wait" /\ ack /\ ~master.lock)
  <2>1. master' \in rest \/ master' \in single \cup sequence
    BY <1>4 DEF HostNext
  <2> HIDE DEF rest, single, sequence
  <2> QED
    BY <1>1, <1>3, <1>4, <2>1
<1>5. CASE master.pc = "stb" \/ (master.pc = "wait" /\ ~ack)
  <2>1. master' = [master EXCEPT !.pc = "wait"]
    BY <1>5 DEF HostNext, MasterState
  <2> QED
    BY <1>5, <2>1 DEF MasterState, Moves
<1>6. CASE (master.pc = "wait" /\ ack /\ master.lock) \/ master.pc = "hold"
  <2>1. \/ master' \in rest
        \/ master' \in again
        \/ master.pc = "wait" /\ ack /\ master' = [master EXCEPT !.pc = "hold"]
    BY <1>6 DEF HostNext
  <2>2. CASE master.pc = "wait" /\ ack /\ master' = [master EXCEPT !.pc = "hold"]
    BY <1>6, <2>2 DEF MasterState, Moves
  <2> QED
    BY <1>1, <1>2, <1>6, <2>1, <2>2
<1> QED
  BY <1>0, <1>4, <1>5, <1>6

(* What it makes of the keeper, and that its registers stay in their       *)
(* ranges.                                                                 *)
KeeperState == [state : {"00", "01", "11"}, lock : BOOLEAN, ext : BOOLEAN,
                cnt : 0 .. CntSpace - 1]

(* The moves of the bus keeper in each of its states. *)
LEMMA KeeperCases ==
  ASSUME NEW i \in BOOLEAN, NEW x \in BOOLEAN, master \in MasterState, keeper \in KeeperState,
         bus_monitor(i, x)
  PROVE  /\ keeper' \in KeeperState
         /\ keeper.state = "00" =>
              /\ keeper'.state = IF stb THEN "01" ELSE "00"
              /\ keeper'.lock = master.lock
              /\ keeper'.ext <=> master.target = "ext"
              /\ keeper'.cnt = 0
         /\ keeper.state = "01" =>
              /\ keeper'.state = IF Timeout THEN "11"
                                 ELSE IF AccessEnds(i, x) THEN "00" ELSE "01"
              /\ keeper'.lock = keeper.lock
              /\ keeper'.ext = keeper.ext
              /\ keeper'.cnt <= keeper.cnt + 1
              /\ int_rsp_ack(i, x) => keeper'.cnt = 0
         /\ keeper.state = "11" =>
              /\ keeper'.state = IF keeper.lock /\ master.lock THEN "11" ELSE "00"
              /\ keeper'.lock = keeper.lock
              /\ keeper'.ext = keeper.ext
<1>0. /\ keeper.state \in {"00", "01", "11"} /\ keeper.lock \in BOOLEAN /\ keeper.ext \in BOOLEAN
      /\ keeper.cnt \in 0 .. CntSpace - 1 /\ master.lock \in BOOLEAN
  BY DEF KeeperState, MasterState
<1>1. CntSpace \in Nat \ {0}
  BY GatewayAssumption DEF CntSpace
<1>2. cnt(i, x) \in 0 .. CntSpace - 1 /\ cnt(i, x) <= keeper.cnt + 1
      /\ (int_rsp_ack(i, x) => cnt(i, x) = 0)
  BY <1>0, <1>1, CounterStep DEF cnt
<1>3. CASE keeper.state = "00"
  <2>1. keeper' = [state |-> IF stb THEN "01" ELSE "00", lock |-> master.lock,
                   ext |-> port_sel("ext"), cnt |-> 0]
    BY <1>3 DEF bus_monitor
  <2>2. port_sel("ext") \in BOOLEAN
    BY DEF port_sel
  <2>3. keeper' \in KeeperState
    BY <1>0, <1>1, <2>1, <2>2 DEF KeeperState
  <2> QED
    BY <1>3, <2>1, <2>3 DEF port_sel
<1>4. CASE keeper.state = "01"
  <2>1. keeper' = [state |-> IF Timeout THEN "11"
                             ELSE IF AccessEnds(i, x) THEN "00" ELSE "01",
                   lock |-> keeper.lock, ext |-> keeper.ext, cnt |-> cnt(i, x)]
    BY <1>4 DEF bus_monitor
  <2>2. keeper' \in KeeperState
    BY <1>0, <1>2, <2>1 DEF KeeperState
  <2> QED
    BY <1>2, <1>4, <2>1, <2>2
<1>5. CASE keeper.state = "11"
  <2>1. keeper' = [keeper EXCEPT !.state = IF keeper.lock /\ master.lock THEN @ ELSE "00"]
    BY <1>5 DEF bus_monitor
  <2> QED
    BY <1>0, <1>5, <2>1 DEF KeeperState
<1> QED
  BY <1>0, <1>3, <1>4, <1>5

(* Type correctness. *)
LEMMA GatewayTypeInit == GatewayInit => GatewayTypeOK
<1> SUFFICES ASSUME GatewayInit PROVE GatewayTypeOK
  OBVIOUS
<1>1. CntSpace \in Nat \ {0}
  BY GatewayAssumption DEF CntSpace
<1>2. master \in MasterState
  BY GatewayAssumption DEF GatewayInit, MasterState, Target
<1>3. keeper \in KeeperState
  BY <1>1 DEF GatewayInit, KeeperState
<1>4. pending \in BOOLEAN /\ locked \in BOOLEAN
  BY DEF GatewayInit
<1>5. intdev \in 0 .. IntLatency /\ extdev \in 0 .. MaxLatency
  BY GatewayAssumption DEF GatewayInit
<1> QED
  BY <1>2, <1>3, <1>4, <1>5 DEF GatewayTypeOK, MasterState, KeeperState

(* Every clock edge keeps the types. *)
LEMMA GatewayTypeStep == GatewayTypeOK /\ [GatewayNext]_gatewayVars => GatewayTypeOK'
<1> SUFFICES ASSUME GatewayTypeOK, [GatewayNext]_gatewayVars PROVE GatewayTypeOK'
  OBVIOUS
<1>1. CASE UNCHANGED gatewayVars
  BY <1>1 DEF GatewayTypeOK, gatewayVars
<1>2. CASE GatewayNext
  <2>1. PICK i \in BOOLEAN, x \in BOOLEAN : GatewayEdge(i, x)
    BY <1>2 DEF GatewayNext
  <2>2. /\ master \in MasterState /\ keeper \in KeeperState
        /\ pending \in BOOLEAN /\ locked \in BOOLEAN
        /\ intdev \in 0 .. IntLatency /\ extdev \in 0 .. MaxLatency
    BY DEF GatewayTypeOK, MasterState, KeeperState
  <2>3. rsp_ack(i, x) \in BOOLEAN
    BY DEF rsp_ack, int_rsp_ack, keeper_err
  <2>4. master' \in MasterState
    BY <2>1, <2>2, <2>3, HostCases DEF GatewayEdge
  <2>5. keeper' \in KeeperState
    BY <2>1, <2>2, KeeperCases DEF GatewayEdge
  <2>6. pending' \in BOOLEAN /\ locked' \in BOOLEAN
    BY <2>1, <2>2 DEF GatewayEdge, arbiter
  <2>7. intdev' \in 0 .. IntLatency
    BY <2>1, <2>2, GatewayAssumption DEF GatewayEdge, IntDevice
  <2>8. extdev' \in 0 .. MaxLatency
    BY <2>1, <2>2, GatewayAssumption DEF GatewayEdge, ExtDevice
  <2> QED
    BY <2>4, <2>5, <2>6, <2>7, <2>8 DEF GatewayTypeOK, MasterState, KeeperState
<1> QED
  BY <1>1, <1>2

(***************************************************************************)
(* Type correctness of host, keeper, external bus interface and devices.   *)
(***************************************************************************)
THEOREM GatewayTypeCorrect == GatewaySpec => []GatewayTypeOK
<1>1. GatewayInit => GatewayTypeOK
  BY GatewayTypeInit
<1>2. GatewayTypeOK /\ [GatewayNext]_gatewayVars => GatewayTypeOK'
  BY GatewayTypeStep
<1> QED
  BY <1>1, <1>2, PTL DEF GatewaySpec

-----------------------------------------------------------------------------
(* The host at one clock edge, in terms of where it was before. *)
LEMMA MasterFacts ==
  ASSUME NEW ack \in BOOLEAN, master \in MasterState, HostShape, master' \in HostNext(ack)
  PROVE  /\ master'.pc = "wait" <=> master.pc = "stb" \/ (master.pc = "wait" /\ ~ack)
         /\ master'.pc = "wait" => master'.target = master.target /\ master'.lock = master.lock
         /\ master'.pc = "hold" => master.pc = "wait" /\ ack /\ master.lock
         /\ master.lock /\ master'.pc # "idle" => master'.lock
         /\ master.lock \/ master'.pc \in {"idle", "hold"} => master'.target = master.target
         /\ master'.pc = "idle" => ~master'.lock
         /\ master'.pc = "hold" => master'.lock
         /\ master.pc = "stb" => master'.pc = "wait"
BY HostCases DEF Moves, HostShape, MasterState

(* The invariant holds after reset. *)
LEMMA GatewayInvInit == GatewayInit => GatewayInv
<1> SUFFICES ASSUME GatewayInit PROVE GatewayInv
  OBVIOUS
<1>1. HostShape /\ ExternalShape
  BY DEF GatewayInit, HostShape, ExternalShape
<1>2. WatchShape /\ Countdown
  BY DEF GatewayInit, WatchShape, Countdown
<1> QED
  BY <1>1, <1>2, GatewayTypeInit DEF GatewayInv

(* A window ends only while the host waits for an access that is not       *)
(* internal, and then nobody answers in that cycle.                        *)
LEMMA TimeoutFacts ==
  ASSUME AnswersInTime, GatewayInv, NEW i \in BOOLEAN, NEW x \in BOOLEAN,
         IntDevice(i), ExtDevice(x), keeper.state = "01", Timeout
  PROVE  master.pc = "wait" /\ master.target # "int" /\ ~i /\ ~x
<1>1. /\ master.pc \in {"idle", "stb", "wait", "hold"} /\ keeper.cnt \in Nat
      /\ intdev \in 0 .. IntLatency
  BY GatewayAssumption DEF GatewayInv, GatewayTypeOK, CntSpace
<1>2. master.pc = "wait" /\ master.target # "int"
  BY <1>1, GatewayAssumption DEF GatewayInv, WatchShape, Countdown, AnswersInTime, Timeout
<1>3. ~i
  BY <1>2 DEF IntDevice, GatewayInv, HostShape
<1>4. ~x
  BY DEF ExtDevice, AnswersInTime
<1> QED
  BY <1>2, <1>3, <1>4

(* Every clock edge keeps the invariant. *)
LEMMA GatewayInvStep ==
  ASSUME AnswersInTime PROVE GatewayInv /\ [GatewayNext]_gatewayVars => GatewayInv'
<1> SUFFICES ASSUME GatewayInv, [GatewayNext]_gatewayVars PROVE GatewayInv'
  OBVIOUS
<1>1. CASE UNCHANGED gatewayVars
  BY <1>1 DEF GatewayInv, GatewayTypeOK, HostShape, ExternalShape, WatchShape, Countdown, gatewayVars,
              CntSpace
<1>2. CASE GatewayNext
  <2>1. PICK i \in BOOLEAN, x \in BOOLEAN : GatewayEdge(i, x)
    BY <1>2 DEF GatewayNext
  <2> DEFINE ack == rsp_ack(i, x)
  <2>2. /\ master \in MasterState /\ keeper \in KeeperState
        /\ pending \in BOOLEAN /\ locked \in BOOLEAN
        /\ intdev \in 0 .. IntLatency
        /\ IntDevice(i) /\ ExtDevice(x) /\ arbiter(x) /\ bus_monitor(i, x)
        /\ ack \in BOOLEAN /\ master' \in HostNext(ack)
    BY <2>1 DEF GatewayInv, GatewayTypeOK, MasterState, KeeperState, GatewayEdge,
                rsp_ack, int_rsp_ack, keeper_err
  <2>3. /\ master.pc \in {"idle", "stb", "wait", "hold"} /\ master.lock \in BOOLEAN
        /\ keeper.state \in {"00", "01", "11"} /\ keeper.lock \in BOOLEAN
        /\ keeper.ext \in BOOLEAN /\ keeper.cnt \in Nat /\ keeper'.cnt \in Nat
        /\ master'.pc \in {"idle", "stb", "wait", "hold"} /\ master'.lock \in BOOLEAN
    <3>1. master' \in MasterState /\ keeper' \in KeeperState
      BY <2>2, HostCases, KeeperCases
    <3> QED
      BY <2>2, <3>1, GatewayAssumption DEF MasterState, KeeperState, CntSpace
  <2>4. GatewayTypeOK'
    BY <1>2, GatewayTypeStep DEF GatewayInv
  <2>5. ack <=> i \/ (pending /\ x) \/ keeper.state = "11"
    BY DEF rsp_ack, int_rsp_ack, keeper_err
  <2>6. i => master.pc = "wait" /\ master.target = "int"
    BY <2>2 DEF IntDevice, GatewayInv, HostShape
  <2> HIDE DEF ack
  <2>7. HostShape'
    <3>1. master.pc = "wait" /\ master.target = "int" => (ack <=> i)
      BY <2>3, <2>5 DEF GatewayInv, ExternalShape, Countdown
    <3>2. intdev' > 0 <=> master'.pc = "wait" /\ master'.target = "int"
      BY <2>2, <2>3, <2>6, <3>1, MasterFacts, GatewayAssumption
      DEF GatewayInv, HostShape, IntDevice, stb, port_sel
    <3> QED
      BY <2>2, <3>2, MasterFacts DEF HostShape, GatewayInv
  <2>8. ExternalShape'
    <3>1. CASE ~pending
      BY <2>2, <2>3, <3>1, MasterFacts DEF GatewayInv, ExternalShape, arbiter, stb, port_sel
    <3>2. CASE pending /\ locked
      BY <2>2, <2>3, <3>2, MasterFacts DEF GatewayInv, ExternalShape, arbiter
    <3>3. CASE pending /\ ~locked
      BY <2>2, <2>3, <2>5, <2>6, <3>3, MasterFacts DEF GatewayInv, ExternalShape, arbiter, keeper_err
    <3> QED
      BY <2>2, <3>1, <3>2, <3>3
  <2>9. WatchShape'
    <3>1. CASE keeper.state = "00"
      BY <2>2, <2>3, <3>1, MasterFacts, KeeperCases DEF GatewayInv, WatchShape, HostShape, stb
    <3>2. CASE keeper.state = "01" /\ Timeout
      BY <2>2, <2>3, <2>5, <3>2, MasterFacts, KeeperCases, TimeoutFacts DEF GatewayInv, WatchShape, HostShape
    <3>3. CASE keeper.state = "01" /\ ~Timeout
      BY <2>2, <2>3, <2>5, <3>3, MasterFacts, KeeperCases
      DEF GatewayInv, WatchShape, HostShape, AccessEnds, int_rsp_ack
    <3>4. CASE keeper.state = "11"
      BY <2>2, <2>3, <2>5, <3>4, MasterFacts, KeeperCases DEF GatewayInv, WatchShape, HostShape
    <3> QED
      BY <2>3, <3>1, <3>2, <3>3, <3>4
  <2>10. Countdown'
    <3>1. CASE keeper.state = "00"
      BY <2>2, <2>3, <3>1, MasterFacts, KeeperCases DEF GatewayInv, WatchShape, HostShape, Countdown, stb,
         IntDevice
    <3>2. CASE keeper.state = "01" /\ Timeout
      BY <2>2, <2>3, <2>5, <3>2, MasterFacts, KeeperCases, TimeoutFacts DEF GatewayInv, Countdown
    <3>3. CASE keeper.state = "01" /\ ~Timeout
      BY <2>2, <2>3, <2>5, <3>3, MasterFacts, KeeperCases
      DEF GatewayInv, WatchShape, HostShape, Countdown, IntDevice, int_rsp_ack, stb, port_sel, AccessEnds
    <3>4. CASE keeper.state = "11"
      BY <2>2, <2>3, <2>5, <3>4, MasterFacts, KeeperCases DEF GatewayInv, WatchShape, HostShape, Countdown
    <3> QED
      BY <2>3, <3>1, <3>2, <3>3, <3>4
  <2> QED
    BY <2>4, <2>7, <2>8, <2>9, <2>10 DEF GatewayInv
<1> QED
  BY <1>1, <1>2

(* The invariant holds for ever in the configurations that answer in time. *)
LEMMA GatewayInvariance == ASSUME AnswersInTime PROVE GatewaySpec => []GatewayInv
<1>1. GatewayInit => GatewayInv
  BY GatewayInvInit
<1>2. GatewayInv /\ [GatewayNext]_gatewayVars => GatewayInv'
  BY GatewayInvStep
<1> QED
  BY <1>1, <1>2, PTL DEF GatewaySpec

(***************************************************************************)
(* The keeper watches every access the host waits for: it has left its     *)
(* idle state in time, also for an access that follows a time-out or a     *)
(* locked sequence at once.                                                *)
(***************************************************************************)
THEOREM GatewayTracksEveryAccess ==
  ASSUME AnswersInTime PROVE GatewaySpec => []EveryAccessTracked
<1>1. GatewayInv => EveryAccessTracked
  BY DEF GatewayInv, WatchShape, EveryAccessTracked
<1> QED
  BY <1>1, GatewayInvariance, PTL

(***************************************************************************)
(* The keeper's error response goes to an access that had no answer, and   *)
(* never to one of the internal devices.                                   *)
(***************************************************************************)
THEOREM GatewayErrorMeansNoAnswer ==
  ASSUME AnswersInTime PROVE GatewaySpec => []ErrorMeansNoAnswer
<1>1. GatewayInv => ErrorMeansNoAnswer
  BY DEF GatewayInv, WatchShape, Countdown, ErrorMeansNoAnswer, keeper_err
<1> QED
  BY <1>1, GatewayInvariance, PTL

(***************************************************************************)
(* The external bus interface has a cycle open only for the access or the  *)
(* locked sequence of the host, whatever the keeper has ended before.      *)
(***************************************************************************)
THEOREM GatewayExternalCycleClosed ==
  ASSUME AnswersInTime PROVE GatewaySpec => []ExternalCycleClosed
<1>1. GatewayInv => ExternalCycleClosed
  BY DEF GatewayInv, GatewayTypeOK, ExternalShape, ExternalCycleClosed
<1> QED
  BY <1>1, GatewayInvariance, PTL

-----------------------------------------------------------------------------
(* The byte lanes of a transfer of the DMA controller *)

LanesTypeOK ==
  /\ conf \in [src : Type, dst : Type, bswap : BOOLEAN]
  /\ src_addr \in Nat /\ dst_addr \in Nat
  /\ start \in [src : ByteAddr, dst : ByteAddr]
  /\ dst \in [ByteAddr -> Int]

Swap(a) == 4 * (a \div 4) + 3 - (a % 4)

(* Bytes to bytes: the addresses have come equally far, and so has the copy. *)
CopyInv ==
  Incrementing /\ ~conf.src.word /\ ~conf.dst.word /\ ~conf.bswap =>
    /\ src_addr - start.src = dst_addr - start.dst
    /\ \A a \in ByteAddr :
         dst[a] = IF a \in start.dst .. dst_addr - 1 THEN Src(start.src + a - start.dst) ELSE Old

(* Byte order conversion: every byte transferred so far is in the mirrored *)
(* lane of its word.                                                       *)
SwapInv ==
  Incrementing /\ conf.bswap /\ conf.src.word = conf.dst.word
    /\ start.src = 0 /\ start.dst = 0 =>
    /\ src_addr = dst_addr /\ (conf.dst.word => dst_addr % 4 = 0)
    /\ \A a \in ByteAddr : a < dst_addr => dst[Swap(a)] = Src(a)

(* Byte accesses: exactly the bytes of the addresses passed so far, or     *)
(* those of the mirrored lanes, have been written.                         *)
IsolationInv ==
  Incrementing /\ ~conf.dst.word =>
    /\ start.dst <= dst_addr
    /\ \A a \in ByteAddr :
         dst[a] # Old <=> (IF conf.bswap THEN Swap(a) ELSE a) \in start.dst .. dst_addr - 1

LanesInv == LanesTypeOK /\ CopyInv /\ SwapInv /\ IsolationInv

(* An address is a word and a lane. *)
LEMMA Lanes ==
  /\ \A a \in Nat : a \div 4 \in Nat /\ a % 4 \in Lane /\ a = 4 * (a \div 4) + (a % 4)
  /\ \A w \in Nat, l \in Lane : (4 * w + l) \div 4 = w /\ (4 * w + l) % 4 = l
BY DEF Lane

(* Mirroring the lanes twice changes nothing, and stays in the area.       *)
LEMMA Mirror ==
  ASSUME NEW a \in ByteAddr
  PROVE  /\ Swap(a) \in ByteAddr /\ Swap(Swap(a)) = a
         /\ Swap(a) \div 4 = a \div 4 /\ Swap(a) % 4 = 3 - (a % 4)
<1>1. a \in Nat /\ a < 4 * Words /\ Words \in Nat
  BY WordsAssumption DEF ByteAddr
<1>2. PICK w \in Nat, l \in Lane : a = 4 * w + l /\ w = a \div 4 /\ l = a % 4
  BY <1>1, Lanes
<1>3. Swap(a) = 4 * w + (3 - l) /\ 3 - l \in Lane
  BY <1>2 DEF Swap, Lane
<1>4. Swap(a) \div 4 = w /\ Swap(a) % 4 = 3 - l
  <2>1. (4 * w + (3 - l)) \div 4 = w /\ (4 * w + (3 - l)) % 4 = 3 - l
    BY <1>3, Lanes, Zenon
  <2> QED
    BY <1>3, <2>1, Zenon
<1>5. Swap(Swap(a)) = 4 * w + l
  <2>1. Swap(Swap(a)) = 4 * w + 3 - (3 - l)
    BY <1>4 DEF Swap
  <2> QED
    BY <1>2, <2>1 DEF Lane
<1>6. Swap(a) \in ByteAddr
  BY <1>1, <1>2, <1>3 DEF ByteAddr, Lane
<1> QED
  BY <1>2, <1>4, <1>5, <1>6

(* An address is determined by its word and its lane. *)
LEMMA SameByte ==
  ASSUME NEW a \in Nat, NEW b \in Nat
  PROVE  a \div 4 = b \div 4 /\ a % 4 = b % 4 <=> a = b
<1>1. a = 4 * (a \div 4) + (a % 4) /\ b = 4 * (b \div 4) + (b % 4)
  BY Lanes
<1>2. ASSUME a \div 4 = b \div 4, a % 4 = b % 4 PROVE a = b
  <2>1. 4 * (a \div 4) + (a % 4) = 4 * (b \div 4) + (b % 4)
    BY <1>2, Zenon
  <2> QED
    BY <1>1, <2>1, Zenon
<1> QED
  BY <1>2, Zenon

(* It holds at the start of a transfer. *)
LEMMA LanesInvInit == LanesInit => LanesInv
<1> SUFFICES ASSUME LanesInit PROVE LanesInv
  OBVIOUS
<1>1. /\ conf \in [src : Type, dst : Type, bswap : BOOLEAN]
      /\ src_addr \in ByteAddr /\ dst_addr \in ByteAddr
      /\ start = [src |-> src_addr, dst |-> dst_addr] /\ dst = [a \in ByteAddr |-> Old]
  BY DEF LanesInit
<1>2. \A a \in ByteAddr : a \in Nat
  BY DEF ByteAddr
<1>3. LanesTypeOK
  BY <1>1, <1>2 DEF LanesTypeOK, Old
<1>4. \A x, y : x \in Nat => ~(y \in x .. x - 1)
  OBVIOUS
<1>5. CopyInv /\ IsolationInv
  BY <1>1, <1>2, <1>4 DEF CopyInv, IsolationInv
<1>6. SwapInv
  BY <1>1, <1>2 DEF SwapInv
<1> QED
  BY <1>3, <1>5, <1>6 DEF LanesInv

(* What one element is: the bytes of one access are written.               *)
LEMMA ElementFacts ==
  ASSUME LanesTypeOK, Element
  PROVE  /\ LanesTypeOK'
         /\ conf' = conf /\ start' = start
         /\ src_addr \in ByteAddr /\ dst_addr \in ByteAddr
         /\ src_addr' = src_addr + add(conf.src) /\ dst_addr' = dst_addr + add(conf.dst)
         /\ \A a \in ByteAddr :
              dst'[a] = IF a \div 4 = dst_addr \div 4 /\ a % 4 \in ben THEN data[a % 4] ELSE dst[a]
         /\ \A a \in Nat : a % 4 \in Lane /\ data_buf[a % 4] \in Int /\ data_buf[a % 4] # Old
                           /\ data[a % 4] \in Int /\ data[a % 4] # Old
<1>1. /\ conf' = conf /\ start' = start
      /\ src_addr \in ByteAddr /\ dst_addr \in ByteAddr
      /\ src_addr' = src_addr + add(conf.src) /\ dst_addr' = dst_addr + add(conf.dst)
      /\ dst' = [a \in ByteAddr |->
                   IF a \div 4 = dst_addr \div 4 /\ a % 4 \in ben THEN data[a % 4] ELSE dst[a]]
  BY DEF Element
<1>2. \A t \in Type : add(t) \in Nat
  BY DEF Type, add
<1>3. src_addr' \in Nat /\ dst_addr' \in Nat
  BY <1>1, <1>2 DEF LanesTypeOK
<1>4. \A l \in Lane : data_buf[l] \in Int /\ data_buf[l] # Old
  <2>1. src_addr \div 4 \in Nat /\ src_addr % 4 \in Nat
    BY Lanes DEF LanesTypeOK, Lane
  <2>2. \A l \in Lane : l \in Nat
    BY DEF Lane
  <2> DEFINE q == src_addr \div 4
             r == src_addr % 4
  <2>3. \A l \in Lane : data_buf[l] = 4 * q + (IF conf.src.word THEN l ELSE r) + 1
    BY DEF data_buf, Src
  <2> HIDE DEF q, r
  <2>4. q \in Nat /\ r \in Nat
    BY <2>1 DEF q, r
  <2> QED
    BY <2>2, <2>3, <2>4 DEF Old
<1>5. \A l \in Lane : data[l] \in Int /\ data[l] # Old
  <2>1. \A l \in Lane : 3 - l \in Lane
    BY DEF Lane
  <2>2. \A l \in Lane : data[l] = IF conf.bswap THEN data_buf[3 - l] ELSE data_buf[l]
    BY DEF data
  <2> QED
    BY <1>4, <2>1, <2>2
<1>6. \A a \in Nat : a % 4 \in Lane
  BY Lanes
<1>7. \A a \in ByteAddr : a \in Nat
  BY DEF ByteAddr
<1>8. dst' \in [ByteAddr -> Int]
  BY <1>1, <1>5, <1>6, <1>7 DEF LanesTypeOK
<1> QED
  BY <1>1, <1>3, <1>4, <1>5, <1>6, <1>8 DEF LanesTypeOK

(* A byte access writes one byte, that of its address or the mirrored one, *)
(* and writes the byte of the source address there when that is a byte too. *)
LEMMA ByteElement ==
  ASSUME LanesTypeOK, Element, ~conf.dst.word
  PROVE  \E at \in ByteAddr, v \in Int :
           /\ at = (IF conf.bswap THEN Swap(dst_addr) ELSE dst_addr) /\ v # Old
           /\ ~conf.src.word => v = Src(src_addr)
           /\ \A a \in ByteAddr : dst'[a] = IF a = at THEN v ELSE dst[a]
<1> DEFINE at == IF conf.bswap THEN Swap(dst_addr) ELSE dst_addr
           v == data[at % 4]
<1>1. /\ dst_addr \in ByteAddr /\ dst_addr \in Nat
      /\ \A a \in ByteAddr : a \in Nat
  BY ElementFacts DEF ByteAddr
<1>2. at \in ByteAddr /\ at \div 4 = dst_addr \div 4
      /\ at % 4 = (IF conf.bswap THEN 3 - (dst_addr % 4) ELSE dst_addr % 4)
  BY <1>1, Mirror
<1>3. ben = {at % 4}
  BY <1>2 DEF ben, onehot_f
<1> HIDE DEF at
<1>4. v \in Int /\ v # Old
  BY <1>1, <1>2, ElementFacts
<1>5. ~conf.src.word => v = Src(src_addr)
  <2> SUFFICES ASSUME ~conf.src.word PROVE v = Src(src_addr)
    OBVIOUS
  <2>1. \A l \in Lane : data_buf[l] = Src(src_addr)
    <3>1. 4 * (src_addr \div 4) + (src_addr % 4) = src_addr
      BY Lanes DEF LanesTypeOK
    <3>2. \A l \in Lane : data_buf[l] = Src(4 * (src_addr \div 4) + (src_addr % 4))
      BY DEF data_buf
    <3> QED
      BY <3>1, <3>2
  <2>2. at % 4 \in Lane /\ 3 - (at % 4) \in Lane
    BY <1>1, <1>2, Lanes DEF Lane
  <2>3. data[at % 4] = IF conf.bswap THEN data_buf[3 - (at % 4)] ELSE data_buf[at % 4]
    BY <2>2 DEF data
  <2> QED
    BY <2>1, <2>2, <2>3
<1>6. ASSUME NEW a \in ByteAddr PROVE dst'[a] = IF a = at THEN v ELSE dst[a]
  <2>1. dst'[a] = IF a \div 4 = dst_addr \div 4 /\ a % 4 \in ben THEN data[a % 4] ELSE dst[a]
    BY ElementFacts
  <2>2. a = at <=> a \div 4 = dst_addr \div 4 /\ a % 4 \in ben
    BY <1>1, <1>2, <1>3, SameByte
  <2> QED
    BY <2>1, <2>2
<1> HIDE DEF v
<1> QED
  BY <1>2, <1>4, <1>5, <1>6 DEF at

(* Every element keeps the invariant of copies, *)
LEMMA CopyStep ==
  ASSUME LanesInv, Element
  PROVE  CopyInv'
<1> SUFFICES ASSUME Incrementing, ~conf.src.word, ~conf.dst.word, ~conf.bswap PROVE CopyInv'
  BY ElementFacts DEF LanesInv, CopyInv, Incrementing
<1>1. PICK v \in Int :
        v = Src(src_addr) /\ \A a \in ByteAddr : dst'[a] = IF a = dst_addr THEN v ELSE dst[a]
  BY ByteElement DEF LanesInv
<1>2. /\ src_addr - start.src = dst_addr - start.dst
      /\ \A a \in ByteAddr :
           dst[a] = IF a \in start.dst .. dst_addr - 1 THEN Src(start.src + a - start.dst) ELSE Old
  BY DEF LanesInv, CopyInv
<1>3. src_addr' = src_addr + 1 /\ dst_addr' = dst_addr + 1 /\ start' = start /\ conf' = conf
  BY ElementFacts DEF LanesInv, Incrementing, add
<1>4. /\ src_addr \in Nat /\ dst_addr \in Nat /\ start.src \in Nat /\ start.dst \in Nat
      /\ \A a \in ByteAddr : a \in Nat
  BY DEF LanesInv, LanesTypeOK, ByteAddr
<1>6. start.dst <= dst_addr
  BY DEF LanesInv, IsolationInv
<1>7. ASSUME NEW a \in ByteAddr
      PROVE  dst'[a] = IF a \in start.dst .. dst_addr THEN Src(start.src + a - start.dst) ELSE Old
  <2>1. CASE a = dst_addr
    <3>1. src_addr = start.src + a - start.dst
      BY <1>2, <1>4, <2>1
    <3>2. a \in start.dst .. dst_addr
      BY <1>4, <1>6, <2>1
    <3> QED
      BY <1>1, <2>1, <3>1, <3>2
  <2>2. CASE a # dst_addr
    <3>1. a \in start.dst .. dst_addr <=> a \in start.dst .. dst_addr - 1
      BY <1>4, <2>2
    <3> QED
      BY <1>1, <1>2, <2>2, <3>1
  <2> QED
    BY <2>1, <2>2
<1> DEFINE s0 == start.src
           d0 == start.dst
<1>8. dst_addr' - 1 = dst_addr /\ src_addr' - s0 = dst_addr' - d0
  <2>1. s0 \in Nat /\ d0 \in Nat /\ src_addr - s0 = dst_addr - d0
    BY <1>2, <1>4
  <2> HIDE DEF s0, d0
  <2> QED
    BY <1>3, <1>4, <2>1
<1> QED
  BY <1>3, <1>7, <1>8 DEF CopyInv

(* that of byte order conversion,                                          *)
LEMMA SwapStep ==
  ASSUME LanesInv, Element
  PROVE  SwapInv'
<1> SUFFICES ASSUME Incrementing, conf.bswap, conf.src.word = conf.dst.word,
                    start.src = 0, start.dst = 0
             PROVE  SwapInv'
  BY ElementFacts DEF LanesInv, SwapInv, Incrementing
<1>1. /\ src_addr = dst_addr /\ (conf.dst.word => dst_addr % 4 = 0)
      /\ \A a \in ByteAddr : a < dst_addr => dst[Swap(a)] = Src(a)
  BY DEF LanesInv, SwapInv
<1>2. start' = start /\ conf' = conf /\ LanesTypeOK
  BY ElementFacts DEF LanesInv
<1>3. \A a \in ByteAddr : a \in Nat /\ Swap(a) \in ByteAddr
  BY Mirror DEF ByteAddr
<1>4. dst_addr \in ByteAddr /\ dst_addr \in Nat
  BY <1>3, ElementFacts DEF LanesInv
<1>5. CASE ~conf.dst.word
  <2>1. src_addr' = dst_addr' /\ dst_addr' = dst_addr + 1
    BY <1>1, <1>5, ElementFacts DEF LanesInv, Incrementing, add
  <2>2. \A a \in ByteAddr : dst'[a] = IF a = Swap(dst_addr) THEN Src(src_addr) ELSE dst[a]
    BY <1>2, <1>5, ByteElement
  <2>3. ASSUME NEW a \in ByteAddr, a < dst_addr + 1 PROVE dst'[Swap(a)] = Src(a)
    <3>1. CASE a = dst_addr
      BY <1>1, <1>3, <2>2, <3>1
    <3>2. CASE a # dst_addr
      <4>1. Swap(a) # Swap(dst_addr)
        BY <1>4, <3>2, Mirror
      <4>2. a < dst_addr
        BY <1>3, <1>4, <2>3, <3>2
      <4> QED
        BY <1>1, <1>3, <2>2, <4>1, <4>2
    <3> QED
      BY <3>1, <3>2
  <2> QED
    BY <1>2, <1>5, <2>1, <2>3 DEF SwapInv
<1>6. CASE conf.dst.word
  <2>1. src_addr' = dst_addr' /\ dst_addr' = dst_addr + 4
    BY <1>1, <1>6, ElementFacts DEF LanesInv, Incrementing, add
  <2>2. PICK w \in Nat : dst_addr = 4 * w /\ dst_addr \div 4 = w
    <3>1. dst_addr = 4 * (dst_addr \div 4) + (dst_addr % 4) /\ dst_addr \div 4 \in Nat
      BY <1>4, Lanes
    <3> QED
      BY <1>1, <1>6, <3>1
  <2>3. \A l \in Lane : data[l] = Src(4 * w + (3 - l))
    <3>1. \A l \in Lane : 3 - l \in Lane
      BY DEF Lane
    <3>2. \A l \in Lane : data_buf[l] = Src(4 * w + l)
      BY <1>1, <1>6, <2>2 DEF data_buf
    <3>3. \A l \in Lane : data[l] = data_buf[3 - l]
      BY DEF data
    <3> QED
      BY <3>1, <3>2, <3>3
  <2>4. ASSUME NEW a \in ByteAddr, a < dst_addr + 4 PROVE dst'[Swap(a)] = Src(a)
    <3>1. /\ Swap(a) \in ByteAddr /\ Swap(a) \div 4 = a \div 4 /\ Swap(a) % 4 = 3 - (a % 4)
          /\ a % 4 \in Lane /\ 3 - (a % 4) \in Lane /\ a = 4 * (a \div 4) + (a % 4)
          /\ a \div 4 \in Nat
      BY <1>3, Mirror, Lanes DEF Lane
    <3>2. dst'[Swap(a)] = IF Swap(a) \div 4 = dst_addr \div 4 /\ Swap(a) % 4 \in ben
                            THEN data[Swap(a) % 4] ELSE dst[Swap(a)]
      BY <1>2, <3>1, ElementFacts
    <3>3. ben = Lane
      BY <1>6 DEF ben
    <3>4. CASE a \div 4 = w
      <4>1. dst'[Swap(a)] = Src(4 * w + (3 - (3 - (a % 4))))
        BY <2>2, <2>3, <3>1, <3>2, <3>3, <3>4
      <4>2. 4 * w + (3 - (3 - (a % 4))) = a
        <5> DEFINE l == a % 4
        <5>1. l \in Int /\ a = 4 * w + l
          BY <3>1, <3>4 DEF Lane
        <5> HIDE DEF l
        <5>2. 4 * w + (3 - (3 - l)) = a
          BY <2>2, <5>1
        <5> QED
          BY <5>2 DEF l
      <4> QED
        BY <4>1, <4>2
    <3>5. CASE a \div 4 # w
      <4>1. a < dst_addr
        <5> DEFINE l == a % 4
                   q == a \div 4
        <5>1. l \in 0 .. 3 /\ q \in Nat /\ a = 4 * q + l /\ q # w
          BY <3>1, <3>5 DEF Lane
        <5> HIDE DEF l, q
        <5> QED
          BY <2>2, <2>4, <5>1
      <4> QED
        BY <1>1, <2>2, <3>1, <3>2, <3>5, <4>1
    <3> QED
      BY <3>4, <3>5
  <2>5. (dst_addr + 4) % 4 = 0
    <3>1. dst_addr + 4 = 4 * (w + 1) + 0 /\ w + 1 \in Nat /\ 0 \in Lane
      BY <2>2 DEF Lane
    <3> QED
      BY <3>1, Lanes
  <2> QED
    BY <1>2, <2>1, <2>4, <2>5 DEF SwapInv
<1> QED
  BY <1>5, <1>6

(* and that of byte accesses.                                              *)
LEMMA IsolationStep ==
  ASSUME LanesInv, Element
  PROVE  IsolationInv'
<1> SUFFICES ASSUME Incrementing, ~conf.dst.word PROVE IsolationInv'
  BY ElementFacts DEF LanesInv, IsolationInv, Incrementing
<1> DEFINE at(a) == IF conf.bswap THEN Swap(a) ELSE a
<1>1. PICK v \in Int :
        v # Old /\ \A a \in ByteAddr : dst'[a] = IF a = at(dst_addr) THEN v ELSE dst[a]
  BY ByteElement DEF LanesInv
<1>2. /\ start.dst <= dst_addr
      /\ \A a \in ByteAddr : dst[a] # Old <=> at(a) \in start.dst .. dst_addr - 1
  BY DEF LanesInv, IsolationInv
<1>3. dst_addr' = dst_addr + 1 /\ start' = start /\ conf' = conf /\ dst_addr \in ByteAddr
  BY ElementFacts DEF LanesInv, Incrementing, add
<1>4. /\ dst_addr \in Nat /\ start.dst \in Nat
      /\ \A a \in ByteAddr : a \in Nat
  BY DEF LanesInv, LanesTypeOK, ByteAddr
<1>5. \A a \in ByteAddr : at(a) \in ByteAddr /\ at(at(a)) = a
  BY Mirror
<1> HIDE DEF at
<1>6. ASSUME NEW a \in ByteAddr PROVE dst'[a] # Old <=> at(a) \in start.dst .. dst_addr
  <2>1. CASE a = at(dst_addr)
    <3>1. at(a) = dst_addr
      BY <1>3, <1>5, <2>1
    <3>2. at(a) \in start.dst .. dst_addr
      BY <1>2, <1>4, <3>1
    <3> QED
      BY <1>1, <2>1, <3>2
  <2>2. CASE a # at(dst_addr)
    <3>1. at(a) # dst_addr /\ at(a) \in Nat
      BY <1>4, <1>5, <2>2
    <3>2. at(a) \in start.dst .. dst_addr <=> at(a) \in start.dst .. dst_addr - 1
      BY <1>4, <3>1
    <3> QED
      BY <1>1, <1>2, <2>2, <3>2
  <2> QED
    BY <2>1, <2>2
<1>7. dst_addr' - 1 = dst_addr /\ start.dst <= dst_addr'
  BY <1>2, <1>3, <1>4
<1> QED
  BY <1>3, <1>6, <1>7 DEF IsolationInv, at

(* A transfer puts every byte where it belongs: for areas of every size    *)
(* and alignment, byte and word accesses, with and without byte order      *)
(* conversion.                                                             *)
THEOREM TransferLanesCorrect == LanesSpec => []LanesCorrect
<1>1. LanesInv /\ [Element]_lanesVars => LanesInv'
  <2> SUFFICES ASSUME LanesInv, [Element]_lanesVars PROVE LanesInv'
    OBVIOUS
  <2>1. CASE Element
    BY <2>1, ElementFacts, CopyStep, SwapStep, IsolationStep DEF LanesInv
  <2>2. CASE UNCHANGED lanesVars
    BY <2>2 DEF lanesVars, LanesInv, LanesTypeOK, CopyInv, SwapInv, IsolationInv, Incrementing
  <2> QED
    BY <2>1, <2>2
<1>2. LanesInv => ByteCopy
  <2> SUFFICES ASSUME LanesInv, Incrementing, ~conf.src.word, ~conf.dst.word, ~conf.bswap
               PROVE  ByteCopy
    BY DEF ByteCopy
  <2> DEFINE c(a) == IF a \in start.dst .. dst_addr - 1
                       THEN Src(start.src + a - start.dst) ELSE Old
  <2>1. dst \in [ByteAddr -> Int] /\ \A a \in ByteAddr : dst[a] = c(a)
    BY DEF LanesInv, LanesTypeOK, CopyInv
  <2> HIDE DEF c
  <2>2. dst = [a \in ByteAddr |-> c(a)]
    BY <2>1
  <2> QED
    BY <2>2 DEF ByteCopy, c
<1>3. LanesInv => SwapByByteOrWord
  <2> SUFFICES ASSUME LanesInv, Incrementing, conf.bswap, conf.src.word = conf.dst.word,
                      start.src = 0, start.dst = 0, NEW w \in 0 .. Words - 1,
                      4 * (w + 1) <= dst_addr, NEW l \in Lane
               PROVE  dst[4 * w + l] = Src(4 * w + 3 - l)
    BY DEF SwapByByteOrWord
  <2> DEFINE a == 4 * w + (3 - l)
  <2>1. w \in Nat /\ 3 - l \in Lane /\ Words \in Nat
    BY WordsAssumption DEF Lane
  <2>2. a \in ByteAddr /\ a < dst_addr /\ a = 4 * w + 3 - l
    BY <2>1 DEF ByteAddr, Lane, LanesInv, LanesTypeOK
  <2>3. Swap(a) = 4 * w + l
    <3>1. a \div 4 = w /\ a % 4 = 3 - l
      BY <2>1, Lanes
    <3>2. 4 * w + 3 - (3 - l) = 4 * w + l
      BY <2>1 DEF Lane
    <3> HIDE DEF a
    <3> QED
      BY <3>1, <3>2 DEF Swap
  <2> HIDE DEF a
  <2>4. dst[Swap(a)] = Src(a)
    BY <2>2 DEF LanesInv, SwapInv
  <2> QED
    BY <2>2, <2>3, <2>4
<1>4. LanesInv => ByteAccessIsolated
  <2> SUFFICES ASSUME LanesInv, Incrementing, ~conf.dst.word, NEW w \in 0 .. Words - 1
               PROVE  {l \in Lane : dst[4 * w + l] # Old} =
                        {IF conf.bswap THEN 3 - l ELSE l :
                           l \in {a % 4 : a \in {b \in start.dst .. dst_addr - 1 : b \div 4 = w}}}
    BY DEF ByteAccessIsolated
  <2> DEFINE m(l) == IF conf.bswap THEN 3 - l ELSE l
             Passed == {b \in start.dst .. dst_addr - 1 : b \div 4 = w}
  <2>1. w \in Nat /\ start.dst \in Nat /\ dst_addr \in Nat /\ Words \in Nat
    BY WordsAssumption DEF LanesInv, LanesTypeOK, ByteAddr
  <2>2. \A l \in Lane : /\ m(l) \in Lane /\ m(m(l)) = l
                        /\ 4 * w + l \in ByteAddr
    BY <2>1 DEF Lane, ByteAddr
  <2>3. \A l \in Lane : dst[4 * w + l] # Old <=> 4 * w + m(l) \in start.dst .. dst_addr - 1
    <3> TAKE l \in Lane
    <3>1. (4 * w + l) \div 4 = w /\ (4 * w + l) % 4 = l
      BY <2>1, Lanes
    <3>2. Swap(4 * w + l) = 4 * w + (3 - l)
      <4>1. 4 * w + 3 - l = 4 * w + (3 - l)
        BY <2>1 DEF Lane
      <4> QED
        BY <3>1, <4>1 DEF Swap
    <3> QED
      BY <2>2, <3>2 DEF LanesInv, IsolationInv
  <2>4. \A l \in Lane : 4 * w + l \in start.dst .. dst_addr - 1 <=> \E b \in Passed : b % 4 = l
    <3> TAKE l \in Lane
    <3>1. (4 * w + l) \div 4 = w /\ (4 * w + l) % 4 = l
      BY <2>1, Lanes
    <3>2. ASSUME NEW b \in Passed, b % 4 = l PROVE b = 4 * w + l
      <4>1. b \in Nat /\ b \div 4 = w
        BY <2>1
      <4> QED
        BY <3>2, <4>1, Lanes
    <3> QED
      BY <3>1, <3>2
  <2>5. \A b \in Passed : b % 4 \in Lane
    BY <2>1, Lanes
  <2> HIDE DEF Passed, m
  <2>6. \A l \in Lane : dst[4 * w + l] # Old <=> \E b \in Passed : b % 4 = m(l)
    BY <2>2, <2>3, <2>4
  <2>7. {l \in Lane : dst[4 * w + l] # Old} = {m(l) : l \in {b % 4 : b \in Passed}}
    <3>1. ASSUME NEW l \in Lane, NEW b \in Passed, b % 4 = m(l)
          PROVE  l \in {m(k) : k \in {c % 4 : c \in Passed}}
      BY <2>2, <3>1
    <3>2. ASSUME NEW b \in Passed
          PROVE  m(b % 4) \in Lane /\ dst[4 * w + m(b % 4)] # Old
      <4>1. b % 4 \in Lane
        BY <2>5
      <4>2. m(b % 4) \in Lane /\ m(m(b % 4)) = b % 4
        BY <2>2, <4>1
      <4> QED
        BY <2>6, <4>2
    <3> QED
      BY <2>6, <3>1, <3>2
  <2> QED
    BY <2>7 DEF m, Passed
<1>5. LanesInv => LanesCorrect
  BY <1>2, <1>3, <1>4 DEF LanesCorrect
<1> QED
  BY <1>1, <1>5, LanesInvInit, PTL DEF LanesSpec

=============================================================================
