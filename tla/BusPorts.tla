------------------------------ MODULE BusPorts ------------------------------
(***************************************************************************)
(* A bus switch between two hosts and a device.  The hosts follow the bus  *)
(* protocol the way the load/store unit, the caches, the instruction fetch *)
(* and the DMA do: "stb" for one cycle, then wait for "ack"; the next      *)
(* "stb" may follow in the cycle after "ack".  A host that locks the bus   *)
(* holds "lock" from its first "stb" up to the "ack" of its last access,   *)
(* or one cycle longer, and then lets one cycle pass without "stb".  The   *)
(* device answers in any later cycle.                                      *)
(***************************************************************************)
EXTENDS Naturals, BusSwitch

CONSTANTS
  ROUND_ROBIN_EN,  \* arbitration scheme
  MaxBurst         \* bound: accesses of a locked sequence

ASSUME PortsAssumption ==
  /\ ROUND_ROBIN_EN \in BOOLEAN
  /\ MaxBurst \in Nat \ {0}

VARIABLES
  switch,  \* the registers of the switch
  host,    \* port -> protocol state of the host
  lock,    \* port -> lock signal of the host
  left,    \* port -> accesses left in the locked sequence
  device,  \* the port whose request the device works on, or "none"
  owner    \* the port whose locked sequence has begun on the bus, or "none"

vars == <<switch, host, lock, left, device, owner>>

HostState == {"idle", "stb", "wait", "hold"}

Strobe == [p \in Port |-> host[p] = "stb"]
Selected == sel(switch, Strobe, ROUND_ROBIN_EN)
Forwarded == x_stb(switch, Strobe, ROUND_ROBIN_EN)

-----------------------------------------------------------------------------
Init ==
  /\ switch = SwitchReset
  /\ host = [p \in Port |-> "idle"]
  /\ lock = [p \in Port |-> FALSE]
  /\ left = [p \in Port |-> 0]
  /\ device = "none"
  /\ owner = "none"

(* One host at one clock edge. *)
HostStep(p, ack) ==
  LET to(h, l, n) == host'[p] = h /\ lock'[p] = l /\ left'[p] = n
      Rest == to("idle", FALSE, 0)
      Single == to("stb", FALSE, 0)
      Locked == \E n \in 1 .. MaxBurst : to("stb", TRUE, n - 1)
      Again == left[p] > 0 /\ to("stb", TRUE, left[p] - 1)
  IN  CASE host[p] = "idle" -> Rest \/ Single \/ Locked
        [] host[p] = "stb"  -> to("wait", lock[p], left[p])
        [] host[p] = "wait" /\ ~ack -> to("wait", lock[p], left[p])
        [] host[p] = "wait" /\ ack /\ ~lock[p] -> Rest \/ Single \/ Locked
        [] host[p] = "wait" /\ ack /\ lock[p] -> Rest \/ Again \/ to("hold", TRUE, left[p])
        [] host[p] = "hold" -> Rest \/ Again

(* The device takes a strobe and answers when it likes. *)
DeviceStep(ack) ==
  /\ ack => device # "none"
  /\ device' = IF Forwarded THEN Selected ELSE IF ack THEN "none" ELSE device

(* Who is inside a locked sequence that has reached the bus. *)
OwnerStep ==
  owner' = IF Forwarded /\ lock[Selected] THEN Selected
           ELSE IF owner # "none" /\ ~lock[owner] THEN "none" ELSE owner

Edge(ack) ==
  /\ DeviceStep(ack)
  /\ OwnerStep
  /\ switch' = SwitchNext(switch, Strobe, lock, ack, ROUND_ROBIN_EN)
  /\ host' \in [Port -> HostState]
  /\ lock' \in [Port -> BOOLEAN]
  /\ left' \in [Port -> 0 .. MaxBurst]
  /\ \A p \in Port : HostStep(p, ack /\ RspTo(switch) = p)

Next == \E ack \in BOOLEAN : Edge(ack)

(* The clock does not stop and the device answers (the bus keeper's job).  *)
Fairness == WF_vars(Next) /\ WF_vars(Edge(TRUE))

Spec == Init /\ [][Next]_vars
FairSpec == Spec /\ Fairness

-----------------------------------------------------------------------------
(* Type invariant. *)
TypeOK ==
  /\ switch \in SwitchState
  /\ host \in [Port -> HostState]
  /\ lock \in [Port -> BOOLEAN]
  /\ left \in [Port -> 0 .. MaxBurst]
  /\ device \in Port \cup {"none"}
  /\ owner \in Port \cup {"none"}

(***************************************************************************)
(* The device is asked for one access at a time: the arbiter never         *)
(* forwards a strobe while an access of either host is outstanding.        *)
(***************************************************************************)
OneAccessAtATime == Forwarded => device = "none"

(***************************************************************************)
(* The answer goes to the host that asked: whenever the device works for a *)
(* port, the response switch points to that port and its host is waiting.  *)
(* The switch routes by the selection of the cycle before, and must not    *)
(* have turned to the other port or to an idle host in between.            *)
(***************************************************************************)
AnswerReachesRequester == device # "none" => RspTo(switch) = device /\ host[device] = "wait"

(***************************************************************************)
(* No strobe is lost: the request of a waiting host is latched or is being *)
(* served by the device.                                                   *)
(***************************************************************************)
NoRequestLost ==
  \A p \in Port : host[p] = "wait" => device = p \/ switch.req[p]

(***************************************************************************)
(* A locked sequence is not interrupted: from its first access on the bus  *)
(* until the host drops lock, no access of the other port is forwarded.    *)
(***************************************************************************)
LockedSequenceAtomic ==
  Forwarded /\ owner # "none" /\ lock[owner] => Selected = owner

(***************************************************************************)
(* Every access is answered in the end: port A always, port B as well with *)
(* the round-robin scheme of the dual-core arbiter.                        *)
(***************************************************************************)
NoStarvation ==
  \A p \in {q \in Port : ROUND_ROBIN_EN \/ q = "A"} :
    host[p] = "wait" ~> host[p] # "wait"

=============================================================================
