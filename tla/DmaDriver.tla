----------------------------- MODULE DmaDriver -----------------------------
(***************************************************************************)
(* The DMA controller under its driver, sw/lib/source/neorv32_dma.c.  The  *)
(* driver's register accesses are interleaved with the controller's clock  *)
(* in every possible way: an access needs one cycle for the request and    *)
(* one for the acknowledge, and any number of idle cycles may lie between  *)
(* two of them.                                                            *)
(*                                                                         *)
(* The client enables the controller, programs descriptors as long as the  *)
(* FIFO has room for them, starts, polls the status until it is DONE or    *)
(* ERROR, and disables the controller after an error or when it likes.     *)
(* Clients differ in the descriptors they program, in how often they start *)
(* the controller, and in whether they program another descriptor          *)
(* (client.chain) or disable the controller (client.abort) while transfers *)
(* are running; a careful client does neither.                             *)
(***************************************************************************)
EXTENDS Dma

CONSTANTS
  Clients,  \* the clients: descs, the descriptors <<src, dst, config>> it may
            \* program; jobs, the bound on its starts; chain; abort
  InitMem   \* initial content of the memory

ASSUME DriverAssumption ==
  /\ \A c \in Clients :
       /\ DOMAIN c = {"descs", "jobs", "chain", "abort"}
       /\ c.descs \subseteq Word \X Word \X Word
       /\ c.jobs \in Nat
       /\ c.chain \in BOOLEAN /\ c.abort \in BOOLEAN
  /\ InitMem \in [Addr -> Value]

VARIABLES
  client,   \* who uses the controller
  bus_ack,  \* acknowledge of the register access of the cycle before
  sw,       \* the driver: call and step, descriptor, last value read of CTRL
  ref,      \* the memory as the programmed descriptors should leave it
  late      \* elements written since the controller was disabled

vars == <<dmaVars, client, bus_ack, sw, ref, late>>

NoDesc == <<0, 0, 0>>

-----------------------------------------------------------------------------
(* What a descriptor asks for: the elements one after the other.  A count  *)
(* of zero is the largest count there is.                                  *)
Elements(d) == IF num(d[3]) = 0 THEN NumSpace ELSE num(d[3])

Copy(d, m) ==
  LET step[n \in 0 .. Elements(d)] ==
        IF n = 0 THEN m
        ELSE [step[n - 1] EXCEPT
                ![(addr(d[2]) + dst_inc(d[3]) * (n - 1)) % AddrSpace] =
                  step[n - 1][(addr(d[1]) + src_inc(d[3]) * (n - 1)) % AddrSpace]]
  IN  step[Elements(d)]

-----------------------------------------------------------------------------
Init ==
  /\ DmaInit
  /\ client \in Clients
  /\ mem = InitMem
  /\ bus_ack = FALSE
  /\ sw = [pc |-> "off", desc |-> NoDesc, nprog |-> 0,
            busy |-> FALSE, jobs |-> 0]
  /\ ref = InitMem
  /\ late = 0

Clock(req, ans) ==
  /\ Cycle(req, ans)
  /\ bus_ack' = (req # None)
  /\ client' = client
  /\ late' = IF ctrl.enable THEN 0
             ELSE IF Go("S_WRITE_RSP") /\ ans = "ok" THEN late + 1 ELSE late

(* One register access of the driver, which moves on to step "pc". *)
Access(from, req, pc, ans) ==
  /\ sw.pc = from
  /\ ~bus_ack
  /\ Clock(req, ans)
  /\ sw' = [sw EXCEPT !.pc = pc]

(* __MMREG32_BSET and __MMREG32_BCLR: read CTRL, change a bit, write it    *)
(* back.  START and ACK read as zero, so only EN is carried over.          *)
neorv32_dma_enable(ans) ==
  \/ Access("off", ReadCtrl, "enable", ans) /\ UNCHANGED ref
  \/ Access("enable", WriteCtrl(TRUE, FALSE, FALSE), "ready", ans) /\ UNCHANGED ref

(* Disabling discards what was programmed and not executed. *)
neorv32_dma_disable(ans) ==
  \/ /\ \/ Access("ready", ReadCtrl, "disable", ans)
        \/ Access("failed", ReadCtrl, "disable", ans)
        \/ client.abort /\ Access("poll", ReadCtrl, "disable", ans)
     /\ UNCHANGED ref
  \/ /\ sw.pc = "disable"
     /\ ~bus_ack
     /\ Clock(WriteCtrl(FALSE, FALSE, FALSE), ans)
     /\ sw' = [sw EXCEPT !.pc = "off", !.nprog = 0, !.busy = FALSE]
     /\ ref' = mem'

neorv32_dma_irq_ack(ans) ==
  \/ Access("done", ReadCtrl, "ack", ans) /\ UNCHANGED ref
  \/ Access("ack", WriteCtrl(ctrl.enable, FALSE, TRUE), "ready", ans) /\ UNCHANGED ref

(* Each of the three words is written after a look at DFULL.  The client   *)
(* calls only when the FIFO has room for a whole descriptor.               *)
ProgramCall(ans) ==
  /\ sw.pc = "ready" \/ (client.chain /\ sw.pc = "poll")
  /\ 3 * (sw.nprog + 1) <= DSC_FIFO
  /\ ~bus_ack
  /\ \E d \in client.descs :
       sw' = [sw EXCEPT !.desc = d, !.pc = IF F!full THEN @ ELSE "src",
                        !.nprog = IF F!full THEN @ ELSE @ + 1]
  /\ Clock(ReadCtrl, ans)
  /\ UNCHANGED ref

Return == IF sw.busy THEN "poll" ELSE "ready"

neorv32_dma_program(ans) ==
  \/ ProgramCall(ans)
  \/ Access("src", WriteDesc(sw.desc[1]), "full2", ans) /\ UNCHANGED ref
  \/ Access("full2", ReadCtrl, IF F!full THEN Return ELSE "dst", ans) /\ UNCHANGED ref
  \/ Access("dst", WriteDesc(sw.desc[2]), "full3", ans) /\ UNCHANGED ref
  \/ Access("full3", ReadCtrl, IF F!full THEN Return ELSE "conf", ans) /\ UNCHANGED ref
  \/ /\ sw.pc = "conf"
     /\ ~bus_ack
     /\ Clock(WriteDesc(sw.desc[3]), ans)
     /\ sw' = [sw EXCEPT !.pc = Return, !.desc = NoDesc]
     /\ ref' = Copy(sw.desc, ref)

neorv32_dma_start(ans) ==
  \/ /\ sw.nprog > 0 /\ sw.jobs < client.jobs
     /\ Access("ready", ReadCtrl, "start", ans)
     /\ UNCHANGED ref
  \/ /\ sw.pc = "start"
     /\ ~bus_ack
     /\ Clock(WriteCtrl(ctrl.enable, TRUE, FALSE), ans)
     /\ sw' = [sw EXCEPT !.pc = "poll", !.busy = TRUE, !.jobs = @ + 1]
     /\ UNCHANGED ref

(* ERROR before BUSY before DONE; IDLE otherwise. *)
Status == CASE CtrlValue.error -> "ERROR"
            [] ~CtrlValue.error /\ CtrlValue.busy -> "BUSY"
            [] ~CtrlValue.error /\ ~CtrlValue.busy /\ CtrlValue.done -> "DONE"
            [] OTHER -> "IDLE"

neorv32_dma_status(ans) ==
  /\ sw.pc = "poll"
  /\ ~bus_ack
  /\ Clock(ReadCtrl, ans)
  /\ sw' = CASE Status = "DONE"  -> [sw EXCEPT !.pc = "done", !.nprog = 0, !.busy = FALSE]
             [] Status = "ERROR" -> [sw EXCEPT !.pc = "failed", !.busy = FALSE]
             [] OTHER            -> sw
  /\ UNCHANGED ref

(* After DONE the client may also go on without acknowledging. *)
NoAck(ans) == sw.pc = "done" /\ Clock(None, ans) /\ sw' = [sw EXCEPT !.pc = "ready"] /\ UNCHANGED ref

Driver(ans) ==
  \/ neorv32_dma_enable(ans) \/ neorv32_dma_disable(ans)
  \/ neorv32_dma_irq_ack(ans) \/ neorv32_dma_program(ans)
  \/ neorv32_dma_start(ans) \/ neorv32_dma_status(ans) \/ NoAck(ans)

Idle(ans) == Clock(None, ans) /\ UNCHANGED <<sw, ref>>

Next == \E ans \in Answers : Driver(ans) \/ Idle(ans)

(* The clock does not stop, the bus answers every request (the bus gateway *)
(* ends every access after a time-out), and a client that polls keeps      *)
(* polling.  The client is not obliged to do anything else.                *)
Fairness ==
  /\ WF_vars(\E ans \in Answers : Idle(ans))
  /\ WF_vars(\E ans \in Answers \ {"none"} : Driver(ans) \/ Idle(ans))
  /\ WF_vars(\E ans \in Answers : neorv32_dma_status(ans))

Spec == Init /\ [][Next]_vars /\ Fairness

-----------------------------------------------------------------------------
(* Type invariant. *)
TypeOK ==
  /\ DmaTypeOK
  /\ client \in Clients
  /\ bus_ack \in BOOLEAN
  /\ sw \in [pc : {"off", "enable", "ready", "disable", "src", "full2", "dst",
                   "full3", "conf", "start", "poll", "done", "ack", "failed"},
             desc : client.descs \cup {NoDesc}, nprog : 0 .. DSC_FIFO,
             busy : BOOLEAN, jobs : 0 .. client.jobs]
  /\ ref \in [Addr -> Value]
  /\ late \in Nat

Careful == ~client.chain /\ ~client.abort

(***************************************************************************)
(* End to end: when neorv32_dma_status reports DONE to a careful client,   *)
(* the memory is what the programmed descriptors, executed completely and  *)
(* in order, make of it.  In particular DONE is never a left-over of an    *)
(* earlier transfer, is never reported for a transfer that met a bus       *)
(* error, and the first element goes to the base address itself.           *)
(***************************************************************************)
ResultCorrect == Careful /\ sw.pc = "done" => mem = ref

(***************************************************************************)
(* "If the FIFO does not provide a complete DMA descriptor, the controller *)
(* will wait until a complete descriptor is available": the configuration  *)
(* word is only taken from a read port that holds a word of the FIFO.      *)
(***************************************************************************)
WaitsForDescriptor == Go("S_GET_3") => avail

(***************************************************************************)
(* A started job ends for the client that polls: the engine reports its    *)
(* end in one cycle only, and that report must not get lost.               *)
(***************************************************************************)
CompletionSeen == Careful /\ sw.pc = "poll" ~> sw.pc \in {"done", "failed"}

(***************************************************************************)
(* "Disable DMA. This will reset the DMA and will also terminate the       *)
(* current transfer": a controller that stays disabled stops running.      *)
(***************************************************************************)
DisableTerminates == sw.pc = "off" ~> (sw.pc # "off" \/ ~engine.run)

(***************************************************************************)
(* What disabling really gives, whatever state of the engine it meets: at  *)
(* most one more element is written while the controller is disabled.      *)
(***************************************************************************)
AtMostOneLateElement == late <= 1

=============================================================================
