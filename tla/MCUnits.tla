------------------------------ MODULE MCUnits ------------------------------
(***************************************************************************)
(* The units of the processor that are checked on their own: the FIFO      *)
(* primitive, the byte lanes of the DMA, the ALU of the atomic operations, *)
(* a bus switch between two hosts, the bus gateway, and a 64-bit counter   *)
(* under its library functions.  A behaviour chooses one of them and runs  *)
(* it; the others rest.                                                    *)
(***************************************************************************)
EXTENDS PrimFifo, DmaLanes, AmoAlu, BusPorts, BusGateway, Timer

VARIABLE unit  \* the unit that runs

unitVars == <<unit, fifoVars, lanesVars, aluVars, vars, gatewayVars, timerVars>>

MCTimes == 0 .. MaxTime

LanesRest == LanesInit /\ conf = [src |-> [word |-> FALSE, inc |-> FALSE],
                                  dst |-> [word |-> FALSE, inc |-> FALSE], bswap |-> FALSE]
                       /\ src_addr = 0 /\ dst_addr = 0
AluRest == AluInit /\ instr = "AMOSWAP" /\ mem_rdata = 0 /\ wdata = 0

UnitsInit ==
  /\ unit \in {"fifo", "lanes", "alu", "switch", "gateway", "timer"}
  /\ FifoInit /\ Init /\ GatewayInit
  /\ IF unit = "lanes" THEN LanesInit ELSE LanesRest
  /\ IF unit = "alu" THEN AluInit ELSE AluRest
  /\ IF unit = "timer" THEN TimerInit ELSE TimerInit /\ counter = "mtime"

RunsFifo == unit = "fifo" /\ UNCHANGED <<unit, lanesVars, aluVars, vars, gatewayVars, timerVars>>
RunsLanes == unit = "lanes" /\ UNCHANGED <<unit, fifoVars, aluVars, vars, gatewayVars, timerVars>>
RunsAlu == unit = "alu" /\ UNCHANGED <<unit, fifoVars, lanesVars, vars, gatewayVars, timerVars>>
RunsSwitch == unit = "switch" /\ UNCHANGED <<unit, fifoVars, lanesVars, aluVars, gatewayVars, timerVars>>
RunsGateway == unit = "gateway" /\ UNCHANGED <<unit, fifoVars, lanesVars, aluVars, vars, timerVars>>
RunsTimer == unit = "timer" /\ UNCHANGED <<unit, fifoVars, lanesVars, aluVars, vars, gatewayVars>>

UnitsNext ==
  \/ RunsFifo /\ FifoNext
  \/ RunsLanes /\ Element
  \/ RunsAlu /\ S_EXECUTE
  \/ RunsSwitch /\ Next
  \/ RunsGateway /\ GatewayNext
  \/ RunsTimer /\ TimerNext

(* The fairness of BusPorts and of BusGateway for the one that runs *)
UnitsFairness ==
  /\ WF_unitVars(RunsSwitch /\ Next)
  /\ WF_unitVars(RunsSwitch /\ Edge(TRUE))
  /\ WF_unitVars(RunsGateway /\ GatewayNext)

UnitsSpec == UnitsInit /\ [][UnitsNext]_unitVars /\ UnitsFairness
=============================================================================
