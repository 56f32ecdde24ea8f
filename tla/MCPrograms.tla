----------------------------- MODULE MCPrograms -----------------------------
(***************************************************************************)
(* Library and programs that run on the processor, one at a time: the FAT  *)
(* reader of the bootloader, the runtime environment, the dual-core demo,  *)
(* the 1-Wire demo, and the three test programs.  A behaviour chooses one  *)
(* of them and runs it; the others rest in their initial state.            *)
(***************************************************************************)
EXTENDS PetitFat, Rte, DualCore, OneWire, SelfTest, PerformanceTest, FpuTest

VARIABLE program  \* the program that runs

programVars ==
  <<program, fatVars, rteVars, dualVars, owVars, selfVars, perfVars, fpuVars>>

(***************************************************************************)
(* PetitFat: six clusters of two sectors, sectors of two bytes, of one     *)
(* directory entry and of two FAT entries: root directory in clusters 2    *)
(* and 3, directory DD in cluster 6, a file of nine bytes in clusters 5, 4 *)
(* and 7, and one in 7.  A volume starts at sector 0 or in a partition,    *)
(* and the chain of the root directory or of the file may be cut short.    *)
(***************************************************************************)
Bpb == [csize |-> 2, reserved |-> 1, fats |-> 1, fatsz |-> 4, sectors |-> 17, root |-> 2]
Directories == [c \in {2, 3, 6} |->
  CASE c = 2 -> <<[name |-> <<"B", " ", "N">>, attr |-> "volume", clust |-> 0, size |-> 0],
                  [name |-> <<"X", " ", " ">>, attr |-> "dir", clust |-> 1, size |-> 0]>>
    [] c = 3 -> <<[name |-> <<"D", "D", " ">>, attr |-> "dir", clust |-> 6, size |-> 0],
                  [name |-> <<"B", " ", "N">>, attr |-> "file", clust |-> 5, size |-> 9]>>
    [] c = 6 -> <<[name |-> <<"N", "N", " ">>, attr |-> "file", clust |-> 7, size |-> 3],
                  [name |-> <<>>, attr |-> "", clust |-> 0, size |-> 0]>>]
Contents == [c \in {4, 5, 7} |->
  CASE c = 5 -> <<1, 2, 3, 4>> [] c = 4 -> <<5, 6, 7, 8>> [] c = 7 -> <<9, 10, 11, 12>>]
FatOf(cut) ==
  <<0, 0, IF cut = "root" THEN 1 ELSE 3, 99, IF cut = "file" THEN 8 ELSE 7, 4, 99, 99>>
Volume(base, cut) ==
  [s \in 0 .. base + 17 |->
    CASE s = base -> [signed |-> TRUE, boot |-> {Bpb}, partition |-> 0]
      [] s < base -> [signed |-> TRUE, boot |-> {}, partition |-> base]
      [] s \in base + 1 .. base + 4 ->
           [fat |-> SubSeq(FatOf(cut), 2 * (s - base - 1) + 1, 2 * (s - base - 1) + 2)]
      [] OTHER ->
           LET c == ((s - base - 5) \div 2) + 2
               k == (s - base - 5) % 2
           IN  IF c \in DOMAIN Directories THEN [dir |-> <<Directories[c][k + 1]>>]
               ELSE IF c \in DOMAIN Contents THEN [data |-> SubSeq(Contents[c], 2 * k + 1, 2 * k + 2)]
               ELSE [data |-> <<0, 0>>]]
bn == <<"b", ".", "n">>
ddnn == <<"d", "d", "/", "n", "n">>
FilesOf(cut) ==
  [p \in IF cut = "root" THEN {} ELSE {bn, ddnn} |->
     IF p = ddnn THEN <<9, 10, 11>> ELSE [k \in 1 .. IF cut = "file" THEN 8 ELSE 9 |-> k]]
Unformatted == {[signed |-> TRUE, boot |-> {}, partition |-> 0], [signed |-> FALSE],
                [signed |-> TRUE, boot |-> {[Bpb EXCEPT !.sectors = 7]}, partition |-> 0]}
MCDisks ==
  {[sectors |-> Volume(v[1], v[2]), files |-> FilesOf(v[2])] :
     v \in {<<0, "no">>, <<2, "file">>, <<0, "root">>}}
  \cup {[sectors |-> [s \in {0} |-> first], files |-> <<>>] : first \in Unformatted}
MCCards == [kind : CardKinds, busy : BOOLEAN, type : {""}]
MCPaths == {bn, ddnn, <<"d", "d">>, <<"X", "/", "b">>, <<"b", ".", "n", "/", "n">>,
            <<"d", "d", "/", "b">>, <<"d", ".", "n">>}

(* Rte: an emulated load, an interrupt, a fatal exception, one that is not *)
MCCauses == {"L_MISALIGNED", "MTI", "I_ACCESS", "ENV_CALL"}
MCDataBlock == <<3, 2, 1, 0>>

(* OneWire: up to three devices, three bits each and the parity; the bus   *)
(* may also be empty, and devices leave in between                         *)
WithParity(rom) == Append(rom, Cardinality({i \in DOMAIN rom : rom[i] = 1}) % 2)
RomNumbers == {WithParity(rom) : rom \in {r \in [1 .. RomBits - 1 -> {0, 1}] : r[1] = 1 \/ r[2] = 1}}
MCBusDevices == {devices \in SUBSET RomNumbers : Cardinality(devices) <= 3}

(* SelfTest: everything, and configurations without one option or another *)
AllFeatures ==
  {"ZIHPM", "PMP", "PMP_UNLOCKED", "PMP_TOR", "PMP_NAPOT", "U", "SMCNTRPMF", "ZIMOP", "XBUS", "SIM",
   "DCACHE", "C", "CLINT", "UART0", "UART1", "TWD", "TRACER", "SPI", "TWI", "GPIO", "NEOLED", "DMA",
   "SDI", "GPTMR", "ONEWIRE", "SLINK", "TRNG", "ZALRSC", "SMP"}
MCConfigurations ==
  {AllFeatures, (AllFeatures \ {"C", "ZIMOP", "SIM", "CLINT"}) \cup {"noC"},
   AllFeatures \ {"PMP_TOR"}, AllFeatures \ {"U", "PMP", "SMCNTRPMF"}}

(* PerformanceTest: a core with the cycles that the programs deduct for    *)
(* their helper instructions, and one that needs others                    *)
MCCores == {[auipc |-> 2, jal_csrw |-> 11], [auipc |-> 3, jal_csrw |-> 12]}

(* FpuTest: the default switches, and all of them *)
DefaultTests == {"CONV", "ADDSUB", "MUL", "MINMAX", "COMPARE", "SGNINJ", "CLASSIFY"}
MCSwitches == {DefaultTests, DefaultTests \cup {"CSR", "EXC", "CORNER", "UNAVAIL", "TIMING"}}

-----------------------------------------------------------------------------
FatRest == FatInit /\ card = (CHOOSE c \in Cards : TRUE) /\ disk = (CHOOSE d \in Disks : TRUE)
OwRest == OwInit /\ present = {}
SelfRest == SelfInit /\ have = AllFeatures /\ fault.kind = "none"
PerfRest == PerfInit /\ suite = PerformanceM /\ options = {} /\ startTime = 0
            /\ core = (CHOOSE c \in Cores : TRUE)
FpuRest == FpuInit /\ runTests = DefaultTests /\ badOp = "none"

ProgramInit ==
  /\ program \in {"fat", "rte", "dual_core", "onewire", "self_test", "performance", "fpu_test"}
  /\ RteInit /\ DualInit
  /\ IF program = "fat" THEN FatInit ELSE FatRest
  /\ IF program = "onewire" THEN OwInit ELSE OwRest
  /\ IF program = "self_test" THEN SelfInit ELSE SelfRest
  /\ IF program = "performance" THEN PerfInit ELSE PerfRest
  /\ IF program = "fpu_test" THEN FpuInit ELSE FpuRest

Runs(p) ==
  /\ program = p /\ UNCHANGED program
  /\ p # "fat" => UNCHANGED fatVars
  /\ p # "rte" => UNCHANGED rteVars
  /\ p # "dual_core" => UNCHANGED dualVars
  /\ p # "onewire" => UNCHANGED owVars
  /\ p # "self_test" => UNCHANGED selfVars
  /\ p # "performance" => UNCHANGED perfVars
  /\ p # "fpu_test" => UNCHANGED fpuVars

ProgramNext ==
  \/ Runs("fat") /\ FatNext
  \/ Runs("rte") /\ RteNext
  \/ Runs("dual_core") /\ DualNext
  \/ Runs("onewire") /\ OwNext
  \/ Runs("self_test") /\ SelfNext
  \/ Runs("performance") /\ PerfNext
  \/ Runs("fpu_test") /\ FpuNext

(* The fairness of DualCore: both harts are clocked. *)
ProgramFairness == \A c \in Core : WF_programVars(Runs("dual_core") /\ CoreStep(c))

ProgramSpec == ProgramInit /\ [][ProgramNext]_programVars /\ ProgramFairness
=============================================================================
