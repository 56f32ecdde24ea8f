# TLA+ models of the NEORV32 processor

The repository is the NEORV32 RISC-V microcontroller: the processor in VHDL
(`rtl/core`), its C run-time and driver library (`sw/lib`), a bootloader
(`sw/bootloader`), an image generator (`sw/image_gen`) and the firmware of the
on-chip debugger (`sw/ocd-firmware`). This directory holds TLA+ models of the
parts that carry its control logic, the TLC runs that check them on small
instances, and the TLAPS proofs that hold for every size.

## 1. Inventory

The processor is a chain of bus requesters and responders that share one
internal protocol (`bus_req_t`/`bus_rsp_t` in `neorv32_package.vhd`): a
requester raises `stb` for one cycle and holds address, data, `rw`, `amo` and
`lock`; the responder answers with `ack`, possibly together with `err`, for one
cycle, any number of cycles later. `fence` is a pulse outside the protocol.
`neorv32_top.vhd` connects

    CPU fetch - icache -+
                        +- core switch -+
    CPU data  - dcache -+               +- dual-core arbiter -+
                (second core: the same) +                     +- DMA switch - AMO - reservation - gateway
                                                        DMA --+                                     |
                                                          memories, external bus, IO switch, peripherals

| component | state it keeps | operations | what is hard | what makes it correct |
|---|---|---|---|---|
| FIFO primitive | memory, two pointers, registered outputs | read, write, clear in one cycle | wrap-around, simultaneous accesses, outputs one cycle behind | it is a bounded queue |
| DMA and driver | descriptor FIFO, engine, flags; driver call | program, start, transfer, poll, disable | software races the engine, errors inside a chain | a job reported as done did exactly the programmed copies |
| bus switch | arbiter state, latched strobes, locks | arbitrate, latch, lock, release | back-to-back strobes, locked sequences | no request lost, answers to the right host, atomic sequences, no starvation |
| AMO unit, reservation | read data, operation, one reservation bit | read-modify-write, LR, SC | two harts and the DMA between read and write | memory operations are atomic, SC is exclusive |
| gateway, bus monitor, XBUS | countdown, error state, external cycle | decode, watch, terminate | late answers, silent devices | every access ends, errors only without an answer |
| cache | tags, status bits, data, control state | hit, download, write back, bypass, synchronize | read latency of the RAMs, bursts, errors within a block, fences at any time | the host sees its own stores, a fence makes memory and cache agree |
| CPU front end | prefetch buffers, fetch state | fetch, restart, align | a restart with a fetch outstanding | the issued stream is the memory's |
| CPU control | execution, trap and debug state, CSRs | dispatch, execute, trap, return, debug entry | simultaneous causes | every pending cause is taken once, in priority order |
| debug module, park loop | DMI registers, command state, hart flags | halt, resume, execute command | a handshake between two programs | every command ends, in the state the debugger is told |
| counters, CLINT | 64-bit counters in two words, comparator, software interrupt bits | set, read and compare in words | carries between two accesses, a comparator split over two cycles | a read is a time between call and return, no interrupt before its time |
| peripherals | control registers, FIFOs, bit engines | register access, serial transfer | FIFO limits, disable while busy | what is written is transmitted once, in order |
| runtime environment | vector table, saved context | set up, install, dispatch, return | handlers that change the context, interrupts between | a trap is transparent, or does what its handler emulates |
| second core | mailbox, stacks, shared vector table, lock | launch, acknowledge, dispatch, print | two harts and their interrupts in any order | core 1 starts on its stack, handlers stay installed, the console is exclusive and free again |
| bootloader, image generator | executable pointers, media, console | build, load, store, boot | media that fail in the middle, keys and uploads on one UART, the timer interrupt | what is called available is verified; what was stored loads again |
| FAT reader | mounted volume, open file, directory position | mount, open, read | chains cut short, card errors, reads across sectors and clusters | bytes delivered are the file's |
| 1-Wire | receive FIFO, search state | reset, bit, byte, search | answers nobody takes, global state between searches, devices that leave | every operation takes its own answer, every device is found once |
| test programs | shared trap cause, counters, interrupt enables | one test after the other | what one test leaves for the next | the verdict is right for right and for faulty processors |

`PROJECT.json` lists the components one by one with their files and status, and
the hazards at the lines where they bite.

## 2. Plan

Built, most important behaviour first: the FIFO every device uses, the DMA with
its driver, the bus from arbiter to gateway, atomic operations, the caches, the
counters with their library; then the software: bootloader with image generator
and FAT reader, runtime environment, second core, 1-Wire, test programs. Next:

1. Proofs. Done: FIFO, DMA with its driver and byte lanes, arbiter, memory path,
   bus monitor, cache, counters, bootloader with its flashes, runtime
   environment, second core, 1-Wire driver (section 5). Left: the FAT reader,
   which needs inductions over cluster chains and paths, and the verdicts and
   averages of the test programs.
2. CPU front end (`neorv32_cpu_frontend.vhd`) on top of `PrimFifo`: fetch engine,
   two prefetch buffers, issue and alignment; abstract specification: the
   stream of instructions from the last branch target.
3. CPU control: execution states and trap controller, with interrupts, debug
   entry and the load/store unit's answer. The software models take the trap
   entry of the hart as given; this would replace that assumption.
4. Debug module with `park_loop.S` as two machines.
5. Peripherals around `PrimFifo`: UART, SPI/SDI, TWI/TWD, SLINK.
6. Extensions of what is here: bus errors in `BusAtomic`, a partial descriptor
   in a full FIFO in `DmaDriver`, the XBUS register stage, pipelined bursts
   through the switch, AMOs on cached addresses, data caches under `DualCore`.

## 3. Modules and how they correspond to the code

All hardware models are synchronous: one step is one rising clock edge of the
component, its definitions are named after the VHDL processes, states and
signals, and inputs that the rest of the system drives are chosen freely from
what the bus protocol allows. `\* mutant` marks a variant of the following
definition with a plausible error; no specification uses it.

* **PrimFifo** is `neorv32_prim_fifo`. A pointer of AWIDTH+1 bits is its top
  bit and its index. **FifoQueue** is the promise: a bounded queue that may in
  one step be cleared, or be read, written or both. `PrimFifo!Refinement` maps
  the slots between the pointers to the queue.
* **Dma** is `neorv32_dma.vhd`: `ctrl_access`, `descriptor_buffer` (an instance
  of PrimFifo's clock step), and `bus_engine` with one action per state. An
  address holds one element; a descriptor word is a small integer whose digits
  are count and increment modes. **DmaDriver** adds `neorv32_dma.c`: every call
  is the sequence of its register accesses, each of them one bus access,
  interleaved with the engine. The ghost `ref` is the memory the programmed
  descriptors should produce. Clients differ: a careful one leaves a running
  controller alone, others program (`client.chain`) or disable (`client.abort`)
  it while it runs. **DmaLanes** has the byte lanes the
  other two abstract from: alignment, byte enables, byte swap, increments.
* **BusSwitch** holds the arbiter of `neorv32_bus_switch` as operators over a
  switch record, since the SoC has three of them. **BusPorts** puts one between
  two hosts and a device.
* **BusAtomic** composes the dual-core arbiter, the DMA switch (both from
  BusSwitch), `neorv32_bus_amo_rmw`, `neorv32_bus_amo_rvs` and the request side
  of the load/store unit over one memory. **AtomicMemory** is the promise:
  every operation takes effect at one instant between request and answer, and
  the answer fits. `Atomic` states the refinement. **AmoAlu** checks the
  operation encoding of `neorv32_cpu_lsu.vhd` and the ALU of the AMO unit
  together against the instruction set, bit by bit.
* **BusGateway** is the bus monitor of `neorv32_bus_gateway` and the arbiter of
  `neorv32_xbus.vhd`. Region decoding is reduced to "internal device",
  "external bus" and "nobody answers".
* **Cache** is `neorv32_cache.vhd` with `neorv32_cache_ram.vhd` and the RAM
  primitive, for both roles (`READ_ONLY`). The combinational outputs of the
  control engine are state functions with the signal names of the code
  (`cache_addr` for `cache_o.addr`, and so on), its states are actions, and
  `memories` is the clock edge of valid, dirty, tag and data memory with their
  registered read ports. Words are one byte lane wide: the four byte RAMs are
  identical and differ only in their write enable, so an access that does not
  enable the modelled lane stands for the others. `Junk` is whatever
  undriven data lines and uninitialised RAM carry. The ghost `fresh` maps an
  address to the values the host may be given: its own last store, or what
  others have stored since the last completed fence.
* **Timer** is the counter primitive `neorv32_prim_cnt`, as MTIME or as one of
  the counters of a hart, with the comparator of `neorv32_clint.vhd`. The
  library functions are the sequences of their word accesses; a step is a clock
  cycle in which the running function may make its next access, so that any
  number of cycles lies between two of them. The ghosts `clock` and `target` are
  the times that counter and comparator stand for.
* **BootImage** is the image generator and the header it shares with the
  bootloader, as pure functions of an ELF file. Its assumption `ImagesAgree`,
  which TLC evaluates, checks all output formats against each other.
  **Bootloader** is `main.c` with its drivers: a step is one word of a stream,
  one answer of the console, one step of `system_app_boot`; the timer interrupt
  that toggles the LED comes anywhere. TWI accesses and the card may fail, the
  UART may report an overflow (with `UART_OVERFLOW`), flash cells are programmed
  by clearing bits.
* **PetitFat** is `pff.c` over `diskio.c` in the configuration of `pffconf.h`. A
  sector is a record of what it holds (boot sector, FAT entries, directory
  entries or bytes); card types differ in initialisation and in addressing by
  byte or block.
* **Rte** is `neorv32_rte.c` on one hart: registers x0..x4 stand for all,
  since the others are saved and restored alike. Handlers are the default one,
  one of an application, and the emulation of unaligned loads of
  `demo_emulate_unaligned`.
* **DualCore** runs `neorv32_smp.c`, `crt0.S`, `neorv32_rte.c` and
  `demo_dual_core_rte` on two harts. Each routine is a table of instructions,
  one for every access another hart or a trap can observe; an output on UART0,
  with or without the lock, is a `print`.
* **OneWire** is `neorv32_onewire.c` over the controller's serial engine, with the
  search of `onewire_aux.h` and the console of `demo_onewire`. An operation of
  the controller is one step that leaves an answer in the receive FIFO, for the
  reset pulse the presence bit as the controller sets it. OWVerify,
  OWTargetSetup and OWFamilySkipSetup, which the console itself does not call,
  are modelled as calls a program may make.
* **SelfTest**, **PerformanceTest** and **FpuTest** are the test programs. Each
  test is the data of the program: the sequence of its CSR writes, provoked
  traps, sleeps and comparisons; the group of instructions it measures; the
  operation it compares. The actions interpret them on a processor that is right
  or wrong in one place. In PerformanceTest the helper instructions of a
  measurement take what they take on the core (`Cores`), the programs deduct what
  is written in them, and `truth` counts the measurements and the cycles of the
  measured instructions alone. FpuTest has the reference functions of
  `neorv32_zfinx_extension_intrinsics.h` on classes of operands (sign, zero,
  subnormal, two normal magnitudes, infinity, both NaNs). They are compared with
  the instruction set, stated independently (`Isa`), for minimum, maximum,
  comparison, sign injection and classification. The arithmetic of the C library
  is external: for addition, multiplication, conversions and CSRs the hardware is
  taken to agree with the reference unless it is faulty, and only the counting of
  errors is examined.
* **PrimFifoProofs, DmaProofs, BusProofs, BusAtomicProofs, CacheProofs,
  TimerProofs, BootloaderProofs** and **RuntimeProofs** extend the modules they
  are about with their inductive invariants, the lemmas and the theorems.
  BusProofs is about BusPorts, BusGateway and DmaLanes, DmaProofs about Dma and
  DmaDriver, RuntimeProofs about Rte, DualCore and OneWire.
* **MCDma, MCBusAtomic, MCCache, MCBootloader** give constants their values.
  **MCUnits** and **MCPrograms** join small models: each behaviour chooses one of
  them at the start and the others rest in one initial state, so that the states
  add up instead of multiplying. The fairness of each model is that of its own
  steps.

## 4. Runs

| run | question | instance |
|---|---|---|
| `units` | is the FIFO a queue? | 4 entries, 2 words: several wraps, full, empty, every input in every cycle |
| | do bytes arrive in their lanes, and does every AMO compute the right word? | all alignments, modes and swaps over 2 words; all pairs of 4-bit words: the ALU is bit-sliced apart from carry and sign |
| | does the arbiter lose, mix up or starve? | round robin, 2 hosts, sequences of up to 3 accesses, idle gaps, strobes in the cycle after an answer (the proofs cover the prioritising scheme as well) |
| | does every access end, and only silent ones with an error? | windows of 4 cycles, internal latency up to 2, external answers up to cycle 8 or never, sequences of 3 |
| | are the two words of a counter one number, and is the timer interrupt exact? | words of 4 values, all times up to 13, two calls: carries before, between and after every pair of accesses |
| `dma` | does a polled job do what was programmed, and what does disabling a running controller guarantee? | 8-word FIFO (two descriptors and room), 4 addresses, bus errors; a careful client with counts of 1, 2 and 0 (the largest), overlapping and wrapping copies and 2 jobs; a client that programs and disables at any time with one descriptor |
| `atomic` | are memory operations atomic for two harts and the DMA, and is store-conditional exclusive? | two words of 2 bits; one hart with all operations, one with stores and AMOs, the DMA writing both words |
| `cache` | do transfers put every word in its place, does a fence bring all stores to memory and end staleness, is every access answered? | 1 block of 4 words with bursts, two tags competing; 2 blocks of 2 words with single transfers, write-backs that fail, uncached accesses, another host that writes |
| `bootloader` | is only a verified executable called available, does a stored one load again, does auto-boot end? | 4 keys, bytes of 2 bits in words of 2 bytes, sectors of 6 words, images of two and three words, bad, damaged and out-of-range ones, one fault of a medium |
| `programs` | FAT: are the bytes delivered those of the file? | 6 clusters of 2 sectors of 2 bytes, root directory of two clusters, a file of three, chains cut, partitioned or not, every card type, reads of 1 or 2 bytes, one card error |
| | runtime environment: is a trap transparent? | emulated load, interrupt, fatal and other exception, all destination registers |
| | second core: launch, handlers, console | two polls before the time-out, one more timer interrupt per core, in any interleaving |
| | 1-Wire: does every operation take its own answer? | up to 3 devices of 4-bit numbers with 2 bits of family, 2 calls one after the other, one device removed |
| | test programs: are the verdicts and the averages right? | 62 tests in 4 configurations with one fault in any test; every single group and all groups of the three timing programs, instructions of 1 or 2 cycles, a core with the deducted helper cycles and one with others; all operand classes the generator draws |

In all of them bounds limit sizes only; schedules, answer delays and errors are
unrestricted within them. Counters that a bound limits (`client.jobs`,
`MaxBurst`, `MaxLatency`, `MaxKeys`, `MaxTimerCalls`) are large enough for every
state of the code to be reached with every combination of neighbours: each has
at least one element before and behind the interesting one.

The type invariants of the hardware modules and of Bootloader, and the auxiliary
invariants of the proofs (`OnlyWritten`, `OneAccessAtATime`), hold on the same
instances; the configurations list only the properties that say more than they.

Six runs show where a document and the code differ (`findings`):

* `dma_chain`: the third descriptor word is taken without waiting for it.
* `dma_abort`: disabling while a descriptor is fetched leaves the engine busy.
  `AtMostOneLateElement` in `dma` says what remains true.
* `atomic_dual`: with two harts the global reservation does not make
  store-conditional exclusive. The same property holds in `atomic`, where only
  one hart uses reservations.
* `gateway_deadline`: an answer in the very cycle of the time-out makes the bus
  monitor miss the next access. The run `units` excludes that one cycle
  (`DeadlineAnswer = FALSE`) and shows that nothing else goes wrong.
* `bootloader_store`: the sectors to erase are counted without the header, so
  that a store to the SPI flash can report success and leave an image that does
  not load. `StoredImageLoads` in `bootloader` is the same for images that fit.
* `onewire`: the driver returns the presence bit with the meaning of the
  controller, its documentation and its callers expect the opposite, and a scan
  finds nothing. With devices on the bus no search gets past its reset pulse, and
  without one it ends at its first bit; that part of `OWSearch` which follows a
  bit with a device is modelled, but not reached by the code as it is.

Further differences were met while modelling. The models follow the code;
no run is devoted to them:

* after a bus error DONE is set although descriptors are left in the FIFO
  (`neorv32_dma.vhd`, `S_CHECK`; `docs/datasheet/soc_dma.adoc` says that all
  descriptors were executed);
* a byte-to-word transfer replicates the byte in all lanes (`src_align`; the
  datasheet says "zero-extended words");
* a fence drops the reservation (`rvs_control`; `docs/datasheet/soc.adoc` says
  that it does not impact the reservation state);
* in `demo_dual_core_rte` nothing orders the second `neorv32_rte_setup` of core 0
  before the installations of core 1: if core 1 overtakes, its timer interrupt
  meets the default handler. `PrimaryServed` is about core 0 only;
* without user mode the processor check leaves MSTATUS.MIE cleared after the
  environment call test and the first CLINT test fails: `VerdictFair` asks for a
  pass only with user mode. A missing interrupt stops the check in a `wfi`
  instead of failing it, and a trap missing in user mode is covered by the
  illegal instruction that follows when the test compares no data;
* the console of `demo_dual_core_rte` is not exclusive where `ConsoleExclusive`
  has its two exceptions. `__neorv32_rte_panic` (`neorv32_rte.c:71-154`) prints
  without the lock: a core 1 whose environment call meets the table that core 0 is
  setting up again reports it while core 0 prints. And `main` prints its error
  message without the lock (`main.c:193`) when the launch has timed out, while the
  late core 1 runs `app_main`, whose comment says "use spinlock to have exclusive
  access to UART0" (line 102);
* core 1 starts `app_main` even though its launch was reported as failed
  (`neorv32_smp.c:37`): nothing takes the order back. `LaunchSound` is about
  launches reported as successful;
* the Zfinx timing program announces three min/max instructions and measures two,
  which spoils its average (`performance_tests/Zfinx/main.c:489`); the cycles of
  the helper instructions are to be adapted by hand
  (`performance_tests/I/main.c:125`), and a core with others spoils the averages
  with `jalr` and `mret`. `AverageSound` excludes exactly these. The thousandths
  are printed with `%d`, so that 2.005 reads 2.5; and `remainder*1000` overflows
  for very large `instLoop` (the model has no bound there);
* the selector of special operands in `floating_point_test/main.c:1021` has two
  bits for nine cases: the cases that are NaN are never taken, and NaN operands
  occur only among the random words, one in 256;
* the test of the floating-point program that announces FNMSUB (line 651)
  executes FNMADD (line 655): a unit that executes FNMSUB passes, the exception
  of `FpuVerdictExact`;
* a store to a flash that fails in the middle writes its header all the same
  (`system.c`, `system_app_store`), and reports the error; the image that is then
  in the flash is rejected by its checksum, unless that matches by chance;
* the emulation of unaligned loads does not sign-extend the offset
  (`demo_emulate_unaligned/main.c:69`); the model executes offsets the demo uses;
* a file on the SD card that ends early reads as zeros without an error
  (`sdcard.c:67`); only the checksum notices, and the model has it so;
* the image generator only warns of a size that is not a whole number of words,
  drops the partial word, and the bootloader then waits for it: `ImagesAgree` is
  about whole words;
* `neorv32_cpu_pmp_configure_region` returns success although the address of a
  region below a locked top-of-range region cannot be written (not modelled).

### Fairness

* The clock runs (weak fairness of the clock step) everywhere.
* The bus answers: assumed in BusPorts, DmaDriver and Cache, because the
  gateway's monitor ends an access that no device answers. BusGateway assumes
  nothing about devices and shows exactly that in `AccessTerminates`.
* A DMA client that polls goes on polling; it owes nothing else.
* A host issues at most one fence while its access is outstanding: the next
  fence instruction cannot execute before that access is answered. This is what
  `RequestAnswered` needs, as the cache serves fences first.
* Bootloader: the program runs and the time advances; users and hosts owe
  nothing, and `AutoBootSettles` ends at a prompt if nobody is there.
* DualCore: both harts are clocked (`WF` of each hart's step), nothing is assumed
  about interrupts. A spinlock under weak fairness alone could be lost to the
  other hart for ever; here each hart takes it finitely often.

### Assumptions on the constants

`Timer` assumes that a set function makes its accesses within 2^32 cycles
(`SetCycles < WordSpace`): an interrupt that lasts longer between them would let
the low word wrap. It takes at least two cycles (`SetCycles >= 2`), as the
accesses of one function come one after the other.

The others exclude instances without meaning. Without them some step of a proof
fails: a device needs at least a cycle to answer (`MaxLatency >= 1` in
BusGateway), words have at least one bit (`WordSpace >= 2` in BusAtomic; its
addresses are numbers and include the reset value 0), stack addresses are
numbers (`StackTop` in Rte), and a cache holds words and has at least one load
among its requests, which its address lines show before the first access.

Two assumptions of BootImage say what follows from its definitions but not by
the laws the provers have: a word has at least one value (`WordMaxAssumption`;
there is no law on exponents), and the image generator makes images that agree
with each other and pass the bootloader's checks (`ImagesAgree`). One of
Bootloader is of the same kind: flashes hold words, AND returns a word and leaves
it as it is if the other one is all ones (`FlashAssumption`). TLC evaluates the
three on every run of the bootloader.

Some theorems have hypotheses of their own, which are about how the component is
used: `OneReserver`, `AnswersInTime`, `Separate`, `UploadsEnd`, `ImageFits` (section 5).

## 5. Proofs

`PrimFifoProofs`, for every depth and data type. `TypeCorrect` is type
correctness. The level of the FIFO is not inductive by itself: nothing in the
types keeps the read pointer from overtaking the write pointer. `PointerInv`
says on which side of each other the indices are, depending on whether the wrap
bits agree; `IInv` joins it to types and `OnlyWritten` and is inductive
(`Inductive`). From it follow exact full and empty flags (`LevelCorrect`),
that only written data is delivered (`OnlyWrittenCorrect`), freshness of the
registered read port (`ReadPortCorrect`), and `FifoImplementsQueue`: each clock
edge is a step of the abstract queue, shown by comparing the sequence of slots
before and after the edge element by element. Assumptions: the depth is a
positive number, and the initial content is not a data word.

`DmaProofs`, for every size of the descriptor FIFO, of the address space and of
the element counter, all descriptors and all answer times of the bus.
`DmaAtMostOneLate` holds of every client. Its invariant `LateInv` says that once
an element has been written while the controller is disabled, the FIFO is empty
and the engine is in, or on its way to, a state that waits for a descriptor.
`DmaResultCorrect` is about the careful client. `CarefulInv` follows a job from
the first word in the FIFO (`ProgInv`) over the transfers (`PollInv`) to the poll
that reads DONE: what is left of the current descriptor (`Trace`, element by
element) and of those behind it in the FIFO (`Chain`) turns memory into `ref`.
The FIFO is used through an instance of PrimFifoProofs: its theorems say that the
words come out as programmed. That `ref`, computed by recursion over the
descriptors, is the last content of such a trace is an induction over the number
of elements. The induction theorems of the library cannot be used by the provers
installed, so the module derives induction from the pigeonhole principle for
finite sets (`SetInduction`), and from it the existence of recursively defined
functions (`Recursion`).

`BusProofs` has three parts. The arbiter, for both arbitration schemes and locked
sequences of any length. The invariant `IInv` is a conjunction over the two ports
of what the arbiter believes and what is true: a latched request has a waiting
host, a busy state has the device working for that port or a host between two
locked accesses, and the lock the switch remembers is older than a release by at
most the one cycle it takes to see it. The last part is what the safety
properties need: without it a state is possible in which the switch waits for a
release that was already given. Lemmas describe one port's host step and the
switch's step separately; the step lemma has a case for every combination.
`OneAccess`, `AnswerCorrect`, `NoLoss` and `LockedAtomic` follow from it.

The gateway, for any time-outs, latencies and lengths of locked sequences.
`GatewayInv` says where the host is in each state of the monitor (`HostShape`,
`ExternalShape`, `WatchShape`) and how far the countdown can have gone by then
(`Countdown`): between two accesses of a sequence it restarts, one cycle late.
The three safety theorems assume `AnswersInTime`: the internal window is longer
than the slowest internal device by two cycles (16 cycles against a few in the
processor), the external window is not one single cycle (the default is 2048),
and no external device answers in the very cycle of the time-out. The last part
is what `gateway_deadline` violates. The first two came up as steps that could
not be proved: with shorter windows the monitor ends accesses that are being
answered.

The byte lanes of a transfer (`TransferLanesCorrect`), for areas of any size.
`LanesInv` says after each element which bytes have been written and with what:
copied bytes lie between the start address and the current one, those of a
byte-order conversion in the mirrored lane of their word, and everything else is
untouched. Mirroring the lanes twice changes nothing, which is why the
converted bytes do not overwrite each other.

`BusAtomicProofs`, for any addresses, word size, data and programs of the two
harts and the DMA. The refinement mapping makes an operation pending from its
strobe to its acknowledge, and the acknowledge is the moment it takes effect.
What has to be shown is that the word an operation read is still the word in
memory then. `AtomicInv` follows one access from top to bottom: `HostInv` (only
AMOs lock the bus), `ArbiterInv` and `DmaSwitchInv` (what each arbiter believes
of the agents, including the cycle in which the complex arbiter still holds a
sequence that has just ended), `ServiceInv` (how far the one access in service
has come in read-modify-write unit, reservation station and memory; for an AMO,
that `rdata` equals memory in every state between read and write), and
`ReservationInv` (the station's one bit stands for a reservation that is still
good). `AtomicTypeCorrect` holds as it stands.
`AtomicConditionalExclusive` and `AtomicRefinement` assume `OneReserver`: at most
one agent executes load-reserved. Without it they are false, as the run
`atomic_dual` shows; only the parts of the invariant about reservations use it.

`CacheProofs`, for any number and size of blocks, single transfers and bursts,
answers after any number of cycles and any bus errors. `CacheInv` has a part for
each phase of an access. `LookupInv` ties the registered read ports to the
memories they were read from a cycle before. `TransferInv` divides the words of a
block into those done, those requested and those not: the queue of the bus holds
the requests from `Answer` to `Issued` in order. Single transfers and bursts, with
their different counters, differ only in `Issued`. `ReadInv` and `WriteInv` say
what holds of the words done, unless the transfer has seen an error; `BusInv` does
the same for accesses that bypass the cache. `SyncInv` says that synchronization
has dealt with the blocks before `idx`. `LineInv` and `MemInv` are the heart: a
cached word, and a word of memory that is not waiting to be written back, is one
the host may be given. From these follow `CacheReadCorrect`, `CacheCoherent` and,
as an action property, `CacheFenceFlushes`. They assume `Separate`: a block that
the host stores to through the cache holds no address that other hosts store to
or that the host itself reads uncached. The cache cannot do better: a write-back
writes whole blocks and would undo foreign stores. `MCCache` assumes the same, so
that TLC confirms it of the instances it runs.

`TimerProofs`, for words of any size, any function at any time and any number of
cycles between its accesses. `SumInv` is the number that the two registers and
the carry stand for. It does not hold while a counter is being set: there
`SetInv` says that the low word, cleared first, cannot come to an overflow before
the last access, and when that is made the number is right again. `GetInv` names
the moment a get function has found after its first two reads: the high word it
read first was reached, the low word was that of a time `t` between call and
now, and the high word of `t` is in the register by now. When the third read
equals the first, the result is `t` (`TimerCounterCorrect`).
For the timer interrupt `InterruptInv` is added. `ComparatorInv`: the comparator
holds its target, or is being set and its low word is out of reach. `SettledInv`:
the comparison is spread over two cycles, so the registered result for the low
words belongs to the time the high word shows a cycle later, and the interrupt to
the time two cycles ago. `UnsettledInv`: while words are being written, the
registers never show a time beyond the latest, nor a target before the earliest,
that the calls under way stand for. From these, `TimerInterruptExact`, an action
property.

`BootloaderProofs`, for any width of bytes and words, any memory and flash, all
uploads, files and failures. `BootInv` follows `system_app_load`: no executable
is available from its start to its success (`SizeInv`), the stages of the header
(`HeadInv`), and in the transfer of the data (`DataInv`) main memory holds the
words received so far, the byte counter is exactly their number of bytes and
`sum` is the checksum of the header plus that of those words. The last part is
an induction over the words, through the same `SetInduction` as in DmaProofs, and
the lemmas on division that the wrapping sum and the rounded-up number of words
need (`Division`, `Quotient`, `ModAdd`). `BootExecutableVerified` and, with
`QuietInv`, `BootAppStartsQuiet` follow. `BootUploadDecided` adds `UploadInv`: while
an upload is loaded, what has been read and what waits in the receiver make up
one stream and no key is among it; everywhere else but on the way to the panic
handler a key at most waits. An upload may be refused because the receiver has
overflown; one that is refused for another reason is not the beginning of an
executable. The theorem assumes `UploadsEnd`: hosts send nothing behind
an executable that is accepted, as its rest would indeed be read as commands.
`BootStoredImageLoads` is about `system_app_store`. An available executable lies
in main memory (`RoomInv`), and `StoreInv` goes with it through the stages: the
sectors before the current one have been erased (`EraseInv`), the data written so
far are in the flash and every cell still to be programmed, the skipped header
included, can take any word (`ProgramInv`), then the same of the header
(`HeaderInv`); the checksum written is the one that loading the image computes.
`StoredInv` says that what was reported as stored stays. The theorem assumes
`ImageFits`: a flash has room for a header and all of main memory. The code checks
nothing of the kind; the TWI flash has two address bytes by default
(`TWI_FLASH_ADDR_BYTES`), and a larger image would wrap around onto its header.
Sectors are counted without the header, so the invariant keeps the contents only
if the erased ones hold the image (`Erasable`), as the property does.
That images of the generator are sequences of words the bootloader accepts is the
assumption `ImagesAgree`, which TLC evaluates. Without this assumption it would
need induction over the folds of the generator.

`RuntimeProofs` has three parts. The runtime environment, for every set of
causes, every content of the data memory and every stack. `RteInv` follows the
registers of the interrupted program into the frame of `__neorv32_rte_core`,
through whatever the handler leaves in the registers, and back; after an emulated
load exactly the destination register in the frame has changed.
`RteTrapTransparent` is its last part.

The second core, for any number of polls and interrupts. `DualInv` says for each
hart where it can be and that interrupts are on only in its sleep loop
(`HartInv`), who holds the lock (`LockInv`), what the steps of
`neorv32_smp_launch` on core 0 mean for core 1 (`LaunchInv`, `StackInv`), and from
which place on core 0 finds its handlers in the shared table (`TableInv`). That
core 1 acknowledges a software interrupt before it acts on it is what makes
`LaunchInv` two-sided: while the interrupt is pending core 1 may be anywhere on
the way to it. Of every output the invariant says whether it is made with the
lock, before core 1 has been started, or in one of the two places named in
`ConsoleExclusive`: core 0 is never in the panic handler, and core 1 never in
`main`. `DualLaunchSound`, `DualConsoleExclusive` and `DualPrimaryServed` follow.

The 1-Wire driver, for any number of devices and of ROM bits, after any calls of
the console, devices leaving at any time. `OwInv` joins two things to the types.
While a blocking function waits, one command or answer is outstanding, in the
serial engine or in the receive FIFO, and between two of them none is
(`QueueInv`); the bit number of a search stays in its range (`NumberInv`), so that
`ROM_NO` is never written outside of it.
`OneWireTypeCorrect` and `OneWireAnswersMatched` follow. Devices have a family code
other than zero and a right CRC (`OneWireAssumption`).

TLC has checked every inductive invariant as an invariant before it was proved,
the one of the cache on five instances (one block of one word, read-only, with
and without bursts).

Only model-checked:

* liveness (`RequestAnswered`, `AccessTerminates`, `AutoBootSettles` and the
  others under fairness): fairness and ENABLED are outside the prover's reach.
* BootImage and PetitFat: the formats of the image generator, cluster chains and
  paths are folds and recursions over data of every shape; each would need an
  induction of its own.
* SelfTest, FpuTest and PerformanceTest: their data are the finite listings of the
  programs, which TLC goes through completely.
* what a 1-Wire scan lists: it is wrong on the code as it is (run `onewire`).
* AmoAlu: the prover cannot use its bit operations.

## 6. Not modelled

The components marked `not_modelled` in `PROJECT.json`, each with its reason;
section 2 says which are next. The front end (a restart with a fetch
outstanding), the execution control (simultaneous trap causes) and the debug
module with its park loop have interleavings of their own that nothing here
covers; the software models take the trap entry, `mret` and `wfi` of a hart as
the instruction set defines them. Left out on purpose: word-level arithmetic of
the ALU, FPU and crypto units (state spaces of 32-bit operands), analog
behaviour of the random number generator, generated files (`final`, memory
images), benchmarks of third parties, and the one-screen demos of single
peripherals. Within the modelled parts: the register stage of the external bus,
more than one access of a host in flight in BusPorts and BusGateway (bursts of
the cache), a late answer of an external device to an access that follows a
time-out in the next cycle, bus errors under an AMO, a fence of one hart between
the LR and SC of the other (it costs a retry), atomic operations on a word that
is cached dirty, for which the datasheet makes software responsible, and data
caches between the two cores' vector table.
