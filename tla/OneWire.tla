-------------------------------- MODULE OneWire --------------------------------
(***************************************************************************)
(* The 1-Wire stack: the controller's command queue and the driver         *)
(* neorv32_onewire.c on it, and demo_onewire with the ROM search of        *)
(* onewire_aux.h.  The controller answers every command with an entry of   *)
(* its receive FIFO; a blocking function issues one, waits until the       *)
(* controller is no longer busy and takes the entry, also when it has no   *)
(* use for it.  Devices answer a search with their ROM bit and its         *)
(* complement, wired-AND on the bus, and drop out when the bit that is     *)
(* written back is not theirs.                                             *)
(*                                                                         *)
(* ROM numbers have RomBits bits (64 in the code), the first FamilyBits    *)
(* (8) the family code, the last one a parity bit in the place of the CRC. *)
(***************************************************************************)
EXTENDS Naturals, Sequences, FiniteSets

CONSTANTS
  RomBits, FamilyBits,
  BusDevices,   \* the sets of ROM numbers that may be on the bus
  MaxUnplugs,   \* bound: devices removed while the program runs
  MaxCalls      \* bound: console commands

VARIABLES
  present,      \* the devices on the bus
  listening,    \* the devices that still take part in the search
  bitPos,       \* the ROM bit they are at
  dcmd,         \* the command the serial engine executes, or Idle
  rx,           \* the receive FIFO
  ROM_NO, LastDiscrepancy, LastFamilyDiscrepancy, LastDeviceFlag,
  search,       \* the running OWSearch: step, id_bit, last_zero, bit number
  console,      \* the running console command and what it does with the search
  found,        \* the ROM numbers that scan_bus has printed
  unplugged     \* devices removed so far; calls made

searchState == <<ROM_NO, LastDiscrepancy, LastFamilyDiscrepancy, LastDeviceFlag>>
owVars == <<present, listening, bitPos, dcmd, rx, searchState, search, console, found, unplugged>>

Rom == [1 .. RomBits -> {0, 1}]
Family(rom) == [i \in 1 .. FamilyBits |-> rom[i]]
NoFamily == [i \in 1 .. FamilyBits |-> 0]

(* crc8 # 0 after docrc8 over all bytes, with parity in its place *)
crcError(rom) == Cardinality({i \in 1 .. RomBits : rom[i] = 1}) % 2 # 0

ASSUME OneWireAssumption ==
  /\ RomBits \in Nat /\ FamilyBits \in 1 .. RomBits - 1
  /\ MaxUnplugs \in Nat /\ MaxCalls \in Nat
  /\ \A devices \in BusDevices : \A d \in devices :
       d \in Rom /\ Family(d) # NoFamily /\ ~crcError(d)

-----------------------------------------------------------------------------
(* The controller and the bus. *)

Idle == <<"idle">>
wiredAnd(bits) == IF 0 \in bits THEN 0 ELSE 1

(* The serial engine executes the command at the head of the queue.  Its     *)
(* presence bit is set when a device answers the reset pulse.                *)
Serial ==
  /\ dcmd # Idle
  /\ dcmd' = Idle
  /\ LET op == dcmd[1]
     IN  /\ rx' = Append(rx,
              CASE op = "reset" -> IF present # {} THEN 1 ELSE 0
                [] op = "id" -> wiredAnd({d[bitPos] : d \in listening})
                [] op = "cmp" -> wiredAnd({1 - d[bitPos] : d \in listening})
                [] OTHER -> dcmd[2])
         /\ listening' = CASE op = "reset" -> present
                           [] op = "write_bit" -> {d \in listening : d[bitPos] = dcmd[2]}
                           [] OTHER -> listening
         /\ bitPos' = CASE op = "reset" -> 1
                        [] op = "write_bit" /\ bitPos < RomBits -> bitPos + 1
                        [] OTHER -> bitPos
  /\ UNCHANGED <<present, searchState, search, console, found, unplugged>>

(* A device is removed: it answers nothing from now on. *)
Unplug ==
  /\ unplugged.devices < MaxUnplugs
  /\ \E d \in present :
       /\ present' = present \ {d}
       /\ listening' = listening \ {d}
  /\ unplugged' = [unplugged EXCEPT !.devices = @ + 1, !.running = @ \/ console.cmd # "none"]
  /\ UNCHANGED <<bitPos, dcmd, rx, searchState, search, console, found>>

(* The non-blocking functions write a command. *)
issue(command) == dcmd' = command /\ UNCHANGED <<present, listening, bitPos, unplugged>>

(* The blocking functions end: busy is clear and the answer is taken out of  *)
(* the FIFO; the write functions discard it.                                 *)
collected == dcmd = Idle /\ rx # <<>> /\ rx' = Tail(rx)

discard_Left == dcmd = Idle /\ rx # <<>> /\ rx' = rx  \* mutant: a write leaves its answer in the FIFO

discard == dcmd = Idle /\ rx # <<>> /\ rx' = Tail(rx)

-----------------------------------------------------------------------------
(* OWSearch.  search.step names the call it waits for. *)

searchReset == LastDiscrepancy' = 0 /\ LastDeviceFlag' = FALSE /\ LastFamilyDiscrepancy' = 0

NoSearch == [step |-> "none", id |-> 0, number |-> 1, last_zero |-> 0, result |-> FALSE]
Begun == [NoSearch EXCEPT !.step = "reset"]
(* The search is over; the console command takes the result. *)
Ended(result) == [NoSearch EXCEPT !.step = "done", !.result = result]

(* A search that starts after the last device returns at once. *)
OWSearch_start ==
  /\ search.step = "start"
  /\ IF LastDeviceFlag
     THEN /\ search' = Ended(FALSE) /\ searchReset
          /\ UNCHANGED <<present, listening, bitPos, dcmd, unplugged, ROM_NO>>
     ELSE /\ search' = Begun /\ issue(<<"reset", 1>>)
          /\ UNCHANGED searchState
  /\ UNCHANGED <<rx, console, found>>

(* neorv32_onewire_reset_blocking: non-zero ends the search. *)
OWSearch_reset ==
  /\ search.step = "reset" /\ collected
  /\ IF Head(rx) # 0
     THEN /\ search' = Ended(FALSE) /\ searchReset
          /\ UNCHANGED <<present, listening, bitPos, dcmd, unplugged, ROM_NO>>
     ELSE /\ search' = [search EXCEPT !.step = "command"] /\ issue(<<"write_byte", 1>>)
          /\ UNCHANGED searchState
  /\ UNCHANGED <<console, found>>

(* All bits are through: the search has succeeded if the CRC is right and    *)
(* the family code is not zero.                                              *)
conclude ==
  /\ IF crcError(ROM_NO) \/ Family(ROM_NO) = NoFamily
     THEN search' = Ended(FALSE) /\ searchReset
     ELSE /\ search' = Ended(TRUE)
          /\ LastDiscrepancy' = search.last_zero
          /\ LastDeviceFlag' = (LastDeviceFlag \/ search.last_zero = 0)
          /\ UNCHANGED LastFamilyDiscrepancy
  /\ UNCHANGED <<present, listening, bitPos, dcmd, unplugged, ROM_NO>>

(* The search command, and each direction bit but the last, are followed by  *)
(* the next pair of reads.                                                   *)
OWSearch_command ==
  /\ search.step \in {"command", "next_bit"} /\ discard
  /\ IF search.number <= RomBits
     THEN /\ search' = [search EXCEPT !.step = "read_id"] /\ issue(<<"id", 1>>)
          /\ UNCHANGED searchState
     ELSE conclude
  /\ UNCHANGED <<console, found>>

OWSearch_id ==
  /\ search.step = "read_id" /\ collected
  /\ search' = [search EXCEPT !.step = "read_cmp", !.id = Head(rx)]
  /\ issue(<<"cmp", 1>>)
  /\ UNCHANGED <<searchState, console, found>>

(* The direction at a bit where both values are on the bus *)
discrepancyDirection(n) ==
  IF n < LastDiscrepancy THEN ROM_NO[n] ELSE IF n = LastDiscrepancy THEN 1 ELSE 0

OWSearch_direction ==
  /\ search.step = "read_cmp" /\ collected
  /\ LET n == search.number
         cmp == Head(rx)
         dir == IF search.id # cmp THEN search.id ELSE discrepancyDirection(n)
         zero == search.id = cmp /\ dir = 0
     IN  IF search.id = 1 /\ cmp = 1
         THEN /\ search' = Ended(FALSE) /\ searchReset
              /\ UNCHANGED <<present, listening, bitPos, dcmd, unplugged, ROM_NO>>
         ELSE /\ ROM_NO' = [ROM_NO EXCEPT ![n] = dir]
              /\ LastFamilyDiscrepancy' = IF zero /\ n <= FamilyBits THEN n ELSE LastFamilyDiscrepancy
              /\ search' = [search EXCEPT !.last_zero = IF zero THEN n ELSE @, !.number = n + 1,
                                          !.step = "next_bit"]
              /\ issue(<<"write_bit", dir>>)
              /\ UNCHANGED <<LastDiscrepancy, LastDeviceFlag>>
  /\ UNCHANGED <<console, found>>

-----------------------------------------------------------------------------
(* The console. *)

NoCommand == [cmd |-> "none", rom |-> <<>>, keep |-> <<>>, answer |-> FALSE]
command(name) == [NoCommand EXCEPT !.cmd = name]
Free == console.cmd = "none" /\ unplugged.calls < MaxCalls
Called == unplugged' = [unplugged EXCEPT !.calls = @ + 1, !.running = FALSE]
Starting == search' = [NoSearch EXCEPT !.step = "start"]
BusAlone == UNCHANGED <<present, listening, bitPos, dcmd, rx>>

(* scan_bus: OWFirst, then OWNext while a device is found. *)
scan_bus ==
  /\ Free /\ Called /\ Starting
  /\ searchReset
  /\ console' = command("scan")
  /\ found' = <<>>
  /\ UNCHANGED ROM_NO /\ BusAlone

scan_next ==
  /\ console.cmd = "scan" /\ search.step = "done"
  /\ IF search.result
     THEN found' = Append(found, ROM_NO) /\ Starting /\ UNCHANGED console
     ELSE search' = NoSearch /\ console' = command("scanned") /\ UNCHANGED found
  /\ UNCHANGED <<searchState, unplugged>> /\ BusAlone

(* OWVerify: the search retraces ROM_NO; the search state is put back.       *)
OWVerify ==
  /\ Free /\ Called /\ Starting
  /\ console' = [command("verify") EXCEPT
                   !.rom = ROM_NO,
                   !.keep = <<LastDiscrepancy, LastFamilyDiscrepancy, LastDeviceFlag>>]
  /\ LastDiscrepancy' = RomBits /\ LastDeviceFlag' = FALSE
  /\ UNCHANGED <<ROM_NO, LastFamilyDiscrepancy, found>> /\ BusAlone

OWVerify_end ==
  /\ console.cmd = "verify" /\ search.step = "done"
  /\ console' = [console EXCEPT !.cmd = "verified", !.answer = search.result /\ ROM_NO = console.rom]
  /\ ROM_NO' = console.rom
  /\ LastDiscrepancy' = console.keep[1] /\ LastFamilyDiscrepancy' = console.keep[2]
  /\ LastDeviceFlag' = console.keep[3]
  /\ search' = NoSearch
  /\ UNCHANGED <<found, unplugged>> /\ BusAlone

(* OWTargetSetup for a family and OWNext *)
OWTargetSetup ==
  /\ Free /\ Called /\ Starting
  /\ \E f \in {Family(d) : d \in UNION BusDevices} :
       /\ ROM_NO' = [i \in 1 .. RomBits |-> IF i <= FamilyBits THEN f[i] ELSE 0]
       /\ console' = [command("target") EXCEPT !.rom = f]
  /\ LastDiscrepancy' = RomBits /\ LastFamilyDiscrepancy' = 0 /\ LastDeviceFlag' = FALSE
  /\ UNCHANGED found /\ BusAlone

(* OWFamilySkipSetup and OWNext *)
OWFamilySkipSetup ==
  /\ Free /\ Called /\ Starting
  /\ LastDiscrepancy' = LastFamilyDiscrepancy /\ LastFamilyDiscrepancy' = 0
  /\ LastDeviceFlag' = (LastDeviceFlag \/ LastFamilyDiscrepancy = 0)
  /\ console' = command("skip")
  /\ UNCHANGED <<ROM_NO, found>> /\ BusAlone

OWNext_end ==
  /\ console.cmd \in {"target", "skip"} /\ search.step = "done"
  /\ console' = [console EXCEPT !.cmd = IF @ = "target" THEN "targeted" ELSE "skipped",
                                !.answer = search.result]
  /\ search' = NoSearch
  /\ UNCHANGED <<searchState, found, unplugged>> /\ BusAlone

(* The other commands of the console issue one operation each and collect    *)
(* its answer.                                                               *)
console_single(commands) ==
  /\ Free /\ Called
  /\ \E c \in commands : dcmd' = c /\ console' = command("single")
  /\ UNCHANGED <<present, listening, bitPos, rx, searchState, search, found>>

console_bit == console_single({<<"reset", 1>>, <<"write_bit", 0>>, <<"write_bit", 1>>, <<"id", 1>>})
read_byte == console_single({<<"read_byte", 1>>})
write_byte == console_single({<<"write_byte", 0>>, <<"write_byte", 1>>})

console_answer ==
  /\ console.cmd = "single" /\ collected
  /\ console' = NoCommand
  /\ UNCHANGED <<present, listening, bitPos, dcmd, searchState, search, found, unplugged>>

(* The result of a command has been shown. *)
console_prompt ==
  /\ console.cmd \in {"scanned", "verified", "targeted", "skipped"}
  /\ console' = NoCommand
  /\ UNCHANGED <<present, listening, bitPos, dcmd, rx, searchState, search, found, unplugged>>

OwInit ==
  /\ present \in BusDevices
  /\ listening = {} /\ bitPos = 1
  /\ dcmd = Idle /\ rx = <<>>
  /\ ROM_NO = [i \in 1 .. RomBits |-> 0]
  /\ LastDiscrepancy = 0 /\ LastFamilyDiscrepancy = 0 /\ LastDeviceFlag = FALSE
  /\ search = NoSearch /\ console = NoCommand /\ found = <<>>
  /\ unplugged = [devices |-> 0, running |-> FALSE, calls |-> 0]

OwNext ==
  \/ Serial \/ Unplug
  \/ OWSearch_start \/ OWSearch_reset \/ OWSearch_command \/ OWSearch_id
  \/ OWSearch_direction
  \/ scan_bus \/ scan_next \/ OWVerify \/ OWVerify_end
  \/ OWTargetSetup \/ OWFamilySkipSetup \/ OWNext_end
  \/ console_bit \/ read_byte \/ write_byte \/ console_answer \/ console_prompt

OwSpec == OwInit /\ [][OwNext]_owVars

-----------------------------------------------------------------------------
(* Every blocking function of the driver takes the answer to the operation   *)
(* that it has issued, also the ones that have no use for it: while one      *)
(* waits, exactly one operation or answer is outstanding, and between two of *)
(* them nothing is left in the FIFO that the next one could take for its own.*)
AnswersMatched ==
  LET waiting == console.cmd = "single" \/ search.step \notin {"none", "start", "done"}
      outstanding == Len(rx) + IF dcmd = Idle THEN 0 ELSE 1
  IN  outstanding = IF waiting THEN 1 ELSE 0

(* What the help text of the console promises: "Scan bus (get IDs from all   *)
(* devices)", each once, unless a device leaves during the scan.  The code   *)
(* does not do that: the driver returns the presence bit as the controller   *)
(* sets it, and OWSearch takes a 1 for an empty bus.                         *)
ScanFindsAll ==
  console.cmd = "scanned" /\ ~unplugged.running =>
    /\ {found[i] : i \in 1 .. Len(found)} = present
    /\ Len(found) = Cardinality(present)
=============================================================================
