----------------------------- MODULE Bootloader -----------------------------
(***************************************************************************)
(* The bootloader: auto-boot with its time-out, the console, loading an    *)
(* executable from UART, TWI flash, SPI flash or SD card, storing it to a  *)
(* flash and booting it, with the timer interrupt that blinks the status   *)
(* LED in between.  Console output is left out.  Memories are indexed by   *)
(* word; addresses and sizes are in bytes.                                 *)
(***************************************************************************)
EXTENDS BootImage

CONSTANTS
  RamBytes,                \* the main memory the bus answers for
  FlashBytes,              \* the size of either flash
  SPI_FLASH_SECTOR_SIZE,
  AUTO_BOOT_TIMEOUT,       \* in ticks of the machine timer
  DEFAULT_EXE_ADDR,
  Uploads,                 \* the word streams a host may send
  FlashImages,             \* what the flashes may hold at power-up
  Files,                   \* what boot.bin may hold
  MaxKeys,                 \* bound: keys a user presses
  MaxFaults                \* bound: TWI accesses not acknowledged, card errors, overflows

ASSUME BootloaderAssumption ==
  /\ {RamBytes, FlashBytes, SPI_FLASH_SECTOR_SIZE} \subseteq Nat \ {0}
  /\ \A n \in {RamBytes, FlashBytes, SPI_FLASH_SECTOR_SIZE} : n % WordBytes = 0
  /\ {AUTO_BOOT_TIMEOUT, DEFAULT_EXE_ADDR, MaxKeys, MaxFaults} \subseteq Nat
  /\ Uploads \cup Files \subseteq Seq(Word)

VARIABLES
  pc,      \* where main() is
  g,       \* g_exe_base, g_exe_size, g_flash_addr
  job,     \* the locals of the load, store or boot in progress
  ram,     \* main memory
  spi,     \* SPI flash: cells, WEL, and whether it answers
  twi,     \* TWI flash: cells
  sd,      \* SD card: the file, the words read, the FA_OPENED flag
  rx,      \* characters received by UART0; a "data" item stands for one word
  cpu,     \* MSTATUS.MIE, the LED and the time since reset
  env,     \* keys and faults still to come
  stream,  \* history: the words of the last load that succeeded
  stored   \* history: device and words of the last store that succeeded

vars == <<pc, g, job, ram, spi, twi, sd, rx, cpu, env, stream, stored>>

Flash == 0 .. FlashBytes \div WordBytes - 1
Ram == 0 .. RamBytes \div WordBytes - 1
Erased == WordMax - 1
Cell(addr) == (addr \div WordBytes) % Cardinality(Flash)
Keys == {"r", "u", "e", "x", "w", "t", "s", "l", "c", "y", "?"}
NoJob == [dev |-> "none", ret |-> "console", words |-> <<>>, i |-> 0, sum |-> 0, rc |-> FALSE]

(* a AND b, bit by bit: programming a flash cell can only clear bits       *)
Bits == {2 ^ k : k \in 0 .. WordMax - 1} \cap Word
And(a, b) == MapThenSumSet(LAMBDA n : IF (a \div n) % 2 = 1 /\ (b \div n) % 2 = 1 THEN n ELSE 0,
                           Bits)

(* Flashes hold words.  And what the provers cannot derive, for want of    *)
(* laws on exponents: that AND returns a word, and that a word of ones     *)
(* leaves the other one as it is.                                          *)
ASSUME FlashAssumption ==
  /\ FlashImages \subseteq [Flash -> Word]
  /\ \A a, b \in Word : And(a, b) \in Word /\ And(Erased, b) = b

(***************************************************************************)
(* Flash, card and UART as byte and word streams                           *)
(***************************************************************************)
(* spi_flash_cmd: WRITE_ENABLE and WRITE_DISABLE drive the write enable    *)
(* latch of a flash that answers                                           *)
spi_flash_cmd(dev, enable) == [dev EXCEPT !.wel = enable /\ dev.present]

(* spi_flash_setup fails unless WEL can be set and cleared again           *)
spi_flash_setup ==
  LET on == spi_flash_cmd(spi, TRUE)
      off == spi_flash_cmd(on, FALSE)
  IN  IF on.wel /\ ~off.wel THEN [rc |-> FALSE, dev |-> off]
                            ELSE [rc |-> TRUE, dev |-> IF on.wel THEN off ELSE on]

(* One sector of spi_flash_erase: enabled, erased, busy until done, which  *)
(* clears WEL.  A flash whose WEL is clear ignores the command.            *)
EraseSector(dev, addr) ==
  LET on == spi_flash_cmd(dev, TRUE)
      sector == {Cell(a) : a \in {addr + WordBytes * k :
                                    k \in 0 .. SPI_FLASH_SECTOR_SIZE \div WordBytes - 1}}
  IN  IF on.wel THEN [on EXCEPT !.wel = FALSE,
                                !.mem = [c \in Flash |-> IF c \in sector THEN Erased ELSE @[c]]]
                ELSE on

spi_flash_stream_put_NoEnable(dev, addr, w) ==  \* mutant: WRITE_ENABLE only once, before the erase
  IF dev.wel THEN [dev EXCEPT !.wel = FALSE, !.mem[Cell(addr)] = And(@, w)] ELSE dev
(* spi_flash_stream_put: each byte enabled, programmed and waited for      *)
spi_flash_stream_put(dev, addr, w) ==
  LET on == spi_flash_cmd(dev, TRUE)
  IN  IF on.wel THEN [on EXCEPT !.wel = FALSE, !.mem[Cell(addr)] = And(@, w)] ELSE on

(* One access of a TWI flash cell, the four calls of twi_transfer_byte for *)
(* its bytes: every byte acknowledged, or some not.  What is not           *)
(* acknowledged is not written, and reads as zero.                         *)
twi_transfer_byte(write, cell, w) ==
  {[rc |-> FALSE, cell |-> IF write THEN w ELSE cell, data |-> cell]} \cup
  (IF env.faults = 0 THEN {}
   ELSE [rc : {TRUE}, cell : IF write THEN {cell, w} ELSE {cell}, data : {0, cell}])
Faulty(rc) == env' = [env EXCEPT !.faults = IF rc THEN @ - 1 ELSE @]
NextWord == g' = [g EXCEPT !.addr = @ + WordBytes]

(* uart_getc waits for a character                                         *)
uart_getc(c) == rx # <<>> /\ c = Head(rx).v /\ rx' = Tail(rx)

(* stream_get(&w) of each device, which returns err.  With UART_OVERFLOW   *)
(* the UART reports that its receiver has overflown; the words that arrive *)
(* all the same are those of some upload.                                  *)
uart_stream_get(w, err) ==
  uart_getc(w) /\ (err => env.faults > 0) /\ Faulty(err) /\ UNCHANGED <<g, sd>>

spi_flash_stream_get(w, err) ==
  w = spi.mem[Cell(g.addr)] /\ ~err /\ NextWord /\ UNCHANGED <<rx, sd, env>>

twi_flash_stream_get(w, err) ==
  /\ [rc |-> err, cell |-> twi[Cell(g.addr)], data |-> w]
        \in twi_transfer_byte(FALSE, twi[Cell(g.addr)], 0)
  /\ NextWord /\ Faulty(err) /\ UNCHANGED <<rx, sd>>

(* pf_read stops at the end of the file, so that words past it are zero,   *)
(* without an error.  After an error of the card the file is closed.       *)
sdcard_stream_get(w, err) ==
  /\ IF err THEN w = 0 /\ (sd.open => env.faults > 0)
            ELSE w = (IF sd.ptr < Len(sd.file) THEN sd.file[sd.ptr + 1] ELSE 0) /\ sd.open
  /\ sd' = [sd EXCEPT !.open = ~err,
                      !.ptr = IF err \/ @ = Len(sd.file) THEN @ ELSE @ + 1]
  /\ Faulty(err /\ sd.open)
  /\ UNCHANGED <<rx, g>>

stream_get(w, err) ==
  CASE job.dev = "uart" -> uart_stream_get(w, err)
    [] job.dev = "spi" -> spi_flash_stream_get(w, err)
    [] job.dev = "twi" -> twi_flash_stream_get(w, err)
    [] job.dev = "sd" -> sdcard_stream_get(w, err)

(* stream_put(w) of each flash                                             *)
twi_flash_stream_put(w, err) ==
  /\ \E r \in twi_transfer_byte(TRUE, twi[Cell(g.addr)], w) :
       r.rc = err /\ twi' = [twi EXCEPT ![Cell(g.addr)] = r.cell]
  /\ Faulty(err)

stream_put(w, err) ==
  /\ NextWord
  /\ IF job.dev = "twi" THEN twi_flash_stream_put(w, err) /\ UNCHANGED spi
       ELSE ~err /\ spi' = spi_flash_stream_put(spi, g.addr, w) /\ UNCHANGED <<twi, env>>

(* dev_init() of each device, which returns err                            *)
uart_setup(err) == ~err /\ UNCHANGED <<g, spi, sd, env>>

twi_flash_setup(err) ==
  /\ err => env.faults > 0
  /\ g' = [g EXCEPT !.addr = 0]
  /\ Faulty(err) /\ UNCHANGED <<spi, sd>>

(* Mounting the card or opening boot.bin may fail                          *)
sdcard_setup(err) ==
  /\ err => env.faults > 0
  /\ sd' = [sd EXCEPT !.ptr = IF err THEN @ ELSE 0, !.open = ~err]
  /\ Faulty(err) /\ UNCHANGED <<g, spi>>

dev_init(err) ==
  CASE job.dev = "uart" -> uart_setup(err)
    [] job.dev = "twi" -> twi_flash_setup(err)
    [] job.dev = "sd" -> sdcard_setup(err)
    [] job.dev = "spi" -> /\ err = spi_flash_setup.rc
                          /\ spi' = spi_flash_setup.dev
                          /\ g' = [g EXCEPT !.addr = 0]
                          /\ UNCHANGED <<sd, env>>

(***************************************************************************)
(* system.c                                                                *)
(***************************************************************************)
NextMedium_Retry == [twi |-> "spi", spi |-> "twi"]  \* mutant: starts over instead of giving up
(* Back from system_app_load or system_app_boot: auto-boot tries the next  *)
(* medium, twi, spi, sd in that order, before it gives way to the console  *)
NextMedium == [twi |-> "spi", spi |-> "sd"]

LoadFrom_KeepSize(dev, ret, base) ==  \* mutant: g_exe_size is not cleared
  /\ pc' = "load_init"
  /\ job' = [NoJob EXCEPT !.dev = dev, !.ret = ret]
  /\ g' = base
(* The start of system_app_load: no executable is available from here on   *)
LoadFrom(dev, ret, base) ==
  /\ pc' = "load_init"
  /\ job' = [NoJob EXCEPT !.dev = dev, !.ret = ret]
  /\ g' = [base EXCEPT !.size = 0]

Resume ==
  IF job.ret = "auto" /\ job.dev \in DOMAIN NextMedium
    THEN LoadFrom(NextMedium[job.dev], "auto", g)
    ELSE pc' = "console" /\ job' = NoJob /\ UNCHANGED g

(* system_setup after the start-up code has set .data and .bss             *)
system_setup ==
  /\ pc = "reset"
  /\ pc' = "wait_key"
  /\ g' = [base |-> DEFAULT_EXE_ADDR, size |-> 0, addr |-> 0]
  /\ job' = NoJob
  /\ cpu' = [mie |-> TRUE, led |-> TRUE, time |-> 0]
  /\ stream' = <<>>
  /\ UNCHANGED <<ram, spi, twi, sd, rx, env, stored>>

(* Any trap but the timer interrupt, and the ebreak after the console:     *)
(* report, light the LED, stop                                             *)
Panic ==
  /\ pc' = "panic"
  /\ cpu' = [cpu EXCEPT !.mie = FALSE, !.led = TRUE]

(* system_trap_handler on the timer interrupt, anywhere it is enabled      *)
TimerInterrupt ==
  /\ cpu.mie
  /\ cpu' = [cpu EXCEPT !.led = ~@]
  /\ UNCHANGED <<pc, g, job, ram, spi, twi, sd, rx, env, stream, stored>>

LoadFailed_GoOn == Resume /\ UNCHANGED cpu  \* mutant: the console goes on after any failure
(* A failed load halts the bootloader when the stream was an upload, so    *)
(* that the rest of it is not taken for commands                           *)
LoadFailed ==
  IF job.dev = "uart" THEN Panic /\ UNCHANGED <<g, job>>
                      ELSE Resume /\ UNCHANGED cpu

LoadInit ==
  /\ pc = "load_init"
  /\ \E err \in BOOLEAN :
       /\ dev_init(err)
       /\ pc' = IF err THEN "load_failed" ELSE "load_header"
  /\ UNCHANGED <<job, ram, twi, rx, cpu, stream, stored>>

(* The four header words; g_exe_base takes the second, and the signature   *)
(* is looked at, only after all are in                                     *)
LoadHeader ==
  /\ pc = "load_header"
  /\ \E w \in Word, err \in BOOLEAN :
       /\ stream_get(w, err)
       /\ job' = [job EXCEPT !.words = Append(@, w), !.rc = @ \/ err]
  /\ pc' = IF Len(job.words) < HeaderWords - 1 THEN pc ELSE "load_signature"
  /\ UNCHANGED <<ram, spi, twi, cpu, stream, stored>>

LoadSignature ==
  /\ pc = "load_signature"
  /\ g' = [g EXCEPT !.base = job.words[2]]
  /\ job' = [job EXCEPT !.sum = job.words[4]]
  /\ pc' = IF job.words[1] = BIN_SIGNATURE THEN "load_data" ELSE "load_failed"
  /\ UNCHANGED <<ram, spi, twi, sd, rx, cpu, env, stream, stored>>

(* One word to main memory, counted even when the device failed.  The bus  *)
(* has no answer for an address outside the memory, and a misaligned one   *)
(* traps as well.                                                          *)
LoadWord ==
  /\ pc = "load_data"
  /\ job.i < job.words[3] /\ ~job.rc
  /\ \E w \in Word, err \in BOOLEAN :
       /\ stream_get(w, err)
       /\ LET addr == job.words[2] + job.i
          IN  IF addr % WordBytes = 0 /\ addr \div WordBytes \in Ram
                THEN /\ ram' = [ram EXCEPT ![addr \div WordBytes] = w]
                     /\ job' = [job EXCEPT !.words = Append(@, w), !.i = @ + WordBytes,
                                           !.sum = (@ + w) % WordMax, !.rc = err]
                     /\ UNCHANGED <<pc, cpu>>
                ELSE Panic /\ UNCHANGED <<ram, job>>
  /\ UNCHANGED <<spi, twi, stream, stored>>

(* The checks after the transfer                                           *)
LoadCheck ==
  /\ pc = "load_data"
  /\ job.i >= job.words[3] \/ job.rc
  /\ IF job.rc \/ (job.sum + 1) % WordMax # 0
       THEN pc' = "load_failed" /\ UNCHANGED <<g, stream>>
       ELSE /\ pc' = "load_ok"
            /\ g' = [g EXCEPT !.size = job.words[3]]
            /\ stream' = job.words
  /\ UNCHANGED <<job, ram, spi, twi, sd, rx, cpu, env, stored>>

LoadReturn ==
  /\ \/ pc = "load_failed" /\ LoadFailed
     \/ pc = "load_ok" /\ job.ret = "auto" /\ pc' = "boot" /\ UNCHANGED <<g, job, cpu>>
     \/ pc = "load_ok" /\ job.ret = "console" /\ Resume /\ UNCHANGED cpu
  /\ UNCHANGED <<ram, spi, twi, sd, rx, env, stream, stored>>

(* system_app_boot                                                         *)
Boot ==
  /\ pc = "boot"
  /\ pc' = IF g.size = 0 THEN "boot_ask" ELSE "boot_irq"
  /\ UNCHANGED <<g, job, ram, spi, twi, sd, rx, cpu, env, stream, stored>>

BootAsk ==
  /\ pc = "boot_ask"
  /\ \E c \in Keys : uart_getc(c)
  /\ IF Head(rx).v = "y" THEN pc' = "boot_irq" /\ UNCHANGED <<g, job>> ELSE Resume
  /\ UNCHANGED <<ram, spi, twi, sd, cpu, env, stream, stored>>

BootStep_LedFirst ==  \* mutant: the LED goes dark while interrupts are still on
  /\ \/ /\ pc = "boot_irq" /\ pc' = "boot_led"
        /\ cpu' = [cpu EXCEPT !.led = FALSE]
     \/ /\ pc = "boot_led" /\ pc' = "app"
        /\ cpu' = [cpu EXCEPT !.mie = FALSE]
  /\ UNCHANGED <<g, job, ram, spi, twi, sd, rx, env, stream, stored>>
(* Interrupts go off before the LED does; then the application starts at   *)
(* g_exe_base once the UART has drained                                    *)
BootStep ==
  /\ \/ /\ pc = "boot_irq" /\ pc' = "boot_led"
        /\ cpu' = [cpu EXCEPT !.mie = FALSE]
     \/ /\ pc = "boot_led" /\ pc' = "app"
        /\ cpu' = [cpu EXCEPT !.led = FALSE]
  /\ UNCHANGED <<g, job, ram, spi, twi, sd, rx, env, stream, stored>>

(* system_app_store up to its prompt.  The header words are kept in job,   *)
(* with the checksum still to come.                                        *)
StoreInit ==
  /\ pc = "store_init"
  /\ IF g.size = 0
       THEN Resume /\ UNCHANGED <<spi, sd, env>>
       ELSE \E err \in BOOLEAN :
              /\ dev_init(err)
              /\ pc' = IF err THEN "console" ELSE "store_ask"
              /\ job' = IF err THEN NoJob
                               ELSE [job EXCEPT !.words = Header(g.base, g.size, 0)]
  /\ UNCHANGED <<ram, twi, rx, cpu, stream, stored>>

StoreAsk ==
  /\ pc = "store_ask"
  /\ \E c \in Keys : uart_getc(c)
  /\ IF Head(rx).v = "y" THEN pc' = "store_erase" /\ UNCHANGED <<g, job>> ELSE Resume
  /\ UNCHANGED <<ram, spi, twi, sd, cpu, env, stream, stored>>

(* twi_flash_erase does nothing.  spi_flash_erase goes through the sectors *)
(* from the base address on, at least one, and returns to the base; then   *)
(* the data area is addressed.                                             *)
num_sectors == g.size \div SPI_FLASH_SECTOR_SIZE + 1
StoreErase ==
  /\ pc = "store_erase"
  /\ stored' = [dev |-> "none", words |-> <<>>]
  /\ IF job.dev = "spi" /\ job.i < num_sectors
       THEN /\ spi' = EraseSector(spi, g.addr)
            /\ g' = [g EXCEPT !.addr = @ + SPI_FLASH_SECTOR_SIZE]
            /\ job' = [job EXCEPT !.i = @ + 1]
            /\ UNCHANGED pc
       ELSE /\ pc' = "store_data"
            /\ job' = [job EXCEPT !.i = 0]
            /\ g' = [g EXCEPT !.addr = BIN_OFFSET_DATA]
            /\ UNCHANGED spi
  /\ UNCHANGED <<ram, twi, sd, rx, cpu, env, stream>>

(* One word from main memory; the loop ends early on an error, and the     *)
(* header is written all the same                                          *)
StoreWord ==
  /\ pc = "store_data"
  /\ job.i < g.size /\ ~job.rc
  /\ LET w == ram[(g.base + job.i) \div WordBytes]
     IN  \E err \in BOOLEAN :
           /\ stream_put(w, err)
           /\ job' = [job EXCEPT !.i = @ + WordBytes, !.rc = err,
                                 !.sum = (@ + w) % WordMax, !.words = Append(@, w)]
  /\ UNCHANGED <<pc, ram, sd, rx, cpu, stream, stored>>

StoreDataEnd ==
  /\ pc = "store_data"
  /\ job.i >= g.size \/ job.rc
  /\ pc' = "store_header"
  /\ g' = [g EXCEPT !.addr = 0]
  /\ job' = [job EXCEPT !.i = 0, !.words[4] = Complement(job.sum)]
  /\ UNCHANGED <<ram, spi, twi, sd, rx, cpu, env, stream, stored>>

StoreHeader ==
  /\ pc = "store_header" /\ job.i < HeaderWords
  /\ \E err \in BOOLEAN :
       /\ stream_put(job.words[job.i + 1], err)
       /\ job' = [job EXCEPT !.i = @ + 1, !.rc = @ \/ err]
  /\ UNCHANGED <<pc, ram, sd, rx, cpu, stream, stored>>

StoreReturn ==
  /\ pc = "store_header" /\ job.i = HeaderWords
  /\ stored' = IF job.rc THEN stored ELSE [dev |-> job.dev, words |-> job.words]
  /\ Resume
  /\ UNCHANGED <<ram, spi, twi, sd, rx, cpu, env, stream>>

(***************************************************************************)
(* main.c                                                                  *)
(***************************************************************************)
(* The wait loop looks for a key, discarding it, and then at the time      *)
AutoBootWait ==
  /\ \/ /\ pc = "wait_key" /\ rx # <<>>
        /\ rx' = Tail(rx)
        /\ pc' = "console"
        /\ UNCHANGED <<g, job>>
     \/ /\ pc = "wait_key" /\ rx = <<>>
        /\ pc' = "wait_time"
        /\ UNCHANGED <<rx, g, job>>
     \/ /\ pc = "wait_time"
        /\ IF cpu.time >= AUTO_BOOT_TIMEOUT THEN LoadFrom("twi", "auto", g)
             ELSE pc' = "wait_key" /\ UNCHANGED <<g, job>>
        /\ UNCHANGED rx
  /\ UNCHANGED <<ram, spi, twi, sd, cpu, env, stream, stored>>

(* The console takes one character and acts on it                          *)
Source == [u |-> "uart", t |-> "twi", l |-> "spi", c |-> "sd"]
Target == [w |-> "twi", s |-> "spi"]
Console ==
  /\ pc = "console"
  /\ \E cmd \in Keys :
       /\ uart_getc(cmd)
       /\ CASE cmd \in DOMAIN Source -> LoadFrom(Source[cmd], "console", g) /\ UNCHANGED cpu
            [] cmd \in DOMAIN Target ->
                /\ pc' = "store_init"
                /\ job' = [NoJob EXCEPT !.dev = Target[cmd]]
                /\ UNCHANGED <<g, cpu>>
            [] cmd = "e" -> pc' = "boot" /\ UNCHANGED <<g, job, cpu>>
            [] cmd = "x" -> Panic /\ UNCHANGED <<g, job>>
            [] cmd = "r" -> /\ pc' = "reset"
                           /\ cpu' = [cpu EXCEPT !.mie = FALSE]
                           /\ UNCHANGED <<g, job>>
            [] OTHER -> UNCHANGED <<pc, g, job, cpu>>
  /\ UNCHANGED <<ram, spi, twi, sd, env, stream, stored>>

(***************************************************************************)
(* The user, the host and the clock                                        *)
(***************************************************************************)
(* A key may be pressed at any time but during an upload                   *)
Uploading == job.dev = "uart" /\ pc \in {"load_init", "load_header", "load_signature", "load_data"}
PressKey ==
  /\ env.keys > 0 /\ Len(rx) < 1 /\ ~Uploading /\ pc \notin {"app", "panic"}
  /\ \E k \in Keys : rx' = Append(rx, [kind |-> "key", v |-> k])
  /\ env' = [env EXCEPT !.keys = @ - 1]
  /\ UNCHANGED <<pc, g, job, ram, spi, twi, sd, cpu, stream, stored>>

Upload ==
  /\ pc = "load_header" /\ job.dev = "uart" /\ job.words = <<>> /\ rx = <<>>
  /\ \E s \in Uploads : rx' = [k \in DOMAIN s |-> [kind |-> "data", v |-> s[k]]]
  /\ UNCHANGED <<pc, g, job, ram, spi, twi, sd, cpu, env, stream, stored>>

Tick ==
  /\ cpu.time < AUTO_BOOT_TIMEOUT /\ pc \in {"wait_key", "wait_time"}
  /\ cpu' = [cpu EXCEPT !.time = @ + 1]
  /\ UNCHANGED <<pc, g, job, ram, spi, twi, sd, rx, env, stream, stored>>

Init ==
  /\ pc = "reset"
  /\ g = [base |-> DEFAULT_EXE_ADDR, size |-> 0, addr |-> 0]
  /\ job = NoJob
  /\ ram = [a \in Ram |-> 0]
  /\ spi \in [mem : FlashImages, wel : {FALSE}, present : BOOLEAN]
  /\ twi \in FlashImages
  /\ sd \in [file : Files, ptr : {0}, open : {FALSE}]
  /\ rx = <<>>
  /\ cpu = [mie |-> FALSE, led |-> FALSE, time |-> 0]
  /\ env = [keys |-> MaxKeys, faults |-> MaxFaults]
  /\ stream = <<>>
  /\ stored = [dev |-> "none", words |-> <<>>]

Loading == LoadInit \/ LoadHeader \/ LoadSignature \/ LoadWord \/ LoadCheck \/ LoadReturn
Storing == \/ StoreInit \/ StoreAsk \/ StoreErase \/ StoreWord
           \/ StoreDataEnd \/ StoreHeader \/ StoreReturn
Main == system_setup \/ AutoBootWait \/ Console \/ Loading \/ Storing \/ Boot \/ BootAsk \/ BootStep
Next == Main \/ TimerInterrupt \/ PressKey \/ Upload \/ Tick

(* The processor runs and its clock ticks; users and hosts may stay away   *)
Spec == Init /\ [][Next]_vars /\ WF_vars(Main) /\ WF_vars(Tick)

(***************************************************************************)
(* Properties                                                              *)
(***************************************************************************)
Media == {"uart", "twi", "spi", "sd"}
TypeOK ==
  /\ g \in [base : Nat, size : Word, addr : Nat]
  /\ job.dev \in Media \cup {"none"} /\ job.rc \in BOOLEAN /\ job.sum \in Word
  /\ ram \in [Ram -> Word] /\ twi \in [Flash -> Word] /\ spi.mem \in [Flash -> Word]
  /\ cpu \in [mie : BOOLEAN, led : BOOLEAN, time : 0 .. AUTO_BOOT_TIMEOUT]
  /\ \A k \in DOMAIN rx : rx[k].kind \in {"key", "data"}

(* Whenever system.c says that an executable is available (g_exe_size is   *)
(* not 0), main memory holds from g_exe_base on exactly the data of a      *)
(* stream that passed signature and checksum, however many loads from      *)
(* other media failed, and at whatever word, since then.                   *)
ExecutableVerified ==
  g.size # 0 =>
    /\ Accepted(stream)
    /\ g.base = stream[2] /\ g.size = stream[3]
    /\ \A k \in 1 .. Len(stream) - HeaderWords :
         ram[g.base \div WordBytes + k - 1] = stream[HeaderWords + k]

(* The application starts with interrupts off and the heart beat LED dark: *)
(* no timer interrupt comes between the two steps of system_app_boot that  *)
(* see to it.                                                              *)
AppStartsQuiet == pc = "app" => ~cpu.mie /\ ~cpu.led

(* The upload of an executable as image_gen makes it is not refused: what  *)
(* the bootloader has read when it reports an error is not the beginning   *)
(* of one, unless the receiver has overflown.  And after an upload that    *)
(* failed, for whatever reason, no word of it is left for the console to   *)
(* take as a command: main() halts.                                        *)
UploadDecided ==
  /\ pc = "load_failed" /\ job.dev = "uart" /\ ~job.rc =>
       \A s \in Executables : ~IsPrefix(job.words, s)
  /\ pc \in {"console", "boot_ask", "store_ask"} => \A k \in DOMAIN rx : rx[k].kind = "key"

(* The words a load from a flash would be given                            *)
FlashWords(dev, n) ==
  [k \in 1 .. n |-> IF dev = "spi" THEN spi.mem[Cell((k - 1) * WordBytes)]
                                   ELSE twi[Cell((k - 1) * WordBytes)]]

(* The sectors spi_flash_erase cleared hold header and data                *)
FitsErased(words) ==
  Len(words) * WordBytes <= (words[3] \div SPI_FLASH_SECTOR_SIZE + 1) * SPI_FLASH_SECTOR_SIZE

(* A store that reported success has put an image into the flash that a    *)
(* load will accept, word for word, as long as the erased sectors hold     *)
(* header and data.                                                        *)
StoredImageLoads ==
  stored.dev = "twi" \/ (stored.dev = "spi" /\ FitsErased(stored.words)) =>
    /\ FlashWords(stored.dev, Len(stored.words)) = stored.words
    /\ Accepted(stored.words)

(* The same for every size: system_app_store returns "0 if success".       *)
EveryStoredImageLoads ==
  stored.dev # "none" => Accepted(FlashWords(stored.dev, Len(stored.words)))

(* Without a key press auto-boot does not hang: it ends in an application, *)
(* at a prompt or in a panic, whatever the media hold and however often    *)
(* they fail.                                                              *)
AutoBootSettles == (pc = "wait_key") ~> (pc \in {"app", "boot_ask", "console", "panic"})
=============================================================================
