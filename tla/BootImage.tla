------------------------------ MODULE BootImage ------------------------------
(***************************************************************************)
(* The executable image: what image_gen makes of an ELF file, in each of   *)
(* its output formats, and the header layout the bootloader shares with    *)
(* it.  A byte is a number below ByteMax and a word holds WordBytes bytes, *)
(* least significant first; 256 and 4 in the code, less here.  Sizes and   *)
(* addresses count bytes, as in the code.                                  *)
(***************************************************************************)
EXTENDS Naturals, Sequences, FiniteSets, SequencesExt

CONSTANTS ByteMax, WordBytes,
          Elfs  \* the ELF files to consider: whether they are one, entry, sections

ASSUME BootImageAssumption == /\ ByteMax \in Nat \ {0, 1}
                              /\ WordBytes \in Nat \ {0, 1}

WordMax == ByteMax ^ WordBytes
Word == 0 .. WordMax - 1

(* What the provers cannot derive, for want of a law on exponents.         *)
ASSUME WordMaxAssumption == WordMax \in Nat \ {0}

(* BIN_SIGNATURE, signature_c: the word that marks an executable           *)
BIN_SIGNATURE == 9 % WordMax

(* BIN_OFFSET_DATA: the header is four words                               *)
HeaderWords == 4
BIN_OFFSET_DATA == HeaderWords * WordBytes

(* executable_header_t as the words that are streamed, in their order      *)
Header(base, size, checksum) == <<BIN_SIGNATURE, base, size, checksum>>

(* ~x on a word                                                            *)
Complement(x) == WordMax - 1 - x

(* The sum of a sequence of words, wrapping like uint32_t                  *)
Checksum(words) ==
  LET checksum[i \in 0 .. Len(words)] ==
        IF i = 0 THEN 0 ELSE (checksum[i - 1] + words[i]) % WordMax
  IN  checksum[Len(words)]

(***************************************************************************)
(* image_gen                                                               *)
(***************************************************************************)
(* The raw image is .text, .rodata and .data in that order, whatever their *)
(* order in the section table; the other sections are left out.            *)
raw_image(elf) ==
  LET Section(name) == IF name \in DOMAIN elf.section THEN elf.section[name] ELSE <<>>
  IN  Section(".text") \o Section(".rodata") \o Section(".data")

(* raw_image32[i] for i < raw_exe_size/4: a partial last word is dropped   *)
raw_image32(raw) ==
  [i \in 1 .. Len(raw) \div WordBytes |->
     FoldRight(LAMBDA byte, high : byte + ByteMax * high,
               SubSeq(raw, (i - 1) * WordBytes + 1, i * WordBytes), 0)]

(* write32 turns a word into bytes, least significant first                *)
write32(w) == [k \in 1 .. WordBytes |-> (w \div ByteMax ^ (k - 1)) % ByteMax]
Bytes(words) == FlattenSeq([i \in DOMAIN words |-> write32(words[i])])

(* The memory array of the VHDL image is the next power of two, in bytes,  *)
(* from one word on                                                        *)
ext_exe_size(size) ==
  LET Fits(n) == WordBytes * 2 ^ n >= size
  IN  WordBytes * 2 ^ (CHOOSE n \in 0 .. size : Fits(n) /\ \A m \in 0 .. n - 1 : ~Fits(m))

Formats == {"exe", "vhd", "bin", "coe", "mem", "mif"}

(* The argument loop: an option takes the next argument as its value, and  *)
(* the first thing it does not know, or -h, ends the run.  argv is a       *)
(* sequence of options and values; the format is "exe" unless -t sets it.  *)
parse_arguments(argv) ==
  LET Start == [want |-> "flag", input |-> "", output |-> "", format |-> "exe", end |-> "no"]
      Take(s, a) ==
        CASE s.end # "no" -> s
          [] s.want = "flag" /\ a = "-h" -> [s EXCEPT !.end = "help"]
          [] s.want = "flag" /\ a \in {"-i", "-o", "-t"} -> [s EXCEPT !.want = a]
          [] s.want = "-i" -> [s EXCEPT !.want = "flag", !.input = a]
          [] s.want = "-o" -> [s EXCEPT !.want = "flag", !.output = a]
          [] s.want = "-t" /\ a \in Formats -> [s EXCEPT !.want = "flag", !.format = a]
          [] OTHER -> [s EXCEPT !.end = "error"]
  IN  IF argv = <<>> THEN [Start EXCEPT !.end = "help"] ELSE FoldLeft(Take, Start, argv)

(* The executable for the bootloader: space for the header, the words, and *)
(* then the header over that space                                         *)
exe_image(base, raw) ==
  LET words == raw_image32(raw)
  IN  Bytes(Header(base, Len(raw), Complement(Checksum(words))) \o words)

(* The VHDL image: an array of the extended size, zero after the words     *)
vhd_image(raw) ==
  LET words == raw_image32(raw)
  IN  [i \in 0 .. ext_exe_size(Len(raw)) \div WordBytes - 1 |->
         IF i < Len(words) THEN words[i + 1] ELSE 0]

(* COE, MEM and MIF list the words in order, the latter two by address     *)
listed_image(raw) ==
  LET words == raw_image32(raw) IN [i \in 0 .. Len(words) - 1 |-> words[i + 1]]

(* What main() leaves in the output file.  The output is opened, and so    *)
(* emptied, before anything is known of the ELF file.                      *)
image_gen(elf, format) ==
  LET raw == raw_image(elf)
  IN  CASE ~elf.magic \/ raw = <<>> -> <<>>
        [] OTHER -> CASE format = "exe" -> exe_image(elf.entry, raw)
                      [] format = "vhd" -> vhd_image(raw)
                      [] format = "bin" -> raw
                      [] OTHER -> listed_image(raw)

(***************************************************************************)
(* What the images must agree on                                           *)
(***************************************************************************)
(* The words of a byte stream, as a receiver puts them together            *)
Words(bytes) == raw_image32(bytes)

(* A stream passes the bootloader's checks: signature, all the words its   *)
(* size asks for, and checksum                                             *)
Accepted(words) ==
  /\ Len(words) >= HeaderWords
  /\ words[1] = BIN_SIGNATURE
  /\ LET n == (words[3] + WordBytes - 1) \div WordBytes
     IN  /\ Len(words) >= HeaderWords + n
         /\ (words[4] + Checksum(SubSeq(words, HeaderWords + 1, HeaderWords + n)) + 1)
              % WordMax = 0

WholeWords(elf) == Len(raw_image(elf)) % WordBytes = 0

(* The files an upload or a flash gets from a correct build                *)
Executables ==
  {Words(image_gen(elf, "exe")) : elf \in {e \in Elfs : e.magic /\ WholeWords(e) /\ raw_image(e) # <<>>}}

(* All formats hold the same program: byte k of word i of every word image *)
(* is byte i * WordBytes + k of the raw one, which has the sections in the *)
(* linker's order; the VHDL array is a power of two of words, zero at the  *)
(* end; and the executable is a sequence of words the bootloader accepts.  *)
(* The options of the command line may come in any order.                  *)
ASSUME ImagesAgree ==
  /\ \A elf \in Elfs :
       LET raw == image_gen(elf, "bin")
           n == Len(raw) \div WordBytes
           byte(w, k) == (w \div ByteMax ^ k) % ByteMax
           vhd == image_gen(elf, "vhd")
           text == IF ".text" \in DOMAIN elf.section THEN Len(elf.section[".text"]) ELSE 0
       IN  elf.magic /\ WholeWords(elf) /\ raw # <<>> =>
             /\ ".data" \in DOMAIN elf.section => IsSuffix(elf.section[".data"], raw)
             /\ ".rodata" \in DOMAIN elf.section =>
                  IsPrefix(elf.section[".rodata"], SubSeq(raw, text + 1, Len(raw)))
             /\ \A i \in 0 .. n - 1, k \in 0 .. WordBytes - 1, f \in {"vhd", "coe", "mem", "mif"} :
                  byte(image_gen(elf, f)[i], k) = raw[i * WordBytes + k + 1]
             /\ Cardinality(DOMAIN vhd) \in {2 ^ m : m \in 0 .. n}
             /\ \A i \in DOMAIN vhd : i >= n => vhd[i] = 0
             /\ Words(image_gen(elf, "exe")) \in Seq(Word)
             /\ Accepted(Words(image_gen(elf, "exe")))
  /\ \A o \in SetToSeqs({<<"-i", "main.elf">>, <<"-o", "-t">>, <<"-t", "mif">>}) :
       parse_arguments(FlattenSeq(o)) =
         [want |-> "flag", input |-> "main.elf", output |-> "-t", format |-> "mif", end |-> "no"]
=============================================================================
