---------------------------- MODULE MCBootloader ----------------------------
(***************************************************************************)
(* Bytes of two bits, words of two bytes.  A sector holds the header and   *)
(* two words of data.                                                      *)
(***************************************************************************)
EXTENDS Bootloader

(* ELF files: sections in any number and order, one without the magic, one *)
(* with an odd number of bytes                                             *)
Elf(entry, text, rodata, data) ==
  [magic |-> TRUE, entry |-> entry,
   section |-> [n \in {".text", ".rodata", ".data", ".comment"} |->
                  CASE n = ".text" -> text [] n = ".rodata" -> rodata
                    [] n = ".data" -> data [] OTHER -> <<1>>]]
GoodElf == Elf(0, <<3, 0>>, <<>>, <<2, 1>>)
OtherElf == Elf(2, <<2, 1, 2, 2>>, <<>>, <<>>)
LongElf == Elf(0, <<1, 0>>, <<2, 0>>, <<0, 3>>)
MCElfs == {GoodElf, OtherElf, LongElf, [GoodElf EXCEPT !.magic = FALSE],
           Elf(0, <<1, 2, 3>>, <<3>>, <<>>), Elf(4, <<1, 2, 3>>, <<>>, <<>>),
           [GoodElf EXCEPT !.section = [n \in {".data"} |-> <<1, 3>>]]}

Exe(elf) == Words(image_gen(elf, "exe"))
Good == Exe(GoodElf)
Other == Exe(OtherElf)
Long == Exe(LongElf)
Empty == Header(4, 0, Complement(0))
NotSigned == [Good EXCEPT ![1] = 1]
Corrupt == [Good EXCEPT ![6] = 7]
Outside == Exe(Elf(8, <<1, 0, 2, 0>>, <<>>, <<>>))

Filled(words, rest) ==
  [c \in 0 .. 11 |-> IF c + 1 \in DOMAIN words THEN words[c + 1] ELSE rest]

MCUploads == {Long, NotSigned, Corrupt, Outside}
MCFlashImages == {Filled(Other, 0), Filled(Corrupt, 15)}
MCFiles == {SubSeq(Good, 1, 5), Empty}
=============================================================================
