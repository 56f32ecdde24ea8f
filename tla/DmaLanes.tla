------------------------------ MODULE DmaLanes ------------------------------
(***************************************************************************)
(* The data path of the DMA controller, rtl/core/neorv32_dma.vhd: which    *)
(* byte of the source ends up in which byte of the destination.  A word is *)
(* a function from its four lanes to bytes; one step transfers one element *)
(* (the read response, the write request and the address updates).         *)
(***************************************************************************)
EXTENDS Integers

CONSTANT Words   \* size of the source and of the destination area in words

ASSUME WordsAssumption == Words \in Nat \ {0}

VARIABLES
  conf,      \* transfer configuration: src, dst, bswap
  src_addr,  \* current source byte address, in the source area
  dst_addr,  \* current destination byte address, in the destination area
  start,     \* the two base addresses
  dst        \* destination area: byte address -> content

lanesVars == <<conf, src_addr, dst_addr, start, dst>>

Lane == 0 .. 3
ByteAddr == 0 .. 4 * Words - 1

(* Two-bit type: bit 0 selects word, bit 1 selects incrementing. *)
Type == [word : BOOLEAN, inc : BOOLEAN]

(* Every byte of the source area is different from the others, and the     *)
(* destination area holds none of them.                                    *)
Src(a) == a + 1
Old == -1

-----------------------------------------------------------------------------
(* address_inc: a word access steps over four bytes. *)
add(t) == IF ~t.inc THEN 0 ELSE IF t.word THEN 4 ELSE 1

onehot_f(sel) == {sel}

(* src_align: a byte is replicated to all lanes. *)
data_buf_Lane0 ==  \* mutant: always the lowest byte
  [l \in Lane |-> Src(4 * (src_addr \div 4) + IF conf.src.word THEN l ELSE 0)]

data_buf ==
  [l \in Lane |-> Src(4 * (src_addr \div 4) + IF conf.src.word THEN l ELSE src_addr % 4)]

(* bus_control: byte enables and data of the write request.  The swap      *)
(* mirrors the lanes of the data, and the enable of a byte access as well. *)
ben == IF conf.dst.word THEN Lane
       ELSE IF conf.bswap THEN onehot_f(3 - (dst_addr % 4)) ELSE onehot_f(dst_addr % 4)

data == [l \in Lane |-> IF conf.bswap THEN data_buf[3 - l] ELSE data_buf[l]]

-----------------------------------------------------------------------------
LanesInit ==
  /\ conf \in [src : Type, dst : Type, bswap : BOOLEAN]
  /\ src_addr \in ByteAddr
  /\ dst_addr \in ByteAddr
  /\ start = [src |-> src_addr, dst |-> dst_addr]
  /\ dst = [a \in ByteAddr |-> Old]

Element ==
  /\ src_addr \in ByteAddr /\ dst_addr \in ByteAddr
  /\ dst' = [a \in ByteAddr |->
               IF a \div 4 = dst_addr \div 4 /\ a % 4 \in ben THEN data[a % 4] ELSE dst[a]]
  /\ src_addr' = src_addr + add(conf.src)
  /\ dst_addr' = dst_addr + add(conf.dst)
  /\ UNCHANGED <<conf, start>>

LanesSpec == LanesInit /\ [][Element]_lanesVars

-----------------------------------------------------------------------------
Incrementing == conf.src.inc /\ conf.dst.inc

(***************************************************************************)
(* Incrementing bytes to incrementing bytes without swap is memcpy: any    *)
(* alignment of the two areas, and nothing but the elements transferred so *)
(* far is touched.                                                         *)
(***************************************************************************)
ByteCopy ==
  Incrementing /\ ~conf.src.word /\ ~conf.dst.word /\ ~conf.bswap =>
    dst = [a \in ByteAddr |->
             IF a \in start.dst .. dst_addr - 1 THEN Src(start.src + a - start.dst) ELSE Old]

(***************************************************************************)
(* The byte order conversion is the same whether a word-aligned area is    *)
(* moved byte by byte or word by word: every completely transferred word   *)
(* is the mirrored source word (the expectation of example 1 of demo_dma). *)
(***************************************************************************)
SwapByByteOrWord ==
  Incrementing /\ conf.bswap /\ conf.src.word = conf.dst.word
    /\ start.src = 0 /\ start.dst = 0 =>
    \A w \in 0 .. Words - 1 :
      4 * (w + 1) <= dst_addr => \A l \in Lane : dst[4 * w + l] = Src(4 * w + 3 - l)

(***************************************************************************)
(* A byte access never disturbs the other three bytes of its word, swapped *)
(* or not: as many bytes have changed as elements were written.            *)
(***************************************************************************)
ByteAccessIsolated ==
  Incrementing /\ ~conf.dst.word =>
    \A w \in 0 .. Words - 1 :
      LET touched == {l \in Lane : dst[4 * w + l] # Old}
          written == {a % 4 : a \in {b \in start.dst .. dst_addr - 1 : b \div 4 = w}}
      IN  touched = {IF conf.bswap THEN 3 - l ELSE l : l \in written}

(***************************************************************************)
(* The three together: alignment, byte enables, byte swap and address      *)
(* increments put every byte of a transfer where it belongs.               *)
(***************************************************************************)
LanesCorrect == ByteCopy /\ SwapByByteOrWord /\ ByteAccessIsolated

=============================================================================
