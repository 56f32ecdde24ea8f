------------------------------- MODULE AmoAlu -------------------------------
(***************************************************************************)
(* The data path of an atomic memory operation: the load/store unit        *)
(* (rtl/core/neorv32_cpu_lsu.vhd) encodes the instruction's funct5 as a    *)
(* 4-bit amoop, and the read-modify-write unit (rtl/core/neorv32_bus.vhd)  *)
(* decodes that again to compute the word to be written back.  Words have  *)
(* Width bits instead of 32.  One step is the clock edge of S_EXECUTE.     *)
(***************************************************************************)
EXTENDS Integers, Bitwise

CONSTANT Width

ASSUME WidthAssumption == Width \in Nat \ {0}

VARIABLES
  instr,         \* name of the instruction
  mem_rdata, wdata,  \* word read from memory, operand of the hart
  alu_res,       \* register for the word to be written back
  step           \* "S_EXECUTE", then "S_WRITE"

aluVars == <<instr, mem_rdata, wdata, alu_res, step>>

Space == 2 ^ Width
AluWord == 0 .. Space - 1
Instr == {"AMOSWAP", "AMOADD", "AMOXOR", "AMOAND", "AMOOR",
          "AMOMIN", "AMOMAX", "AMOMINU", "AMOMAXU"}

-----------------------------------------------------------------------------
(* amo_reg of the load/store unit: <<amoop(3), amoop(2 downto 0)>>. *)
amoop_NoSign(i) ==  \* mutant: the signed operations are not marked
  CASE i = "AMOADD"  -> <<0, 1>> [] i = "AMOXOR"  -> <<0, 2>>
    [] i = "AMOAND"  -> <<0, 3>> [] i = "AMOOR"   -> <<0, 4>>
    [] i = "AMOMIN"  -> <<0, 6>> [] i = "AMOMAX"  -> <<0, 7>>
    [] i = "AMOMINU" -> <<0, 6>> [] i = "AMOMAXU" -> <<0, 7>>
    [] OTHER -> <<0, 0>>

amoop(i) ==
  CASE i = "AMOADD"  -> <<0, 1>> [] i = "AMOXOR"  -> <<0, 2>>
    [] i = "AMOAND"  -> <<0, 3>> [] i = "AMOOR"   -> <<0, 4>>
    [] i = "AMOMIN"  -> <<1, 6>> [] i = "AMOMAX"  -> <<1, 7>>
    [] i = "AMOMINU" -> <<0, 6>> [] i = "AMOMAXU" -> <<0, 7>>
    [] OTHER -> <<0, 0>>

(* Comparator: one bit wider than a word, so that one signed comparison    *)
(* serves both orders.                                                     *)
cmp_op(w, sign) == w + Space * ((w \div (Space \div 2)) * sign)
signed(v) == IF v >= Space THEN v - 2 * Space ELSE v
cmp_less(op) == signed(cmp_op(mem_rdata, op[1])) < signed(cmp_op(wdata, op[1]))
cmp_res(op) == IF cmp_less(op) # (op[2] % 2 = 1) THEN mem_rdata ELSE wdata

amo_alu(op) ==
  CASE op[2] = 0 -> wdata
    [] op[2] = 1 -> (mem_rdata + wdata) % Space
    [] op[2] = 2 -> mem_rdata ^^ wdata
    [] op[2] = 3 -> mem_rdata & wdata
    [] op[2] = 4 -> mem_rdata | wdata
    [] OTHER -> cmp_res(op)

-----------------------------------------------------------------------------
AluInit ==
  /\ instr \in Instr
  /\ mem_rdata \in AluWord /\ wdata \in AluWord
  /\ alu_res = 0
  /\ step = "S_EXECUTE"

S_EXECUTE ==
  /\ step = "S_EXECUTE"
  /\ alu_res' = amo_alu(amoop(instr))
  /\ step' = "S_WRITE"
  /\ UNCHANGED <<instr, mem_rdata, wdata>>

-----------------------------------------------------------------------------
(* What the instruction set asks for. *)
bit(w, n) == (w \div 2 ^ n) % 2 = 1
SignedValue(w) == IF w < Space \div 2 THEN w ELSE w - Space
Bits(w) == {n \in 0 .. Width - 1 : bit(w, n)}

(***************************************************************************)
(* Encoding, decoding and the shared comparator together compute what the  *)
(* instruction asks for, for every pair of words: in particular at the     *)
(* borders of the signed and of the unsigned order.                        *)
(***************************************************************************)
AluCorrect ==
  step = "S_WRITE" =>
    CASE instr = "AMOSWAP" -> alu_res = wdata
      [] instr = "AMOADD"  -> (alu_res - mem_rdata - wdata) % Space = 0
      [] instr = "AMOXOR"  -> Bits(alu_res) = (Bits(mem_rdata) \ Bits(wdata)) \cup (Bits(wdata) \ Bits(mem_rdata))
      [] instr = "AMOAND"  -> Bits(alu_res) = Bits(mem_rdata) \cap Bits(wdata)
      [] instr = "AMOOR"   -> Bits(alu_res) = Bits(mem_rdata) \cup Bits(wdata)
      [] OTHER ->
           /\ alu_res \in {mem_rdata, wdata}
           /\ \A w \in {mem_rdata, wdata} :
                CASE instr = "AMOMIN"  -> SignedValue(alu_res) <= SignedValue(w)
                  [] instr = "AMOMAX"  -> SignedValue(alu_res) >= SignedValue(w)
                  [] instr = "AMOMINU" -> alu_res <= w
                  [] instr = "AMOMAXU" -> alu_res >= w

=============================================================================
