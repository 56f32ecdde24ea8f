----------------------------- MODULE DmaProofs ------------------------------
(***************************************************************************)
(* Proofs about the DMA controller under its driver: whatever the size of  *)
(* the descriptor FIFO, of the addresses and of the element counter, and   *)
(* whatever descriptors are programmed, a careful client that is told DONE *)
(* finds the memory its descriptors ask for, and at most one element is    *)
(* written after the controller has been disabled.                         *)
(*                                                                         *)
(* The words in the descriptor FIFO are reasoned about with the theorems   *)
(* of PrimFifoProofs, of which this module takes an instance.              *)
(***************************************************************************)
EXTENDS DmaDriver, FiniteSets, FiniteSetTheorems, TLAPS

P == INSTANCE PrimFifoProofs WITH Depth <- DSC_FIFO, Data <- Word, Init0 <- NoWord

Mem == [Addr -> Value]
Desc == Word \X Word \X Word

-----------------------------------------------------------------------------
(* Induction over the natural numbers, as a fact about sets: a set that    *)
(* contains 0 and the successor of each of its numbers contains them all.  *)
(* If it lacked m, the successor would map its n numbers up to m into n-1. *)
LEMMA SetInduction ==
  ASSUME NEW S, 0 \in S, \A n \in S \cap Nat : n + 1 \in S
  PROVE  Nat \subseteq S
<1> SUFFICES ASSUME NEW m \in Nat, m \notin S PROVE FALSE
  OBVIOUS
<1> DEFINE T == S \cap (0 .. m)
           f == [k \in T |-> k + 1]
<1>1. IsFiniteSet(T)
  <2>1. IsFiniteSet(0 .. m)
    BY FS_Interval
  <2> QED
    BY <2>1, FS_Subset
<1>2. f \in [T -> T \ {0}]
  <2>1. ASSUME NEW k \in T PROVE k + 1 \in T \ {0}
    <3>1. k \in S \cap Nat /\ k <= m /\ k # m
      OBVIOUS
    <3> QED
      BY <3>1
  <2> QED
    BY <2>1
<1>3. 0 \in T
  OBVIOUS
<1>4. \E x, y \in T : x # y /\ f[x] = f[y]
  <2> HIDE DEF f, T
  <2>1. IsFiniteSet(T \ {0}) /\ Cardinality(T \ {0}) = Cardinality(T) - 1
    BY <1>1, <1>3, FS_RemoveElement
  <2>2. Cardinality(T) \in Nat
    BY <1>1, FS_CardinalityType
  <2>3. Cardinality(T \ {0}) < Cardinality(T)
    BY <2>1, <2>2
  <2> QED
    BY <1>1, <1>2, <2>1, <2>3, FS_PigeonHole
<1> QED
  BY <1>4

(* A value that is defined by recursion on the natural numbers exists: the *)
(* functions that are defined up to n, one for each n, agree.              *)
LEMMA Recursion ==
  ASSUME NEW X, NEW x0 \in X, NEW step \in [Nat -> [X -> X]]
  PROVE  \E f \in [Nat -> X] : f[0] = x0 /\ \A n \in Nat : f[n + 1] = step[n][f[n]]
<1> DEFINE Good(h, n) == /\ h \in [0 .. n -> X] /\ h[0] = x0
                         /\ \A k \in 0 .. n - 1 : h[k + 1] = step[k][h[k]]
<1>1. ASSUME NEW n \in Nat PROVE \E h : Good(h, n)
  <2> DEFINE S == {k \in Nat : \E h : Good(h, k)}
  <2>1. 0 \in S
    <3>1. Good([k \in 0 .. 0 |-> x0], 0)
      OBVIOUS
    <3> QED
      BY <3>1
  <2>2. ASSUME NEW k \in S \cap Nat PROVE k + 1 \in S
    <3>1. PICK h : Good(h, k)
      BY <2>2
    <3> DEFINE g == [i \in 0 .. k + 1 |-> IF i = k + 1 THEN step[k][h[k]] ELSE h[i]]
    <3>2. Good(g, k + 1)
      <4>1. h[k] \in X /\ step[k][h[k]] \in X
        BY <2>2, <3>1
      <4>2. \A i \in 0 .. k : g[i] = h[i]
        BY <2>2
      <4>3. g \in [0 .. k + 1 -> X]
        BY <2>2, <3>1, <4>1
      <4>4. ASSUME NEW i \in 0 .. k PROVE g[i + 1] = step[i][g[i]]
        <5>1. CASE i = k
          BY <2>2, <4>2, <5>1
        <5>2. CASE i # k
          BY <2>2, <3>1, <4>2, <5>2
        <5> QED
          BY <5>1, <5>2
      <4> QED
        BY <2>2, <3>1, <4>2, <4>3, <4>4
    <3> HIDE DEF g
    <3>3. \E e : Good(e, k + 1)
      BY <3>2, Zenon
    <3> QED
      BY <2>2, <3>3
  <2> HIDE DEF S
  <2>3. Nat \subseteq S
    BY <2>1, <2>2, SetInduction
  <2> QED
    BY <2>3 DEF S
<1>2. ASSUME NEW n \in Nat, NEW m \in Nat, n <= m, NEW h, Good(h, n), NEW g, Good(g, m)
      PROVE  h[n] = g[n]
  <2> DEFINE S == {k \in Nat : k <= n => h[k] = g[k]}
  <2>1. 0 \in S
    BY <1>2
  <2>2. ASSUME NEW k \in S \cap Nat PROVE k + 1 \in S
    <3>1. k + 1 <= n => k \in 0 .. n - 1 /\ k \in 0 .. m - 1 /\ h[k] = g[k]
      BY <1>2, <2>2
    <3> QED
      BY <1>2, <3>1
  <2> HIDE DEF S
  <2>3. Nat \subseteq S
    BY <2>1, <2>2, SetInduction
  <2> QED
    BY <2>3 DEF S
<1> DEFINE H(n) == CHOOSE h : Good(h, n)
           f == [n \in Nat |-> H(n)[n]]
<1>3. \A n \in Nat : Good(H(n), n)
  BY <1>1
<1> HIDE DEF H
<1>4. f \in [Nat -> X]
  BY <1>3
<1>5. f[0] = x0
  BY <1>3
<1>6. ASSUME NEW n \in Nat PROVE f[n + 1] = step[n][f[n]]
  <2>1. H(n + 1)[n + 1] = step[n][H(n + 1)[n]]
    BY <1>3
  <2>2. H(n)[n] = H(n + 1)[n]
    <3>1. Good(H(n), n) /\ Good(H(n + 1), n + 1)
      BY <1>3
    <3> HIDE DEF Good
    <3>2. n + 1 \in Nat /\ n <= n + 1
      OBVIOUS
    <3> QED
      BY <1>2, <3>1, <3>2
  <2> QED
    BY <2>1, <2>2
<1> QED
  BY <1>4, <1>5, <1>6

-----------------------------------------------------------------------------
(* The parameters are what the assumptions say. *)
LEMMA Sizes ==
  /\ DSC_FIFO \in Nat \ {0} /\ AddrSpace \in Nat \ {0} /\ NumSpace \in Nat \ {0}
  /\ 0 \in Value /\ InitMem \in Mem /\ NoWord \notin Word /\ 0 \in Word
  /\ 0 \in Addr /\ 0 \in Num
BY DmaAssumption, DriverAssumption DEF Mem, NoWord, Word, Addr, Num

(* Every field of a descriptor word has the width of its register. *)
LEMMA Fields ==
  ASSUME NEW w \in Word
  PROVE  addr(w) \in Addr /\ num(w) \in Num /\ src_inc(w) \in 0 .. 1 /\ dst_inc(w) \in 0 .. 1
<1>1. w \in Nat /\ NumSpace \in Nat \ {0} /\ AddrSpace \in Nat \ {0}
  BY Sizes DEF Word
<1>2. w \div NumSpace \in Int
  BY <1>1
<1> DEFINE n2 == 2 * NumSpace
<1>3. n2 \in Nat \ {0}
  BY <1>1
<1> HIDE DEF n2
<1>4. w \div n2 \in Int
  BY <1>1, <1>3
<1>5. addr(w) \in Addr /\ num(w) \in Num
  BY <1>1 DEF addr, num, Addr, Num
<1>6. \A i \in Int : i % 2 \in 0 .. 1
  OBVIOUS
<1>7. src_inc(w) \in 0 .. 1
  BY <1>2, <1>6 DEF src_inc
<1>8. dst_inc(w) \in 0 .. 1
  BY <1>4, <1>6 DEF dst_inc, n2
<1> QED
  BY <1>5, <1>7, <1>8

(* A number of elements is at least one and at most what the counter holds. *)
LEMMA ElementsType ==
  ASSUME NEW d \in Desc
  PROVE  Elements(d) \in 1 .. NumSpace /\ Elements(d) \in Nat
<1>1. num(d[3]) \in 0 .. NumSpace - 1 /\ NumSpace \in Nat \ {0}
  BY Fields, Sizes DEF Desc, Num
<1> QED
  BY <1>1 DEF Elements

-----------------------------------------------------------------------------
(* Addresses of the element after the first n ones, and what copying that  *)
(* element makes of the memory.                                            *)
SrcAt(d, n) == (addr(d[1]) + src_inc(d[3]) * n) % AddrSpace
DstAt(d, n) == (addr(d[2]) + dst_inc(d[3]) * n) % AddrSpace
One(d, n, m) == [m EXCEPT ![DstAt(d, n)] = m[SrcAt(d, n)]]

(* The contents the memory goes through during the transfer of d. *)
Trace(d, t) ==
  /\ t \in [0 .. Elements(d) -> Mem]
  /\ \A n \in 0 .. Elements(d) - 1 : t[n + 1] = One(d, n, t[n])

(* The addresses are addresses, and the memory keeps its type. *)
LEMMA AtType ==
  ASSUME NEW d \in Desc, NEW n \in Nat
  PROVE  /\ SrcAt(d, n) \in Addr /\ DstAt(d, n) \in Addr
         /\ \A m \in Mem : One(d, n, m) \in Mem
<1> DEFINE s == src_inc(d[3]) * n
           e == dst_inc(d[3]) * n
<1>1. /\ addr(d[1]) \in Int /\ addr(d[2]) \in Int
      /\ src_inc(d[3]) \in 0 .. 1 /\ dst_inc(d[3]) \in 0 .. 1 /\ AddrSpace \in Nat \ {0}
  BY Fields, Sizes DEF Desc, Addr
<1>2. s \in Int /\ e \in Int
  BY <1>1
<1> HIDE DEF s, e
<1>3. (addr(d[1]) + s) % AddrSpace \in Addr /\ (addr(d[2]) + e) % AddrSpace \in Addr
  BY <1>1, <1>2 DEF Addr
<1>4. SrcAt(d, n) \in Addr /\ DstAt(d, n) \in Addr
  BY <1>3 DEF SrcAt, DstAt, s, e
<1> QED
  BY <1>4 DEF One, Mem

(* What a descriptor asks for is the last of the contents of its transfer. *)
LEMMA CopyTrace ==
  ASSUME NEW d \in Desc, NEW m \in Mem
  PROVE  \E t : Trace(d, t) /\ t[0] = m /\ Copy(d, m) = t[Elements(d)]
<1> DEFINE E == Elements(d)
           Rec(s) == s = [n \in 0 .. E |->
                       IF n = 0 THEN m
                       ELSE [s[n - 1] EXCEPT
                         ![(addr(d[2]) + dst_inc(d[3]) * (n - 1)) % AddrSpace] =
                           s[n - 1][(addr(d[1]) + src_inc(d[3]) * (n - 1)) % AddrSpace]]]
           s == CHOOSE x : Rec(x)
<1>1. E \in Nat
  BY ElementsType
<1>2. Copy(d, m) = s[E]
  BY DEF Copy
<1>3. \E x : Rec(x)
  <2> DEFINE step == [n \in Nat |-> [x \in Mem |-> One(d, n, x)]]
  <2>1. step \in [Nat -> [Mem -> Mem]]
    BY AtType
  <2>2. PICK f \in [Nat -> Mem] : f[0] = m /\ \A n \in Nat : f[n + 1] = step[n][f[n]]
    <3> HIDE DEF step
    <3> QED
      BY <2>1, Recursion
  <2>3. \A n \in Nat : f[n + 1] = One(d, n, f[n])
    BY <2>2
  <2> DEFINE g == [n \in 0 .. E |-> f[n]]
  <2>4. ASSUME NEW n \in 0 .. E, n # 0
        PROVE  f[n] = [g[n - 1] EXCEPT
                         ![(addr(d[2]) + dst_inc(d[3]) * (n - 1)) % AddrSpace] =
                           g[n - 1][(addr(d[1]) + src_inc(d[3]) * (n - 1)) % AddrSpace]]
    <3>1. n - 1 \in Nat /\ n - 1 \in 0 .. E /\ (n - 1) + 1 = n
      BY <1>1, <2>4
    <3>2. f[n] = One(d, n - 1, f[n - 1])
      BY <2>3, <3>1
    <3>3. g[n - 1] = f[n - 1]
      BY <3>1
    <3> HIDE DEF g
    <3> QED
      BY <3>2, <3>3 DEF One, SrcAt, DstAt
  <2>5. g = [n \in 0 .. E |->
               IF n = 0 THEN m
               ELSE [g[n - 1] EXCEPT
                      ![(addr(d[2]) + dst_inc(d[3]) * (n - 1)) % AddrSpace] =
                        g[n - 1][(addr(d[1]) + src_inc(d[3]) * (n - 1)) % AddrSpace]]]
    <3> DEFINE h(n) == [g[n - 1] EXCEPT
                          ![(addr(d[2]) + dst_inc(d[3]) * (n - 1)) % AddrSpace] =
                            g[n - 1][(addr(d[1]) + src_inc(d[3]) * (n - 1)) % AddrSpace]]
    <3>1. \A n \in 0 .. E : n # 0 => f[n] = h(n)
      BY <2>4
    <3> HIDE DEF h
    <3>2. \A n \in 0 .. E : f[n] = IF n = 0 THEN m ELSE h(n)
      BY <2>2, <3>1
    <3>3. g = [n \in 0 .. E |-> IF n = 0 THEN m ELSE h(n)]
      BY <3>2, Zenon
    <3> QED
      BY <3>3 DEF h
  <2> HIDE DEF g
  <2>6. Rec(g)
    BY <2>5
  <2> HIDE DEF Rec
  <2> QED
    BY <2>6, Zenon
<1>4. Rec(s)
  BY <1>3, Zenon
<1>5. s[0] = m
  <2> HIDE DEF s
  <2> QED
    BY <1>1, <1>4
<1>6. ASSUME NEW n \in 0 .. E - 1 PROVE s[n + 1] = One(d, n, s[n])
  <2>1. n + 1 \in 0 .. E /\ n + 1 # 0 /\ (n + 1) - 1 = n
    BY <1>1
  <2> HIDE DEF s
  <2>2. s[n + 1] = [s[n] EXCEPT
                     ![(addr(d[2]) + dst_inc(d[3]) * n) % AddrSpace] =
                       s[n][(addr(d[1]) + src_inc(d[3]) * n) % AddrSpace]]
    BY <1>4, <2>1
  <2> QED
    BY <2>2, Zenon DEF One, SrcAt, DstAt
<1>7. \A n \in Nat : n <= E => s[n] \in Mem
  <2> DEFINE S == {n \in Nat : n <= E => s[n] \in Mem}
  <2> HIDE DEF s
  <2>1. 0 \in S
    BY <1>5
  <2>2. ASSUME NEW n \in S \cap Nat PROVE n + 1 \in S
    <3>1. CASE n + 1 <= E
      <4>1. n \in 0 .. E - 1 /\ n \in Nat /\ s[n] \in Mem
        BY <1>1, <2>2, <3>1
      <4>2. One(d, n, s[n]) \in Mem
        BY <4>1, AtType
      <4>3. s[n + 1] \in Mem
        BY <1>6, <4>1, <4>2
      <4> QED
        BY <4>1, <4>3
    <3>2. CASE ~(n + 1 <= E)
      BY <3>2
    <3> QED
      BY <3>1, <3>2
  <2> HIDE DEF S
  <2>3. Nat \subseteq S
    BY <2>1, <2>2, SetInduction
  <2> QED
    BY <2>3 DEF S
<1>8. Trace(d, s)
  <2>1. DOMAIN s = 0 .. E /\ s = [n \in DOMAIN s |-> s[n]]
    <3> HIDE DEF s
    <3> QED
      BY <1>4
  <2>2. \A n \in 0 .. E : s[n] \in Mem
    BY <1>1, <1>7
  <2> HIDE DEF s
  <2>3. s \in [0 .. E -> Mem]
    BY <2>1, <2>2
  <2> QED
    BY <1>6, <2>3 DEF Trace
<1> HIDE DEF s
<1> QED
  BY <1>2, <1>5, <1>8

-----------------------------------------------------------------------------
(* Arithmetic modulo the number of addresses and of elements. *)

(* Quotient and remainder of a number are what they should be. *)
LEMMA Division ==
  ASSUME NEW a \in Nat \ {0}, NEW x \in Nat
  PROVE  /\ x % a \in 0 .. a - 1
         /\ \E q \in Nat : x = a * q + (x % a)
<1>1. x % a \in 0 .. a - 1 /\ x \div a \in Nat /\ x = a * (x \div a) + (x % a)
  BY Z3
<1> QED
  BY <1>1

(* A multiple of the modulus adds nothing to the remainder. *)
LEMMA Remainder ==
  ASSUME NEW a \in Nat \ {0}, NEW q \in Nat, NEW r \in 0 .. a - 1
  PROVE  (a * q + r) % a = r
<1> DEFINE x == a * q + r
<1>1. a * q \in Nat /\ x \in Nat
  BY Z3
<1>2. x % a \in 0 .. a - 1 /\ \E p \in Nat : x = a * p + (x % a)
  <2> HIDE DEF x
  <2> QED
    BY <1>1, Division
<1>3. PICK p \in Nat : x = a * p + (x % a)
  BY <1>2
<1>4. ASSUME NEW i \in Nat, NEW j \in Nat, NEW s \in 0 .. a - 1, NEW t \in 0 .. a - 1,
             a * i + s = a * j + t
      PROVE  ~(i < j)
  <2> SUFFICES ASSUME i < j PROVE FALSE
    OBVIOUS
  <2>1. PICK k \in Nat : j = i + 1 + k
    <3>1. j - i - 1 \in Nat /\ j = i + 1 + (j - i - 1)
      OBVIOUS
    <3> QED
      BY <3>1
  <2>2. a * j = a * i + a + a * k
    BY <2>1, Z3
  <2>3. a * k \in Nat /\ a * i \in Nat /\ a * j \in Nat
    BY Z3
  <2> DEFINE ai == a * i
             aj == a * j
             ak == a * k
  <2> HIDE DEF ai, aj, ak
  <2>4. ai \in Nat /\ aj \in Nat /\ ak \in Nat /\ aj = ai + a + ak /\ ai + s = aj + t
    BY <1>4, <2>2, <2>3 DEF ai, aj, ak
  <2> QED
    BY <2>4
<1>5. ~(p < q) /\ ~(q < p)
  <2> DEFINE m == x % a
  <2>1. m \in 0 .. a - 1 /\ a * p + m = a * q + r
    BY <1>2, <1>3
  <2> HIDE DEF m, x
  <2> QED
    BY <1>4, <2>1
<1>6. p = q
  BY <1>5
<1>7. a * q + r = a * q + (x % a)
  BY <1>3, <1>6
<1> DEFINE m == x % a
<1>8. m \in Nat /\ a * q + r = a * q + m
  BY <1>2, <1>7
<1> HIDE DEF m
<1>9. m = r
  BY <1>1, <1>8
<1> QED
  BY <1>9 DEF m

(* An increment can be reduced before or after. *)
LEMMA ModAdd ==
  ASSUME NEW a \in Nat \ {0}, NEW x \in Nat, NEW y \in Nat
  PROVE  ((x % a) + y) % a = (x + y) % a
<1>1. PICK q \in Nat : x = a * q + (x % a)
  BY Division
<1>2. x % a \in Nat
  BY Division
<1> DEFINE z == (x % a) + y
<1>3. z \in Nat
  BY <1>2
<1>4. z % a \in 0 .. a - 1 /\ \E p \in Nat : z = a * p + (z % a)
  <2> HIDE DEF z
  <2> QED
    BY <1>3, Division
<1>5. PICK p \in Nat : z = a * p + (z % a)
  BY <1>4
<1> DEFINE r == z % a
           k == x % a
<1>6. r \in 0 .. a - 1 /\ x = a * q + k /\ k \in Nat /\ k + y = a * p + r
  BY <1>1, <1>2, <1>4, <1>5
<1> HIDE DEF r, k
<1>7. x + y = a * (q + p) + r
  <2>1. a * (q + p) = a * q + a * p
    BY Z3
  <2> QED
    BY <1>6, <2>1
<1>8. (a * (q + p) + r) % a = r
  <2>1. q + p \in Nat
    BY <1>1, <1>5
  <2> QED
    BY <1>6, <2>1, Remainder
<1>9. r = (k + y) % a
  BY DEF r, k
<1> QED
  BY <1>7, <1>8, <1>9 DEF k

(* The remainder of a number below the modulus, and of -1. *)
LEMMA Small ==
  ASSUME NEW a \in Nat \ {0}, NEW x \in 0 .. a - 1
  PROVE  x % a = x
BY Z3

(* Counting down from n, where a counter of zero stands for the largest    *)
(* number of elements.                                                     *)
LEMMA CountDown ==
  ASSUME NEW n \in 1 .. NumSpace
  PROVE  ((IF n = NumSpace THEN 0 ELSE n) - 1) % NumSpace = n - 1
<1>1. NumSpace \in Nat \ {0}
  BY Sizes
<1>2. CASE n = NumSpace
  <2>1. (0 - 1) % NumSpace = NumSpace - 1
    BY <1>1, Z3
  <2> QED
    BY <1>2, <2>1
<1>3. CASE n # NumSpace
  <2>1. n - 1 \in 0 .. NumSpace - 1
    BY <1>1
  <2>2. (n - 1) % NumSpace = n - 1
    BY <1>1, <2>1, Small
  <2> QED
    BY <1>3, <2>2
<1> QED
  BY <1>2, <1>3

(* The engine's address registers count as the addresses of the elements.  *)
LEMMA NextAt ==
  ASSUME NEW d \in Desc, NEW n \in Nat
  PROVE  /\ SrcAt(d, n + 1) = (SrcAt(d, n) + src_inc(d[3])) % AddrSpace
         /\ DstAt(d, n + 1) = (DstAt(d, n) + dst_inc(d[3])) % AddrSpace
         /\ SrcAt(d, 0) = addr(d[1]) /\ DstAt(d, 0) = addr(d[2])
<1>1. /\ addr(d[1]) \in 0 .. AddrSpace - 1 /\ addr(d[2]) \in 0 .. AddrSpace - 1
      /\ src_inc(d[3]) \in 0 .. 1 /\ dst_inc(d[3]) \in 0 .. 1 /\ AddrSpace \in Nat \ {0}
  BY Fields, Sizes DEF Desc, Addr
<1>2. ASSUME NEW b \in 0 .. AddrSpace - 1, NEW i \in 0 .. 1
      PROVE  /\ (b + i * (n + 1)) % AddrSpace = (((b + i * n) % AddrSpace) + i) % AddrSpace
             /\ (b + i * 0) % AddrSpace = b
  <2>1. b % AddrSpace = b
    BY <1>1, Small
  <2>2. CASE i = 0
    <3>1. b + i * (n + 1) = b /\ b + i * n = b /\ b + i * 0 = b /\ b + i = b
      BY <1>1, <2>2
    <3> QED
      BY <1>1, <2>1, <2>2, <3>1
  <2>3. CASE i = 1
    <3>1. b + i * (n + 1) = (b + n) + 1 /\ b + i * n = b + n /\ b + i * 0 = b
      BY <1>1, <2>3
    <3>2. (((b + n) % AddrSpace) + 1) % AddrSpace = ((b + n) + 1) % AddrSpace
      <4>1. b + n \in Nat /\ 1 \in Nat /\ AddrSpace \in Nat \ {0}
        BY <1>1
      <4> QED
        BY <4>1, ModAdd
    <3> QED
      BY <2>1, <2>3, <3>1, <3>2
  <2> QED
    BY <2>2, <2>3
<1> QED
  BY <1>1, <1>2 DEF SrcAt, DstAt

-----------------------------------------------------------------------------
(* The descriptor FIFO. *)

Queue == P!Queue
Level == P!Level
Reads == engine.state \in {"S_GET_0", "S_GET_1", "S_GET_2"}

(* The instance of the FIFO meets the assumptions of the FIFO's theorems. *)
LEMMA FifoAssumed == DSC_FIFO \in Nat \ {0} /\ NoWord \notin Word
BY Sizes

(* The two instances of the FIFO are the same. *)
LEMMA SameFifo ==
  /\ F!full <=> P!full
  /\ F!FifoTypeOK <=> P!FifoTypeOK
  /\ F!FifoInit <=> P!FifoInit
  /\ \A c, w, r \in BOOLEAN : \A x : F!Clock(c, w, x, r) <=> P!Clock(c, w, x, r)
<1>1. F!full <=> P!full
  BY DEF F!full, P!full, F!match, P!match
<1>2. F!FifoTypeOK <=> P!FifoTypeOK
  BY DEF F!FifoTypeOK, P!FifoTypeOK, F!Index, P!Index, F!Pointer, P!Pointer,
         F!Bit, P!Bit, F!Word, P!Word
<1>3. F!FifoInit <=> P!FifoInit
  BY DEF F!FifoInit, P!FifoInit, F!Zero, P!Zero, F!Index, P!Index
<1>4. ASSUME NEW c \in BOOLEAN, NEW w \in BOOLEAN, NEW r \in BOOLEAN, NEW x
      PROVE  F!Clock(c, w, x, r) <=> P!Clock(c, w, x, r)
  <2>1. F!memory_core(w, x) <=> P!memory_core(w, x)
    BY DEF F!memory_core, P!memory_core, F!we, P!we, F!full, P!full, F!match, P!match
  <2>2. F!pointer_reg(c, w, r) <=> P!pointer_reg(c, w, r)
    BY DEF F!pointer_reg, P!pointer_reg, F!we, P!we, F!re, P!re, F!full, P!full,
           F!empty, P!empty, F!match, P!match, F!inc, P!inc, F!Zero, P!Zero
  <2>3. F!status_reg <=> P!status_reg
    BY DEF F!status_reg, P!status_reg, F!empty, P!empty, F!match, P!match
  <2> QED
    BY <2>1, <2>2, <2>3 DEF F!Clock, P!Clock
<1> QED
  BY <1>1, <1>2, <1>3, <1>4

(* The queue consists of words. *)
LEMMA QueueWords ==
  ASSUME P!IInv
  PROVE  /\ Level \in 0 .. DSC_FIFO /\ (F!full <=> Level = DSC_FIFO)
         /\ \A k \in 1 .. Level : Queue[k] \in Word
<1>1. P!LevelInv
  BY P!PointerLevel, FifoAssumed DEF P!IInv
<1> QED
  BY <1>1, SameFifo DEF P!LevelInv, P!IInv, P!OnlyWritten, Queue, Level

(* One clock edge of the descriptor FIFO. *)
LEMMA Buffer ==
  ASSUME P!IInv, NEW req, req.op = "desc" => req.data \in Word, descriptor_buffer(req)
  PROVE  /\ P!IInv'
         /\ ~ctrl.enable => Level' = 0
         /\ Level = 0 /\ (~ctrl.enable \/ req.op # "desc") => ~avail'
         /\ ctrl.enable /\ req.op # "desc" /\ ~Reads =>
              /\ Level' = Level /\ (avail' <=> Level > 0)
              /\ \A k \in 1 .. Level : Queue'[k] = Queue[k]
         /\ ctrl.enable /\ req.op = "desc" /\ ~Reads /\ Level < DSC_FIFO =>
              /\ Level' = Level + 1 /\ Queue'[Level + 1] = req.data
              /\ \A k \in 1 .. Level : Queue'[k] = Queue[k]
         /\ ctrl.enable /\ req.op # "desc" /\ Reads /\ Level > 0 =>
              /\ Level' = Level - 1
              /\ \A k \in 1 .. Level - 1 : Queue'[k] = Queue[k + 1]
              /\ DSC_FIFO > 1 => avail' /\ rdata' = Queue[1]
<1> DEFINE c == ~ctrl.enable
           w == req.op = "desc"
           x == IF w THEN req.data ELSE 0
<1>1. c \in BOOLEAN /\ w \in BOOLEAN /\ Reads \in BOOLEAN /\ x \in Word
  BY Sizes DEF Reads
<1>2. F!Clock(c, w, IF w THEN req.data ELSE NoWord, Reads)
  BY DEF descriptor_buffer, Reads
<1>3. P!Clock(c, w, IF w THEN req.data ELSE NoWord, Reads)
  <2> HIDE DEF c, w
  <2> QED
    BY <1>1, <1>2, SameFifo
<1>4. P!Clock(c, w, x, Reads)
  BY <1>3 DEF P!Clock, P!memory_core, P!we
<1> HIDE DEF c, w, x
<1>5. P!IInv'
  BY <1>1, <1>4, P!ClockInv, FifoAssumed
<1>6. /\ c => Level' = 0
      /\ Level = 0 /\ (c \/ ~w) => ~avail'
      /\ ~c /\ ~w /\ ~Reads =>
           /\ Level' = Level /\ (avail' <=> Level > 0)
           /\ \A k \in 1 .. Level : Queue'[k] = Queue[k]
      /\ ~c /\ w /\ ~Reads /\ Level < DSC_FIFO =>
           /\ Level' = Level + 1 /\ Queue'[Level + 1] = x
           /\ \A k \in 1 .. Level : Queue'[k] = Queue[k]
      /\ ~c /\ ~w /\ Reads /\ Level > 0 =>
           /\ Level' = Level - 1
           /\ \A k \in 1 .. Level - 1 : Queue'[k] = Queue[k + 1]
           /\ DSC_FIFO > 1 => avail' /\ rdata' = Queue[1]
  BY <1>1, <1>4, P!PortStep, FifoAssumed DEF Queue, Level
<1>7. (c <=> ~ctrl.enable) /\ (w <=> req.op = "desc") /\ (w => x = req.data)
  BY DEF c, w, x
<1> QED
  BY <1>5, <1>6, <1>7

-----------------------------------------------------------------------------
(* The descriptors in the queue. *)

(* The K descriptors in the words of q after the first "off" ones, executed *)
(* one after the other, turn the memory m into r.                           *)
DescAt(q, k) == <<q[k + 1], q[k + 2], q[k + 3]>>

Chain(q, off, m, K, r) ==
  \E t \in [0 .. K -> Mem] :
    /\ t[0] = m /\ t[K] = r
    /\ \A i \in 0 .. K - 1 : t[i + 1] = Copy(DescAt(q, off + 3 * i), t[i])

(* No descriptor leaves the memory as it is. *)
LEMMA ChainNone ==
  ASSUME NEW q, NEW off
  PROVE  /\ \A m \in Mem : Chain(q, off, m, 0, m)
         /\ \A m, r : Chain(q, off, m, 0, r) => m = r
<1>1. ASSUME NEW m \in Mem PROVE Chain(q, off, m, 0, m)
  <2> DEFINE t == [i \in 0 .. 0 |-> m]
  <2>1. /\ t \in [0 .. 0 -> Mem] /\ t[0] = m
        /\ \A i \in 0 .. 0 - 1 : t[i + 1] = Copy(DescAt(q, off + 3 * i), t[i])
    OBVIOUS
  <2> HIDE DEF t
  <2> QED
    BY <2>1, Zenon DEF Chain
<1> QED
  BY <1>1 DEF Chain

(* The contents before and after are contents of the memory. *)
LEMMA ChainType ==
  ASSUME NEW q, NEW off, NEW m, NEW r, NEW K \in Nat, Chain(q, off, m, K, r)
  PROVE  m \in Mem /\ r \in Mem
BY DEF Chain

(* The chain depends only on the words of its descriptors, which may have  *)
(* moved by s places.                                                      *)
LEMMA ChainMoved ==
  ASSUME NEW q, NEW p, NEW off \in Nat, NEW s \in Nat, NEW m, NEW r, NEW K \in Nat,
         Chain(q, off + s, m, K, r),
         \A k \in 1 .. off + 3 * K : p[k] = q[k + s]
  PROVE  Chain(p, off, m, K, r)
<1>1. PICK t \in [0 .. K -> Mem] :
        /\ t[0] = m /\ t[K] = r
        /\ \A i \in 0 .. K - 1 : t[i + 1] = Copy(DescAt(q, (off + s) + 3 * i), t[i])
  BY DEF Chain
<1>2. ASSUME NEW i \in 0 .. K - 1
      PROVE  DescAt(p, off + 3 * i) = DescAt(q, (off + s) + 3 * i)
  <2> DEFINE j == off + 3 * i
  <2>1. /\ j + 1 \in 1 .. off + 3 * K /\ j + 2 \in 1 .. off + 3 * K /\ j + 3 \in 1 .. off + 3 * K
        /\ (j + 1) + s = ((off + s) + 3 * i) + 1
        /\ (j + 2) + s = ((off + s) + 3 * i) + 2
        /\ (j + 3) + s = ((off + s) + 3 * i) + 3
    OBVIOUS
  <2> HIDE DEF j
  <2>2. /\ p[j + 1] = q[((off + s) + 3 * i) + 1] /\ p[j + 2] = q[((off + s) + 3 * i) + 2]
        /\ p[j + 3] = q[((off + s) + 3 * i) + 3]
    BY <2>1
  <2>3. DescAt(p, j) = DescAt(q, (off + s) + 3 * i)
    BY <2>2 DEF DescAt
  <2> QED
    BY <2>3 DEF j
<1>3. \A i \in 0 .. K - 1 : t[i + 1] = Copy(DescAt(p, off + 3 * i), t[i])
  BY <1>1, <1>2
<1> QED
  BY <1>1, <1>3, Zenon DEF Chain

(* One more descriptor at the end. *)
LEMMA ChainMore ==
  ASSUME NEW q, NEW p, NEW m, NEW r, NEW K \in Nat, Chain(q, 0, m, K, r),
         \A k \in 1 .. 3 * K : p[k] = q[k],
         Copy(DescAt(p, 3 * K), r) \in Mem
  PROVE  Chain(p, 0, m, K + 1, Copy(DescAt(p, 3 * K), r))
<1>1. Chain(p, 0, m, K, r)
  <2>1. Chain(q, 0 + 0, m, K, r) /\ \A k \in 1 .. 0 + 3 * K : p[k] = q[k + 0]
    <3>1. 0 + 0 = 0 /\ 0 + 3 * K = 3 * K /\ \A k \in 1 .. 3 * K : k + 0 = k
      OBVIOUS
    <3> QED
      BY <3>1
  <2>2. 0 \in Nat
    OBVIOUS
  <2> QED
    BY <2>1, <2>2, ChainMoved
<1>2. PICK t \in [0 .. K -> Mem] :
        /\ t[0] = m /\ t[K] = r
        /\ \A i \in 0 .. K - 1 : t[i + 1] = Copy(DescAt(p, 0 + 3 * i), t[i])
  BY <1>1 DEF Chain
<1> DEFINE c == Copy(DescAt(p, 3 * K), r)
           u == [i \in 0 .. K + 1 |-> IF i = K + 1 THEN c ELSE t[i]]
<1>3. u \in [0 .. K + 1 -> Mem] /\ u[0] = m /\ u[K + 1] = c
  <2> HIDE DEF c
  <2>1. c \in Mem
    BY DEF c
  <2> QED
    BY <1>2, <2>1
<1>4. ASSUME NEW i \in 0 .. (K + 1) - 1
      PROVE  u[i + 1] = Copy(DescAt(p, 0 + 3 * i), u[i])
  <2> HIDE DEF c
  <2>1. i + 1 \in 0 .. K + 1 /\ u[i] = t[i]
    OBVIOUS
  <2>2. CASE i = K
    <3>1. u[i + 1] = c /\ u[i] = r /\ 0 + 3 * i = 3 * K
      BY <1>2, <2>1, <2>2
    <3> HIDE DEF u
    <3> QED
      BY <3>1 DEF c
  <2>3. CASE i # K
    <3>1. i \in 0 .. K - 1 /\ u[i + 1] = t[i + 1]
      BY <2>1, <2>3
    <3> HIDE DEF u
    <3> QED
      BY <1>2, <2>1, <3>1
  <2> QED
    BY <2>2, <2>3
<1> HIDE DEF u
<1>5. Chain(p, 0, m, K + 1, c)
  BY <1>3, <1>4, Zenon DEF Chain
<1> QED
  BY <1>5

(* The first descriptor executed, the others remain. *)
LEMMA ChainFirst ==
  ASSUME NEW q, NEW m, NEW r, NEW K \in Nat, Chain(q, 0, m, K + 1, r)
  PROVE  Chain(q, 3, Copy(DescAt(q, 0), m), K, r)
<1>1. PICK t \in [0 .. K + 1 -> Mem] :
        /\ t[0] = m /\ t[K + 1] = r
        /\ \A i \in 0 .. (K + 1) - 1 : t[i + 1] = Copy(DescAt(q, 0 + 3 * i), t[i])
  BY DEF Chain
<1> DEFINE u == [i \in 0 .. K |-> t[i + 1]]
<1>2. u \in [0 .. K -> Mem] /\ u[K] = r
  BY <1>1
<1>3. u[0] = Copy(DescAt(q, 0), m)
  <2>1. u[0] = t[0 + 1] /\ 0 \in 0 .. (K + 1) - 1 /\ 0 + 3 * 0 = 0
    OBVIOUS
  <2> HIDE DEF u
  <2> QED
    BY <1>1, <2>1
<1>4. ASSUME NEW i \in 0 .. K - 1 PROVE u[i + 1] = Copy(DescAt(q, 3 + 3 * i), u[i])
  <2>1. i + 1 \in 0 .. (K + 1) - 1 /\ 0 + 3 * (i + 1) = 3 + 3 * i
    OBVIOUS
  <2>2. t[(i + 1) + 1] = Copy(DescAt(q, 3 + 3 * i), t[i + 1])
    BY <1>1, <2>1
  <2>3. u[i + 1] = t[(i + 1) + 1] /\ u[i] = t[i + 1]
    OBVIOUS
  <2> HIDE DEF u
  <2> QED
    BY <2>2, <2>3
<1> HIDE DEF u
<1> QED
  BY <1>2, <1>3, <1>4, Zenon DEF Chain

(* A descriptor of words asks for contents of the memory. *)
LEMMA CopyType ==
  ASSUME NEW d \in Desc, NEW m \in Mem
  PROVE  Copy(d, m) \in Mem
<1>1. PICK t : Trace(d, t) /\ Copy(d, m) = t[Elements(d)]
  BY CopyTrace
<1>2. Elements(d) \in 0 .. Elements(d)
  BY ElementsType
<1> QED
  BY <1>1, <1>2 DEF Trace

-----------------------------------------------------------------------------
(* Types. *)

Requests == {None, ReadCtrl} \cup {WriteCtrl(e, s, a) : e, s, a \in BOOLEAN}
            \cup {WriteDesc(w) : w \in Word}

(* The types, without the initial words the FIFO never delivers, and the   *)
(* job that neorv32_dma_start is about to count.                           *)
TypeInv ==
  /\ TypeOK
  /\ P!IInv
  /\ sw.pc = "start" => sw.jobs < client.jobs

(* The clients are what the assumption says. *)
LEMMA ClientFacts ==
  ASSUME client \in Clients
  PROVE  /\ client.descs \subseteq Desc /\ client.jobs \in Nat
         /\ client.chain \in BOOLEAN /\ client.abort \in BOOLEAN
BY DriverAssumption DEF Desc

(* What a request of each kind carries. *)
LEMMA RequestFacts ==
  ASSUME NEW req \in Requests
  PROVE  /\ req.op \in {"none", "read", "ctrl", "desc"}
         /\ req.op = "desc" => req.data \in Word
         /\ req.op = "ctrl" => req.en \in BOOLEAN /\ req.start \in BOOLEAN /\ req.ack \in BOOLEAN
<1>1. CASE req = None \/ req = ReadCtrl
  BY <1>1 DEF None, ReadCtrl
<1>2. ASSUME NEW e \in BOOLEAN, NEW s \in BOOLEAN, NEW a \in BOOLEAN, req = WriteCtrl(e, s, a)
      PROVE  /\ req.op = "ctrl"
             /\ req.en \in BOOLEAN /\ req.start \in BOOLEAN /\ req.ack \in BOOLEAN
  BY <1>2 DEF WriteCtrl
<1>3. ASSUME NEW w \in Word, req = WriteDesc(w)
      PROVE  req.op = "desc" /\ req.data \in Word
  BY <1>3 DEF WriteDesc
<1>4. \/ req = None \/ req = ReadCtrl
      \/ \E e, s, a \in BOOLEAN : req = WriteCtrl(e, s, a)
      \/ \E w \in Word : req = WriteDesc(w)
  BY DEF Requests
<1>5. CASE \E e, s, a \in BOOLEAN : req = WriteCtrl(e, s, a)
  <2>1. /\ req.op = "ctrl"
        /\ req.en \in BOOLEAN /\ req.start \in BOOLEAN /\ req.ack \in BOOLEAN
    BY <1>2, <1>5
  <2> QED
    BY <2>1
<1>6. CASE \E w \in Word : req = WriteDesc(w)
  <2>1. req.op = "desc" /\ req.data \in Word
    BY <1>3, <1>6
  <2> QED
    BY <2>1
<1> QED
  BY <1>1, <1>4, <1>5, <1>6

(* The requests the driver makes. *)
LEMMA RequestTypes ==
  /\ None \in Requests /\ ReadCtrl \in Requests
  /\ \A e, s, a \in BOOLEAN : WriteCtrl(e, s, a) \in Requests
  /\ \A w \in Word : WriteDesc(w) \in Requests
BY DEF Requests

(* A state of the bus access engine keeps the engine well typed. *)
LEMMA EngineType ==
  ASSUME DmaTypeOK, NEW ans \in Answers, bus_engine(ans)
  PROVE  engine' \in [state : States, run : BOOLEAN, done : BOOLEAN, err : BOOLEAN,
                      src_addr : Addr, dst_addr : Addr, num : Num, num_or : BOOLEAN,
                      src_inc : 0 .. 1, dst_inc : 0 .. 1]
<1> DEFINE E == [state : States, run : BOOLEAN, done : BOOLEAN, err : BOOLEAN,
                 src_addr : Addr, dst_addr : Addr, num : Num, num_or : BOOLEAN,
                 src_inc : 0 .. 1, dst_inc : 0 .. 1]
<1>1. /\ engine \in E /\ ctrl.enable \in BOOLEAN /\ ctrl.start \in BOOLEAN
      /\ ctrl.err \in BOOLEAN /\ avail \in BOOLEAN
  BY DEF DmaTypeOK, F!FifoTypeOK
<1>2. rdata \in Word \cup {NoWord}
  BY DEF DmaTypeOK, F!FifoTypeOK, F!Word
<1>3. rdata \in Nat \cup {-1} /\ AddrSpace \in Nat \ {0} /\ NumSpace \in Nat \ {0}
  BY <1>2, Sizes DEF Word, NoWord
<1>4. addr(rdata) \in Addr /\ num(rdata) \in Num
  BY <1>3 DEF addr, num, Addr, Num
<1>5. src_inc(rdata) \in 0 .. 1 /\ dst_inc(rdata) \in 0 .. 1
  <2> DEFINE n2 == 2 * NumSpace
  <2>1. n2 \in Nat \ {0} /\ rdata \in Int
    BY <1>3
  <2> HIDE DEF n2
  <2>2. rdata \div NumSpace \in Int /\ rdata \div n2 \in Int
    BY <1>3, <2>1
  <2>3. \A i \in Int : i % 2 \in 0 .. 1
    OBVIOUS
  <2>4. src_inc(rdata) \in 0 .. 1
    BY <2>2, <2>3 DEF src_inc
  <2>5. dst_inc(rdata) \in 0 .. 1
    BY <2>2, <2>3 DEF dst_inc, n2
  <2> QED
    BY <2>4, <2>5
<1>6. /\ (engine.src_addr + engine.src_inc) % AddrSpace \in Addr
      /\ (engine.dst_addr + engine.dst_inc) % AddrSpace \in Addr
      /\ (engine.num - 1) % NumSpace \in Num
  BY <1>1, <1>3 DEF Addr, Num
<1>8. CASE S_CHECK
  BY <1>1, <1>8 DEF S_CHECK, States
<1>9. CASE S_GET_0
  BY <1>1, <1>9 DEF S_GET_0, States
<1>10. CASE S_GET_1
  BY <1>1, <1>4, <1>10 DEF S_GET_1, States
<1>11. CASE S_GET_2
  BY <1>1, <1>4, <1>11 DEF S_GET_2, States
<1>12. CASE S_GET_3
  BY <1>1, <1>4, <1>5, <1>12 DEF S_GET_3, States
<1>13. CASE S_READ_REQ
  BY <1>1, <1>6, <1>13 DEF S_READ_REQ, States
<1>14. CASE S_READ_RSP(ans)
  BY <1>1, <1>14 DEF S_READ_RSP, States, Answers
<1>15. CASE S_WRITE_REQ
  BY <1>1, <1>6, <1>15 DEF S_WRITE_REQ, States
<1>16. CASE S_WRITE_RSP(ans)
  BY <1>1, <1>16 DEF S_WRITE_RSP, States
<1> QED
  BY <1>8, <1>9, <1>10, <1>11, <1>12, <1>13, <1>14, <1>15, <1>16, Zenon DEF bus_engine

(* One clock edge keeps the controller and the memory well typed. *)
LEMMA ClockType ==
  ASSUME TypeInv, NEW req \in Requests, NEW ans \in Answers, Clock(req, ans)
  PROVE  /\ DmaTypeOK' /\ P!IInv' /\ client' = client
         /\ bus_ack' \in BOOLEAN /\ late' \in Nat
<1>1. /\ DmaTypeOK /\ P!IInv /\ late \in Nat
      /\ ctrl_access(req) /\ descriptor_buffer(req) /\ bus_engine(ans)
      /\ src_align(ans) /\ memory(ans)
  BY DEF TypeInv, TypeOK, Clock, Cycle
<1>2. P!IInv'
  BY <1>1, Buffer, RequestFacts
<1>3. F!FifoTypeOK'
  <2>1. P!FifoTypeOK'
    BY <1>2 DEF P!IInv
  <2>2. F!FifoTypeOK' <=> P!FifoTypeOK'
    BY DEF F!FifoTypeOK, P!FifoTypeOK, F!Index, P!Index, F!Pointer, P!Pointer,
           F!Bit, P!Bit, F!Word, P!Word
  <2> QED
    BY <2>1, <2>2
<1>4. ctrl' \in [enable : BOOLEAN, start : BOOLEAN, err : BOOLEAN, done : BOOLEAN]
  BY <1>1, RequestFacts DEF ctrl_access, DmaTypeOK
<1>5. data_buf' \in Value /\ mem' \in [Addr -> Value]
  <2>1. engine.src_addr \in Addr /\ engine.dst_addr \in Addr
    BY <1>1 DEF DmaTypeOK
  <2> QED
    BY <1>1, <2>1, Sizes DEF DmaTypeOK, src_align, memory, NoData
<1>6. DmaTypeOK'
  BY <1>1, <1>3, <1>4, <1>5, EngineType DEF DmaTypeOK
<1> QED
  BY <1>1, <1>2, <1>6 DEF Clock

(* The words the driver writes to the FIFO are words of a descriptor. *)
LEMMA DriverDesc ==
  ASSUME TypeInv
  PROVE  sw.desc \in Desc /\ sw.desc[1] \in Word /\ sw.desc[2] \in Word /\ sw.desc[3] \in Word
<1>1. sw.desc \in client.descs \cup {NoDesc} /\ client.descs \subseteq Desc
  BY ClientFacts DEF TypeInv, TypeOK
<1>2. NoDesc \in Desc
  BY Sizes DEF NoDesc, Desc
<1>3. sw.desc \in Desc
  BY <1>1, <1>2
<1> QED
  BY <1>3 DEF Desc

(* The driver's steps and registers. *)
SwTypes(A, D, N, J) == [pc : A, desc : D, nprog : N, busy : BOOLEAN, jobs : J]

PCs == {"off", "enable", "ready", "disable", "src", "full2", "dst",
        "full3", "conf", "start", "poll", "done", "ack", "failed"}

Sw == SwTypes(PCs, client.descs \cup {NoDesc}, 0 .. DSC_FIFO, 0 .. client.jobs)

(* Updates of the driver's state that change several of its parts leave it  *)
(* in the set T of its types.                                              *)
SwUpdate(T, s, p, d, n, b, j) ==
  /\ [s EXCEPT !.pc = p] \in T
  /\ [s EXCEPT !.pc = p, !.desc = d] \in T
  /\ [s EXCEPT !.pc = p, !.busy = b] \in T
  /\ [s EXCEPT !.pc = p, !.nprog = n, !.busy = b] \in T
  /\ [s EXCEPT !.desc = d, !.pc = p, !.nprog = n] \in T
  /\ [s EXCEPT !.pc = p, !.busy = b, !.jobs = j] \in T
  /\ [s EXCEPT !.pc = p].pc = p
  /\ [s EXCEPT !.pc = p, !.desc = d].pc = p
  /\ [s EXCEPT !.pc = p, !.busy = b].pc = p
  /\ [s EXCEPT !.pc = p, !.nprog = n, !.busy = b].pc = p
  /\ [s EXCEPT !.desc = d, !.pc = p, !.nprog = n].pc = p
  /\ [s EXCEPT !.pc = p, !.busy = b, !.jobs = j].pc = p

(* They do, when the new parts have their types. *)
LEMMA SwUpdates ==
  \A A, D, N, J : \A s \in SwTypes(A, D, N, J), p \in A, d \in D, n \in N, b \in BOOLEAN, j \in J :
     SwUpdate(SwTypes(A, D, N, J), s, p, d, n, b, j)
<1> SUFFICES ASSUME NEW A, NEW D, NEW N, NEW J, NEW s \in SwTypes(A, D, N, J),
                    NEW p \in A, NEW d \in D, NEW n \in N, NEW b \in BOOLEAN, NEW j \in J
             PROVE  SwUpdate(SwTypes(A, D, N, J), s, p, d, n, b, j)
  OBVIOUS
<1>1. [s EXCEPT !.pc = p] \in SwTypes(A, D, N, J) /\ [s EXCEPT !.pc = p].pc = p
  BY DEF SwTypes
<1>2. /\ [s EXCEPT !.pc = p, !.desc = d] \in SwTypes(A, D, N, J)
      /\ [s EXCEPT !.pc = p, !.desc = d].pc = p
  BY DEF SwTypes
<1>3. /\ [s EXCEPT !.pc = p, !.busy = b] \in SwTypes(A, D, N, J)
      /\ [s EXCEPT !.pc = p, !.busy = b].pc = p
  BY DEF SwTypes
<1>4. /\ [s EXCEPT !.pc = p, !.nprog = n, !.busy = b] \in SwTypes(A, D, N, J)
      /\ [s EXCEPT !.pc = p, !.nprog = n, !.busy = b].pc = p
  BY DEF SwTypes
<1>5. /\ [s EXCEPT !.desc = d, !.pc = p, !.nprog = n] \in SwTypes(A, D, N, J)
      /\ [s EXCEPT !.desc = d, !.pc = p, !.nprog = n].pc = p
  BY DEF SwTypes
<1>6. /\ [s EXCEPT !.pc = p, !.busy = b, !.jobs = j] \in SwTypes(A, D, N, J)
      /\ [s EXCEPT !.pc = p, !.busy = b, !.jobs = j].pc = p
  BY DEF SwTypes
<1> QED
  BY <1>1, <1>2, <1>3, <1>4, <1>5, <1>6 DEF SwUpdate

(* What every step of the driver is: one clock edge with a request of the  *)
(* controller's interface, after which the driver's own state is well typed. *)
Moves(ans) ==
  /\ \E req \in Requests : Clock(req, ans)
  /\ sw' \in Sw
  /\ sw'.pc = "start" => sw'.jobs < client.jobs
  /\ ref' \in Mem

(* Every step of the driver and every idle cycle is one. *)
LEMMA NextMoves ==
  ASSUME TypeInv, NEW ans \in Answers, Driver(ans) \/ Idle(ans)
  PROVE  Moves(ans)
<1>1. /\ sw \in Sw
      /\ sw.pc = "start" => sw.jobs < client.jobs
      /\ ref \in Mem /\ ctrl.enable \in BOOLEAN
  BY DEF TypeInv, TypeOK, DmaTypeOK, Mem, Sw, SwTypes, PCs
<1>2. /\ sw.pc \in PCs /\ sw.desc \in client.descs \cup {NoDesc}
      /\ sw.nprog \in 0 .. DSC_FIFO /\ sw.busy \in BOOLEAN /\ sw.jobs \in 0 .. client.jobs
      /\ DSC_FIFO \in Nat /\ client.jobs \in Nat
  BY <1>1, Sizes, ClientFacts DEF Sw, SwTypes, TypeInv, TypeOK
<1>3. /\ None \in Requests /\ ReadCtrl \in Requests
      /\ \A e, s, a \in BOOLEAN : WriteCtrl(e, s, a) \in Requests
      /\ \A w \in Word : WriteDesc(w) \in Requests
  BY RequestTypes
<1>4. \A p \in PCs, d \in client.descs \cup {NoDesc}, n \in 0 .. DSC_FIFO, b \in BOOLEAN,
         j \in 0 .. client.jobs : SwUpdate(Sw, sw, p, d, n, b, j)
  <2>1. \A s \in Sw, p \in PCs, d \in client.descs \cup {NoDesc}, n \in 0 .. DSC_FIFO,
           b \in BOOLEAN, j \in 0 .. client.jobs : SwUpdate(Sw, s, p, d, n, b, j)
    BY SwUpdates, Zenon DEF Sw
  <2> QED
    BY <1>1, <2>1, Zenon
<1>5. /\ {"off", "enable", "ready", "disable", "src", "full2", "dst", "full3", "conf",
          "start", "poll", "done", "ack", "failed"} = PCs
      /\ Return \in PCs /\ Return # "start"
  BY DEF PCs, Return
<1>6. ASSUME NEW p \in PCs, p # "start", NEW req \in Requests, Clock(req, ans),
             sw' = [sw EXCEPT !.pc = p], ref' = ref
      PROVE  Moves(ans)
  <2>1. SwUpdate(Sw, sw, p, sw.desc, sw.nprog, sw.busy, sw.jobs)
    BY <1>2, <1>4
  <2>2. sw' \in Sw /\ sw'.pc = p
    BY <1>6, <2>1 DEF SwUpdate
  <2> QED
    BY <1>1, <1>6, <2>2 DEF Moves
<1>7. CASE Idle(ans)
  BY <1>1, <1>3, <1>7 DEF Idle, Moves
<1>8. CASE neorv32_dma_enable(ans)
  <2>1. \/ Access("off", ReadCtrl, "enable", ans) /\ ref' = ref
        \/ Access("enable", WriteCtrl(TRUE, FALSE, FALSE), "ready", ans) /\ ref' = ref
    BY <1>8 DEF neorv32_dma_enable
  <2> QED
    BY <1>3, <1>5, <1>6, <2>1 DEF Access
<1>9. CASE neorv32_dma_disable(ans)
  <2>1. CASE sw.pc = "disable"
    <3>1. /\ Clock(WriteCtrl(FALSE, FALSE, FALSE), ans)
          /\ sw' = [sw EXCEPT !.pc = "off", !.nprog = 0, !.busy = FALSE]
          /\ ref' = mem'
      BY <1>9, <2>1 DEF neorv32_dma_disable, Access
    <3>2. WriteCtrl(FALSE, FALSE, FALSE) \in Requests
      BY <1>3
    <3>3. mem' \in Mem
      BY <3>1, <3>2, ClockType DEF DmaTypeOK, Mem
    <3>4. 0 \in 0 .. DSC_FIFO /\ "off" \in PCs /\ FALSE \in BOOLEAN
      BY <1>2, <1>5
    <3>5. sw' \in Sw /\ sw'.pc = "off"
      <4>1. SwUpdate(Sw, sw, "off", sw.desc, 0, FALSE, sw.jobs)
        BY <1>2, <1>4, <3>4
      <4> QED
        BY <3>1, <4>1 DEF SwUpdate
    <3> QED
      BY <3>1, <3>2, <3>3, <3>5 DEF Moves
  <2>2. CASE sw.pc # "disable"
    <3>1. Clock(ReadCtrl, ans) /\ sw' = [sw EXCEPT !.pc = "disable"] /\ ref' = ref
      BY <1>9, <2>2 DEF neorv32_dma_disable, Access
    <3> QED
      BY <1>3, <1>5, <1>6, <3>1
  <2> QED
    BY <2>1, <2>2
<1>10. CASE neorv32_dma_irq_ack(ans)
  <2>1. \/ Access("done", ReadCtrl, "ack", ans) /\ ref' = ref
        \/ Access("ack", WriteCtrl(ctrl.enable, FALSE, TRUE), "ready", ans) /\ ref' = ref
    BY <1>10 DEF neorv32_dma_irq_ack
  <2> QED
    BY <1>1, <1>3, <1>5, <1>6, <2>1 DEF Access
<1>11. CASE neorv32_dma_program(ans)
  <2>1. CASE ProgramCall(ans)
    <3>1. PICK d \in client.descs :
            sw' = [sw EXCEPT !.desc = d, !.pc = IF F!full THEN sw.pc ELSE "src",
                             !.nprog = IF F!full THEN sw.nprog ELSE sw.nprog + 1]
      BY <2>1 DEF ProgramCall
    <3> DEFINE p == IF F!full THEN sw.pc ELSE "src"
               n == IF F!full THEN sw.nprog ELSE sw.nprog + 1
    <3>2. /\ sw' = [sw EXCEPT !.desc = d, !.pc = p, !.nprog = n]
          /\ p \in PCs /\ p # "start" /\ n \in 0 .. DSC_FIFO
      <4>1. 3 * (sw.nprog + 1) <= DSC_FIFO /\ (sw.pc = "ready" \/ sw.pc = "poll")
        BY <2>1 DEF ProgramCall
      <4>2. sw.nprog + 1 \in 0 .. DSC_FIFO
        BY <1>2, <4>1
      <4> QED
        BY <1>2, <1>5, <3>1, <4>1, <4>2
    <3>3. d \in client.descs \cup {NoDesc}
      OBVIOUS
    <3> HIDE DEF p, n
    <3>4. sw' \in Sw /\ sw'.pc = p
      <4>1. SwUpdate(Sw, sw, p, d, n, sw.busy, sw.jobs)
        BY <1>2, <1>4, <3>2, <3>3
      <4> QED
        BY <3>2, <4>1 DEF SwUpdate
    <3>5. Clock(ReadCtrl, ans) /\ ref' = ref
      BY <2>1 DEF ProgramCall
    <3> QED
      BY <1>1, <1>3, <3>2, <3>4, <3>5 DEF Moves
  <2>2. CASE Access("src", WriteDesc(sw.desc[1]), "full2", ans) /\ UNCHANGED ref
    BY <1>3, <1>5, <1>6, <2>2, DriverDesc DEF Access
  <2>3. CASE Access("full2", ReadCtrl, IF F!full THEN Return ELSE "dst", ans) /\ UNCHANGED ref
    BY <1>3, <1>5, <1>6, <2>3 DEF Access
  <2>4. CASE Access("dst", WriteDesc(sw.desc[2]), "full3", ans) /\ UNCHANGED ref
    BY <1>3, <1>5, <1>6, <2>4, DriverDesc DEF Access
  <2>5. CASE Access("full3", ReadCtrl, IF F!full THEN Return ELSE "conf", ans) /\ UNCHANGED ref
    BY <1>3, <1>5, <1>6, <2>5 DEF Access
  <2>6. CASE /\ Clock(WriteDesc(sw.desc[3]), ans)
             /\ sw' = [sw EXCEPT !.pc = Return, !.desc = NoDesc]
             /\ ref' = Copy(sw.desc, ref)
    <3>1. ref' \in Mem
      BY <1>1, <2>6, DriverDesc, CopyType
    <3>2. sw' \in Sw /\ sw'.pc = Return
      <4>1. NoDesc \in client.descs \cup {NoDesc}
        OBVIOUS
      <4>2. SwUpdate(Sw, sw, Return, NoDesc, sw.nprog, sw.busy, sw.jobs)
        BY <1>2, <1>4, <1>5, <4>1
      <4> QED
        BY <2>6, <4>2 DEF SwUpdate
    <3> QED
      BY <1>3, <1>5, <2>6, <3>1, <3>2, DriverDesc DEF Moves
  <2> QED
    BY <1>11, <2>1, <2>2, <2>3, <2>4, <2>5, <2>6, Zenon DEF neorv32_dma_program
<1>12. CASE neorv32_dma_start(ans)
  <2>1. CASE sw.pc = "start"
    <3>1. /\ Clock(WriteCtrl(ctrl.enable, TRUE, FALSE), ans) /\ ref' = ref
          /\ sw' = [sw EXCEPT !.pc = "poll", !.busy = TRUE, !.jobs = sw.jobs + 1]
      BY <1>12, <2>1 DEF neorv32_dma_start, Access
    <3>2. sw.jobs + 1 \in 0 .. client.jobs
      BY <1>1, <1>2, <2>1
    <3>3. sw' \in Sw /\ sw'.pc = "poll"
      <4>1. "poll" \in PCs /\ TRUE \in BOOLEAN
        BY <1>5
      <4>2. SwUpdate(Sw, sw, "poll", sw.desc, sw.nprog, TRUE, sw.jobs + 1)
        BY <1>2, <1>4, <3>2, <4>1
      <4> QED
        BY <3>1, <4>2 DEF SwUpdate
    <3> QED
      BY <1>1, <1>3, <3>1, <3>3 DEF Moves
  <2>2. CASE sw.pc # "start"
    <3>1. /\ Clock(ReadCtrl, ans) /\ ref' = ref /\ sw.jobs < client.jobs
          /\ sw' = [sw EXCEPT !.pc = "start"]
      BY <1>12, <2>2 DEF neorv32_dma_start, Access
    <3>2. sw' \in Sw /\ sw'.jobs = sw.jobs
      <4>1. "start" \in PCs
        BY <1>5
      <4>2. SwUpdate(Sw, sw, "start", sw.desc, sw.nprog, sw.busy, sw.jobs)
        BY <1>2, <1>4, <4>1
      <4>3. sw' \in Sw
        BY <3>1, <4>2 DEF SwUpdate
      <4> QED
        BY <1>1, <3>1, <4>3 DEF Sw, SwTypes
    <3> QED
      BY <1>1, <1>3, <3>1, <3>2 DEF Moves
  <2> QED
    BY <2>1, <2>2
<1>13. CASE neorv32_dma_status(ans)
  <2>1. /\ Clock(ReadCtrl, ans) /\ ref' = ref /\ sw.pc = "poll"
        /\ \/ sw' = [sw EXCEPT !.pc = "done", !.nprog = 0, !.busy = FALSE]
           \/ sw' = [sw EXCEPT !.pc = "failed", !.busy = FALSE]
           \/ sw' = sw
    BY <1>13 DEF neorv32_dma_status
  <2>2. 0 \in 0 .. DSC_FIFO /\ "done" \in PCs /\ "failed" \in PCs /\ FALSE \in BOOLEAN
    BY <1>2, <1>5
  <2>3. sw' \in Sw /\ sw'.pc # "start"
    <3>1. /\ SwUpdate(Sw, sw, "done", sw.desc, 0, FALSE, sw.jobs)
          /\ SwUpdate(Sw, sw, "failed", sw.desc, 0, FALSE, sw.jobs)
      BY <1>2, <1>4, <2>2
    <3> QED
      BY <1>1, <2>1, <3>1 DEF SwUpdate
  <2> QED
    BY <1>1, <1>3, <2>1, <2>3 DEF Moves
<1>14. CASE NoAck(ans)
  BY <1>3, <1>5, <1>6, <1>14 DEF NoAck
<1> QED
  BY <1>7, <1>8, <1>9, <1>10, <1>11, <1>12, <1>13, <1>14, Zenon DEF Driver

(* The types hold initially. *)
LEMMA TypeInit == Init => TypeInv
<1> SUFFICES ASSUME Init PROVE TypeInv
  OBVIOUS
<1>1. P!IInv
  BY P!InitInv, SameFifo, FifoAssumed DEF Init, DmaInit
<1>2. F!FifoTypeOK
  BY <1>1, SameFifo DEF P!IInv
<1>3. DmaTypeOK
  BY <1>2, Sizes DEF Init, DmaInit, DmaTypeOK, States, Mem, NoData
<1>4. /\ client.jobs \in Nat /\ client \in Clients /\ bus_ack = FALSE
      /\ sw = [pc |-> "off", desc |-> NoDesc, nprog |-> 0, busy |-> FALSE, jobs |-> 0]
      /\ ref = InitMem /\ late = 0
  BY ClientFacts DEF Init
<1>5. sw \in [pc : {"off", "enable", "ready", "disable", "src", "full2", "dst",
                    "full3", "conf", "start", "poll", "done", "ack", "failed"},
              desc : client.descs \cup {NoDesc}, nprog : 0 .. DSC_FIFO,
              busy : BOOLEAN, jobs : 0 .. client.jobs]
  <2>1. NoDesc \in client.descs \cup {NoDesc} /\ 0 \in 0 .. DSC_FIFO /\ 0 \in 0 .. client.jobs
    BY <1>4, Sizes
  <2> QED
    BY <1>4, <2>1
<1> QED
  BY <1>1, <1>3, <1>4, <1>5, Sizes DEF TypeInv, TypeOK, Mem

(* Every step keeps them. *)
LEMMA TypeStep == TypeInv /\ [Next]_vars => TypeInv'
<1> SUFFICES ASSUME TypeInv, [Next]_vars PROVE TypeInv'
  OBVIOUS
<1>1. CASE UNCHANGED vars
  BY <1>1 DEF TypeInv, TypeOK, DmaTypeOK, vars, dmaVars, P!IInv, P!FifoTypeOK, P!PointerInv,
     P!OnlyWritten, P!Queue, P!Level, P!Slot, F!FifoTypeOK
<1>2. ASSUME NEW ans \in Answers, Driver(ans) \/ Idle(ans)
      PROVE  TypeInv'
  <2>1. PICK req \in Requests : Clock(req, ans)
    BY <1>2, NextMoves DEF Moves
  <2>2. /\ DmaTypeOK' /\ P!IInv' /\ client' = client
        /\ bus_ack' \in BOOLEAN /\ late' \in Nat
    BY <2>1, ClockType
  <2>3. client \in Clients
    BY DEF TypeInv, TypeOK
  <2> QED
    BY <1>2, <2>2, <2>3, NextMoves DEF Moves, Sw, SwTypes, PCs, TypeInv, TypeOK, Mem
<1> QED
  BY <1>1, <1>2 DEF Next

(* The controller, the memory and the driver stay within their types: the  *)
(* engine's addresses and counter wrap within their widths, and a FIFO     *)
(* word that was never written does not harm.                              *)
THEOREM DmaTypeCorrect == Spec => []TypeOK
<1>1. TypeInv => TypeOK
  BY DEF TypeInv
<1> QED
  BY <1>1, TypeInit, TypeStep, PTL DEF Spec

-----------------------------------------------------------------------------
(* A disabled controller. *)

(* Once an element has been written while the controller is disabled, the  *)
(* FIFO is empty and the engine is on its way to, or in, a state that      *)
(* waits for a descriptor.                                                 *)
LateInv ==
  /\ late \in {0, 1}
  /\ late = 1 => \/ ctrl.enable
                 \/ /\ Level = 0
                    /\ \/ Go("S_CHECK")
                       \/ engine.state \in {"S_GET_0", "S_GET_1"} /\ ~avail

(* One clock edge, whatever is requested, keeps it. *)
LEMMA LateClock ==
  ASSUME TypeInv, LateInv, NEW req \in Requests, NEW ans \in Answers, Clock(req, ans)
  PROVE  LateInv'
<1>1. /\ P!IInv /\ descriptor_buffer(req) /\ bus_engine(ans)
      /\ engine \in [state : States, run : BOOLEAN, done : BOOLEAN, err : BOOLEAN,
                     src_addr : Addr, dst_addr : Addr, num : Num, num_or : BOOLEAN,
                     src_inc : 0 .. 1, dst_inc : 0 .. 1]
      /\ late' = IF ctrl.enable THEN 0
                 ELSE IF Go("S_WRITE_RSP") /\ ans = "ok" THEN late + 1 ELSE late
  BY DEF TypeInv, TypeOK, DmaTypeOK, Clock, Cycle
<1>2. CASE ctrl.enable
  BY <1>1, <1>2 DEF LateInv
<1>3. CASE ~ctrl.enable
  <2>1. /\ Level' = 0
        /\ Level = 0 => ~avail'
    BY <1>1, <1>3, Buffer, RequestFacts
  <2>2. CASE Go("S_WRITE_RSP") /\ ans = "ok"
    <3>1. late = 0
      BY <1>3, <2>2 DEF LateInv, Go
    <3>2. S_WRITE_RSP(ans)
      BY <1>1, <2>2 DEF bus_engine, Go, S_CHECK, S_GET_0, S_GET_1, S_GET_2, S_GET_3,
         S_READ_REQ, S_READ_RSP, S_WRITE_REQ
    <3>3. engine'.state = "S_CHECK"
      BY <1>1, <1>3, <2>2, <3>2 DEF S_WRITE_RSP
    <3> QED
      BY <1>1, <1>3, <2>1, <2>2, <3>1, <3>3 DEF LateInv, Go
  <2>3. CASE ~(Go("S_WRITE_RSP") /\ ans = "ok")
    <3>1. late' = late
      BY <1>1, <1>3, <2>3
    <3>2. ASSUME late = 1
          PROVE  \/ engine'.state = "S_CHECK"
                 \/ engine'.state \in {"S_GET_0", "S_GET_1"} /\ ~avail'
      <4>1. Level = 0 /\ ~avail'
        BY <1>3, <2>1, <3>2 DEF LateInv
      <4>2. Go("S_CHECK") \/ Go("S_GET_0") \/ (Go("S_GET_1") /\ ~avail)
        BY <1>3, <3>2 DEF LateInv, Go
      <4>3. S_CHECK \/ S_GET_0 \/ (S_GET_1 /\ ~avail)
        BY <1>1, <4>2 DEF bus_engine, Go, S_CHECK, S_GET_0, S_GET_1, S_GET_2, S_GET_3,
           S_READ_REQ, S_READ_RSP, S_WRITE_REQ, S_WRITE_RSP
      <4>4. CASE S_CHECK
        BY <1>1, <4>1, <4>4 DEF S_CHECK, Go
      <4>5. CASE S_GET_0
        BY <1>1, <4>1, <4>5 DEF S_GET_0, Go
      <4>6. CASE S_GET_1 /\ ~avail
        BY <1>1, <4>1, <4>6 DEF S_GET_1, Go
      <4> QED
        BY <4>3, <4>4, <4>5, <4>6
    <3> QED
      BY <2>1, <3>1, <3>2 DEF LateInv, Go
  <2> QED
    BY <2>2, <2>3
<1> QED
  BY <1>2, <1>3

(* Disabling terminates a transfer after the element it is about to write: *)
(* however long the controller stays disabled, whatever the driver does    *)
(* and whatever is left in the descriptor FIFO.                            *)
THEOREM DmaAtMostOneLate == Spec => []AtMostOneLateElement
<1>1. Init => LateInv
  BY DEF Init, LateInv
<1>2. TypeInv /\ LateInv /\ [Next]_vars => LateInv'
  <2> SUFFICES ASSUME TypeInv, LateInv, [Next]_vars PROVE LateInv'
    OBVIOUS
  <2>1. CASE UNCHANGED vars
    BY <2>1 DEF LateInv, vars, dmaVars, Level, P!Level, Go
  <2>2. ASSUME NEW ans \in Answers, Driver(ans) \/ Idle(ans) PROVE LateInv'
    <3>1. PICK req \in Requests : Clock(req, ans)
      BY <2>2, NextMoves DEF Moves
    <3> QED
      BY <3>1, LateClock
  <2> QED
    BY <2>1, <2>2 DEF Next
<1>3. LateInv => AtMostOneLateElement
  BY DEF LateInv, AtMostOneLateElement
<1> QED
  BY <1>1, <1>2, <1>3, TypeInit, TypeStep, PTL DEF Spec

-----------------------------------------------------------------------------
(* The descriptors of a careful client, from the FIFO to the memory. *)

(* The queue holds s words of the current descriptor and whole descriptors *)
(* behind them, which turn the memory m into the memory the client expects. *)
Rest(s, m) == \E K \in Nat : Level = 3 * K + s /\ Chain(Queue, s, m, K, ref)

(* Nothing has ended yet. *)
Fresh == ~ctrl.done /\ ~ctrl.err /\ ~engine.done

Quiet == Go("S_CHECK") /\ ~engine.run /\ ~ctrl.start

(* START has just been written. *)
Started ==
  /\ Go("S_CHECK") /\ ~engine.run /\ ctrl.start /\ Fresh /\ ~engine.err
  /\ avail /\ Level > 0 /\ Rest(0, mem)

(* Between two descriptors. *)
Check == Go("S_CHECK") /\ (avail <=> Level > 0) /\ Rest(0, mem)

(* While the engine takes the descriptor d, word by word. *)
Get0 == Go("S_GET_0") /\ Level > 0 /\ Rest(0, mem)

Get1(d) ==
  /\ Go("S_GET_1") /\ avail /\ rdata = d[1] /\ Queue[1] = d[2] /\ Queue[2] = d[3]
  /\ Rest(2, Copy(d, mem))

Get2(d) ==
  /\ Go("S_GET_2") /\ avail /\ engine.src_addr = addr(d[1]) /\ rdata = d[2] /\ Queue[1] = d[3]
  /\ Rest(1, Copy(d, mem))

Get3(d) ==
  /\ Go("S_GET_3") /\ rdata = d[3]
  /\ engine.src_addr = addr(d[1]) /\ engine.dst_addr = addr(d[2])
  /\ Rest(0, Copy(d, mem))

(* While it copies the elements of d, after the first n of them. *)
ReadReq(d, n) ==
  /\ Go("S_READ_REQ") /\ engine.num_or = (n > 0)
  /\ engine.src_addr = SrcAt(d, n)
  /\ engine.dst_addr = IF n = 0 THEN addr(d[2]) ELSE DstAt(d, n - 1)
  /\ engine.num = IF Elements(d) - n = NumSpace THEN 0 ELSE Elements(d) - n

ReadRsp(d, n) ==
  /\ Go("S_READ_RSP")
  /\ engine.src_addr = SrcAt(d, n) /\ engine.dst_addr = DstAt(d, n)
  /\ engine.num = Elements(d) - n - 1

WriteReq(d, n, m) ==
  /\ Go("S_WRITE_REQ") /\ data_buf = m[SrcAt(d, n)]
  /\ engine.src_addr = SrcAt(d, n) /\ engine.dst_addr = DstAt(d, n)
  /\ engine.num = Elements(d) - n - 1

WriteRsp(d, n, m) ==
  /\ Go("S_WRITE_RSP") /\ data_buf = m[SrcAt(d, n)]
  /\ engine.src_addr = SrcAt(d, n + 1) /\ engine.dst_addr = DstAt(d, n)
  /\ engine.num_or = (n + 1 # Elements(d))
  /\ engine.num = Elements(d) - n - 1

Transfer(d, t, n) ==
  /\ Trace(d, t) /\ n \in 0 .. Elements(d) - 1 /\ mem = t[n]
  /\ engine.src_inc = src_inc(d[3]) /\ engine.dst_inc = dst_inc(d[3])
  /\ Rest(0, t[Elements(d)])
  /\ \/ ReadReq(d, n) \/ ReadRsp(d, n) \/ WriteReq(d, n, mem) \/ WriteRsp(d, n, mem)

Running ==
  /\ engine.run /\ ~ctrl.start /\ Fresh
  /\ \/ Go("S_CHECK") /\ engine.err
     \/ ~engine.err /\ Check
     \/ /\ ~engine.err /\ ~engine.num_or
        /\ Get0 \/ \E d \in Desc : Get1(d) \/ Get2(d) \/ Get3(d)
     \/ ~engine.err /\ \E d \in Desc : \E t : \E n \in Nat : Transfer(d, t, n)

(* After the last descriptor, before and after DONE can be read; after an  *)
(* error.                                                                  *)
Ended ==
  /\ Quiet /\ engine.done /\ ~engine.err /\ ~ctrl.done /\ ~ctrl.err
  /\ Level = 0 /\ mem = ref

Done == Quiet /\ ctrl.done /\ ~engine.err /\ ~ctrl.err /\ Level = 0 /\ mem = ref

Failed == Quiet /\ ctrl.err

Poll == Started \/ Running \/ Ended \/ Done \/ Failed

-----------------------------------------------------------------------------
(* One clock edge while the client polls. *)

(* What can be said of it in every state of the engine. *)
PollEdge(ans) ==
  /\ TypeInv /\ TypeInv' /\ ctrl.enable /\ DSC_FIFO > 1 /\ ans \in Answers
  /\ ctrl'.enable /\ ~ctrl'.start
  /\ ctrl'.err <=> ctrl.err \/ engine.err
  /\ ctrl'.done <=> ctrl.done \/ engine.done
  /\ bus_engine(ans) /\ src_align(ans) /\ memory(ans) /\ ref' = ref
  /\ ~Reads => /\ Level' = Level /\ (avail' <=> Level > 0)
               /\ \A k \in 1 .. Level : Queue'[k] = Queue[k]
  /\ Reads /\ Level > 0 =>
       /\ Level' = Level - 1 /\ avail' /\ rdata' = Queue[1]
       /\ \A k \in 1 .. Level - 1 : Queue'[k] = Queue[k + 1]

(* It is a clock edge with a request that writes nothing. *)
LEMMA PollEdgeFacts ==
  ASSUME TypeInv, TypeInv', ctrl.enable, DSC_FIFO > 1, NEW ans \in Answers,
         NEW req \in {None, ReadCtrl}, Clock(req, ans), ref' = ref
  PROVE  PollEdge(ans)
<1>1. req.op # "ctrl" /\ req.op # "desc" /\ req \in Requests
  BY DEF None, ReadCtrl, Requests
<1>2. /\ ctrl_access(req) /\ descriptor_buffer(req) /\ bus_engine(ans)
      /\ src_align(ans) /\ memory(ans) /\ P!IInv
  BY DEF Clock, Cycle, TypeInv
<1>3. /\ ctrl'.enable /\ ~ctrl'.start
      /\ ctrl'.err <=> ctrl.err \/ engine.err
      /\ ctrl'.done <=> ctrl.done \/ engine.done
  BY <1>1, <1>2 DEF ctrl_access
<1>4. /\ ~Reads => /\ Level' = Level /\ (avail' <=> Level > 0)
                   /\ \A k \in 1 .. Level : Queue'[k] = Queue[k]
      /\ Reads /\ Level > 0 =>
           /\ Level' = Level - 1 /\ avail' /\ rdata' = Queue[1]
           /\ \A k \in 1 .. Level - 1 : Queue'[k] = Queue[k + 1]
  BY <1>1, <1>2, Buffer, RequestFacts
<1> QED
  BY <1>2, <1>3, <1>4 DEF PollEdge

(* The engine does what its state says. *)
LEMMA EngineAt ==
  ASSUME NEW ans, bus_engine(ans)
  PROVE  /\ Go("S_CHECK") => S_CHECK
         /\ Go("S_GET_0") => S_GET_0
         /\ Go("S_GET_1") => S_GET_1
         /\ Go("S_GET_2") => S_GET_2
         /\ Go("S_GET_3") => S_GET_3
         /\ Go("S_READ_REQ") => S_READ_REQ
         /\ Go("S_READ_RSP") => S_READ_RSP(ans)
         /\ Go("S_WRITE_REQ") => S_WRITE_REQ
         /\ Go("S_WRITE_RSP") => S_WRITE_RSP(ans)
BY DEF bus_engine, Go, S_CHECK, S_GET_0, S_GET_1, S_GET_2, S_GET_3,
   S_READ_REQ, S_READ_RSP, S_WRITE_REQ, S_WRITE_RSP

(* The level is a number. *)
LEMMA LevelType ==
  ASSUME TypeInv
  PROVE  /\ Level \in 0 .. DSC_FIFO /\ Level \in Nat
         /\ \A k \in 1 .. Level : Queue[k] \in Word
BY QueueWords, Sizes DEF TypeInv

(* An edge that reads no word keeps the rest of the queue. *)
LEMMA RestKept ==
  ASSUME NEW ans, PollEdge(ans), ~Reads, NEW s \in Nat, NEW m, Rest(s, m)
  PROVE  Rest(s, m)'
<1>1. PICK K \in Nat : Level = 3 * K + s /\ Chain(Queue, s, m, K, ref)
  BY DEF Rest
<1>2. Level' = Level /\ ref' = ref /\ \A k \in 1 .. Level : Queue'[k] = Queue[k]
  BY DEF PollEdge
<1>3. \A k \in 1 .. s + 3 * K : Queue'[k] = Queue[k + 0]
  BY <1>1, <1>2
<1>4. Chain(Queue, s + 0, m, K, ref) /\ 0 \in Nat
  BY <1>1
<1>5. Chain(Queue', s, m, K, ref)
  BY <1>3, <1>4, ChainMoved
<1>6. Chain(Queue, s, m, K, ref)'
  BY <1>2, <1>5 DEF Chain
<1> QED
  BY <1>1, <1>2, <1>6 DEF Rest

(* An edge that reads a word leaves the rest with one word less. *)
LEMMA RestTaken ==
  ASSUME NEW ans, PollEdge(ans), Reads, NEW s \in Nat, NEW m, Rest(s + 1, m)
  PROVE  Rest(s, m)'
<1>1. PICK K \in Nat : Level = 3 * K + (s + 1) /\ Chain(Queue, s + 1, m, K, ref)
  BY DEF Rest
<1>2. Level > 0
  BY <1>1
<1>3. Level' = Level - 1 /\ ref' = ref /\ \A k \in 1 .. Level - 1 : Queue'[k] = Queue[k + 1]
  BY <1>2 DEF PollEdge
<1>4. \A k \in 1 .. s + 3 * K : Queue'[k] = Queue[k + 1]
  BY <1>1, <1>3
<1>5. Chain(Queue', s, m, K, ref)
  BY <1>1, <1>4, ChainMoved
<1>6. Chain(Queue, s, m, K, ref)'
  BY <1>3, <1>5 DEF Chain
<1> QED
  BY <1>1, <1>3, <1>6 DEF Rest

(* A queue of whole descriptors that is not empty begins with one. *)
LEMMA RestFirst ==
  ASSUME TypeInv, NEW m, Rest(0, m), Level > 0
  PROVE  /\ Level > 2 /\ DescAt(Queue, 0) \in Desc /\ m \in Mem
         /\ Rest(3, Copy(DescAt(Queue, 0), m))
<1>1. PICK K \in Nat : Level = 3 * K + 0 /\ Chain(Queue, 0, m, K, ref)
  BY DEF Rest
<1>2. PICK J \in Nat : K = J + 1
  <2>1. K - 1 \in Nat /\ K = (K - 1) + 1
    BY <1>1
  <2> QED
    BY <2>1
<1>3. Chain(Queue, 0, m, J + 1, ref) /\ Level = 3 * J + 3
  BY <1>1, <1>2
<1>4. Chain(Queue, 3, Copy(DescAt(Queue, 0), m), J, ref)
  BY <1>3, ChainFirst
<1>5. Level > 2
  BY <1>3
<1>6. DescAt(Queue, 0) \in Desc
  <2>1. 0 + 1 \in 1 .. Level /\ 0 + 2 \in 1 .. Level /\ 0 + 3 \in 1 .. Level
    BY <1>5, LevelType
  <2>2. Queue[0 + 1] \in Word /\ Queue[0 + 2] \in Word /\ Queue[0 + 3] \in Word
    BY <2>1, LevelType
  <2> QED
    BY <2>2 DEF DescAt, Desc
<1>7. m \in Mem
  BY <1>3, ChainType
<1> QED
  BY <1>3, <1>4, <1>5, <1>6, <1>7 DEF Rest

(* An empty queue: the memory is what the client expects. *)
LEMMA RestNone ==
  ASSUME NEW m, Rest(0, m), Level = 0
  PROVE  m = ref
<1>1. PICK K \in Nat : Level = 3 * K + 0 /\ Chain(Queue, 0, m, K, ref)
  BY DEF Rest
<1>2. K = 0
  BY <1>1
<1> QED
  BY <1>1, <1>2, ChainNone

(* The first edge after START was written. *)
LEMMA StartedStep ==
  ASSUME NEW ans, PollEdge(ans), Started
  PROVE  Running'
<1>1. /\ Go("S_CHECK") /\ ~engine.run /\ ctrl.start /\ Fresh /\ ~engine.err
      /\ avail /\ Level > 0 /\ Rest(0, mem)
  BY DEF Started
<1>2. ~Reads
  BY <1>1 DEF Reads, Go
<1>3. S_CHECK
  BY <1>1, EngineAt DEF PollEdge
<1>4. /\ engine'.state = "S_GET_0" /\ engine'.run /\ ~engine'.done /\ ~engine'.err
      /\ ~engine'.num_or
  BY <1>1, <1>3 DEF S_CHECK, Fresh, PollEdge, TypeInv, TypeOK, DmaTypeOK
<1>5. mem' = mem /\ Level' = Level
  BY <1>1, <1>2 DEF PollEdge, memory, Go
<1>6. Rest(0, mem)'
  BY <1>1, <1>2, <1>5, RestKept
<1>7. Get0'
  BY <1>1, <1>4, <1>5, <1>6 DEF Get0, Go
<1>8. ~ctrl'.start /\ Fresh'
  BY <1>1, <1>4 DEF Fresh, PollEdge
<1> QED
  BY <1>4, <1>7, <1>8 DEF Running

(* Between two descriptors the engine takes the next one or ends.          *)
LEMMA CheckStep ==
  ASSUME NEW ans, PollEdge(ans), engine.run, ~ctrl.start, Fresh, ~engine.err, Check
  PROVE  Running' \/ Ended'
<1>1. Go("S_CHECK") /\ (avail <=> Level > 0) /\ Rest(0, mem)
  BY DEF Check
<1>2. ~Reads
  BY <1>1 DEF Reads, Go
<1>3. S_CHECK
  BY <1>1, EngineAt DEF PollEdge
<1>4. mem' = mem /\ Level' = Level /\ ref' = ref
  BY <1>1, <1>2 DEF PollEdge, memory, Go
<1>5. CASE avail
  <2>1. /\ engine'.state = "S_GET_0" /\ engine'.run /\ ~engine'.done /\ ~engine'.err
        /\ ~engine'.num_or
    BY <1>3, <1>5 DEF S_CHECK, Fresh, PollEdge, TypeInv, TypeOK, DmaTypeOK
  <2>2. Rest(0, mem)'
    BY <1>1, <1>2, <1>4, RestKept
  <2>3. Get0'
    BY <1>1, <1>4, <1>5, <2>1, <2>2 DEF Get0, Go
  <2>4. ~ctrl'.start /\ Fresh'
    BY <2>1 DEF Fresh, PollEdge
  <2> QED
    BY <2>1, <2>3, <2>4 DEF Running
<1>6. CASE ~avail
  <2>1. Level = 0
    BY <1>1, <1>6, LevelType DEF PollEdge
  <2>2. mem = ref
    BY <1>1, <2>1, RestNone
  <2>3. /\ engine'.state = "S_CHECK" /\ engine'.run = FALSE /\ engine'.done = TRUE
        /\ engine'.err = FALSE
    BY <1>1, <1>3, <1>6 DEF S_CHECK, PollEdge, TypeInv, TypeOK, DmaTypeOK, Go
  <2>4. ~ctrl'.start /\ ~ctrl'.done /\ ~ctrl'.err
    BY DEF Fresh, PollEdge
  <2> QED
    BY <1>4, <2>1, <2>2, <2>3, <2>4 DEF Ended, Quiet, Go
<1> QED
  BY <1>5, <1>6

(* A bus error is kept for the client. *)
LEMMA ErrStep ==
  ASSUME NEW ans, PollEdge(ans), engine.run, engine.err, Go("S_CHECK")
  PROVE  Failed'
<1>1. S_CHECK
  BY EngineAt DEF PollEdge
<1>2. engine'.state = "S_CHECK" /\ engine'.run = FALSE
  BY <1>1 DEF S_CHECK, PollEdge, TypeInv, TypeOK, DmaTypeOK, Go
<1> QED
  BY <1>2 DEF Failed, Quiet, Go, PollEdge

(* An engine that has stopped stays stopped, and its end can be read. *)
LEMMA StoppedStep ==
  ASSUME NEW ans, PollEdge(ans), Ended \/ Done \/ Failed
  PROVE  Done' \/ Failed'
<1>1. Quiet
  BY DEF Ended, Done, Failed
<1>2. S_CHECK /\ ~Reads
  BY <1>1, EngineAt DEF PollEdge, Quiet, Reads, Go
<1>3. /\ engine'.state = "S_CHECK" /\ engine'.run = FALSE /\ engine'.err = FALSE
      /\ mem' = mem /\ ref' = ref /\ Level' = Level /\ ~ctrl'.start
  BY <1>1, <1>2 DEF Quiet, S_CHECK, PollEdge, memory, TypeInv, TypeOK, DmaTypeOK, Go
<1>4. Quiet'
  BY <1>3 DEF Quiet, Go
<1>5. CASE Failed
  BY <1>4, <1>5 DEF Failed, PollEdge
<1>6. CASE Ended \/ Done
  BY <1>3, <1>4, <1>6 DEF Ended, Done, PollEdge
<1> QED
  BY <1>5, <1>6

-----------------------------------------------------------------------------
(* Taking a descriptor. *)

(* The first word leaves the queue for the read port. *)
LEMMA Get0Step ==
  ASSUME NEW ans, PollEdge(ans), engine.run, ~ctrl.start, Fresh, ~engine.err, ~engine.num_or, Get0
  PROVE  Running'
<1>1. Go("S_GET_0") /\ Level > 0 /\ Rest(0, mem) /\ TypeInv /\ Reads
  BY DEF Get0, PollEdge, Reads, Go
<1> DEFINE d == DescAt(Queue, 0)
<1>2. PICK m : m = mem
  OBVIOUS
<1>3. /\ Level > 2 /\ d \in Desc
      /\ Rest(3, Copy(d, m))
  BY <1>1, <1>2, RestFirst
<1>4. PICK e \in Desc : e = d
  BY <1>3
<1>5. e[1] = Queue[1] /\ e[2] = Queue[2] /\ e[3] = Queue[3]
  BY <1>4 DEF DescAt
<1> HIDE DEF d
<1>6. PICK c : c = Copy(e, m)
  OBVIOUS
<1>7. Rest(2, c)'
  <2>1. Rest(2 + 1, c) /\ 2 \in Nat
    BY <1>3, <1>4, <1>6
  <2> QED
    BY <1>1, <2>1, RestTaken
<1>8. S_GET_0
  BY <1>1, EngineAt DEF PollEdge
<1>9. /\ engine'.state = "S_GET_1" /\ engine'.run /\ ~engine'.err /\ ~engine'.num_or
      /\ ~engine'.done
  BY <1>8 DEF S_GET_0, PollEdge, TypeInv, TypeOK, DmaTypeOK, Fresh
<1>10. mem' = m
  BY <1>1, <1>2 DEF PollEdge, memory, Go
<1>11. /\ Level' = Level - 1 /\ avail' /\ rdata' = Queue[1]
       /\ Queue'[1] = Queue[2] /\ Queue'[2] = Queue[3]
  <2>1. 1 \in 1 .. Level - 1 /\ 2 \in 1 .. Level - 1 /\ 1 + 1 = 2 /\ 2 + 1 = 3
    BY <1>1, <1>3, LevelType
  <2> QED
    BY <1>1, <2>1 DEF PollEdge
<1>12. Get1(e)'
  BY <1>5, <1>6, <1>7, <1>9, <1>10, <1>11 DEF Get1, Go
<1>13. ~ctrl'.start /\ Fresh'
  BY <1>9 DEF Fresh, PollEdge
<1> QED
  BY <1>9, <1>12, <1>13 DEF Running

(* The source address is taken from the read port. *)
LEMMA Get1Step ==
  ASSUME NEW ans, PollEdge(ans), engine.run, ~ctrl.start, Fresh, ~engine.err, ~engine.num_or,
         NEW d \in Desc, Get1(d)
  PROVE  Running'
<1>1. Go("S_GET_1") /\ avail /\ TypeInv /\ Reads
  BY DEF Get1, PollEdge, Reads, Go
<1>2. PICK c : c = Copy(d, mem)
  OBVIOUS
<1>3. Rest(2, c)
  BY <1>2 DEF Get1
<1>4. Level > 1
  BY <1>3 DEF Rest
<1>5. Rest(1, c)'
  <2>1. Rest(1 + 1, c) /\ 1 \in Nat
    BY <1>3
  <2> QED
    BY <1>1, <2>1, RestTaken
<1>6. S_GET_1
  BY <1>1, EngineAt DEF PollEdge
<1>7. /\ engine'.state = "S_GET_2" /\ engine'.run /\ ~engine'.err /\ ~engine'.num_or
      /\ ~engine'.done /\ engine'.src_addr = addr(d[1])
  BY <1>1, <1>6 DEF S_GET_1, PollEdge, TypeInv, TypeOK, DmaTypeOK, Fresh, Get1
<1>8. mem' = mem
  BY <1>1 DEF PollEdge, memory, Go
<1>9. avail' /\ rdata' = Queue[1] /\ Queue'[1] = Queue[2]
  <2>1. 1 \in 1 .. Level - 1 /\ 1 + 1 = 2 /\ Level > 0
    BY <1>1, <1>4, LevelType
  <2> QED
    BY <1>1, <2>1 DEF PollEdge
<1>10. Get2(d)'
  BY <1>2, <1>5, <1>7, <1>8, <1>9 DEF Get1, Get2, Go
<1>11. ~ctrl'.start /\ Fresh'
  BY <1>7 DEF Fresh, PollEdge
<1> QED
  BY <1>7, <1>10, <1>11 DEF Running

(* The destination address. *)
LEMMA Get2Step ==
  ASSUME NEW ans, PollEdge(ans), engine.run, ~ctrl.start, Fresh, ~engine.err, ~engine.num_or,
         NEW d \in Desc, Get2(d)
  PROVE  Running'
<1>1. Go("S_GET_2") /\ avail /\ TypeInv /\ Reads
  BY DEF Get2, PollEdge, Reads, Go
<1>2. PICK c : c = Copy(d, mem)
  OBVIOUS
<1>3. Rest(1, c)
  BY <1>2 DEF Get2
<1>4. Level > 0
  BY <1>3 DEF Rest
<1>5. Rest(0, c)'
  <2>1. Rest(0 + 1, c) /\ 0 \in Nat
    BY <1>3
  <2> QED
    BY <1>1, <2>1, RestTaken
<1>6. S_GET_2
  BY <1>1, EngineAt DEF PollEdge
<1>7. /\ engine'.state = "S_GET_3" /\ engine'.run /\ ~engine'.err /\ ~engine'.num_or
      /\ ~engine'.done /\ engine'.src_addr = addr(d[1]) /\ engine'.dst_addr = addr(d[2])
  BY <1>1, <1>6 DEF S_GET_2, PollEdge, TypeInv, TypeOK, DmaTypeOK, Fresh, Get2
<1>8. mem' = mem
  BY <1>1 DEF PollEdge, memory, Go
<1>9. rdata' = Queue[1]
  BY <1>1, <1>4 DEF PollEdge
<1>10. Get3(d)'
  BY <1>2, <1>5, <1>7, <1>8, <1>9 DEF Get2, Get3, Go
<1>11. ~ctrl'.start /\ Fresh'
  BY <1>7 DEF Fresh, PollEdge
<1> QED
  BY <1>7, <1>10, <1>11 DEF Running

(* The configuration: the transfer begins with its first element.          *)
LEMMA Get3Step ==
  ASSUME NEW ans, PollEdge(ans), engine.run, ~ctrl.start, Fresh, ~engine.err, ~engine.num_or,
         NEW d \in Desc, Get3(d)
  PROVE  Running'
<1>1. Go("S_GET_3") /\ TypeInv /\ ~Reads
  BY DEF Get3, PollEdge, Reads, Go
<1>2. PICK m \in Mem : m = mem
  BY <1>1 DEF TypeInv, TypeOK, DmaTypeOK, Mem
<1>3. PICK t : Trace(d, t) /\ t[0] = m /\ Copy(d, m) = t[Elements(d)]
  BY CopyTrace
<1>4. PICK c : c = Copy(d, m)
  OBVIOUS
<1>5. Rest(0, c)'
  <2>1. Rest(0, c)
    BY <1>2, <1>4 DEF Get3
  <2> QED
    BY <1>1, <2>1, RestKept
<1>6. S_GET_3
  BY <1>1, EngineAt DEF PollEdge
<1>7. /\ engine'.state = "S_READ_REQ" /\ engine'.run /\ ~engine'.err /\ engine'.num_or = FALSE
      /\ ~engine'.done /\ engine'.src_addr = addr(d[1]) /\ engine'.dst_addr = addr(d[2])
      /\ engine'.num = num(d[3])
      /\ engine'.src_inc = src_inc(d[3]) /\ engine'.dst_inc = dst_inc(d[3])
  BY <1>1, <1>6 DEF S_GET_3, PollEdge, TypeInv, TypeOK, DmaTypeOK, Fresh, Get3
<1>8. mem' = m
  BY <1>1, <1>2 DEF PollEdge, memory, Go
<1>9. num(d[3]) = IF Elements(d) - 0 = NumSpace THEN 0 ELSE Elements(d) - 0
  <2>1. num(d[3]) \in 0 .. NumSpace - 1 /\ NumSpace \in Nat \ {0}
    BY Fields, Sizes DEF Desc, Num
  <2> QED
    BY <2>1 DEF Elements
<1>10. ReadReq(d, 0)'
  <2>1. SrcAt(d, 0) = addr(d[1])
    BY NextAt
  <2>2. (0 > 0) = FALSE
    OBVIOUS
  <2> QED
    BY <1>7, <1>9, <2>1, <2>2 DEF ReadReq, Go
<1>11. 0 \in 0 .. Elements(d) - 1 /\ 0 \in Nat
  BY ElementsType
<1>12. Transfer(d, t, 0)'
  BY <1>3, <1>4, <1>5, <1>7, <1>8, <1>10, <1>11 DEF Transfer
<1>13. ~ctrl'.start /\ Fresh'
  BY <1>7 DEF Fresh, PollEdge
<1> QED
  BY <1>7, <1>11, <1>12, <1>13 DEF Running

-----------------------------------------------------------------------------
(* Copying the elements of a descriptor. *)

(* What the states of a transfer have in common. *)
InTransfer(ans, d, t, n) ==
  /\ PollEdge(ans) /\ engine.run /\ ~ctrl.start /\ Fresh /\ ~engine.err
  /\ d \in Desc /\ n \in Nat /\ Transfer(d, t, n)

(* Numbers and addresses of the element, and the control register.         *)
LEMMA TransferFacts ==
  ASSUME NEW ans, NEW d, NEW t, NEW n, InTransfer(ans, d, t, n)
  PROVE  /\ n \in 0 .. Elements(d) - 1 /\ Elements(d) \in 1 .. NumSpace
         /\ NumSpace \in Nat /\ Elements(d) \in Nat /\ n \in Nat
         /\ SrcAt(d, n) \in Addr /\ DstAt(d, n) \in Addr /\ mem \in Mem
         /\ engine.src_inc = src_inc(d[3]) /\ engine.dst_inc = dst_inc(d[3])
         /\ ~ctrl'.start /\ ~ctrl'.done /\ ~ctrl'.err /\ ctrl.enable
         /\ engine \in [state : States, run : BOOLEAN, done : BOOLEAN, err : BOOLEAN,
                        src_addr : Addr, dst_addr : Addr, num : Num, num_or : BOOLEAN,
                        src_inc : 0 .. 1, dst_inc : 0 .. 1]
         /\ engine.done = FALSE /\ engine.err = FALSE /\ engine.run = TRUE
         /\ TypeInv /\ ~Reads /\ Rest(0, t[Elements(d)])'
<1>1. /\ d \in Desc /\ n \in Nat /\ PollEdge(ans) /\ TypeInv
      /\ engine \in [state : States, run : BOOLEAN, done : BOOLEAN, err : BOOLEAN,
                     src_addr : Addr, dst_addr : Addr, num : Num, num_or : BOOLEAN,
                     src_inc : 0 .. 1, dst_inc : 0 .. 1]
  BY DEF InTransfer, PollEdge, TypeInv, TypeOK, DmaTypeOK
<1>2. ~Reads
  BY DEF InTransfer, Transfer, ReadReq, ReadRsp, WriteReq, WriteRsp, Go, Reads
<1>3. PICK c : c = t[Elements(d)]
  OBVIOUS
<1>4. Rest(0, c)'
  <2>1. Rest(0, c) /\ 0 \in Nat
    BY <1>3 DEF InTransfer, Transfer
  <2> QED
    BY <1>1, <1>2, <2>1, RestKept
<1>5. Rest(0, t[Elements(d)])'
  BY <1>3, <1>4
<1>6. /\ engine.src_inc = src_inc(d[3]) /\ engine.dst_inc = dst_inc(d[3])
      /\ n \in 0 .. Elements(d) - 1
  BY DEF InTransfer, Transfer
<1>7. ~ctrl'.start /\ ~ctrl'.done /\ ~ctrl'.err /\ ctrl.enable
  BY DEF InTransfer, PollEdge, Fresh
<1>8. engine.done = FALSE /\ engine.err = FALSE /\ engine.run = TRUE
  BY <1>1 DEF InTransfer, Fresh
<1>9. mem \in Mem
  BY <1>1 DEF TypeInv, TypeOK, DmaTypeOK, Mem
<1> QED
  BY <1>1, <1>2, <1>5, <1>6, <1>7, <1>8, <1>9, AtType, ElementsType, Sizes

(* The numbers among them. *)
LEMMA TransferNumbers ==
  ASSUME NEW ans, NEW d, NEW t, NEW n, InTransfer(ans, d, t, n)
  PROVE  /\ n \in Nat /\ Elements(d) \in Nat /\ NumSpace \in Nat
         /\ n < Elements(d) /\ Elements(d) <= NumSpace
<1>1. /\ n \in 0 .. Elements(d) - 1 /\ Elements(d) \in 1 .. NumSpace
      /\ NumSpace \in Nat /\ Elements(d) \in Nat /\ n \in Nat
  BY TransferFacts
<1> QED
  BY <1>1

(* A state of the same transfer after the edge. *)
LEMMA StillRunning ==
  ASSUME NEW ans, NEW d, NEW t, NEW n, InTransfer(ans, d, t, n), NEW i \in 0 .. Elements(d) - 1,
         mem' = t[i],
         engine'.run = TRUE, engine'.done = FALSE, engine'.err = FALSE,
         engine'.src_inc = engine.src_inc, engine'.dst_inc = engine.dst_inc,
         ReadReq(d, i)' \/ ReadRsp(d, i)' \/ WriteReq(d, i, mem)' \/ WriteRsp(d, i, mem)'
  PROVE  Running'
<1>1. /\ d \in Desc /\ Trace(d, t) /\ Rest(0, t[Elements(d)])'
      /\ engine.src_inc = src_inc(d[3]) /\ engine.dst_inc = dst_inc(d[3])
  BY TransferFacts DEF InTransfer, Transfer
<1>2. Transfer(d, t, i)'
  BY <1>1 DEF Transfer
<1>3. ~ctrl'.start /\ Fresh'
  BY TransferFacts DEF Fresh
<1>4. i \in Nat
  BY TransferFacts
<1> QED
  BY <1>1, <1>2, <1>3, <1>4 DEF Running

(* The request for an element: from the second element on, the destination *)
(* is incremented first.                                                   *)
LEMMA ReadReqStep ==
  ASSUME NEW ans, NEW d, NEW t, NEW n, InTransfer(ans, d, t, n), ReadReq(d, n)
  PROVE  Running'
<1>1. S_READ_REQ /\ mem' = mem /\ mem = t[n]
  BY EngineAt DEF InTransfer, PollEdge, ReadReq, Go, memory, Transfer
<1>2. /\ engine'.state = "S_READ_RSP" /\ engine'.run = TRUE /\ engine'.done = FALSE
      /\ engine'.err = FALSE /\ engine'.src_addr = engine.src_addr
      /\ engine'.src_inc = engine.src_inc /\ engine'.dst_inc = engine.dst_inc
      /\ engine'.num = (engine.num - 1) % NumSpace
      /\ engine'.dst_addr = IF engine.num_or THEN (engine.dst_addr + engine.dst_inc) % AddrSpace
                            ELSE engine.dst_addr
  BY <1>1, TransferFacts DEF S_READ_REQ
<1>3. engine'.num = Elements(d) - n - 1
  <2> DEFINE k == Elements(d) - n
  <2>1. k \in 1 .. NumSpace /\ Elements(d) - n - 1 = k - 1
    BY TransferNumbers
  <2>2. engine.num = IF k = NumSpace THEN 0 ELSE k
    BY DEF ReadReq
  <2> HIDE DEF k
  <2> QED
    BY <1>2, <2>1, <2>2, CountDown
<1>4. engine'.dst_addr = DstAt(d, n)
  <2>1. CASE n = 0
    <3>1. engine.num_or = FALSE /\ engine.dst_addr = addr(d[2])
      <4>1. (0 > 0) = FALSE
        OBVIOUS
      <4> QED
        BY <2>1, <4>1 DEF ReadReq
    <3>2. DstAt(d, 0) = addr(d[2])
      BY NextAt DEF InTransfer
    <3> QED
      BY <1>2, <2>1, <3>1, <3>2
  <2>2. CASE n # 0
    <3>1. n - 1 \in Nat /\ (n - 1) + 1 = n /\ d \in Desc
      BY <2>2 DEF InTransfer
    <3>2. (n > 0) = TRUE
      BY <2>2, <3>1
    <3>3. engine.num_or = TRUE /\ engine.dst_addr = DstAt(d, n - 1)
      BY <2>2, <3>2 DEF ReadReq
    <3>4. DstAt(d, n) = (DstAt(d, n - 1) + dst_inc(d[3])) % AddrSpace
      BY <3>1, NextAt
    <3> QED
      BY <1>2, <3>3, <3>4, TransferFacts
  <2> QED
    BY <2>1, <2>2
<1>5. ReadRsp(d, n)'
  BY <1>2, <1>3, <1>4 DEF ReadReq, ReadRsp, Go
<1> QED
  BY <1>1, <1>2, <1>5, StillRunning, TransferFacts

(* The element arrives, or a bus error. *)
LEMMA ReadRspStep ==
  ASSUME NEW ans, NEW d, NEW t, NEW n, InTransfer(ans, d, t, n), ReadRsp(d, n)
  PROVE  Running'
<1>1. S_READ_RSP(ans) /\ mem' = mem /\ mem = t[n] /\ ans \in {"none", "ok", "err"}
  BY EngineAt DEF InTransfer, PollEdge, ReadRsp, Go, memory, Transfer, Answers
<1>2. /\ engine'.run = TRUE /\ engine'.done = FALSE
      /\ engine'.src_addr = engine.src_addr /\ engine'.dst_addr = engine.dst_addr
      /\ engine'.src_inc = engine.src_inc /\ engine'.dst_inc = engine.dst_inc
      /\ engine'.num = engine.num
  BY <1>1, TransferFacts DEF S_READ_RSP
<1>3. CASE ans = "none"
  <2>1. engine'.state = "S_READ_RSP" /\ engine'.err = FALSE
    BY <1>1, <1>3, TransferFacts DEF S_READ_RSP, Go
  <2>2. ReadRsp(d, n)'
    BY <1>2, <2>1 DEF ReadRsp, Go
  <2> QED
    BY <1>1, <1>2, <2>1, <2>2, StillRunning, TransferFacts
<1>4. CASE ans = "ok"
  <2>1. engine'.state = "S_WRITE_REQ" /\ engine'.err = FALSE
    BY <1>1, <1>4, TransferFacts DEF S_READ_RSP, Go
  <2>2. data_buf' = mem[SrcAt(d, n)]
    BY <1>4 DEF InTransfer, PollEdge, src_align, ReadRsp, Go
  <2>3. WriteReq(d, n, mem)'
    BY <1>1, <1>2, <2>1, <2>2 DEF ReadRsp, WriteReq, Go
  <2> QED
    BY <1>1, <1>2, <2>1, <2>3, StillRunning, TransferFacts
<1>5. CASE ans = "err"
  <2>1. engine'.state = "S_CHECK" /\ engine'.err = TRUE
    BY <1>1, <1>5, TransferFacts DEF S_READ_RSP, Go
  <2> QED
    BY <1>2, <2>1, TransferFacts DEF Running, Fresh, Go
<1> QED
  BY <1>1, <1>3, <1>4, <1>5

(* The request to write it: the source is incremented. *)
LEMMA WriteReqStep ==
  ASSUME NEW ans, NEW d, NEW t, NEW n, InTransfer(ans, d, t, n), WriteReq(d, n, mem)
  PROVE  Running'
<1>1. /\ S_WRITE_REQ /\ mem' = mem /\ mem = t[n] /\ data_buf' = data_buf
      /\ d \in Desc /\ n \in Nat
  BY EngineAt DEF InTransfer, PollEdge, WriteReq, Go, memory, src_align, Transfer
<1>2. /\ engine'.state = "S_WRITE_RSP" /\ engine'.run = TRUE /\ engine'.done = FALSE
      /\ engine'.err = FALSE /\ engine'.dst_addr = engine.dst_addr
      /\ engine'.src_inc = engine.src_inc /\ engine'.dst_inc = engine.dst_inc
      /\ engine'.num = engine.num
      /\ engine'.src_addr = (engine.src_addr + engine.src_inc) % AddrSpace
      /\ engine'.num_or = (engine.num # 0)
  BY <1>1, TransferFacts DEF S_WRITE_REQ
<1>3. engine'.src_addr = SrcAt(d, n + 1)
  <2>1. SrcAt(d, n + 1) = (SrcAt(d, n) + src_inc(d[3])) % AddrSpace
    BY <1>1, NextAt
  <2> QED
    BY <1>2, <2>1, TransferFacts DEF WriteReq
<1>4. engine'.num_or = (n + 1 # Elements(d))
  <2>1. engine.num = Elements(d) - n - 1
    BY DEF WriteReq
  <2>2. (engine.num # 0) = (n + 1 # Elements(d))
    BY <2>1, TransferNumbers
  <2> QED
    BY <1>2, <2>2
<1>5. WriteRsp(d, n, mem)'
  BY <1>1, <1>2, <1>3, <1>4 DEF WriteReq, WriteRsp, Go
<1> QED
  BY <1>1, <1>2, <1>5, StillRunning, TransferFacts

(* It has been written: the memory is the next of the transfer's contents, *)
(* and the next element, the next descriptor or the end follows.           *)
LEMMA WriteRspStep ==
  ASSUME NEW ans, NEW d, NEW t, NEW n, InTransfer(ans, d, t, n), WriteRsp(d, n, mem)
  PROVE  Running'
<1>1. /\ S_WRITE_RSP(ans) /\ mem = t[n] /\ data_buf' = data_buf
      /\ d \in Desc /\ n \in Nat /\ ans \in {"none", "ok", "err"}
      /\ Trace(d, t) /\ Go("S_WRITE_RSP") /\ memory(ans)
  BY EngineAt DEF InTransfer, PollEdge, WriteRsp, Go, src_align, Transfer, Answers
<1>2. /\ engine'.run = TRUE /\ engine'.done = FALSE
      /\ engine'.src_addr = engine.src_addr /\ engine'.dst_addr = engine.dst_addr
      /\ engine'.src_inc = engine.src_inc /\ engine'.dst_inc = engine.dst_inc
      /\ engine'.num = engine.num /\ engine'.num_or = engine.num_or
  BY <1>1, TransferFacts DEF S_WRITE_RSP
<1>3. CASE ans = "none"
  <2>1. engine'.state = "S_WRITE_RSP" /\ engine'.err = FALSE
    BY <1>1, <1>3, TransferFacts DEF S_WRITE_RSP, Go
  <2>2. mem' = mem
    BY <1>1, <1>3 DEF memory
  <2>3. WriteRsp(d, n, mem)'
    BY <1>1, <1>2, <2>1, <2>2 DEF WriteRsp, Go
  <2> QED
    BY <1>1, <1>2, <2>1, <2>2, <2>3, StillRunning, TransferFacts
<1>4. CASE ans = "ok"
  <2>1. mem' = t[n + 1]
    <3>1. mem' = [mem EXCEPT ![DstAt(d, n)] = mem[SrcAt(d, n)]]
      BY <1>1, <1>4 DEF memory, WriteRsp
    <3>2. t[n + 1] = One(d, n, t[n])
      BY <1>1, TransferFacts DEF Trace
    <3> QED
      BY <1>1, <3>1, <3>2 DEF One
  <2>2. CASE engine.num_or
    <3>1. engine'.state = "S_READ_REQ" /\ engine'.err = FALSE
      BY <1>1, <1>4, <2>2, TransferFacts DEF S_WRITE_RSP, Go
    <3>2. n + 1 # Elements(d)
      BY <2>2 DEF WriteRsp
    <3>3. n + 1 \in 0 .. Elements(d) - 1 /\ n + 1 \in Nat /\ (n + 1) - 1 = n /\ n + 1 # 0
      BY <1>1, <3>2, TransferNumbers
    <3>4. engine.num = IF Elements(d) - (n + 1) = NumSpace THEN 0 ELSE Elements(d) - (n + 1)
      <4>1. engine.num = Elements(d) - n - 1
        BY DEF WriteRsp
      <4> QED
        BY <1>1, <4>1, TransferNumbers
    <3>5. engine'.num_or = (n + 1 > 0)
      <4>1. (n + 1 > 0) = TRUE /\ engine.num_or = TRUE
        BY <1>1, <2>2, TransferFacts
      <4> QED
        BY <1>2, <4>1
    <3>6. ReadReq(d, n + 1)'
      BY <1>2, <3>1, <3>3, <3>4, <3>5 DEF WriteRsp, ReadReq, Go
    <3> QED
      BY <1>2, <2>1, <3>1, <3>3, <3>6, StillRunning
  <2>3. CASE ~engine.num_or
    <3>1. engine'.state = "S_CHECK" /\ engine'.err = FALSE
      BY <1>1, <1>4, <2>3, TransferFacts DEF S_WRITE_RSP, Go
    <3>2. n + 1 = Elements(d)
      BY <2>3 DEF WriteRsp
    <3>3. Rest(0, mem)'
      BY <2>1, <3>2, TransferFacts
    <3>4. avail' <=> Level' > 0
      BY TransferFacts DEF InTransfer, PollEdge
    <3>5. Check'
      BY <3>1, <3>3, <3>4 DEF Check, Go
    <3> QED
      BY <1>2, <3>1, <3>5, TransferFacts DEF Running, Fresh
  <2> QED
    BY <2>2, <2>3
<1>5. CASE ans = "err"
  <2>1. engine'.state = "S_CHECK" /\ engine'.err = TRUE
    BY <1>1, <1>5, TransferFacts DEF S_WRITE_RSP, Go
  <2> QED
    BY <1>2, <2>1, TransferFacts DEF Running, Fresh, Go
<1> QED
  BY <1>1, <1>3, <1>4, <1>5

(* One clock edge while the client polls. *)
LEMMA PollStep ==
  ASSUME NEW ans, PollEdge(ans), Poll
  PROVE  Poll'
<1>1. CASE Started
  BY <1>1, StartedStep DEF Poll
<1>2. CASE Ended \/ Done \/ Failed
  BY <1>2, StoppedStep DEF Poll
<1>3. CASE Running
  <2>1. engine.run /\ ~ctrl.start /\ Fresh
    BY <1>3 DEF Running
  <2>2. CASE Go("S_CHECK") /\ engine.err
    BY <2>1, <2>2, ErrStep DEF Poll
  <2>3. CASE ~engine.err /\ Check
    BY <2>1, <2>3, CheckStep DEF Poll
  <2>4. CASE ~engine.err /\ ~engine.num_or /\ Get0
    BY <2>1, <2>4, Get0Step DEF Poll
  <2>5. CASE ~engine.err /\ ~engine.num_or /\ \E d \in Desc : Get1(d) \/ Get2(d) \/ Get3(d)
    BY <2>1, <2>5, Get1Step, Get2Step, Get3Step DEF Poll
  <2>6. ASSUME ~engine.err, NEW d \in Desc, NEW t, NEW n \in Nat, Transfer(d, t, n)
        PROVE  Running'
    <3>1. InTransfer(ans, d, t, n)
      BY <2>1, <2>6 DEF InTransfer
    <3>2. ReadReq(d, n) \/ ReadRsp(d, n) \/ WriteReq(d, n, mem) \/ WriteRsp(d, n, mem)
      BY <2>6 DEF Transfer
    <3> QED
      BY <3>1, <3>2, ReadReqStep, ReadRspStep, WriteReqStep, WriteRspStep
  <2> QED
    BY <1>3, <2>2, <2>3, <2>4, <2>5, <2>6 DEF Running, Poll
<1> QED
  BY <1>1, <1>2, <1>3 DEF Poll

-----------------------------------------------------------------------------
(* A careful client and its driver. *)

(* The queue holds K whole descriptors, which turn the memory into the     *)
(* memory the client expects, and p more words.                            *)
Loaded(K, p) == Level = 3 * K + p /\ Chain(Queue, 0, mem, K, ref)

(* Words of the descriptor that neorv32_dma_program has written.           *)
Part == IF sw.pc \in {"full2", "dst"} THEN 1
        ELSE IF sw.pc \in {"full3", "conf"} THEN 2 ELSE 0

Programming == {"src", "full2", "dst", "full3", "conf"}

(* While the controller is disabled it holds nothing, one cycle later at   *)
(* the latest.                                                             *)
OffInv == sw.pc \in {"off", "enable"} =>
            sw.nprog = 0 /\ mem = ref /\ (bus_ack \/ Level = 0)

(* Between the calls every programmed descriptor is in the queue. *)
ReadyInv == /\ sw.pc \in {"ready", "start"} => Loaded(sw.nprog, 0)
            /\ sw.pc = "start" => sw.nprog > 0

(* During neorv32_dma_program, the words written so far as well. *)
ProgInv == sw.pc \in Programming =>
             /\ sw.nprog > 0 /\ Loaded(sw.nprog - 1, Part)
             /\ Part > 0 => Queue[3 * (sw.nprog - 1) + 1] = sw.desc[1]
             /\ Part > 1 => Queue[3 * (sw.nprog - 1) + 2] = sw.desc[2]

(* After DONE the queue is empty and the memory is the expected one. *)
DoneInv == sw.pc \in {"done", "ack"} => sw.nprog = 0 /\ Loaded(0, 0)

PollInv == sw.pc = "poll" => DSC_FIFO > 1 /\ Poll

CarefulInv ==
  /\ 3 * sw.nprog <= DSC_FIFO
  /\ ctrl.enable <=> sw.pc \notin {"off", "enable"}
  /\ sw.pc # "poll" => Quiet /\ sw.busy = FALSE
  /\ OffInv /\ ReadyInv /\ ProgInv /\ DoneInv /\ PollInv

(* One clock edge while the engine waits for START. *)
QuietEdge(req) ==
  /\ TypeInv /\ TypeInv' /\ Quiet
  /\ req \in Requests /\ client' = client
  /\ engine'.state = "S_CHECK" /\ ~engine'.run /\ ~engine'.done /\ ~engine'.err
  /\ mem' = mem /\ bus_ack' = (req # None)
  /\ req.op # "ctrl" => ctrl'.enable = ctrl.enable /\ ~ctrl'.start
  /\ req.op = "ctrl" => /\ ctrl'.enable = req.en /\ ctrl'.start = req.start
                        /\ req.start => ~ctrl'.err /\ ~ctrl'.done
  /\ ~ctrl.enable => Level' = 0
  /\ ctrl.enable /\ req.op # "desc" =>
       /\ Level' = Level /\ (avail' <=> Level > 0)
       /\ \A k \in 1 .. Level : Queue'[k] = Queue[k]
  /\ ctrl.enable /\ req.op = "desc" /\ Level < DSC_FIFO =>
       /\ Level' = Level + 1 /\ Queue'[Level + 1] = req.data
       /\ \A k \in 1 .. Level : Queue'[k] = Queue[k]

(* It is any clock edge that meets a quiet engine. *)
LEMMA QuietEdgeFacts ==
  ASSUME TypeInv, TypeInv', Quiet, NEW req \in Requests, NEW ans \in Answers, Clock(req, ans)
  PROVE  QuietEdge(req)
<1>1. /\ ctrl_access(req) /\ descriptor_buffer(req) /\ bus_engine(ans) /\ memory(ans)
      /\ P!IInv /\ client' = client /\ bus_ack' = (req # None)
      /\ engine \in [state : States, run : BOOLEAN, done : BOOLEAN, err : BOOLEAN,
                     src_addr : Addr, dst_addr : Addr, num : Num, num_or : BOOLEAN,
                     src_inc : 0 .. 1, dst_inc : 0 .. 1]
      /\ ctrl \in [enable : BOOLEAN, start : BOOLEAN, err : BOOLEAN, done : BOOLEAN]
  BY DEF Clock, Cycle, TypeInv, TypeOK, DmaTypeOK
<1>2. S_CHECK /\ ~Reads
  BY <1>1, EngineAt DEF Quiet, Reads, Go
<1>3. /\ engine'.state = "S_CHECK" /\ ~engine'.run /\ ~engine'.done /\ ~engine'.err
      /\ mem' = mem
  BY <1>1, <1>2 DEF Quiet, S_CHECK, memory, Go
<1>4. /\ req.op # "ctrl" => ctrl'.enable = ctrl.enable /\ ~ctrl'.start
      /\ req.op = "ctrl" => /\ ctrl'.enable = req.en /\ ctrl'.start = req.start
                            /\ req.start => ~ctrl'.err /\ ~ctrl'.done
  BY <1>1, RequestFacts DEF ctrl_access
<1>5. /\ ~ctrl.enable => Level' = 0
      /\ ctrl.enable /\ req.op # "desc" =>
           /\ Level' = Level /\ (avail' <=> Level > 0)
           /\ \A k \in 1 .. Level : Queue'[k] = Queue[k]
      /\ ctrl.enable /\ req.op = "desc" /\ Level < DSC_FIFO =>
           /\ Level' = Level + 1 /\ Queue'[Level + 1] = req.data
           /\ \A k \in 1 .. Level : Queue'[k] = Queue[k]
  BY <1>1, <1>2, Buffer, RequestFacts
<1> QED
  BY <1>1, <1>3, <1>4, <1>5 DEF QuietEdge

(* The descriptors in the queue stay there when no register or one of      *)
(* CTRL's bits is accessed, and when a word is added behind them.          *)
LEMMA ChainKept ==
  ASSUME NEW req, QuietEdge(req), ctrl.enable, Level < DSC_FIFO \/ req.op # "desc",
         ref' = ref, NEW K \in Nat, 3 * K <= Level, Chain(Queue, 0, mem, K, ref)
  PROVE  Chain(Queue, 0, mem, K, ref)'
<1>1. \A k \in 1 .. Level : Queue'[k] = Queue[k]
  BY DEF QuietEdge
<1>2. mem' = mem /\ Level \in Nat
  BY LevelType DEF QuietEdge
<1>3. \A k \in 1 .. 0 + 3 * K : Queue'[k] = Queue[k + 0]
  BY <1>1, <1>2
<1>4. 0 \in Nat /\ Chain(Queue, 0 + 0, mem, K, ref)
  OBVIOUS
<1>5. Chain(Queue', 0, mem, K, ref)
  BY <1>3, <1>4, ChainMoved
<1> QED
  BY <1>2, <1>5

(* So what is loaded stays loaded. *)
LEMMA LoadedKept ==
  ASSUME NEW req, QuietEdge(req), ctrl.enable, req.op # "desc", ref' = ref,
         NEW K \in Nat, NEW p \in Nat, Loaded(K, p)
  PROVE  /\ Loaded(K, p)'
         /\ \A k \in 1 .. 3 * K + p : Queue'[k] = Queue[k]
<1>1. Level = 3 * K + p /\ Chain(Queue, 0, mem, K, ref) /\ 3 * K <= Level
  BY DEF Loaded
<1>2. Level' = Level /\ \A k \in 1 .. Level : Queue'[k] = Queue[k]
  BY DEF QuietEdge
<1>3. Chain(Queue, 0, mem, K, ref)'
  BY <1>1, ChainKept
<1> QED
  BY <1>1, <1>2, <1>3 DEF Loaded

(* An empty queue and the memory that is expected. *)
LEMMA LoadedNone ==
  /\ TypeInv /\ Level = 0 /\ mem = ref => Loaded(0, 0)
  /\ Loaded(0, 0) => Level = 0 /\ mem = ref
<1>1. TypeInv => mem \in Mem
  BY DEF TypeInv, TypeOK, DmaTypeOK, Mem
<1>2. 3 * 0 + 0 = 0
  OBVIOUS
<1> QED
  BY <1>1, <1>2, ChainNone DEF Loaded

(* What is known of a step of a careful client while the engine is quiet.  *)
QuietStep(req) ==
  /\ TypeInv /\ TypeInv' /\ CarefulInv /\ sw.pc # "poll" /\ QuietEdge(req)
  /\ sw.nprog \in Nat /\ DSC_FIFO \in Nat

(* Any clock edge is one. *)
LEMMA QuietStepFacts ==
  ASSUME TypeInv, TypeInv', CarefulInv, sw.pc # "poll",
         NEW req \in Requests, NEW ans \in Answers, Clock(req, ans)
  PROVE  QuietStep(req)
<1>1. QuietEdge(req)
  BY QuietEdgeFacts DEF CarefulInv
<1> QED
  BY <1>1, Sizes DEF QuietStep, TypeInv, TypeOK

(* The driver moves on to step p and keeps the rest of its state. *)
MovesTo(p) ==
  /\ sw'.pc = p /\ sw'.nprog = sw.nprog /\ sw'.desc = sw.desc /\ sw'.busy = sw.busy

(* So does every access. *)
LEMMA AccessFacts ==
  ASSUME TypeInv, NEW from, NEW req, NEW p, NEW ans, Access(from, req, p, ans)
  PROVE  sw.pc = from /\ ~bus_ack /\ Clock(req, ans) /\ MovesTo(p)
BY DEF Access, MovesTo, TypeInv, TypeOK

(* The requests, one by one. *)
LEMMA RequestOps ==
  /\ None \in Requests /\ None.op = "none"
  /\ ReadCtrl \in Requests /\ ReadCtrl.op = "read" /\ ReadCtrl # None
  /\ \A e, s, a \in BOOLEAN :
       /\ WriteCtrl(e, s, a) \in Requests /\ WriteCtrl(e, s, a).op = "ctrl"
       /\ WriteCtrl(e, s, a).en = e /\ WriteCtrl(e, s, a).start = s
       /\ WriteCtrl(e, s, a) # None
  /\ \A w \in Word : /\ WriteDesc(w) \in Requests /\ WriteDesc(w).op = "desc"
                     /\ WriteDesc(w).data = w
<1>1. None.op = "none" /\ ReadCtrl.op = "read"
  BY DEF None, ReadCtrl
<1>2. ASSUME NEW e \in BOOLEAN, NEW s \in BOOLEAN, NEW a \in BOOLEAN
      PROVE  /\ WriteCtrl(e, s, a) \in Requests /\ WriteCtrl(e, s, a).op = "ctrl"
             /\ WriteCtrl(e, s, a).en = e /\ WriteCtrl(e, s, a).start = s
             /\ WriteCtrl(e, s, a) # None
  <2>1. /\ WriteCtrl(e, s, a).op = "ctrl"
        /\ WriteCtrl(e, s, a).en = e /\ WriteCtrl(e, s, a).start = s
    BY DEF WriteCtrl
  <2> QED
    BY <1>1, <2>1, RequestTypes
<1>3. ASSUME NEW w \in Word
      PROVE  WriteDesc(w) \in Requests /\ WriteDesc(w).op = "desc" /\ WriteDesc(w).data = w
  <2>1. WriteDesc(w).op = "desc" /\ WriteDesc(w).data = w
    BY DEF WriteDesc
  <2> QED
    BY <2>1, RequestTypes
<1>4. ReadCtrl # None
  BY <1>1
<1> QED
  BY <1>1, <1>2, <1>3, <1>4, RequestTypes

(* An idle cycle outside a transfer. *)
LEMMA IdleStep ==
  ASSUME QuietStep(None), sw' = sw, ref' = ref
  PROVE  CarefulInv'
<1>1. None.op = "none"
  BY RequestOps
<1>2. /\ 3 * sw'.nprog <= DSC_FIFO /\ ctrl'.enable = ctrl.enable
      /\ ctrl.enable <=> sw.pc \notin {"off", "enable"}
      /\ Quiet' /\ sw'.busy = FALSE
  BY <1>1 DEF QuietStep, QuietEdge, CarefulInv, Quiet, Go
<1>3. OffInv'
  BY <1>1, <1>2 DEF QuietStep, QuietEdge, CarefulInv, OffInv
<1>4. ReadyInv'
  <2>1. CASE sw.pc \in {"ready", "start"}
    <3>1. Loaded(sw.nprog, 0) /\ ctrl.enable
      BY <1>2, <2>1 DEF QuietStep, CarefulInv, ReadyInv
    <3>2. PICK K \in Nat : K = sw.nprog
      BY DEF QuietStep
    <3>3. Loaded(K, 0)'
      BY <1>1, <3>1, <3>2, LoadedKept DEF QuietStep
    <3> QED
      BY <2>1, <3>2, <3>3 DEF QuietStep, CarefulInv, ReadyInv
  <2> QED
    BY <2>1 DEF ReadyInv
<1>5. ProgInv'
  <2>1. CASE sw.pc \in Programming
    <3>1. /\ sw.nprog > 0 /\ Loaded(sw.nprog - 1, Part) /\ ctrl.enable
          /\ Part > 0 => Queue[3 * (sw.nprog - 1) + 1] = sw.desc[1]
          /\ Part > 1 => Queue[3 * (sw.nprog - 1) + 2] = sw.desc[2]
      BY <1>2, <2>1 DEF QuietStep, CarefulInv, ProgInv, Programming
    <3>2. PICK K \in Nat : K = sw.nprog - 1
      BY <3>1 DEF QuietStep
    <3>3. PICK p \in {0, 1, 2} : p = Part
      BY DEF Part
    <3>4. Part' = p
      BY <3>3 DEF Part
    <3>5. /\ Loaded(K, p)'
          /\ \A k \in 1 .. 3 * K + p : Queue'[k] = Queue[k]
      <4>1. Loaded(K, p) /\ p \in Nat
        BY <3>1, <3>2, <3>3
      <4> QED
        BY <1>1, <3>1, <4>1, LoadedKept DEF QuietStep
    <3>6. /\ p > 0 => Queue'[3 * K + 1] = sw.desc[1]
          /\ p > 1 => Queue'[3 * K + 2] = sw.desc[2]
      BY <3>1, <3>2, <3>3, <3>5
    <3> QED
      BY <3>1, <3>2, <3>4, <3>5, <3>6 DEF ProgInv
  <2> QED
    BY <2>1 DEF ProgInv
<1>6. DoneInv'
  <2>1. CASE sw.pc \in {"done", "ack"}
    <3>1. Loaded(0, 0) /\ ctrl.enable /\ sw.nprog = 0 /\ 0 \in Nat
      BY <1>2, <2>1 DEF QuietStep, CarefulInv, DoneInv
    <3>2. Loaded(0, 0)'
      BY <1>1, <3>1, LoadedKept DEF QuietStep
    <3> QED
      BY <3>1, <3>2 DEF DoneInv
  <2> QED
    BY <2>1 DEF DoneInv
<1>7. PollInv'
  BY DEF QuietStep, PollInv
<1> QED
  BY <1>2, <1>3, <1>4, <1>5, <1>6, <1>7 DEF CarefulInv, QuietStep

(* Accesses after which the driver holds nothing or what is loaded. *)

(* neorv32_dma_enable: a controller that is not enabled yet is empty. *)
LEMMA EnableStep ==
  ASSUME TypeInv, TypeInv', CarefulInv, NEW ans \in Answers, neorv32_dma_enable(ans)
  PROVE  CarefulInv'
<1>1. CASE Access("off", ReadCtrl, "enable", ans) /\ UNCHANGED ref
  <2>1. sw.pc = "off" /\ ~bus_ack /\ Clock(ReadCtrl, ans) /\ MovesTo("enable") /\ ref' = ref
    BY <1>1, AccessFacts
  <2>2. QuietStep(ReadCtrl) /\ ReadCtrl.op = "read"
    BY <2>1, QuietStepFacts, RequestOps
  <2>3. Quiet' /\ ctrl'.enable = ctrl.enable /\ mem' = mem
    BY <2>2 DEF QuietStep, QuietEdge, Quiet, Go
  <2>4. ~ctrl.enable /\ sw.nprog = 0 /\ mem = ref /\ sw.busy = FALSE
    BY <2>1 DEF CarefulInv, OffInv
  <2>5. Level' = 0
    BY <2>2, <2>4 DEF QuietStep, QuietEdge
  <2> QED
    BY <2>1, <2>3, <2>4, <2>5, Sizes DEF CarefulInv, OffInv, ReadyInv, ProgInv, DoneInv, PollInv,
       MovesTo, Programming
<1>2. CASE Access("enable", WriteCtrl(TRUE, FALSE, FALSE), "ready", ans) /\ UNCHANGED ref
  <2> DEFINE req == WriteCtrl(TRUE, FALSE, FALSE)
  <2>1. sw.pc = "enable" /\ Clock(req, ans) /\ MovesTo("ready") /\ ref' = ref
    BY <1>2, AccessFacts
  <2>2. req \in Requests /\ req.op = "ctrl" /\ req.en = TRUE /\ req.start = FALSE
    BY RequestOps
  <2> HIDE DEF req
  <2>3. QuietStep(req)
    BY <2>1, <2>2, QuietStepFacts
  <2>4. Quiet' /\ ctrl'.enable /\ mem' = mem
    BY <2>2, <2>3 DEF QuietStep, QuietEdge, Quiet, Go
  <2>5. ~ctrl.enable /\ sw.nprog = 0 /\ mem = ref /\ sw.busy = FALSE
    BY <2>1 DEF CarefulInv, OffInv
  <2>6. Level' = 0
    BY <2>3, <2>5 DEF QuietStep, QuietEdge
  <2>7. Loaded(0, 0)'
    <3>1. (TypeInv /\ Level = 0 /\ mem = ref => Loaded(0, 0))'
      BY LoadedNone, PTL
    <3> QED
      BY <2>1, <2>4, <2>5, <2>6, <3>1
  <2> QED
    BY <2>1, <2>4, <2>5, <2>7, Sizes DEF CarefulInv, OffInv, ReadyInv, ProgInv, DoneInv, PollInv,
       MovesTo, Programming
<1> QED
  BY <1>1, <1>2 DEF neorv32_dma_enable

(* neorv32_dma_disable by a careful client, when no transfer is running.   *)
LEMMA DisableStep ==
  ASSUME TypeInv, TypeInv', CarefulInv, Careful, NEW ans \in Answers, neorv32_dma_disable(ans)
  PROVE  CarefulInv'
<1>1. CASE sw.pc # "disable"
  <2>1. /\ sw.pc \in {"ready", "failed"} /\ Clock(ReadCtrl, ans)
        /\ MovesTo("disable") /\ ref' = ref
    <3>1. \/ Access("ready", ReadCtrl, "disable", ans)
          \/ Access("failed", ReadCtrl, "disable", ans)
      BY <1>1 DEF neorv32_dma_disable, Careful
    <3>2. ref' = ref
      BY <1>1 DEF neorv32_dma_disable
    <3> QED
      BY <3>1, <3>2, AccessFacts
  <2>2. QuietStep(ReadCtrl) /\ ReadCtrl.op = "read"
    BY <2>1, QuietStepFacts, RequestOps
  <2>3. Quiet' /\ ctrl'.enable = ctrl.enable
    BY <2>2 DEF QuietStep, QuietEdge, Quiet, Go
  <2> QED
    BY <2>1, <2>3 DEF CarefulInv, OffInv, ReadyInv, ProgInv, DoneInv, PollInv,
       MovesTo, Programming
<1>2. CASE sw.pc = "disable"
  <2> DEFINE req == WriteCtrl(FALSE, FALSE, FALSE)
  <2>1. /\ Clock(req, ans) /\ ref' = mem'
        /\ sw' = [sw EXCEPT !.pc = "off", !.nprog = 0, !.busy = FALSE]
    BY <1>2 DEF neorv32_dma_disable, Access
  <2>2. req \in Requests /\ req.op = "ctrl" /\ req.en = FALSE /\ req.start = FALSE /\ req # None
    BY RequestOps
  <2> HIDE DEF req
  <2>3. QuietStep(req)
    BY <1>2, <2>1, <2>2, QuietStepFacts
  <2>4. Quiet' /\ ~ctrl'.enable /\ bus_ack' = TRUE
    BY <2>2, <2>3 DEF QuietStep, QuietEdge, Quiet, Go
  <2>5. sw'.pc = "off" /\ sw'.nprog = 0 /\ sw'.busy = FALSE
    BY <2>1 DEF TypeInv, TypeOK
  <2> QED
    BY <2>1, <2>4, <2>5, Sizes DEF CarefulInv, OffInv, ReadyInv, ProgInv, DoneInv, PollInv,
       Programming
<1> QED
  BY <1>1, <1>2

(* neorv32_dma_irq_ack, and going on without it. *)
LEMMA AckStep ==
  ASSUME TypeInv, TypeInv', CarefulInv, NEW ans \in Answers,
         neorv32_dma_irq_ack(ans) \/ NoAck(ans)
  PROVE  CarefulInv'
<1>1. ASSUME NEW req \in Requests, req.op # "desc", Clock(req, ans), ref' = ref,
             sw.pc \in {"done", "ack"}, NEW p \in {"ack", "ready"}, MovesTo(p),
             req.op = "ctrl" => req.en = ctrl.enable /\ req.start = FALSE
      PROVE  CarefulInv'
  <2>1. QuietStep(req)
    BY <1>1, QuietStepFacts
  <2>2. sw.nprog = 0 /\ Loaded(0, 0) /\ ctrl.enable /\ sw.busy = FALSE
    BY <1>1 DEF CarefulInv, DoneInv
  <2>3. Quiet' /\ ctrl'.enable = ctrl.enable
    BY <1>1, <2>1 DEF QuietStep, QuietEdge, Quiet, Go
  <2>4. Loaded(0, 0)'
    <3>1. 0 \in Nat
      OBVIOUS
    <3> QED
      BY <1>1, <2>1, <2>2, <3>1, LoadedKept DEF QuietStep
  <2> QED
    BY <1>1, <2>2, <2>3, <2>4, Sizes DEF CarefulInv, OffInv, ReadyInv, ProgInv, DoneInv, PollInv,
       MovesTo, Programming
<1>2. CASE Access("done", ReadCtrl, "ack", ans) /\ ref' = ref
  <2>1. sw.pc = "done" /\ Clock(ReadCtrl, ans) /\ MovesTo("ack")
    BY <1>2, AccessFacts
  <2> QED
    BY <1>1, <1>2, <2>1, RequestOps
<1>3. CASE Access("ack", WriteCtrl(ctrl.enable, FALSE, TRUE), "ready", ans) /\ ref' = ref
  <2>1. PICK e \in BOOLEAN : e = ctrl.enable
    BY DEF TypeInv, TypeOK, DmaTypeOK
  <2>2. sw.pc = "ack" /\ Clock(WriteCtrl(e, FALSE, TRUE), ans) /\ MovesTo("ready")
    BY <1>3, <2>1, AccessFacts
  <2> DEFINE req == WriteCtrl(e, FALSE, TRUE)
  <2>3. req \in Requests /\ req.op = "ctrl" /\ req.en = e /\ req.start = FALSE
    BY RequestOps
  <2>4. Clock(req, ans)
    BY <2>2
  <2> HIDE DEF req
  <2> QED
    BY <1>1, <1>3, <2>1, <2>2, <2>3, <2>4
<1>4. CASE NoAck(ans)
  <2>1. sw.pc = "done" /\ Clock(None, ans) /\ ref' = ref /\ MovesTo("ready")
    BY <1>4 DEF NoAck, MovesTo, TypeInv, TypeOK
  <2> QED
    BY <1>1, <2>1, RequestOps
<1> QED
  BY <1>2, <1>3, <1>4 DEF neorv32_dma_irq_ack

(* The call of neorv32_dma_program: there is room for the descriptor.      *)
LEMMA ProgramCallStep ==
  ASSUME TypeInv, TypeInv', CarefulInv, Careful, NEW ans \in Answers, ProgramCall(ans)
  PROVE  CarefulInv'
<1>1. sw.pc = "ready" /\ Clock(ReadCtrl, ans) /\ ref' = ref /\ 3 * (sw.nprog + 1) <= DSC_FIFO
  BY DEF ProgramCall, Careful
<1>2. QuietStep(ReadCtrl) /\ ReadCtrl.op = "read"
  BY <1>1, QuietStepFacts, RequestOps
<1>3. Loaded(sw.nprog, 0) /\ ctrl.enable /\ sw.busy = FALSE
  BY <1>1 DEF CarefulInv, ReadyInv
<1>4. PICK K \in Nat : K = sw.nprog
  BY <1>2 DEF QuietStep
<1>5. ~F!full
  <2>1. Level = 3 * K + 0 /\ 3 * (K + 1) <= DSC_FIFO /\ DSC_FIFO \in Nat
    BY <1>1, <1>3, <1>4, Sizes DEF Loaded
  <2>2. Level # DSC_FIFO
    BY <2>1
  <2> QED
    BY <2>2, QueueWords DEF TypeInv
<1>6. sw'.pc = "src" /\ sw'.nprog = K + 1 /\ sw'.busy = FALSE
  BY <1>3, <1>4, <1>5 DEF ProgramCall, TypeInv, TypeOK
<1>7. Loaded(K, 0)'
  <2>1. Loaded(K, 0) /\ 0 \in Nat
    BY <1>3, <1>4
  <2> QED
    BY <1>1, <1>2, <1>3, <2>1, LoadedKept DEF QuietStep
<1>8. Quiet' /\ ctrl'.enable
  BY <1>2, <1>3 DEF QuietStep, QuietEdge, Quiet, Go
<1>9. ProgInv'
  <2>1. Part' = 0 /\ (K + 1) - 1 = K /\ K + 1 > 0
    BY <1>6 DEF Part
  <2> QED
    BY <1>6, <1>7, <2>1 DEF ProgInv
<1> QED
  BY <1>1, <1>4, <1>6, <1>8, <1>9 DEF CarefulInv, OffInv, ReadyInv, DoneInv, PollInv

(* The state of the queue between the first and the last word.             *)
LEMMA ProgFacts ==
  ASSUME TypeInv, CarefulInv, sw.pc \in Programming
  PROVE  \E K \in Nat :
           /\ sw.nprog = K + 1 /\ 3 * (K + 1) <= DSC_FIFO /\ DSC_FIFO \in Nat
           /\ Level = 3 * K + Part /\ Level < DSC_FIFO /\ ~F!full
           /\ Loaded(K, Part) /\ Chain(Queue, 0, mem, K, ref)
           /\ Part > 0 => Queue[3 * K + 1] = sw.desc[1]
           /\ Part > 1 => Queue[3 * K + 2] = sw.desc[2]
           /\ ctrl.enable /\ sw.busy = FALSE /\ Quiet
<1>1. /\ sw.nprog > 0 /\ Loaded(sw.nprog - 1, Part)
      /\ Part > 0 => Queue[3 * (sw.nprog - 1) + 1] = sw.desc[1]
      /\ Part > 1 => Queue[3 * (sw.nprog - 1) + 2] = sw.desc[2]
      /\ ctrl.enable /\ sw.busy = FALSE /\ Quiet /\ 3 * sw.nprog <= DSC_FIFO
  BY DEF CarefulInv, ProgInv, Programming
<1>2. sw.nprog \in Nat /\ DSC_FIFO \in Nat
  BY Sizes DEF TypeInv, TypeOK
<1>3. PICK K \in Nat : K = sw.nprog - 1
  BY <1>1, <1>2
<1>4. sw.nprog = K + 1
  BY <1>2, <1>3
<1>5. PICK p \in {0, 1, 2} : p = Part
  BY DEF Part
<1>6. Level = 3 * K + p /\ Chain(Queue, 0, mem, K, ref)
  BY <1>1, <1>3, <1>5 DEF Loaded
<1>7. Level < DSC_FIFO /\ 3 * (K + 1) <= DSC_FIFO
  BY <1>1, <1>2, <1>4, <1>6
<1>8. ~F!full
  <2>1. Level # DSC_FIFO
    BY <1>2, <1>7, LevelType
  <2> QED
    BY <2>1, QueueWords DEF TypeInv
<1> QED
  BY <1>1, <1>2, <1>3, <1>4, <1>5, <1>6, <1>7, <1>8

(* A look at DFULL between two words. *)
LEMMA LookStep ==
  ASSUME TypeInv, TypeInv', CarefulInv, NEW ans \in Answers,
         \/ Access("full2", ReadCtrl, IF F!full THEN Return ELSE "dst", ans)
         \/ Access("full3", ReadCtrl, IF F!full THEN Return ELSE "conf", ans),
         ref' = ref
  PROVE  CarefulInv'
<1>1. sw.pc \in {"full2", "full3"} /\ Clock(ReadCtrl, ans)
  BY AccessFacts
<1>2. PICK K \in Nat :
           /\ sw.nprog = K + 1 /\ 3 * (K + 1) <= DSC_FIFO /\ DSC_FIFO \in Nat
           /\ Level = 3 * K + Part /\ Level < DSC_FIFO /\ ~F!full
           /\ Loaded(K, Part) /\ Chain(Queue, 0, mem, K, ref)
           /\ Part > 0 => Queue[3 * K + 1] = sw.desc[1]
           /\ Part > 1 => Queue[3 * K + 2] = sw.desc[2]
           /\ ctrl.enable /\ sw.busy = FALSE /\ Quiet
  BY <1>1, ProgFacts DEF Programming
<1>3. MovesTo(IF sw.pc = "full2" THEN "dst" ELSE "conf")
  BY <1>2, AccessFacts
<1>4. QuietStep(ReadCtrl) /\ ReadCtrl.op = "read"
  BY <1>1, QuietStepFacts, RequestOps
<1>5. Quiet' /\ ctrl'.enable
  BY <1>2, <1>4 DEF QuietStep, QuietEdge, Quiet, Go
<1>6. PICK p \in {1, 2} : p = Part
  BY <1>1 DEF Part
<1>7. Part' = p /\ sw'.pc \in {"dst", "conf"} /\ sw'.nprog = K + 1 /\ sw'.desc = sw.desc
      /\ sw'.busy = FALSE
  BY <1>1, <1>2, <1>3, <1>6 DEF Part, MovesTo
<1>8. /\ Loaded(K, p)'
      /\ \A k \in 1 .. 3 * K + p : Queue'[k] = Queue[k]
  <2>1. Loaded(K, p) /\ p \in Nat
    BY <1>2, <1>6
  <2> QED
    BY <1>2, <1>4, <2>1, LoadedKept DEF QuietStep
<1>9. /\ p > 0 => Queue'[3 * K + 1] = sw.desc[1]
      /\ p > 1 => Queue'[3 * K + 2] = sw.desc[2]
  BY <1>2, <1>6, <1>8
<1>10. ProgInv'
  <2>1. (K + 1) - 1 = K /\ K + 1 > 0
    OBVIOUS
  <2> QED
    BY <1>7, <1>8, <1>9, <2>1 DEF ProgInv
<1> QED
  BY <1>2, <1>5, <1>7, <1>10 DEF CarefulInv, OffInv, ReadyInv, DoneInv, PollInv

(* The first and the second word. *)
LEMMA WordStep ==
  ASSUME TypeInv, TypeInv', CarefulInv, NEW ans \in Answers,
         \/ Access("src", WriteDesc(sw.desc[1]), "full2", ans)
         \/ Access("dst", WriteDesc(sw.desc[2]), "full3", ans),
         ref' = ref
  PROVE  CarefulInv'
<1>1. PICK i \in {1, 2} : i = IF sw.pc = "src" THEN 1 ELSE 2
  OBVIOUS
<1>2. PICK w \in Word : w = sw.desc[i]
  BY DriverDesc
<1>3. /\ sw.pc = IF i = 1 THEN "src" ELSE "dst"
      /\ Clock(WriteDesc(w), ans)
      /\ MovesTo(IF i = 1 THEN "full2" ELSE "full3")
  <2>1. CASE Access("src", WriteDesc(sw.desc[1]), "full2", ans)
    BY <1>1, <1>2, <2>1, AccessFacts
  <2>2. CASE Access("dst", WriteDesc(sw.desc[2]), "full3", ans)
    BY <1>1, <1>2, <2>2, AccessFacts
  <2> QED
    BY <2>1, <2>2
<1>4. PICK K \in Nat :
           /\ sw.nprog = K + 1 /\ 3 * (K + 1) <= DSC_FIFO /\ DSC_FIFO \in Nat
           /\ Level = 3 * K + Part /\ Level < DSC_FIFO /\ ~F!full
           /\ Loaded(K, Part) /\ Chain(Queue, 0, mem, K, ref)
           /\ Part > 0 => Queue[3 * K + 1] = sw.desc[1]
           /\ Part > 1 => Queue[3 * K + 2] = sw.desc[2]
           /\ ctrl.enable /\ sw.busy = FALSE /\ Quiet
  BY <1>3, ProgFacts DEF Programming
<1> DEFINE req == WriteDesc(w)
<1>5. req \in Requests /\ req.op = "desc" /\ req.data = w /\ Clock(req, ans)
  BY <1>3, RequestOps
<1> HIDE DEF req
<1>6. QuietStep(req)
  BY <1>3, <1>5, QuietStepFacts
<1>7. Quiet' /\ ctrl'.enable /\ mem' = mem
  BY <1>4, <1>5, <1>6 DEF QuietStep, QuietEdge, Quiet, Go
<1>8. /\ Level' = Level + 1 /\ Queue'[Level + 1] = w
      /\ \A k \in 1 .. Level : Queue'[k] = Queue[k]
  BY <1>4, <1>5, <1>6 DEF QuietStep, QuietEdge
<1>9. Part = i - 1 /\ Level = 3 * K + (i - 1)
  BY <1>3, <1>4 DEF Part
<1>10. /\ Part' = i /\ sw'.pc \in {"full2", "full3"} /\ sw'.nprog = K + 1
       /\ sw'.desc = sw.desc /\ sw'.busy = FALSE
  BY <1>3, <1>4 DEF Part, MovesTo
<1>11. Loaded(K, i)'
  <2>1. Chain(Queue, 0, mem, K, ref)'
    <3>1. 3 * K <= Level
      BY <1>9
    <3> QED
      BY <1>4, <1>6, <3>1, ChainKept DEF QuietStep
  <2>2. Level' = 3 * K + i
    BY <1>8, <1>9
  <2> QED
    BY <2>1, <2>2 DEF Loaded
<1>12. /\ i > 0 => Queue'[3 * K + 1] = sw.desc[1]
       /\ i > 1 => Queue'[3 * K + 2] = sw.desc[2]
  <2>1. CASE i = 1
    <3>1. Level + 1 = 3 * K + 1
      BY <1>9, <2>1
    <3> QED
      BY <1>2, <1>8, <2>1, <3>1
  <2>2. CASE i = 2
    <3>1. Level + 1 = 3 * K + 2 /\ 3 * K + 1 \in 1 .. Level /\ Part > 0
      BY <1>9, <2>2
    <3> QED
      BY <1>2, <1>4, <1>8, <2>2, <3>1
  <2> QED
    BY <2>1, <2>2
<1>13. ProgInv'
  <2>1. (K + 1) - 1 = K /\ K + 1 > 0
    OBVIOUS
  <2> QED
    BY <1>10, <1>11, <1>12, <2>1 DEF ProgInv
<1> QED
  BY <1>4, <1>7, <1>10, <1>13 DEF CarefulInv, OffInv, ReadyInv, DoneInv, PollInv

(* The last word completes the descriptor in the queue. *)
LEMMA ConfStep ==
  ASSUME TypeInv, TypeInv', CarefulInv, NEW ans \in Answers,
         sw.pc = "conf", Clock(WriteDesc(sw.desc[3]), ans),
         sw' = [sw EXCEPT !.pc = Return, !.desc = NoDesc],
         ref' = Copy(sw.desc, ref)
  PROVE  CarefulInv'
<1>1. PICK w \in Word : w = sw.desc[3]
  BY DriverDesc
<1>2. PICK K \in Nat :
           /\ sw.nprog = K + 1 /\ 3 * (K + 1) <= DSC_FIFO /\ DSC_FIFO \in Nat
           /\ Level = 3 * K + Part /\ Level < DSC_FIFO /\ ~F!full
           /\ Loaded(K, Part) /\ Chain(Queue, 0, mem, K, ref)
           /\ Part > 0 => Queue[3 * K + 1] = sw.desc[1]
           /\ Part > 1 => Queue[3 * K + 2] = sw.desc[2]
           /\ ctrl.enable /\ sw.busy = FALSE /\ Quiet
  BY ProgFacts DEF Programming
<1> DEFINE req == WriteDesc(w)
<1>3. req \in Requests /\ req.op = "desc" /\ req.data = w /\ Clock(req, ans)
  BY <1>1, RequestOps
<1> HIDE DEF req
<1>4. QuietStep(req)
  BY <1>3, QuietStepFacts
<1>5. Quiet' /\ ctrl'.enable /\ mem' = mem
  BY <1>2, <1>3, <1>4 DEF QuietStep, QuietEdge, Quiet, Go
<1>6. /\ Level' = Level + 1 /\ Queue'[Level + 1] = w
      /\ \A k \in 1 .. Level : Queue'[k] = Queue[k]
  BY <1>2, <1>3, <1>4 DEF QuietStep, QuietEdge
<1>7. Part = 2 /\ Level = 3 * K + 2
  BY <1>2 DEF Part
<1>8. sw'.pc = "ready" /\ sw'.nprog = K + 1 /\ sw'.busy = FALSE
  BY <1>2 DEF Return, TypeInv, TypeOK
<1>9. DescAt(Queue', 3 * K) = sw.desc
  <2>1. /\ 3 * K + 1 \in 1 .. Level /\ 3 * K + 2 \in 1 .. Level /\ Level + 1 = 3 * K + 3
        /\ Part > 0 /\ Part > 1
    BY <1>7
  <2>2. /\ Queue'[3 * K + 1] = sw.desc[1] /\ Queue'[3 * K + 2] = sw.desc[2]
        /\ Queue'[3 * K + 3] = sw.desc[3]
    BY <1>1, <1>2, <1>6, <2>1
  <2>3. sw.desc = <<sw.desc[1], sw.desc[2], sw.desc[3]>>
    BY DriverDesc DEF Desc
  <2> QED
    BY <2>2, <2>3 DEF DescAt
<1>10. Chain(Queue', 0, mem, K + 1, ref')
  <2>1. \A k \in 1 .. 3 * K : Queue'[k] = Queue[k]
    BY <1>6, <1>7
  <2>2. Copy(sw.desc, ref) \in Mem
    <3>1. ref \in Mem
      BY DEF TypeInv, TypeOK, Mem
    <3> QED
      BY <3>1, DriverDesc, CopyType
  <2> QED
    BY <1>2, <1>9, <2>1, <2>2, ChainMore
<1>11. Loaded(K + 1, 0)'
  <2>1. Level' = 3 * (K + 1) + 0
    BY <1>6, <1>7
  <2> QED
    BY <1>5, <1>10, <2>1 DEF Loaded
<1> QED
  BY <1>2, <1>5, <1>8, <1>11 DEF CarefulInv, OffInv, ReadyInv, ProgInv, DoneInv, PollInv,
     Programming

(* neorv32_dma_program. *)
LEMMA ProgramStep ==
  ASSUME TypeInv, TypeInv', CarefulInv, Careful, NEW ans \in Answers, neorv32_dma_program(ans)
  PROVE  CarefulInv'
BY ProgramCallStep, LookStep, WordStep, ConfStep DEF neorv32_dma_program

(* neorv32_dma_start: the queue holds a descriptor. *)
LEMMA StartStep ==
  ASSUME TypeInv, TypeInv', CarefulInv, NEW ans \in Answers, neorv32_dma_start(ans)
  PROVE  CarefulInv'
<1>1. sw.pc \in {"ready", "start"} /\ ref' = ref
  BY DEF neorv32_dma_start, Access
<1>2. Loaded(sw.nprog, 0) /\ ctrl.enable /\ sw.busy = FALSE
  BY <1>1 DEF CarefulInv, ReadyInv
<1>3. PICK K \in Nat : K = sw.nprog
  BY DEF TypeInv, TypeOK
<1>4. Loaded(K, 0) /\ 0 \in Nat
  BY <1>2, <1>3
<1>5. CASE sw.pc = "ready"
  <2>1. Clock(ReadCtrl, ans) /\ MovesTo("start") /\ sw.nprog > 0
    <3>1. Access("ready", ReadCtrl, "start", ans) /\ sw.nprog > 0
      BY <1>5 DEF neorv32_dma_start
    <3> QED
      BY <3>1, AccessFacts
  <2>2. QuietStep(ReadCtrl) /\ ReadCtrl.op = "read"
    BY <1>5, <2>1, QuietStepFacts, RequestOps
  <2>3. Quiet' /\ ctrl'.enable
    BY <1>2, <2>2 DEF QuietStep, QuietEdge, Quiet, Go
  <2>4. Loaded(K, 0)'
    BY <1>1, <1>2, <1>4, <2>2, LoadedKept DEF QuietStep
  <2> QED
    BY <1>2, <1>3, <2>1, <2>3, <2>4 DEF CarefulInv, OffInv, ReadyInv, ProgInv, DoneInv, PollInv,
       Programming, MovesTo
<1>6. CASE sw.pc = "start"
  <2>1. PICK e \in BOOLEAN : e = ctrl.enable
    BY DEF TypeInv, TypeOK, DmaTypeOK
  <2>2. /\ Clock(WriteCtrl(e, TRUE, FALSE), ans)
        /\ sw' = [sw EXCEPT !.pc = "poll", !.busy = TRUE, !.jobs = sw.jobs + 1]
    BY <1>6, <2>1 DEF neorv32_dma_start, Access
  <2>3. sw.nprog > 0 /\ 3 * sw.nprog <= DSC_FIFO
    BY <1>6 DEF CarefulInv, ReadyInv
  <2> DEFINE req == WriteCtrl(e, TRUE, FALSE)
  <2>4. /\ req \in Requests /\ req.op = "ctrl" /\ req.en = e /\ req.start = TRUE
        /\ Clock(req, ans)
    BY <2>2, RequestOps
  <2> HIDE DEF req
  <2>5. QuietStep(req)
    BY <1>6, <2>4, QuietStepFacts
  <2>6. /\ engine'.state = "S_CHECK" /\ ~engine'.run /\ ~engine'.done /\ ~engine'.err
        /\ ctrl'.enable /\ ctrl'.start /\ ~ctrl'.err /\ ~ctrl'.done
    BY <1>2, <2>1, <2>4, <2>5 DEF QuietStep, QuietEdge
  <2>7. Loaded(K, 0)'
    BY <1>1, <1>2, <1>4, <2>4, <2>5, LoadedKept DEF QuietStep
  <2>8. Level > 0 /\ DSC_FIFO > 1 /\ Level' > 0
    <3>1. Level = 3 * K + 0 /\ Level' = 3 * K + 0 /\ K > 0 /\ 3 * K <= DSC_FIFO
      BY <1>3, <1>4, <2>3, <2>7 DEF Loaded
    <3> QED
      BY <3>1, Sizes
  <2>9. avail'
    BY <1>2, <2>4, <2>5, <2>8 DEF QuietStep, QuietEdge
  <2>10. Rest(0, mem)'
    BY <2>7 DEF Loaded, Rest
  <2>11. Started'
    BY <2>6, <2>8, <2>9, <2>10 DEF Started, Fresh, Go
  <2>12. sw'.pc = "poll" /\ sw'.nprog = sw.nprog
    BY <2>2 DEF TypeInv, TypeOK
  <2> QED
    BY <2>3, <2>6, <2>8, <2>11, <2>12 DEF CarefulInv, OffInv, ReadyInv, ProgInv, DoneInv,
       PollInv, Poll, Programming
<1> QED
  BY <1>1, <1>5, <1>6

(* An idle cycle or a read of the status that goes on polling. *)
LEMMA PollingStep ==
  ASSUME TypeInv, TypeInv', CarefulInv, NEW ans \in Answers, NEW req \in {None, ReadCtrl},
         Clock(req, ans), sw.pc = "poll", sw' = sw, ref' = ref
  PROVE  CarefulInv'
<1>1. ctrl.enable /\ DSC_FIFO > 1 /\ Poll
  BY DEF CarefulInv, PollInv
<1>2. PollEdge(ans)
  BY <1>1, PollEdgeFacts
<1>3. Poll'
  BY <1>1, <1>2, PollStep
<1>4. ctrl'.enable
  BY <1>2 DEF PollEdge
<1> QED
  BY <1>1, <1>3, <1>4 DEF CarefulInv, OffInv, ReadyInv, ProgInv, DoneInv, PollInv, Programming

(* neorv32_dma_status: DONE is reported when the last descriptor has been  *)
(* executed, ERROR when the engine has stopped after a bus error.          *)
LEMMA StatusStep ==
  ASSUME TypeInv, TypeInv', CarefulInv, NEW ans \in Answers, neorv32_dma_status(ans)
  PROVE  CarefulInv'
<1>1. sw.pc = "poll" /\ Clock(ReadCtrl, ans) /\ ref' = ref
  BY DEF neorv32_dma_status
<1>2. ctrl.enable /\ DSC_FIFO > 1 /\ Poll /\ 3 * sw.nprog <= DSC_FIFO
  BY <1>1 DEF CarefulInv, PollInv
<1>3. CASE sw' = sw
  BY <1>1, <1>3, PollingStep
<1>4. ASSUME Quiet
      PROVE  /\ Quiet' /\ ctrl'.enable /\ mem' = mem /\ Level' = Level
  <2>1. QuietEdge(ReadCtrl) /\ ReadCtrl.op = "read"
    BY <1>1, <1>4, QuietEdgeFacts, RequestOps
  <2> QED
    BY <1>2, <2>1 DEF QuietEdge, Quiet, Go
<1>5. CASE Status = "DONE"
  <2>1. sw'.pc = "done" /\ sw'.nprog = 0 /\ sw'.busy = FALSE
    BY <1>5 DEF neorv32_dma_status, TypeInv, TypeOK
  <2>2. ~ctrl.err /\ ~engine.run /\ ctrl.done
    BY <1>5 DEF Status, CtrlValue
  <2>3. Done
    BY <1>2, <2>2 DEF Poll, Started, Running, Ended, Failed, Fresh
  <2>4. Quiet' /\ ctrl'.enable /\ Level' = 0 /\ mem' = ref'
    BY <1>1, <1>4, <2>3 DEF Done
  <2>5. Loaded(0, 0)'
    <3>1. (TypeInv /\ Level = 0 /\ mem = ref => Loaded(0, 0))'
      BY LoadedNone, PTL
    <3> QED
      BY <2>4, <3>1
  <2> QED
    BY <2>1, <2>4, <2>5, Sizes DEF CarefulInv, OffInv, ReadyInv, ProgInv, DoneInv, PollInv,
       Programming
<1>6. CASE Status = "ERROR"
  <2>1. sw'.pc = "failed" /\ sw'.nprog = sw.nprog /\ sw'.busy = FALSE
    BY <1>6 DEF neorv32_dma_status, TypeInv, TypeOK
  <2>2. ctrl.err
    BY <1>6 DEF Status, CtrlValue
  <2>3. Failed
    BY <1>2, <2>2 DEF Poll, Started, Running, Ended, Done, Fresh
  <2>4. Quiet' /\ ctrl'.enable
    BY <1>4, <2>3 DEF Failed
  <2> QED
    BY <1>2, <2>1, <2>4 DEF CarefulInv, OffInv, ReadyInv, ProgInv, DoneInv, PollInv, Programming
<1> QED
  BY <1>3, <1>5, <1>6 DEF neorv32_dma_status

(* Stuttering keeps it as well. *)
LEMMA Stutter ==
  ASSUME CarefulInv, UNCHANGED vars
  PROVE  CarefulInv'
<1>1. /\ sw' = sw /\ ref' = ref /\ mem' = mem /\ engine' = engine /\ ctrl' = ctrl
      /\ avail' = avail /\ rdata' = rdata /\ data_buf' = data_buf
      /\ bus_ack' = bus_ack /\ client' = client
      /\ fifo' = fifo /\ w_pnt' = w_pnt /\ r_pnt' = r_pnt
  BY DEF vars, dmaVars
<1>2. Level' = Level
  BY <1>1 DEF Level, P!Level
<1>3. Queue' = Queue
  <2>1. P!Level' = P!Level
    BY <1>2 DEF Level
  <2> QED
    BY <1>1, <2>1 DEF Queue, P!Queue, P!Slot
<1>4. \A s, m : Rest(s, m)' <=> Rest(s, m)
  BY <1>1, <1>2, <1>3 DEF Rest
<1>5. Quiet' <=> Quiet
  BY <1>1 DEF Quiet, Go
<1>6. (Started' <=> Started) /\ (Check' <=> Check) /\ (Get0' <=> Get0)
  BY <1>1, <1>2, <1>4 DEF Started, Check, Get0, Go, Fresh
<1>7. ASSUME NEW d \in Desc
      PROVE  (Get1(d) => Get1(d)') /\ (Get2(d) => Get2(d)') /\ (Get3(d) => Get3(d)')
  BY <1>1, <1>3, <1>4 DEF Get1, Get2, Get3, Go
<1>8. ASSUME NEW d \in Desc, NEW t, NEW n \in Nat, Transfer(d, t, n)
      PROVE  Transfer(d, t, n)'
  <2>1. /\ (ReadReq(d, n) => ReadReq(d, n)') /\ (ReadRsp(d, n) => ReadRsp(d, n)')
        /\ (WriteReq(d, n, mem) => WriteReq(d, n, mem)')
        /\ (WriteRsp(d, n, mem) => WriteRsp(d, n, mem)')
    BY <1>1 DEF ReadReq, ReadRsp, WriteReq, WriteRsp, Go
  <2>2. Rest(0, t[Elements(d)])'
    BY <1>4, <1>8 DEF Transfer
  <2> QED
    BY <1>1, <1>8, <2>1, <2>2 DEF Transfer
<1>9. Running => Running'
  <2>1. (Fresh' <=> Fresh) /\ (Go("S_CHECK")' <=> Go("S_CHECK"))
    BY <1>1 DEF Fresh, Go
  <2>2. (\E d \in Desc : Get1(d) \/ Get2(d) \/ Get3(d))
          => (\E d \in Desc : Get1(d) \/ Get2(d) \/ Get3(d))'
    BY <1>7
  <2>3. (\E d \in Desc : \E t : \E n \in Nat : Transfer(d, t, n))
          => (\E d \in Desc : \E t : \E n \in Nat : Transfer(d, t, n))'
    BY <1>8
  <2> QED
    BY <1>1, <1>6, <2>1, <2>2, <2>3 DEF Running
<1>10. (Ended' <=> Ended) /\ (Done' <=> Done) /\ (Failed' <=> Failed)
  BY <1>1, <1>2, <1>5 DEF Ended, Done, Failed
<1>11. Poll => Poll'
  BY <1>6, <1>9, <1>10 DEF Poll
<1>12. \A K, p : Loaded(K, p)' <=> Loaded(K, p)
  BY <1>1, <1>2, <1>3 DEF Loaded
<1>13. OffInv' /\ ReadyInv' /\ ProgInv' /\ DoneInv'
  <2>1. OffInv'
    BY <1>1, <1>2, <1>5, <1>12 DEF CarefulInv, OffInv
  <2>2. ReadyInv'
    BY <1>1, <1>2, <1>5, <1>12 DEF CarefulInv, ReadyInv
  <2>3. ProgInv'
    BY <1>1, <1>2, <1>3, <1>5, <1>12 DEF CarefulInv, ProgInv, Part
  <2>4. DoneInv'
    BY <1>1, <1>2, <1>5, <1>12 DEF CarefulInv, DoneInv
  <2> QED
    BY <2>1, <2>2, <2>3, <2>4
<1>14. PollInv'
  BY <1>1, <1>11 DEF CarefulInv, PollInv
<1> QED
  BY <1>1, <1>5, <1>13, <1>14 DEF CarefulInv, Programming

(* Every step of a careful client keeps the invariant. *)
LEMMA CarefulStep ==
  ASSUME TypeInv, TypeInv', Careful, CarefulInv, [Next]_vars
  PROVE  CarefulInv'
<1>1. CASE UNCHANGED vars
  BY <1>1, Stutter
<1>2. ASSUME NEW ans \in Answers, Idle(ans) PROVE CarefulInv'
  <2>1. Clock(None, ans) /\ sw' = sw /\ ref' = ref
    BY <1>2 DEF Idle
  <2>2. CASE sw.pc = "poll"
    BY <2>1, <2>2, PollingStep
  <2>3. CASE sw.pc # "poll"
    BY <2>1, <2>3, QuietStepFacts, IdleStep, RequestOps
  <2> QED
    BY <2>2, <2>3
<1>3. ASSUME NEW ans \in Answers, Driver(ans) PROVE CarefulInv'
  BY <1>3, EnableStep, DisableStep, AckStep, ProgramStep, StartStep, StatusStep DEF Driver
<1> QED
  BY <1>1, <1>2, <1>3 DEF Next

(* When neorv32_dma_status reports DONE to a careful client, the memory is *)
(* what its descriptors, executed completely and in order, make of it: for *)
(* every size of the descriptor FIFO, any number of descriptors, elements, *)
(* address increments and wrap-arounds, and whenever the bus answers.      *)
THEOREM DmaResultCorrect == Spec => []ResultCorrect
<1> DEFINE I == Careful => CarefulInv
<1>1. Init => I
  <2> SUFFICES ASSUME Init PROVE CarefulInv
    OBVIOUS
  <2>1. TypeInv
    BY TypeInit
  <2>2. /\ sw = [pc |-> "off", desc |-> NoDesc, nprog |-> 0, busy |-> FALSE, jobs |-> 0]
        /\ mem = ref /\ Quiet /\ ctrl.enable = FALSE
    BY DEF Init, DmaInit, Quiet, Go
  <2>3. Level = 0
    BY DEF Init, DmaInit, F!FifoInit, F!Zero, Level, P!Level
  <2> QED
    BY <2>2, <2>3, Sizes DEF CarefulInv, OffInv, ReadyInv, ProgInv, DoneInv, PollInv, Programming
<1>2. TypeInv /\ TypeInv' /\ I /\ [Next]_vars => I'
  <2> SUFFICES ASSUME TypeInv, TypeInv', I, [Next]_vars, Careful' PROVE CarefulInv'
    OBVIOUS
  <2>1. client' = client
    <3>1. CASE UNCHANGED vars
      BY <3>1 DEF vars
    <3>2. ASSUME NEW ans \in Answers, Driver(ans) \/ Idle(ans) PROVE client' = client
      BY <3>2, NextMoves, ClockType DEF Moves
    <3> QED
      BY <3>1, <3>2 DEF Next
  <2>2. Careful
    BY <2>1 DEF Careful
  <2> QED
    BY <2>2, CarefulStep
<1>3. I => ResultCorrect
  BY LoadedNone DEF CarefulInv, DoneInv, ResultCorrect
<1> HIDE DEF I
<1> QED
  BY <1>1, <1>2, <1>3, TypeInit, TypeStep, PTL DEF Spec

====
