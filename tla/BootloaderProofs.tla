-------------------------- MODULE BootloaderProofs --------------------------
(***************************************************************************)
(* What an available executable is, what becomes of an upload and of a     *)
(* store to a flash, for every bootloader: any width of bytes and words,   *)
(* any memory and flash, whatever hosts send and media hold, and however   *)
(* often they fail.                                                        *)
(***************************************************************************)
EXTENDS Bootloader, FiniteSetTheorems, TLAPS

(* The words of a stream after its header.                                 *)
Data(words) == SubSeq(words, HeaderWords + 1, Len(words))

(* The words of data that a header asks for.                               *)
DataWords(words) == (words[3] + WordBytes - 1) \div WordBytes

(* What is known of the globals in every state, and of the locals during a *)
(* load.                                                                   *)
Globals == [base : Nat, size : Nat, addr : Nat]
Jobs == [dev : Media, ret : {"console", "auto"}, words : Seq(Word), i : Nat, sum : Nat,
         rc : BOOLEAN]
Types ==
  /\ g \in Globals /\ ram \in [Ram -> Word]
  /\ cpu \in [mie : BOOLEAN, led : BOOLEAN, time : Nat]

(* No executable is available until a load has succeeded.                  *)
Loads == {"load_init", "load_header", "load_signature", "load_data"}
SizeInv == pc \in Loads \cup {"load_failed"} => g.size = 0

(* The stages of system_app_load up to the data.                           *)
HeadInv ==
  /\ pc \in Loads => job \in Jobs
  /\ pc \in {"load_init", "load_header", "load_signature"} => job.i = 0
  /\ pc = "load_init" => job.words = <<>>
  /\ pc = "load_header" => Len(job.words) < HeaderWords
  /\ pc = "load_signature" => Len(job.words) = HeaderWords
  /\ pc = "store_init" => job.dev \in Media

(* The data received so far are in main memory from the base address on,   *)
(* and their sum is what the checksum in the header has to complement.     *)
DataInv ==
  pc = "load_data" =>
    /\ Len(job.words) >= HeaderWords /\ job.words[1] = BIN_SIGNATURE
    /\ g.base = job.words[2]
    /\ job.i = WordBytes * (Len(job.words) - HeaderWords)
    /\ job.i < job.words[3] + WordBytes
    /\ job.sum = (job.words[4] + Checksum(Data(job.words))) % WordMax
    /\ \A k \in 1 .. Len(job.words) - HeaderWords :
         ram[g.base \div WordBytes + k - 1] = job.words[HeaderWords + k]

(* Between the two steps of system_app_boot, interrupts are off.           *)
QuietInv == pc \in {"boot_led", "app"} => ~cpu.mie

BootInv ==
  Types /\ SizeInv /\ HeadInv /\ DataInv /\ ExecutableVerified /\ QuietInv /\ AppStartsQuiet

-----------------------------------------------------------------------------
(* Division, by a word's bytes and by the words there are. *)

(* Quotient and remainder of a number are what they should be. *)
LEMMA Division ==
  ASSUME NEW a \in Nat \ {0}, NEW x \in Nat
  PROVE  /\ x % a \in 0 .. a - 1 /\ x \div a \in Nat
         /\ x = a * (x \div a) + (x % a)
BY Z3

(* And no other numbers are. *)
LEMMA Quotient ==
  ASSUME NEW a \in Nat \ {0}, NEW q \in Nat, NEW r \in 0 .. a - 1
  PROVE  (a * q + r) \div a = q /\ (a * q + r) % a = r
<1> DEFINE x == a * q + r
           p == x \div a
           m == x % a
<1>1. a * q \in Nat /\ x \in Nat
  BY Z3
<1>2. p \in Nat /\ m \in 0 .. a - 1 /\ x = a * p + m
  <2> HIDE DEF x
  <2> QED
    BY <1>1, Division
<1>3. x = a * q + r
  OBVIOUS
<1> HIDE DEF x, p, m
<1>4. ASSUME NEW i \in Nat, NEW j \in Nat, NEW s \in 0 .. a - 1, NEW t \in 0 .. a - 1,
             a * i + s = a * j + t
      PROVE  ~(i < j)
  <2> SUFFICES ASSUME i < j PROVE FALSE
    OBVIOUS
  <2>1. PICK k \in Nat : j = i + 1 + k
    <3>1. j - i - 1 \in Nat /\ j = i + 1 + (j - i - 1)
      OBVIOUS
    <3> QED
      BY <3>1
  <2>2. a * j = a * i + a + a * k
    BY <2>1, Z3
  <2>3. a * k \in Nat /\ a * i \in Nat /\ a * j \in Nat
    BY Z3
  <2> DEFINE ai == a * i
             aj == a * j
             ak == a * k
  <2> HIDE DEF ai, aj, ak
  <2>4. ai \in Nat /\ aj \in Nat /\ ak \in Nat /\ aj = ai + a + ak /\ ai + s = aj + t
    BY <1>4, <2>2, <2>3 DEF ai, aj, ak
  <2> QED
    BY <2>4
<1>5. a * p + m = a * q + r
  BY <1>2, <1>3
<1>6. ~(p < q) /\ ~(q < p)
  BY <1>2, <1>4, <1>5
<1>7. p = q
  BY <1>2, <1>6
<1>8. a * q + m = a * q + r
  BY <1>5, <1>7
<1>9. m = r
  BY <1>1, <1>2, <1>8
<1> QED
  BY <1>7, <1>9 DEF x, p, m

(* A multiple of the divisor adds to the quotient alone. *)
LEMMA DivAdd ==
  ASSUME NEW a \in Nat \ {0}, NEW x \in Nat, NEW m \in Nat
  PROVE  (x + a * m) \div a = (x \div a) + m
<1> DEFINE q == x \div a
           r == x % a
<1>1. q \in Nat /\ r \in 0 .. a - 1 /\ x = a * q + r
  BY Division
<1> HIDE DEF q, r
<1>2. x + a * m = a * (q + m) + r
  <2>1. a * (q + m) = a * q + a * m
    BY <1>1, Z3
  <2>2. a * q \in Nat /\ a * m \in Nat
    BY <1>1, Z3
  <2> QED
    BY <1>1, <2>1, <2>2
<1>3. (a * (q + m) + r) \div a = q + m
  BY <1>1, Quotient
<1> QED
  BY <1>2, <1>3 DEF q

(* A sum can be reduced before or after something is added to it. *)
LEMMA ModAdd ==
  ASSUME NEW a \in Nat \ {0}, NEW x \in Nat, NEW y \in Nat
  PROVE  ((x % a) + y) % a = (x + y) % a
<1> DEFINE q == x \div a
           k == x % a
           z == k + y
           p == z \div a
           r == z % a
<1>1. q \in Nat /\ k \in 0 .. a - 1 /\ x = a * q + k
  BY Division
<1> HIDE DEF q, k
<1>2. z \in Nat
  BY <1>1
<1>3. z = k + y
  OBVIOUS
<1> HIDE DEF z
<1>4. p \in Nat /\ r \in 0 .. a - 1 /\ z = a * p + r
  BY <1>2, Division
<1> HIDE DEF p, r
<1>5. x + y = a * (q + p) + r
  <2>1. a * (q + p) = a * q + a * p
    BY <1>1, <1>4, Z3
  <2>2. a * q \in Nat /\ a * p \in Nat
    BY <1>1, <1>4, Z3
  <2> QED
    BY <1>1, <1>3, <1>4, <2>1, <2>2
<1>6. (a * (q + p) + r) % a = r
  BY <1>1, <1>4, Quotient
<1> QED
  BY <1>5, <1>6 DEF r, z, k

(* What a word's arithmetic returns is a number. *)
LEMMA Wrapped ==
  ASSUME NEW x \in Nat, NEW y \in Nat
  PROVE  (x + y) % WordMax \in Nat
<1> DEFINE z == x + y
<1>1. z \in Nat /\ WordMax \in Nat \ {0}
  BY WordMaxAssumption
<1> HIDE DEF z
<1>2. z % WordMax \in 0 .. WordMax - 1
  BY <1>1, Division
<1>3. z % WordMax \in Nat
  BY <1>1, <1>2
<1> QED
  BY <1>3 DEF z

-----------------------------------------------------------------------------
(* Induction over the natural numbers, as a fact about sets: a set that    *)
(* contains 0 and the successor of each of its numbers contains them all.  *)
(* If it lacked m, the successor would map its n numbers up to m into n-1. *)
LEMMA SetInduction ==
  ASSUME NEW S, 0 \in S, \A n \in S \cap Nat : n + 1 \in S
  PROVE  Nat \subseteq S
<1> SUFFICES ASSUME NEW m \in Nat, m \notin S PROVE FALSE
  OBVIOUS
<1> DEFINE T == S \cap (0 .. m)
           f == [k \in T |-> k + 1]
<1>1. IsFiniteSet(T)
  <2>1. IsFiniteSet(0 .. m)
    BY FS_Interval
  <2> QED
    BY <2>1, FS_Subset
<1>2. f \in [T -> T \ {0}]
  <2>1. ASSUME NEW k \in T PROVE k + 1 \in T \ {0}
    <3>1. k \in S \cap Nat /\ k <= m /\ k # m
      OBVIOUS
    <3> QED
      BY <3>1
  <2> QED
    BY <2>1
<1>3. 0 \in T
  OBVIOUS
<1>4. \E x, y \in T : x # y /\ f[x] = f[y]
  <2> HIDE DEF f, T
  <2>1. IsFiniteSet(T \ {0}) /\ Cardinality(T \ {0}) = Cardinality(T) - 1
    BY <1>1, <1>3, FS_RemoveElement
  <2>2. Cardinality(T) \in Nat
    BY <1>1, FS_CardinalityType
  <2>3. Cardinality(T \ {0}) < Cardinality(T)
    BY <2>1, <2>2
  <2> QED
    BY <1>1, <1>2, <2>1, <2>3, FS_PigeonHole
<1> QED
  BY <1>4

-----------------------------------------------------------------------------
(* The checksum. *)

(* f is the sum of the first words, for every number of them.              *)
Sums(words, f) ==
  /\ f \in [0 .. Len(words) -> Nat] /\ f[0] = 0
  /\ \A i \in 1 .. Len(words) : f[i] = (f[i - 1] + words[i]) % WordMax

(* There is such a function. *)
LEMMA SumsExist ==
  ASSUME NEW words \in Seq(Word)
  PROVE  \E f : Sums(words, f)
<1> DEFINE Good(h, n) == /\ h \in [0 .. n -> Nat] /\ h[0] = 0
                         /\ \A i \in 1 .. n : h[i] = (h[i - 1] + words[i]) % WordMax
           S == {n \in Nat : n <= Len(words) => \E h : Good(h, n)}
<1>1. 0 \in S
  <2>1. Good([k \in 0 .. 0 |-> 0], 0)
    OBVIOUS
  <2> QED
    BY <2>1
<1>2. ASSUME NEW n \in S \cap Nat PROVE n + 1 \in S
  <2> HIDE DEF Good
  <2> SUFFICES ASSUME n + 1 <= Len(words) PROVE \E h : Good(h, n + 1)
    BY <1>2
  <2>1. PICK h : Good(h, n)
    BY <1>2
  <2> USE DEF Good
  <2> DEFINE x == (h[n] + words[n + 1]) % WordMax
             e == [i \in 0 .. n + 1 |-> IF i = n + 1 THEN x ELSE h[i]]
  <2>2. h[n] \in Nat /\ words[n + 1] \in Nat /\ WordMax \in Nat \ {0}
    BY <1>2, <2>1, WordMaxAssumption DEF Word
  <2>3. x \in Nat
    BY <2>2, Wrapped
  <2>4. \A i \in 0 .. n : e[i] = h[i]
    OBVIOUS
  <2>5. e[n + 1] = (e[n] + words[n + 1]) % WordMax
    BY <1>2
  <2> HIDE DEF x
  <2>6. e \in [0 .. n + 1 -> Nat]
    BY <1>2, <2>1, <2>3
  <2> HIDE DEF e
  <2>7. ASSUME NEW i \in 1 .. n + 1 PROVE e[i] = (e[i - 1] + words[i]) % WordMax
    <3>1. CASE i = n + 1
      BY <1>2, <2>5, <3>1
    <3>2. CASE i # n + 1
      <4>1. i \in 1 .. n /\ i \in 0 .. n /\ i - 1 \in 0 .. n
        BY <1>2, <3>2
      <4>2. h[i] = (h[i - 1] + words[i]) % WordMax
        BY <2>1, <4>1
      <4>3. e[i] = h[i] /\ e[i - 1] = h[i - 1]
        BY <2>4, <4>1
      <4> QED
        BY <4>2, <4>3
    <3> QED
      BY <3>1, <3>2
  <2>8. Good(e, n + 1)
    BY <1>2, <2>1, <2>4, <2>6, <2>7
  <2> HIDE DEF Good
  <2> QED
    BY <2>8, Zenon
<1> HIDE DEF S
<1>3. Len(words) \in S
  BY <1>1, <1>2, SetInduction
<1> QED
  BY <1>3 DEF S, Sums

(* It is the one that defines the checksum. *)
LEMMA ChecksumSums ==
  ASSUME NEW words \in Seq(Word)
  PROVE  \E f : Sums(words, f) /\ Checksum(words) = f[Len(words)]
<1> DEFINE Rec(f) == f = [i \in 0 .. Len(words) |->
                            IF i = 0 THEN 0 ELSE (f[i - 1] + words[i]) % WordMax]
           c == CHOOSE f : Rec(f)
<1>1. PICK h : Sums(words, h)
  BY SumsExist
<1>2. Rec(h)
  <2> DEFINE y(i) == (h[i - 1] + words[i]) % WordMax
  <2>1. /\ h = [i \in 0 .. Len(words) |-> h[i]]
        /\ \A i \in 0 .. Len(words) : h[i] = IF i = 0 THEN 0 ELSE y(i)
    BY <1>1 DEF Sums
  <2> HIDE DEF y
  <2>2. h = [i \in 0 .. Len(words) |-> IF i = 0 THEN 0 ELSE y(i)]
    BY <2>1
  <2> QED
    BY <2>2 DEF y
<1>3. Rec(c)
  <2> HIDE DEF Rec
  <2> QED
    BY <1>2, Zenon
<1>4. Checksum(words) = c[Len(words)]
  BY DEF Checksum
<1> HIDE DEF c
<1>5. /\ c[0] = 0
      /\ \A i \in 1 .. Len(words) : c[i] = (c[i - 1] + words[i]) % WordMax
      /\ DOMAIN c = 0 .. Len(words) /\ c = [i \in DOMAIN c |-> c[i]]
  BY <1>3
<1>6. \A i \in 0 .. Len(words) : c[i] \in Nat
  <2> DEFINE S == {n \in Nat : n <= Len(words) => c[n] \in Nat}
  <2>1. 0 \in S
    BY <1>5
  <2>2. ASSUME NEW n \in S \cap Nat PROVE n + 1 \in S
    <3> SUFFICES ASSUME n + 1 <= Len(words) PROVE c[n + 1] \in Nat
      OBVIOUS
    <3>1. c[n] \in Nat /\ words[n + 1] \in Nat /\ WordMax \in Nat \ {0}
      BY <2>2, WordMaxAssumption DEF Word
    <3>2. c[n + 1] = (c[n] + words[n + 1]) % WordMax
      BY <1>5, <2>2
    <3> QED
      BY <3>1, <3>2, Wrapped
  <2> HIDE DEF S
  <2>3. Nat \subseteq S
    BY <2>1, <2>2, SetInduction
  <2> QED
    BY <2>3 DEF S
<1>7. Sums(words, c)
  BY <1>5, <1>6 DEF Sums
<1> QED
  BY <1>4, <1>7, Zenon

(* Sequences that begin alike have the same sums so far. *)
LEMMA SumsAgree ==
  ASSUME NEW a \in Seq(Word), NEW b \in Seq(Word), NEW f, Sums(a, f), NEW h, Sums(b, h),
         Len(a) <= Len(b), \A i \in 1 .. Len(a) : a[i] = b[i]
  PROVE  f[Len(a)] = h[Len(a)]
<1> DEFINE S == {n \in Nat : n <= Len(a) => f[n] = h[n]}
<1>1. 0 \in S
  BY DEF Sums
<1>2. ASSUME NEW n \in S \cap Nat PROVE n + 1 \in S
  <2> SUFFICES ASSUME n + 1 <= Len(a) PROVE f[n + 1] = h[n + 1]
    OBVIOUS
  <2>1. f[n] = h[n] /\ a[n + 1] = b[n + 1]
    BY <1>2
  <2>2. n + 1 \in 1 .. Len(a) /\ n + 1 \in 1 .. Len(b) /\ (n + 1) - 1 = n
    BY <1>2
  <2>3. f[n + 1] = (f[n] + a[n + 1]) % WordMax
    BY <2>2 DEF Sums
  <2>4. h[n + 1] = (h[n] + b[n + 1]) % WordMax
    BY <2>2 DEF Sums
  <2> QED
    BY <2>1, <2>3, <2>4
<1> HIDE DEF S
<1>3. Nat \subseteq S
  BY <1>1, <1>2, SetInduction
<1> QED
  BY <1>3 DEF S

(* One word more is one addition more, and no word has the sum 0. *)
LEMMA ChecksumAppend ==
  ASSUME NEW words \in Seq(Word), NEW w \in Word
  PROVE  /\ Checksum(words) \in Nat
         /\ Checksum(Append(words, w)) = (Checksum(words) + w) % WordMax
<1> DEFINE more == Append(words, w)
           n == Len(words)
<1>1. /\ more \in Seq(Word) /\ Len(more) = n + 1 /\ more[n + 1] = w /\ n \in Nat
      /\ \A i \in 1 .. n : words[i] = more[i]
  OBVIOUS
<1>2. PICK f : Sums(words, f) /\ Checksum(words) = f[Len(words)]
  BY ChecksumSums
<1>3. Checksum(words) = f[n] /\ f[n] \in Nat
  BY <1>2 DEF Sums
<1> HIDE DEF more
<1>4. PICK h : Sums(more, h) /\ Checksum(more) = h[Len(more)]
  BY <1>1, ChecksumSums
<1>5. f[n] = h[n]
  BY <1>1, <1>2, <1>4, SumsAgree
<1> HIDE DEF n
<1>6. h[n + 1] = (h[n] + more[n + 1]) % WordMax
  <2>1. n + 1 \in 1 .. Len(more) /\ (n + 1) - 1 = n
    BY <1>1
  <2> QED
    BY <1>4, <2>1 DEF Sums
<1> QED
  BY <1>1, <1>3, <1>4, <1>5, <1>6 DEF more

(* No words have the sum 0. *)
LEMMA ChecksumEmpty == Checksum(<<>>) = 0
<1>1. <<>> \in Seq(Word) /\ Len(<<>>) = 0
  OBVIOUS
<1>2. PICK f : Sums(<<>>, f) /\ Checksum(<<>>) = f[Len(<<>>)]
  BY <1>1, ChecksumSums
<1> QED
  BY <1>1, <1>2 DEF Sums

(* The data of a stream that goes on. *)
LEMMA DataAppend ==
  ASSUME NEW words \in Seq(Word), NEW w \in Word, Len(words) >= HeaderWords
  PROVE  /\ Data(words) \in Seq(Word)
         /\ Data(Append(words, w)) = Append(Data(words), w)
<1> DEFINE n == Len(words) - 4
           more == Append(words, w)
<1>1. n \in Nat /\ Len(words) = n + 4 /\ more \in Seq(Word) /\ Len(more) = n + 5
  BY DEF HeaderWords
<1>2. /\ Data(words) \in Seq(Word) /\ Len(Data(words)) = n
      /\ \A i \in 1 .. n : Data(words)[i] = words[i + 4]
  BY <1>1 DEF Data, HeaderWords
<1>3. \A i \in 1 .. n + 5 : more[i] = IF i = n + 5 THEN w ELSE words[i]
  BY <1>1
<1> HIDE DEF more, n
<1>4. /\ Data(more) \in Seq(Word) /\ Len(Data(more)) = n + 1
      /\ \A i \in 1 .. n + 1 : Data(more)[i] = more[i + 4]
  BY <1>1 DEF Data, HeaderWords
<1>5. \A i \in 1 .. n + 1 : Data(more)[i] = IF i = n + 1 THEN w ELSE Data(words)[i]
  BY <1>1, <1>2, <1>3, <1>4
<1> DEFINE d == Data(words)
           e == Data(more)
<1>6. /\ d \in Seq(Word) /\ Len(d) = n /\ e \in Seq(Word) /\ Len(e) = n + 1
      /\ \A i \in 1 .. n + 1 : e[i] = IF i = n + 1 THEN w ELSE d[i]
  BY <1>2, <1>4, <1>5
<1> HIDE DEF d, e
<1>7. Append(d, w) \in Seq(Word) /\ Len(Append(d, w)) = n + 1
  BY <1>1, <1>6
<1>8. \A i \in 1 .. n + 1 : e[i] = Append(d, w)[i]
  BY <1>1, <1>6
<1>9. e = Append(d, w)
  BY <1>1, <1>6, <1>7, <1>8
<1> QED
  BY <1>2, <1>9 DEF d, e, more

-----------------------------------------------------------------------------
(* The parts of a step. *)

(* The calls of a device leave alone what the globals say of an executable. *)
SameExe == g' \in Globals /\ g'.base = g.base /\ g'.size = g.size

(* Any address may be written to g_flash_addr. *)
LEMMA AddrFree ==
  ASSUME Types, NEW a \in Nat, g' = g \/ g' = [g EXCEPT !.addr = a]
  PROVE  SameExe
BY DEF Types, Globals, SameExe

(* dev_init() of each device. *)
LEMMA DevInit ==
  ASSUME Types, job.dev \in Media, NEW err \in BOOLEAN, dev_init(err)
  PROVE  SameExe
<1>1. g' = g \/ g' = [g EXCEPT !.addr = 0]
  BY DEF dev_init, Media, uart_setup, twi_flash_setup, sdcard_setup
<1> QED
  BY <1>1, AddrFree

(* stream_get() and stream_put() of each device. *)
LEMMA StreamWord ==
  ASSUME Types, NEW w, NEW err \in BOOLEAN,
         (job.dev \in Media /\ stream_get(w, err)) \/ stream_put(w, err)
  PROVE  SameExe
<1>1. g' = g \/ NextWord
  BY DEF stream_get, stream_put, Media, uart_stream_get, spi_flash_stream_get,
         twi_flash_stream_get, sdcard_stream_get
<1>2. g.addr + WordBytes \in Nat
  BY BootImageAssumption DEF Types, Globals
<1> QED
  BY <1>1, <1>2, AddrFree DEF NextWord

(* Steps after which no load is in progress, and the executable is the same. *)
LEMMA Elsewhere ==
  ASSUME BootInv, SameExe, ram' = ram, stream' = stream,
         cpu' \in [mie : BOOLEAN, led : BOOLEAN, time : Nat],
         pc' \notin Loads, pc' = "load_failed" => g.size = 0,
         pc' = "store_init" => job'.dev \in Media,
         QuietInv', AppStartsQuiet'
  PROVE  BootInv'
<1>1. Types'
  BY DEF BootInv, Types, SameExe
<1>2. SizeInv' /\ HeadInv' /\ DataInv'
  BY DEF SizeInv, HeadInv, DataInv, Loads, SameExe
<1>3. ExecutableVerified'
  BY DEF BootInv, ExecutableVerified, SameExe
<1> QED
  BY <1>1, <1>2, <1>3 DEF BootInv

(* The same, when the step is not one of system_app_boot either. *)
LEMMA Aside ==
  ASSUME BootInv, SameExe, ram' = ram, stream' = stream,
         cpu' \in [mie : BOOLEAN, led : BOOLEAN, time : Nat],
         pc' \notin Loads \cup {"load_failed", "store_init", "boot_led", "app"}
  PROVE  BootInv'
BY Elsewhere DEF QuietInv, AppStartsQuiet

(* The start of system_app_load. *)
LEMMA LoadStart ==
  ASSUME BootInv, ram' = ram, cpu' = cpu, NEW dev \in Media, NEW ret \in {"console", "auto"},
         LoadFrom(dev, ret, g)
  PROVE  BootInv'
<1>1. /\ pc' = "load_init" /\ g' = [g EXCEPT !.size = 0]
      /\ job' = [dev |-> dev, ret |-> ret, words |-> <<>>, i |-> 0, sum |-> 0, rc |-> FALSE]
  BY DEF LoadFrom, NoJob
<1>2. g' \in Globals /\ g'.size = 0
  BY <1>1 DEF BootInv, Types, Globals
<1>3. job' \in Jobs /\ job'.i = 0 /\ job'.words = <<>>
  BY <1>1 DEF Jobs
<1> QED
  BY <1>1, <1>2, <1>3 DEF BootInv, Types, SizeInv, HeadInv, DataInv, ExecutableVerified,
     QuietInv, AppStartsQuiet, Loads

(* Auto-boot goes to the next medium, or to the console. *)
LEMMA Resumes ==
  ASSUME BootInv, ram' = ram, cpu' = cpu, stream' = stream, Resume
  PROVE  BootInv'
<1>1. CASE job.ret = "auto" /\ job.dev \in DOMAIN NextMedium
  <2>1. NextMedium[job.dev] \in Media
    BY <1>1 DEF NextMedium, Media
  <2>2. LoadFrom(NextMedium[job.dev], "auto", g)
    BY <1>1 DEF Resume
  <2> QED
    BY <2>1, <2>2, LoadStart
<1>2. CASE ~(job.ret = "auto" /\ job.dev \in DOMAIN NextMedium)
  <2>1. pc' = "console" /\ g' = g
    BY <1>2 DEF Resume
  <2>2. SameExe /\ cpu' \in [mie : BOOLEAN, led : BOOLEAN, time : Nat]
    BY <2>1 DEF BootInv, Types, SameExe
  <2> QED
    BY <2>1, <2>2, Aside DEF Loads
<1> QED
  BY <1>1, <1>2

(* A trap, or the end of main(). *)
LEMMA Panics ==
  ASSUME BootInv, ram' = ram, stream' = stream, SameExe, Panic
  PROVE  BootInv'
<1>1. pc' = "panic" /\ cpu' \in [mie : BOOLEAN, led : BOOLEAN, time : Nat]
  BY DEF Panic, BootInv, Types
<1> QED
  BY <1>1, Aside DEF Loads

(* Steps of the user, the host and the clock, and stuttering. *)
LEMMA Bystander ==
  ASSUME BootInv, pc' = pc, g' = g, job' = job, ram' = ram, stream' = stream,
         cpu' \in [mie : BOOLEAN, led : BOOLEAN, time : Nat],
         cpu' # cpu => pc \notin {"boot_led", "app"}
  PROVE  BootInv'
<1>1. Types' /\ SizeInv' /\ HeadInv' /\ QuietInv' /\ AppStartsQuiet'
  BY DEF BootInv, Types, SizeInv, HeadInv, QuietInv, AppStartsQuiet
<1>2. DataInv' /\ ExecutableVerified'
  BY DEF BootInv, DataInv, ExecutableVerified
<1> QED
  BY <1>1, <1>2 DEF BootInv

-----------------------------------------------------------------------------
(* system_app_load. *)

(* The device is set up.                                                   *)
LEMMA LoadInitStep ==
  ASSUME BootInv, LoadInit
  PROVE  BootInv'
<1>1. job.dev \in Media /\ job \in Jobs /\ job.i = 0 /\ job.words = <<>> /\ g.size = 0
  BY DEF BootInv, SizeInv, HeadInv, LoadInit, Loads, Jobs
<1>2. PICK err \in BOOLEAN : dev_init(err) /\ pc' = IF err THEN "load_failed" ELSE "load_header"
  BY DEF LoadInit
<1>3. SameExe
  BY <1>1, <1>2, DevInit DEF BootInv
<1>4. job' = job /\ ram' = ram /\ cpu' = cpu /\ stream' = stream
  BY DEF LoadInit
<1>5. Types' /\ SizeInv' /\ QuietInv' /\ AppStartsQuiet' /\ ExecutableVerified' /\ DataInv'
  BY <1>1, <1>2, <1>3, <1>4 DEF BootInv, Types, SameExe, SizeInv, QuietInv, AppStartsQuiet,
     ExecutableVerified, DataInv
<1>6. HeadInv'
  BY <1>1, <1>2, <1>4 DEF HeadInv, HeaderWords
<1> QED
  BY <1>5, <1>6 DEF BootInv

(* A word of the header arrives.                                           *)
LEMMA LoadHeaderStep ==
  ASSUME BootInv, LoadHeader
  PROVE  BootInv'
<1>1. job.dev \in Media /\ job \in Jobs /\ job.i = 0 /\ Len(job.words) < 4 /\ g.size = 0
      /\ job.words \in Seq(Word)
  BY DEF BootInv, SizeInv, HeadInv, LoadHeader, Loads, Jobs, HeaderWords
<1>2. PICK w \in Word, err \in BOOLEAN :
        /\ stream_get(w, err)
        /\ job' = [job EXCEPT !.words = Append(job.words, w), !.rc = job.rc \/ err]
  BY DEF LoadHeader
<1>3. SameExe
  BY <1>1, <1>2, StreamWord DEF BootInv
<1>4. /\ ram' = ram /\ cpu' = cpu /\ stream' = stream
      /\ pc' = IF Len(job.words) < 3 THEN "load_header" ELSE "load_signature"
  BY DEF LoadHeader, HeaderWords
<1>5. Types' /\ SizeInv' /\ QuietInv' /\ AppStartsQuiet' /\ ExecutableVerified' /\ DataInv'
  BY <1>1, <1>3, <1>4 DEF BootInv, Types, SameExe, SizeInv, QuietInv, AppStartsQuiet,
     ExecutableVerified, DataInv
<1>6. Append(job.words, w) \in Seq(Word) /\ Len(Append(job.words, w)) = Len(job.words) + 1
  BY <1>1, <1>2
<1>7. job' \in Jobs /\ job'.i = 0 /\ Len(job'.words) = Len(job.words) + 1
  BY <1>1, <1>2, <1>6 DEF Jobs
<1>8. HeadInv'
  BY <1>1, <1>4, <1>7 DEF HeadInv, HeaderWords
<1> QED
  BY <1>5, <1>8 DEF BootInv

(* The signature is looked at.                                             *)
LEMMA LoadSignatureStep ==
  ASSUME BootInv, LoadSignature
  PROVE  BootInv'
<1>1. job \in Jobs /\ job.i = 0 /\ Len(job.words) = 4 /\ g.size = 0 /\ job.words \in Seq(Word)
  BY DEF BootInv, SizeInv, HeadInv, LoadSignature, Loads, Jobs, HeaderWords
<1>2. /\ job.words[2] \in Word /\ job.words[3] \in Word /\ job.words[4] \in Word
      /\ job.words[2] \in Nat /\ job.words[3] \in Nat /\ job.words[4] \in Nat
  <2>1. \A k \in 1 .. 4 : job.words[k] \in Word
    BY <1>1
  <2>2. \A x \in Word : x \in Nat
    BY DEF Word
  <2> QED
    BY <2>1, <2>2
<1>4. /\ g' = [g EXCEPT !.base = job.words[2]] /\ job' = [job EXCEPT !.sum = job.words[4]]
      /\ pc' = IF job.words[1] = BIN_SIGNATURE THEN "load_data" ELSE "load_failed"
      /\ ram' = ram /\ cpu' = cpu /\ stream' = stream
  BY DEF LoadSignature
<1>5. g' \in Globals /\ g'.base = job.words[2] /\ g'.size = 0
  BY <1>1, <1>2, <1>4 DEF BootInv, Types, Globals
<1>6. /\ job' \in Jobs /\ job'.words = job.words /\ job'.i = 0 /\ job'.sum = job.words[4]
  BY <1>1, <1>2, <1>4 DEF Jobs
<1>7. Types' /\ SizeInv' /\ QuietInv' /\ AppStartsQuiet' /\ ExecutableVerified'
  BY <1>4, <1>5 DEF BootInv, Types, SizeInv, QuietInv, AppStartsQuiet, ExecutableVerified
<1>8. HeadInv'
  BY <1>4, <1>6 DEF HeadInv, Loads
<1>9. DataInv'
  <2> SUFFICES ASSUME pc' = "load_data" PROVE DataInv'
    BY DEF DataInv
  <2>1. job.words[1] = BIN_SIGNATURE
    BY <1>4
  <2>2. Data(job.words) = <<>>
    BY <1>1 DEF Data, HeaderWords
  <2>3. job.words[4] = (job.words[4] + Checksum(Data(job.words))) % WordMax
    <3> DEFINE x == job.words[4]
    <3>1. x \in 0 .. WordMax - 1 /\ WordMax \in Nat \ {0} /\ Checksum(Data(job.words)) = 0
      BY <1>2, <2>2, WordMaxAssumption, ChecksumEmpty DEF Word
    <3> HIDE DEF x
    <3>2. WordMax * 0 + x = x /\ x + 0 = x
      BY <3>1
    <3>3. (WordMax * 0 + x) % WordMax = x
      BY <3>1, Quotient
    <3> QED
      BY <3>1, <3>2, <3>3 DEF x
  <2>4. WordBytes \in Nat \ {0} /\ job.words[3] \in Nat
    BY <1>2, BootImageAssumption
  <2>5. 0 = WordBytes * (Len(job.words) - 4) /\ 0 < job.words[3] + WordBytes
    BY <1>1, <2>4
  <2>6. Len(job'.words) = 4 /\ g'.base = job'.words[2] /\ job'.words[1] = BIN_SIGNATURE
    BY <1>1, <1>5, <1>6, <2>1
  <2>7. /\ job'.i = WordBytes * (Len(job'.words) - 4)
        /\ job'.i < job'.words[3] + WordBytes
    BY <1>6, <2>5
  <2>8. job'.sum = (job'.words[4] + Checksum(Data(job'.words))) % WordMax
    BY <1>6, <2>3
  <2>9. \A k \in 1 .. Len(job'.words) - 4 :
          ram'[g'.base \div WordBytes + k - 1] = job'.words[4 + k]
    BY <2>6
  <2> QED
    BY <2>6, <2>7, <2>8, <2>9 DEF DataInv, HeaderWords
<1> QED
  BY <1>7, <1>8, <1>9 DEF BootInv

(* A word of the data goes to main memory.                                 *)
LEMMA LoadWordStep ==
  ASSUME BootInv, LoadWord
  PROVE  BootInv'
<1>1. job.dev \in Media /\ job \in Jobs /\ g.size = 0 /\ job.words \in Seq(Word)
      /\ job.i \in Nat /\ job.sum \in Nat
  BY DEF BootInv, SizeInv, HeadInv, LoadWord, Loads, Jobs
<1>2. /\ Len(job.words) >= 4 /\ job.words[1] = BIN_SIGNATURE /\ g.base = job.words[2]
      /\ job.i = WordBytes * (Len(job.words) - 4)
      /\ job.sum = (job.words[4] + Checksum(Data(job.words))) % WordMax
      /\ \A k \in 1 .. Len(job.words) - 4 :
           ram[g.base \div WordBytes + k - 1] = job.words[4 + k]
      /\ job.i < job.words[3] /\ ~job.rc /\ pc = "load_data"
  BY DEF BootInv, DataInv, LoadWord, HeaderWords
<1>3. PICK w \in Word, err \in BOOLEAN :
        /\ stream_get(w, err)
        /\ LET addr == job.words[2] + job.i
           IN  IF addr % WordBytes = 0 /\ addr \div WordBytes \in Ram
                 THEN /\ ram' = [ram EXCEPT ![addr \div WordBytes] = w]
                      /\ job' = [job EXCEPT !.words = Append(job.words, w),
                                            !.i = job.i + WordBytes,
                                            !.sum = (job.sum + w) % WordMax, !.rc = err]
                      /\ UNCHANGED <<pc, cpu>>
                 ELSE Panic /\ UNCHANGED <<ram, job>>
  BY DEF LoadWord
<1>4. SameExe /\ stream' = stream
  BY <1>1, <1>3, StreamWord DEF BootInv, LoadWord
<1> DEFINE m == Len(job.words) - 4
           addr == job.words[2] + job.i
           at == addr \div WordBytes
           b == job.words[2] \div WordBytes
<1>5. m \in Nat /\ Len(job.words) = m + 4 /\ \A k \in 1 .. m + 4 : job.words[k] \in Nat
  <2>1. \A x \in Word : x \in Nat
    BY DEF Word
  <2>2. \A k \in 1 .. Len(job.words) : job.words[k] \in Word
    BY <1>1
  <2> QED
    BY <1>1, <1>2, <2>1, <2>2
<1>6. CASE addr % WordBytes = 0 /\ at \in Ram
  <2>1. /\ ram' = [ram EXCEPT ![at] = w] /\ pc' = "load_data" /\ cpu' = cpu
        /\ job' = [job EXCEPT !.words = Append(job.words, w), !.i = job.i + WordBytes,
                              !.sum = (job.sum + w) % WordMax, !.rc = err]
    BY <1>2, <1>3, <1>6
  <2>2. at = b + m /\ b \in Nat
    <3>1. WordBytes \in Nat \ {0} /\ job.words[2] \in Nat
      BY <1>2, <1>5, BootImageAssumption
    <3>2. (job.words[2] + WordBytes * m) \div WordBytes = b + m
      BY <1>5, <3>1, DivAdd
    <3>3. b \in Nat
      BY <3>1, Division
    <3> QED
      BY <1>2, <3>2, <3>3
  <2> HIDE DEF at, b, addr, m
  <2>3. ram' \in [Ram -> Word] /\ ram'[at] = w
        /\ \A a \in Int : a # at => ram'[a] = ram[a]
    BY <1>6, <2>1 DEF BootInv, Types
  <2>4. (job.sum + w) % WordMax \in Nat /\ w \in Nat
    BY <1>1, Wrapped DEF Word
  <2>5. /\ Append(job.words, w) \in Seq(Word) /\ Len(Append(job.words, w)) = m + 5
        /\ \A k \in 1 .. m + 5 :
             Append(job.words, w)[k] = IF k = m + 5 THEN w ELSE job.words[k]
    BY <1>1, <1>5
  <2>6. /\ job' \in Jobs /\ job'.words = Append(job.words, w)
        /\ job'.i = job.i + WordBytes /\ job'.sum = (job.sum + w) % WordMax
    <3>1. job.i + WordBytes \in Nat
      BY <1>1, BootImageAssumption
    <3> QED
      BY <1>1, <2>1, <2>4, <2>5, <3>1 DEF Jobs
  <2>7. Types' /\ SizeInv' /\ QuietInv' /\ AppStartsQuiet' /\ ExecutableVerified' /\ HeadInv'
    BY <1>1, <1>4, <2>1, <2>3, <2>6 DEF BootInv, Types, SameExe, SizeInv, QuietInv,
       AppStartsQuiet, ExecutableVerified, HeadInv
  <2>8. job'.sum = (job'.words[4] + Checksum(Data(job'.words))) % WordMax
    <3> DEFINE c == Checksum(Data(job.words))
               x == job.words[4]
    <3>1. c \in Nat /\ Checksum(Data(job'.words)) = (c + w) % WordMax
      <4>1. /\ Data(job.words) \in Seq(Word)
            /\ Data(Append(job.words, w)) = Append(Data(job.words), w)
        BY <1>1, <1>2, DataAppend DEF HeaderWords
      <4> QED
        BY <2>6, <4>1, ChecksumAppend
    <3>2. x \in Nat /\ job'.words[4] = x
      BY <1>5, <2>5, <2>6
    <3>3. job'.sum = (((x + c) % WordMax) + w) % WordMax
      BY <1>2, <2>6
    <3> HIDE DEF c, x
    <3>4. (((x + c) % WordMax) + w) % WordMax = (x + c + w) % WordMax
      <4>1. x + c \in Nat
        BY <3>1, <3>2
      <4> QED
        BY <2>4, <4>1, ModAdd, WordMaxAssumption
    <3>5. (((c + w) % WordMax) + x) % WordMax = (c + w + x) % WordMax
      <4>1. c + w \in Nat
        BY <2>4, <3>1
      <4> QED
        BY <3>2, <4>1, ModAdd, WordMaxAssumption
    <3> DEFINE y == (c + w) % WordMax
    <3>6. y \in Nat /\ (y + x) % WordMax = (c + w + x) % WordMax
          /\ Checksum(Data(job'.words)) = y
      BY <2>4, <3>1, <3>5, Wrapped
    <3> HIDE DEF y
    <3>7. y + x = x + y /\ c + w + x = x + c + w
      BY <2>4, <3>1, <3>2, <3>6
    <3> QED
      BY <3>2, <3>3, <3>4, <3>6, <3>7
  <2>9. /\ job'.i = WordBytes * (Len(job'.words) - 4)
        /\ job'.i < job'.words[3] + WordBytes
    <3>1. WordBytes \in Nat /\ Len(job'.words) - 4 = m + 1
      BY <1>5, <2>5, <2>6, BootImageAssumption
    <3>2. WordBytes * (m + 1) = WordBytes * m + WordBytes
      BY <1>5, <3>1, Z3
    <3>3. job'.words[3] = job.words[3] /\ job.words[3] \in Nat
      BY <1>5, <2>5, <2>6
    <3>4. job.i = WordBytes * m
      BY <1>2 DEF m
    <3> QED
      BY <1>1, <1>2, <2>6, <3>1, <3>2, <3>3, <3>4
  <2>10. ASSUME NEW k \in 1 .. m + 1
         PROVE  ram'[g'.base \div WordBytes + k - 1] = job'.words[4 + k]
    <3>1. g'.base \div WordBytes = b
      BY <1>2, <1>4 DEF SameExe, b
    <3>2. CASE k = m + 1
      <4>1. b + k - 1 = at /\ 4 + k = m + 5
        BY <1>5, <2>2, <3>2
      <4>2. job'.words[m + 5] = w
        BY <1>5, <2>5, <2>6
      <4> QED
        BY <2>3, <3>1, <4>1, <4>2
    <3>3. CASE k # m + 1
      <4>1. k \in 1 .. m
        BY <1>5, <3>3
      <4>2. ram[b + k - 1] = job.words[4 + k]
        BY <1>2, <4>1 DEF m, b
      <4>3. b + k - 1 \in Int /\ b + k - 1 # at
        BY <1>5, <2>2, <4>1
      <4>4. job'.words[4 + k] = job.words[4 + k]
        BY <1>5, <2>5, <2>6, <4>1
      <4> QED
        BY <2>3, <3>1, <4>2, <4>3, <4>4
    <3> QED
      BY <3>2, <3>3
  <2>11. /\ Len(job'.words) = m + 5 /\ Len(job'.words) - 4 = m + 1
         /\ job'.words[1] = BIN_SIGNATURE /\ g'.base = job'.words[2]
    BY <1>2, <1>4, <1>5, <2>5, <2>6 DEF SameExe
  <2>12. DataInv'
    BY <1>5, <2>8, <2>9, <2>10, <2>11 DEF DataInv, HeaderWords
  <2> QED
    BY <2>7, <2>12 DEF BootInv
<1>7. CASE ~(addr % WordBytes = 0 /\ at \in Ram)
  <2>1. Panic /\ ram' = ram
    BY <1>3, <1>7
  <2> QED
    BY <1>4, <2>1, Panics
<1> QED
  BY <1>6, <1>7

(* When all bytes of a load have been counted, the words they make up are  *)
(* there, and the sum says whether they pass the checks.                   *)
LEMMA AllThere ==
  ASSUME BootInv, pc = "load_data", job.i >= job.words[3]
  PROVE  /\ Len(job.words) >= HeaderWords
         /\ Len(job.words) = HeaderWords + DataWords(job.words)
         /\ Accepted(job.words) <=> (job.sum + 1) % WordMax = 0
<1>1. job \in Jobs /\ job.words \in Seq(Word) /\ job.i \in Nat
  BY DEF BootInv, HeadInv, Loads, Jobs
<1>2. /\ Len(job.words) >= 4 /\ job.words[1] = BIN_SIGNATURE
      /\ job.i = WordBytes * (Len(job.words) - 4)
      /\ job.i < job.words[3] + WordBytes
      /\ job.sum = (job.words[4] + Checksum(Data(job.words))) % WordMax
  BY DEF BootInv, DataInv, HeaderWords
<1> DEFINE m == Len(job.words) - 4
           r == job.words[3] + WordBytes - 1 - WordBytes * m
<1>3. \A k \in 1 .. Len(job.words) : job.words[k] \in Nat
  <2>1. \A x \in Word : x \in Nat
    BY DEF Word
  <2> QED
    BY <1>1, <2>1
<1>4. /\ m \in Nat /\ Len(job.words) = 4 + m /\ job.words[3] \in Nat /\ job.words[4] \in Nat
      /\ WordBytes \in Nat \ {0}
  BY <1>1, <1>2, <1>3, BootImageAssumption
<1>5. (job.words[3] + WordBytes - 1) \div WordBytes = m
  <2> DEFINE e == WordBytes * m
  <2>1. e \in Nat /\ job.i = e
    BY <1>1, <1>2, <1>4
  <2> HIDE DEF e
  <2>2. r = job.words[3] + WordBytes - 1 - e
    BY DEF e
  <2> HIDE DEF m, r
  <2>3. r \in 0 .. WordBytes - 1 /\ e + r = job.words[3] + WordBytes - 1
    <3>1. e >= job.words[3] /\ e < job.words[3] + WordBytes
      BY <1>2, <2>1
    <3> QED
      BY <1>4, <2>1, <2>2, <3>1
  <2>4. (WordBytes * m + r) \div WordBytes = m
    BY <1>4, <2>3, Quotient
  <2> QED
    BY <2>3, <2>4 DEF e
<1> HIDE DEF m, r
<1>6. Data(job.words) = SubSeq(job.words, 4 + 1, 4 + m)
  BY <1>4 DEF Data, HeaderWords
<1>7. (job.words[4] + Checksum(Data(job.words)) + 1) % WordMax = (job.sum + 1) % WordMax
  <2> DEFINE x == job.words[4] + Checksum(Data(job.words))
  <2>1. x \in Nat
    <3>1. Data(job.words) \in Seq(Word) /\ 0 \in Word
      BY <1>1, <1>2, DataAppend, WordMaxAssumption DEF HeaderWords, Word
    <3> QED
      BY <1>4, <3>1, ChecksumAppend
  <2>2. job.sum = x % WordMax
    BY <1>2
  <2> HIDE DEF x
  <2>3. ((x % WordMax) + 1) % WordMax = (x + 1) % WordMax
    BY <2>1, ModAdd, WordMaxAssumption
  <2> QED
    BY <2>2, <2>3 DEF x
<1>8. Accepted(job.words) <=> (job.sum + 1) % WordMax = 0
  BY <1>2, <1>4, <1>5, <1>6, <1>7 DEF Accepted, HeaderWords
<1> QED
  BY <1>4, <1>5, <1>8 DEF DataWords, HeaderWords

(* The checksum is looked at. *)
LEMMA LoadCheckStep ==
  ASSUME BootInv, LoadCheck
  PROVE  BootInv'
<1>1. g.size = 0 /\ job \in Jobs /\ job.words \in Seq(Word) /\ pc = "load_data"
  BY DEF BootInv, SizeInv, HeadInv, LoadCheck, Loads, Jobs
<1>2. /\ g.base = job.words[2] /\ Len(job.words) >= 4
      /\ \A k \in 1 .. Len(job.words) - 4 :
           ram[g.base \div WordBytes + k - 1] = job.words[4 + k]
  BY <1>1 DEF BootInv, DataInv, HeaderWords
<1>3. ram' = ram /\ cpu' = cpu /\ job' = job
  BY DEF LoadCheck
<1>4. CASE job.rc \/ (job.sum + 1) % WordMax # 0
  <2>1. pc' = "load_failed" /\ g' = g /\ stream' = stream
    BY <1>4 DEF LoadCheck
  <2> QED
    BY <1>1, <1>3, <2>1 DEF BootInv, Types, SizeInv, HeadInv, DataInv, ExecutableVerified,
       QuietInv, AppStartsQuiet, Loads
<1>5. CASE ~(job.rc \/ (job.sum + 1) % WordMax # 0)
  <2>1. /\ pc' = "load_ok" /\ g' = [g EXCEPT !.size = job.words[3]] /\ stream' = job.words
        /\ (job.sum + 1) % WordMax = 0 /\ job.i >= job.words[3]
    BY <1>5 DEF LoadCheck
  <2>2. job.words[3] \in Nat
    <3>1. job.words[3] \in Word
      BY <1>1, <1>2
    <3> QED
      BY <3>1 DEF Word
  <2>3. g' \in Globals /\ g'.base = g.base /\ g'.size = job.words[3]
    BY <2>1, <2>2 DEF BootInv, Types, Globals
  <2>4. Accepted(job.words)
    BY <1>1, <2>1, AllThere
  <2>5. ExecutableVerified'
    BY <1>2, <1>3, <2>1, <2>3, <2>4 DEF ExecutableVerified, HeaderWords
  <2>6. Types' /\ SizeInv' /\ HeadInv' /\ DataInv' /\ QuietInv' /\ AppStartsQuiet'
    BY <1>3, <2>1, <2>3 DEF BootInv, Types, SizeInv, HeadInv, DataInv, QuietInv,
       AppStartsQuiet, Loads
  <2> QED
    BY <2>5, <2>6 DEF BootInv
<1> QED
  BY <1>4, <1>5

(* system_app_load returns. *)
LEMMA LoadReturnStep ==
  ASSUME BootInv, LoadReturn
  PROVE  BootInv'
<1>1. ram' = ram /\ stream' = stream
  BY DEF LoadReturn
<1>2. CASE Resume /\ cpu' = cpu
  BY <1>1, <1>2, Resumes
<1>3. CASE Panic /\ g' = g
  <2>1. SameExe
    BY <1>3 DEF BootInv, Types, SameExe
  <2> QED
    BY <1>1, <1>3, <2>1, Panics
<1>4. CASE pc' = "boot" /\ g' = g /\ cpu' = cpu
  <2>1. SameExe /\ cpu' \in [mie : BOOLEAN, led : BOOLEAN, time : Nat]
    BY <1>4 DEF BootInv, Types, SameExe
  <2> QED
    BY <1>1, <1>4, <2>1, Aside DEF Loads
<1> QED
  BY <1>2, <1>3, <1>4 DEF LoadReturn, LoadFailed

-----------------------------------------------------------------------------
(* The other operations. *)

(* Globals that do not change, and a processor that is as it was.          *)
LEMMA Untouched ==
  ASSUME BootInv
  PROVE  /\ g' = g => SameExe
         /\ cpu' = cpu => cpu' \in [mie : BOOLEAN, led : BOOLEAN, time : Nat]
BY DEF BootInv, Types, SameExe

(* system_setup. *)
LEMMA SetupStep ==
  ASSUME BootInv, system_setup
  PROVE  BootInv'
<1>1. /\ pc' = "wait_key" /\ ram' = ram
      /\ g' = [base |-> DEFAULT_EXE_ADDR, size |-> 0, addr |-> 0]
      /\ cpu' = [mie |-> TRUE, led |-> TRUE, time |-> 0]
  BY DEF system_setup
<1>2. g' \in Globals /\ g'.size = 0 /\ cpu' \in [mie : BOOLEAN, led : BOOLEAN, time : Nat]
  BY <1>1, BootloaderAssumption DEF Globals
<1> QED
  BY <1>1, <1>2 DEF BootInv, Types, SizeInv, HeadInv, DataInv, ExecutableVerified, QuietInv,
     AppStartsQuiet, Loads

(* system_app_boot. *)
LEMMA BootSteps ==
  ASSUME BootInv, Boot \/ BootAsk \/ BootStep
  PROVE  BootInv'
<1>1. ram' = ram /\ stream' = stream
  BY DEF Boot, BootAsk, BootStep
<1>2. CASE Boot
  <2>1. pc' \in {"boot_ask", "boot_irq"} /\ g' = g /\ cpu' = cpu
    BY <1>2 DEF Boot
  <2> QED
    BY <1>1, <2>1, Untouched, Aside DEF Loads
<1>3. CASE BootAsk
  <2>1. \/ pc' = "boot_irq" /\ g' = g
        \/ Resume
    BY <1>3 DEF BootAsk
  <2>2. cpu' = cpu
    BY <1>3 DEF BootAsk
  <2>3. CASE pc' = "boot_irq" /\ g' = g
    BY <1>1, <2>2, <2>3, Untouched, Aside DEF Loads
  <2>4. CASE Resume
    BY <1>1, <2>2, <2>4, Resumes
  <2> QED
    BY <2>1, <2>3, <2>4
<1>4. CASE BootStep
  <2>1. /\ g' = g
        /\ \/ pc' = "boot_led" /\ cpu' = [cpu EXCEPT !.mie = FALSE]
           \/ pc = "boot_led" /\ pc' = "app" /\ cpu' = [cpu EXCEPT !.led = FALSE]
    BY <1>4 DEF BootStep
  <2>2. cpu' \in [mie : BOOLEAN, led : BOOLEAN, time : Nat]
    BY <2>1 DEF BootInv, Types
  <2>3. QuietInv' /\ AppStartsQuiet'
    BY <2>1 DEF BootInv, Types, QuietInv, AppStartsQuiet
  <2>4. pc' \in {"boot_led", "app"}
    BY <2>1
  <2> QED
    BY <1>1, <2>1, <2>2, <2>3, <2>4, Untouched, Elsewhere DEF Loads
<1> QED
  BY <1>2, <1>3, <1>4

(* The wait for a key. *)
LEMMA AutoBootStep ==
  ASSUME BootInv, AutoBootWait
  PROVE  BootInv'
<1>1. ram' = ram /\ stream' = stream /\ cpu' = cpu
  BY DEF AutoBootWait
<1>2. CASE LoadFrom("twi", "auto", g)
  <2>1. "twi" \in Media
    BY DEF Media
  <2> QED
    BY <1>1, <1>2, <2>1, LoadStart
<1>3. CASE pc' \in {"wait_key", "wait_time", "console"} /\ g' = g
  BY <1>1, <1>3, Untouched, Aside DEF Loads
<1> QED
  BY <1>2, <1>3 DEF AutoBootWait

(* The console. *)
LEMMA ConsoleStep ==
  ASSUME BootInv, Console
  PROVE  BootInv'
<1>1. ram' = ram /\ stream' = stream /\ pc = "console"
  BY DEF Console
<1>2. PICK cmd \in Keys :
        CASE cmd \in DOMAIN Source -> LoadFrom(Source[cmd], "console", g) /\ UNCHANGED cpu
          [] cmd \in DOMAIN Target ->
              /\ pc' = "store_init"
              /\ job' = [NoJob EXCEPT !.dev = Target[cmd]]
              /\ UNCHANGED <<g, cpu>>
          [] cmd = "e" -> pc' = "boot" /\ UNCHANGED <<g, job, cpu>>
          [] cmd = "x" -> Panic /\ UNCHANGED <<g, job>>
          [] cmd = "r" -> /\ pc' = "reset"
                         /\ cpu' = [cpu EXCEPT !.mie = FALSE]
                         /\ UNCHANGED <<g, job>>
          [] OTHER -> UNCHANGED <<pc, g, job, cpu>>
  BY DEF Console
<1>3. DOMAIN Source = {"u", "t", "l", "c"} /\ DOMAIN Target = {"w", "s"}
  BY DEF Source, Target
<1>4. CASE cmd \in DOMAIN Source
  <2>1. LoadFrom(Source[cmd], "console", g) /\ cpu' = cpu
    BY <1>2, <1>3, <1>4
  <2>2. Source[cmd] \in Media
    BY <1>4 DEF Source, Media
  <2> QED
    BY <1>1, <2>1, <2>2, LoadStart
<1>5. CASE cmd \in DOMAIN Target
  <2>1. /\ pc' = "store_init" /\ job' = [NoJob EXCEPT !.dev = Target[cmd]]
        /\ g' = g /\ cpu' = cpu
    BY <1>2, <1>3, <1>5
  <2>2. job'.dev \in Media
    <3>1. Target[cmd] \in Media
      BY <1>5 DEF Target, Media
    <3> QED
      BY <2>1, <3>1 DEF NoJob
  <2>3. QuietInv' /\ AppStartsQuiet'
    BY <2>1 DEF QuietInv, AppStartsQuiet
  <2> QED
    BY <1>1, <2>1, <2>2, <2>3, Untouched, Elsewhere DEF Loads
<1>6. CASE cmd = "x"
  <2>1. Panic /\ g' = g
    BY <1>2, <1>3, <1>6
  <2> QED
    BY <1>1, <2>1, Untouched, Panics
<1>7. CASE cmd = "r"
  <2>1. pc' = "reset" /\ g' = g /\ cpu' = [cpu EXCEPT !.mie = FALSE]
    BY <1>2, <1>3, <1>7
  <2>2. cpu' \in [mie : BOOLEAN, led : BOOLEAN, time : Nat]
    BY <2>1 DEF BootInv, Types
  <2> QED
    BY <1>1, <2>1, <2>2, Untouched, Aside DEF Loads
<1>8. CASE cmd \notin DOMAIN Source \cup DOMAIN Target \cup {"x", "r"}
  <2>1. pc' \in {"boot", "console"} /\ g' = g /\ cpu' = cpu
    BY <1>1, <1>2, <1>8
  <2> QED
    BY <1>1, <2>1, Untouched, Aside DEF Loads
<1> QED
  BY <1>4, <1>5, <1>6, <1>7, <1>8

(* system_app_store reads the executable and leaves it as it is.           *)
LEMMA StoringStep ==
  ASSUME BootInv, Storing
  PROVE  BootInv'
<1>1. ram' = ram /\ stream' = stream /\ cpu' = cpu
  BY DEF Storing, StoreInit, StoreAsk, StoreErase, StoreWord, StoreDataEnd, StoreHeader,
     StoreReturn
<1>2. cpu' \in [mie : BOOLEAN, led : BOOLEAN, time : Nat]
  BY <1>1, Untouched
<1> DEFINE Stores == {"console", "store_ask", "store_erase", "store_data", "store_header"}
<1>3. ASSUME SameExe, pc' \in Stores PROVE BootInv'
  BY <1>1, <1>2, <1>3, Aside DEF Loads
<1>4. ASSUME NEW a \in Nat, g' = [g EXCEPT !.addr = a] \/ g' = g PROVE SameExe
  BY <1>4, AddrFree DEF BootInv
<1>5. CASE Resume
  BY <1>1, <1>5, Resumes
<1>6. CASE ~Resume /\ StoreInit
  <2>1. PICK err \in BOOLEAN : dev_init(err) /\ pc' = IF err THEN "console" ELSE "store_ask"
    BY <1>6 DEF StoreInit
  <2>2. job.dev \in Media
    BY <1>6 DEF BootInv, HeadInv, StoreInit
  <2> QED
    BY <1>3, <2>1, <2>2, DevInit DEF BootInv
<1>7. CASE ~Resume /\ StoreAsk
  <2>1. pc' = "store_erase" /\ g' = g
    BY <1>7 DEF StoreAsk
  <2> QED
    BY <1>3, <2>1, Untouched
<1>8. CASE StoreErase
  <2>1. /\ pc = "store_erase" /\ (pc' = pc \/ pc' = "store_data")
        /\ \/ g' = [g EXCEPT !.addr = g.addr + SPI_FLASH_SECTOR_SIZE]
           \/ g' = [g EXCEPT !.addr = BIN_OFFSET_DATA]
    BY <1>8 DEF StoreErase
  <2>2. g.addr + SPI_FLASH_SECTOR_SIZE \in Nat /\ BIN_OFFSET_DATA \in Nat
    BY BootImageAssumption, BootloaderAssumption DEF BootInv, Types, Globals, BIN_OFFSET_DATA,
       HeaderWords
  <2> QED
    BY <1>3, <1>4, <2>1, <2>2
<1>9. CASE StoreWord
  <2>1. pc' = "store_data" /\ \E w : \E err \in BOOLEAN : stream_put(w, err)
    BY <1>9 DEF StoreWord
  <2> QED
    BY <1>3, <2>1, StreamWord DEF BootInv
<1>10. CASE StoreDataEnd
  <2>1. pc' = "store_header" /\ g' = [g EXCEPT !.addr = 0]
    BY <1>10 DEF StoreDataEnd
  <2> QED
    BY <1>3, <1>4, <2>1
<1>11. CASE StoreHeader
  <2>1. pc' = "store_header" /\ \E w : \E err \in BOOLEAN : stream_put(w, err)
    BY <1>11 DEF StoreHeader
  <2> QED
    BY <1>3, <2>1, StreamWord DEF BootInv
<1>12. StoreReturn => Resume
  BY DEF StoreReturn
<1> QED
  BY <1>5, <1>6, <1>7, <1>8, <1>9, <1>10, <1>11, <1>12 DEF Storing

-----------------------------------------------------------------------------
(* Every step keeps the invariant. *)
LEMMA BootStepInv ==
  ASSUME BootInv, [Next]_vars
  PROVE  BootInv'
<1>1. CASE Main
  BY <1>1, SetupStep, AutoBootStep, ConsoleStep, LoadInitStep, LoadHeaderStep,
     LoadSignatureStep, LoadWordStep, LoadCheckStep, LoadReturnStep, StoringStep, BootSteps
     DEF Main, Loading
<1>2. CASE TimerInterrupt
  <2>1. /\ pc' = pc /\ g' = g /\ job' = job /\ ram' = ram /\ stream' = stream
        /\ cpu.mie /\ cpu' = [cpu EXCEPT !.led = ~cpu.led]
    BY <1>2 DEF TimerInterrupt
  <2>2. /\ cpu' \in [mie : BOOLEAN, led : BOOLEAN, time : Nat]
        /\ pc \notin {"boot_led", "app"}
    BY <2>1 DEF BootInv, Types, QuietInv
  <2> QED
    BY <2>1, <2>2, Bystander
<1>3. CASE Tick
  <2>1. /\ pc' = pc /\ g' = g /\ job' = job /\ ram' = ram /\ stream' = stream
        /\ cpu' = [cpu EXCEPT !.time = cpu.time + 1] /\ pc \notin {"boot_led", "app"}
    BY <1>3 DEF Tick
  <2>2. cpu' \in [mie : BOOLEAN, led : BOOLEAN, time : Nat]
    BY <2>1 DEF BootInv, Types
  <2> QED
    BY <2>1, <2>2, Bystander
<1>4. CASE PressKey \/ Upload \/ UNCHANGED vars
  <2>1. pc' = pc /\ g' = g /\ job' = job /\ ram' = ram /\ stream' = stream /\ cpu' = cpu
    BY <1>4 DEF PressKey, Upload, vars
  <2> QED
    BY <2>1, Untouched, Bystander
<1> QED
  BY <1>1, <1>2, <1>3, <1>4 DEF Next

(* It holds at reset. *)
LEMMA BootInit == Init => BootInv
<1> SUFFICES ASSUME Init PROVE BootInv
  OBVIOUS
<1>1. /\ pc = "reset" /\ g = [base |-> DEFAULT_EXE_ADDR, size |-> 0, addr |-> 0]
      /\ ram = [a \in Ram |-> 0] /\ cpu = [mie |-> FALSE, led |-> FALSE, time |-> 0]
  BY DEF Init
<1>2. 0 \in Word
  BY WordMaxAssumption DEF Word
<1>3. Types
  BY <1>1, <1>2, BootloaderAssumption DEF Types, Globals
<1> QED
  BY <1>1, <1>3 DEF BootInv, SizeInv, HeadInv, DataInv, ExecutableVerified, QuietInv,
     AppStartsQuiet, Loads

(* The inductive invariant. *)
THEOREM BootInductive == Spec => []BootInv
BY BootInit, BootStepInv, PTL DEF Spec

(* Whenever an executable is available, main memory holds word for word a  *)
(* stream that passed the signature and the checksum: loads that failed,   *)
(* at whatever word and from whatever medium, have not damaged it.         *)
THEOREM BootExecutableVerified == Spec => []ExecutableVerified
<1>1. BootInv => ExecutableVerified
  BY DEF BootInv
<1> QED
  BY <1>1, BootInductive, PTL

(* No timer interrupt reaches the application or turns its LED on.         *)
THEOREM BootAppStartsQuiet == Spec => []AppStartsQuiet
<1>1. BootInv => AppStartsQuiet
  BY DEF BootInv
<1> QED
  BY <1>1, BootInductive, PTL

-----------------------------------------------------------------------------
(* Uploads. *)

(* A host sends nothing behind an executable that the bootloader accepts.  *)
UploadsEnd == \A s \in Uploads : Accepted(s) => Len(s) = HeaderWords + DataWords(s)

(* The stream s is arriving: part of it has been read, in order, and the   *)
(* rest is waiting.                                                        *)
Arriving(s) ==
  /\ Len(s) = Len(job.words) + Len(rx)
  /\ rx \in Seq([kind : {"data"}, v : Word])
  /\ \A k \in 1 .. Len(job.words) : s[k] = job.words[k]
  /\ \A k \in 1 .. Len(rx) : s[Len(job.words) + k] = rx[k].v

KeyOrNothing == rx = <<>> \/ \E v : rx = << [kind |-> "key", v |-> v] >>
Refused == pc = "load_failed" /\ job.dev = "uart"

(* While an upload is loaded, the UART holds words of it and no keys;      *)
(* anywhere else, a key at most, except on the way to the panic handler.   *)
UploadInv ==
  /\ Uploading => \/ job.words = <<>> /\ rx = <<>>
                  \/ \E s \in Uploads : Arriving(s)
  /\ ~Uploading /\ ~Refused /\ pc # "panic" => KeyOrNothing
  /\ Refused /\ ~job.rc => \A s \in Executables : ~IsPrefix(job.words, s)

(* What the bootloader accepts depends on the words the header asks for.   *)
LEMMA AcceptedPrefix ==
  ASSUME NEW words \in Seq(Word), NEW s \in Seq(Word), Len(words) >= HeaderWords,
         Len(words) <= Len(s), \A k \in 1 .. Len(words) : s[k] = words[k],
         Len(words) = HeaderWords + DataWords(words)
  PROVE  Accepted(s) <=> Accepted(words)
<1> DEFINE n == DataWords(words)
<1>1. n \in Nat /\ Len(words) = 4 + n /\ Len(s) >= 4 + n /\ Len(s) \in Nat
  <2>1. words[3] \in Nat
    <3>1. words[3] \in Word
      BY DEF HeaderWords
    <3> QED
      BY <3>1 DEF Word
  <2>2. n \in Nat
    <3> DEFINE x == words[3] + WordBytes - 1
    <3>1. x \in Nat /\ WordBytes \in Nat \ {0}
      BY <2>1, BootImageAssumption
    <3> HIDE DEF x
    <3>2. x \div WordBytes \in Nat
      BY <3>1, Division
    <3> QED
      BY <3>2 DEF x, DataWords
  <2> HIDE DEF n
  <2>3. Len(words) = 4 + n
    BY DEF HeaderWords, n
  <2> QED
    BY <2>2, <2>3
<1>2. s[1] = words[1] /\ s[3] = words[3] /\ s[4] = words[4]
  BY <1>1
<1>3. DataWords(s) = n
  BY <1>2 DEF DataWords
<1> HIDE DEF n
<1>4. SubSeq(s, 4 + 1, 4 + n) = SubSeq(words, 4 + 1, 4 + n)
  <2>1. \A i \in 1 .. n : SubSeq(s, 4 + 1, 4 + n)[i] = SubSeq(words, 4 + 1, 4 + n)[i]
    BY <1>1
  <2>2. /\ SubSeq(s, 4 + 1, 4 + n) \in Seq(Word) /\ Len(SubSeq(s, 4 + 1, 4 + n)) = n
        /\ SubSeq(words, 4 + 1, 4 + n) \in Seq(Word) /\ Len(SubSeq(words, 4 + 1, 4 + n)) = n
    BY <1>1
  <2> DEFINE d == SubSeq(s, 4 + 1, 4 + n)
             e == SubSeq(words, 4 + 1, 4 + n)
  <2>3. /\ d \in Seq(Word) /\ e \in Seq(Word) /\ Len(d) = n /\ Len(e) = n
        /\ \A i \in 1 .. n : d[i] = e[i]
    BY <2>1, <2>2
  <2> HIDE DEF d, e
  <2>4. d = e
    BY <1>1, <2>3
  <2> QED
    BY <2>4 DEF d, e
<1>5. (s[3] + WordBytes - 1) \div WordBytes = n /\ (words[3] + WordBytes - 1) \div WordBytes = n
  BY <1>3 DEF DataWords, n
<1> DEFINE sum(x, d) == (x[4] + Checksum(d) + 1) % WordMax = 0
<1>6. Accepted(s) <=> s[1] = BIN_SIGNATURE /\ sum(s, SubSeq(s, 4 + 1, 4 + n))
  BY <1>1, <1>5 DEF Accepted, HeaderWords
<1>7. Accepted(words) <=> words[1] = BIN_SIGNATURE /\ sum(words, SubSeq(words, 4 + 1, 4 + n))
  BY <1>1, <1>5 DEF Accepted, HeaderWords
<1>8. sum(s, SubSeq(s, 4 + 1, 4 + n)) <=> sum(words, SubSeq(words, 4 + 1, 4 + n))
  BY <1>2, <1>4
<1> HIDE DEF sum
<1> QED
  BY <1>2, <1>6, <1>7, <1>8

(* An executable that image_gen makes is one the bootloader accepts.       *)
LEMMA ExecutablesAccepted ==
  ASSUME NEW s \in Executables
  PROVE  s \in Seq(Word) /\ Accepted(s)
<1>1. PICK elf \in Elfs : /\ elf.magic /\ WholeWords(elf) /\ raw_image(elf) # <<>>
                          /\ s = Words(image_gen(elf, "exe"))
  BY DEF Executables
<1>2. image_gen(elf, "bin") = raw_image(elf)
  BY <1>1, Zenon DEF image_gen
<1> QED
  BY <1>1, <1>2, ImagesAgree

(* An executable begins with the words of each of its prefixes.            *)
LEMMA PrefixWords ==
  ASSUME NEW words \in Seq(Word), NEW s \in Seq(Word), IsPrefix(words, s)
  PROVE  Len(words) <= Len(s) /\ \A k \in 1 .. Len(words) : s[k] = words[k]
<1>1. Len(words) <= Len(s) /\ SubSeq(words, 1, Len(words)) = SubSeq(s, 1, Len(words))
  BY DEF IsPrefix
<1>2. ASSUME NEW k \in 1 .. Len(words) PROVE s[k] = words[k]
  <2>1. SubSeq(words, 1, Len(words))[k] = words[k] /\ SubSeq(s, 1, Len(words))[k] = s[k]
    BY <1>1
  <2> QED
    BY <1>1, <2>1
<1> QED
  BY <1>1, <1>2

(* Steps that end with nothing but a key in the receiver.                  *)
LEMMA Idle ==
  ASSUME ~Uploading', ~Refused', KeyOrNothing'
  PROVE  UploadInv'
BY DEF UploadInv

(* A key is left alone or taken.                                           *)
LEMMA KeyTaken ==
  ASSUME KeyOrNothing, rx' = rx \/ (rx # <<>> /\ rx' = Tail(rx))
  PROVE  KeyOrNothing' /\ (rx # <<>> => Tail(rx) = <<>>)
<1>1. CASE rx = <<>>
  BY <1>1 DEF KeyOrNothing
<1>2. CASE rx # <<>>
  <2>1. PICK v : rx = << [kind |-> "key", v |-> v] >>
    BY <1>2 DEF KeyOrNothing
  <2>2. Tail(rx) = <<>>
    BY <2>1
  <2>3. rx' = rx \/ rx' = <<>>
    BY <2>2
  <2>4. CASE rx' = rx
    BY <2>1, <2>4 DEF KeyOrNothing
  <2>5. CASE rx' = <<>>
    BY <2>5 DEF KeyOrNothing
  <2> QED
    BY <2>2, <2>3, <2>4, <2>5
<1> QED
  BY <1>1, <1>2

(* A load from another medium than the UART, and the console.              *)
LEMMA LoadsElsewhere ==
  ASSUME KeyOrNothing', NEW dev \in {"twi", "spi", "sd"}, NEW ret, LoadFrom(dev, ret, g)
  PROVE  UploadInv'
<1>1. job'.dev = dev /\ pc' = "load_init"
  BY DEF LoadFrom, NoJob
<1> QED
  BY <1>1, Idle DEF Uploading, Refused

LEMMA ResumesIdle ==
  ASSUME KeyOrNothing', Resume
  PROVE  UploadInv'
<1>1. CASE job.ret = "auto" /\ job.dev \in DOMAIN NextMedium
  <2>1. NextMedium[job.dev] \in {"twi", "spi", "sd"}
    BY <1>1 DEF NextMedium
  <2>2. LoadFrom(NextMedium[job.dev], "auto", g)
    BY <1>1 DEF Resume
  <2> QED
    BY <2>1, <2>2, LoadsElsewhere
<1>2. CASE ~(job.ret = "auto" /\ job.dev \in DOMAIN NextMedium)
  <2>1. pc' = "console"
    BY <1>2 DEF Resume
  <2> QED
    BY <2>1, Idle DEF Uploading, Refused
<1> QED
  BY <1>1, <1>2

(* Places where no load is in progress.                                    *)
LEMMA IdleAt ==
  ASSUME KeyOrNothing', pc' \notin Loads \cup {"load_failed"}
  PROVE  UploadInv'
BY Idle DEF Uploading, Refused, Loads

(* On the way to the panic handler nothing is promised.                    *)
LEMMA PanicKeeps ==
  ASSUME pc' = "panic"
  PROVE  UploadInv'
BY DEF UploadInv, Uploading, Refused

(* The wait for a key and the console.                                     *)
LEMMA MainUpload ==
  ASSUME UploadInv, system_setup \/ AutoBootWait \/ Console
  PROVE  UploadInv'
<1>1. KeyOrNothing
  <2>1. pc \in {"reset", "wait_key", "wait_time", "console"}
    BY DEF system_setup, AutoBootWait, Console
  <2> QED
    BY <2>1 DEF UploadInv, Uploading, Refused
<1>2. rx' = rx \/ (rx # <<>> /\ rx' = Tail(rx))
  BY DEF system_setup, AutoBootWait, Console, uart_getc
<1>3. KeyOrNothing' /\ (rx # <<>> => Tail(rx) = <<>>)
  BY <1>1, <1>2, KeyTaken
<1>4. CASE system_setup
  BY <1>3, <1>4, IdleAt DEF system_setup, Loads
<1>5. CASE AutoBootWait
  <2>1. CASE LoadFrom("twi", "auto", g)
    BY <1>3, <2>1, LoadsElsewhere
  <2>2. CASE pc' \in {"wait_key", "wait_time", "console"}
    BY <1>3, <2>2, IdleAt DEF Loads
  <2> QED
    BY <1>5, <2>1, <2>2 DEF AutoBootWait
<1>6. CASE Console
  <2>1. pc = "console" /\ rx' = <<>>
    BY <1>3, <1>6 DEF Console, uart_getc
  <2>2. PICK cmd \in Keys :
          CASE cmd \in DOMAIN Source -> LoadFrom(Source[cmd], "console", g) /\ UNCHANGED cpu
            [] cmd \in DOMAIN Target ->
                /\ pc' = "store_init"
                /\ job' = [NoJob EXCEPT !.dev = Target[cmd]]
                /\ UNCHANGED <<g, cpu>>
            [] cmd = "e" -> pc' = "boot" /\ UNCHANGED <<g, job, cpu>>
            [] cmd = "x" -> Panic /\ UNCHANGED <<g, job>>
            [] cmd = "r" -> /\ pc' = "reset"
                           /\ cpu' = [cpu EXCEPT !.mie = FALSE]
                           /\ UNCHANGED <<g, job>>
            [] OTHER -> UNCHANGED <<pc, g, job, cpu>>
    BY <1>6 DEF Console
  <2>3. DOMAIN Source = {"u", "t", "l", "c"} /\ DOMAIN Target = {"w", "s"}
    BY DEF Source, Target
  <2>4. CASE cmd \in DOMAIN Source
    <3>1. LoadFrom(Source[cmd], "console", g)
      BY <2>2, <2>3, <2>4
    <3>2. /\ pc' = "load_init"
          /\ job' = [dev |-> Source[cmd], ret |-> "console", words |-> <<>>, i |-> 0, sum |-> 0,
                     rc |-> FALSE]
      BY <3>1 DEF LoadFrom, NoJob
    <3>3. job'.words = <<>> /\ ~job'.rc
      BY <3>2
    <3> QED
      BY <1>3, <2>1, <3>2, <3>3 DEF UploadInv, Refused
  <2>5. CASE cmd \notin DOMAIN Source
    <3>1. pc' \in {"store_init", "boot", "panic", "reset", "console"}
      BY <2>1, <2>2, <2>3, <2>5 DEF Panic
    <3> QED
      BY <1>3, <3>1, IdleAt DEF Loads
  <2> QED
    BY <2>4, <2>5
<1> QED
  BY <1>4, <1>5, <1>6

(* Storing and booting.                                                    *)
LEMMA OthersUpload ==
  ASSUME UploadInv, Storing \/ Boot \/ BootAsk \/ BootStep
  PROVE  UploadInv'
<1>1. KeyOrNothing
  <2>1. pc \in {"store_init", "store_ask", "store_erase", "store_data", "store_header", "boot",
                "boot_ask", "boot_irq", "boot_led"}
    BY DEF Storing, StoreInit, StoreAsk, StoreErase, StoreWord, StoreDataEnd, StoreHeader,
       StoreReturn, Boot, BootAsk, BootStep
  <2> QED
    BY <2>1 DEF UploadInv, Uploading, Refused
<1>2. rx' = rx \/ (rx # <<>> /\ rx' = Tail(rx))
  BY DEF Storing, StoreInit, StoreAsk, StoreErase, StoreWord, StoreDataEnd, StoreHeader,
     StoreReturn, Boot, BootAsk, BootStep, uart_getc
<1>3. KeyOrNothing'
  BY <1>1, <1>2, KeyTaken
<1>4. CASE Resume
  BY <1>3, <1>4, ResumesIdle
<1>5. CASE pc' \in {"console", "store_ask", "store_erase", "store_data", "store_header",
                    "boot_ask", "boot_irq", "boot_led", "app"}
  BY <1>3, <1>5, IdleAt DEF Loads
<1>6. CASE Storing
  BY <1>4, <1>5, <1>6 DEF Storing, StoreInit, StoreAsk, StoreErase, StoreWord, StoreDataEnd,
     StoreHeader, StoreReturn
<1>7. CASE Boot \/ BootAsk \/ BootStep
  BY <1>4, <1>5, <1>7 DEF Boot, BootAsk, BootStep
<1> QED
  BY <1>6, <1>7

(* A word of the upload is taken from the receiver.                        *)
LEMMA WordArrives ==
  ASSUME BootInv, UploadInv, Uploading, pc \in {"load_header", "load_data"},
         NEW w \in Word, NEW err \in BOOLEAN, stream_get(w, err),
         job'.words = Append(job.words, w)
  PROVE  \E s \in Uploads : Arriving(s)'
<1>1. rx # <<>> /\ w = Head(rx).v /\ rx' = Tail(rx)
  BY DEF stream_get, uart_stream_get, uart_getc, Uploading
<1>2. PICK s \in Uploads : Arriving(s)
  BY <1>1 DEF UploadInv
<1> DEFINE n == Len(job.words)
           m == Len(rx)
<1>3. job.words \in Seq(Word) /\ n \in Nat
  BY DEF BootInv, HeadInv, Jobs, Uploading, Loads
<1>4. rx \in Seq([kind : {"data"}, v : Word]) /\ m \in Nat /\ m # 0
  BY <1>1, <1>2 DEF Arriving
<1>5. Len(Append(job.words, w)) = n + 1 /\ Len(Tail(rx)) = m - 1
  BY <1>3, <1>4
<1>6. Tail(rx) \in Seq([kind : {"data"}, v : Word])
  BY <1>1, <1>4
<1>7. \A k \in 1 .. n + 1 : Append(job.words, w)[k] = IF k = n + 1 THEN w ELSE job.words[k]
  BY <1>3
<1>8. /\ \A k \in 1 .. m - 1 : Tail(rx)[k] = rx[k + 1]
      /\ Head(rx) = rx[1]
  BY <1>1, <1>4
<1>9. /\ Len(s) = n + m
      /\ \A k \in 1 .. n : s[k] = job.words[k]
      /\ \A k \in 1 .. m : s[n + k] = rx[k].v
  BY <1>2 DEF Arriving
<1> HIDE DEF n, m
<1>10. s[n + 1] = w
  BY <1>1, <1>4, <1>8, <1>9
<1>11. \A k \in 1 .. n + 1 : s[k] = Append(job.words, w)[k]
  <2> DEFINE more == Append(job.words, w)
  <2>1. \A k \in 1 .. n + 1 : more[k] = IF k = n + 1 THEN w ELSE job.words[k]
    BY <1>7
  <2> HIDE DEF more
  <2> SUFFICES ASSUME NEW k \in 1 .. n + 1 PROVE s[k] = more[k]
    BY DEF more
  <2>2. k = n + 1 \/ k \in 1 .. n
    BY <1>3
  <2> QED
    BY <1>9, <1>10, <2>1, <2>2
<1>12. \A k \in 1 .. m - 1 : s[(n + 1) + k] = Tail(rx)[k].v
  <2> SUFFICES ASSUME NEW k \in 1 .. m - 1 PROVE s[(n + 1) + k] = Tail(rx)[k].v
    OBVIOUS
  <2>1. k + 1 \in 1 .. m /\ (n + 1) + k = n + (k + 1)
    BY <1>3, <1>4
  <2> QED
    BY <1>8, <1>9, <2>1
<1>13. Len(s) = (n + 1) + (m - 1)
  BY <1>3, <1>4, <1>9
<1>14. Arriving(s)'
  BY <1>1, <1>5, <1>6, <1>11, <1>12, <1>13 DEF Arriving
<1> QED
  BY <1>1, <1>2, <1>14

(* Up to the data. *)
LEMMA HeaderUpload ==
  ASSUME BootInv, UploadInv, LoadInit \/ LoadHeader \/ LoadSignature
  PROVE  UploadInv'
<1>1. /\ pc \in {"load_init", "load_header", "load_signature"} /\ job \in Jobs
      /\ job'.dev = job.dev /\ pc' \in Loads \cup {"load_failed"}
  BY DEF BootInv, HeadInv, LoadInit, LoadHeader, LoadSignature, Jobs, Loads
<1>2. CASE job.dev # "uart"
  <2>1. rx' = rx
    BY <1>2 DEF BootInv, HeadInv, Jobs, Media, Loads, LoadInit, LoadHeader, LoadSignature,
       stream_get, spi_flash_stream_get, twi_flash_stream_get, sdcard_stream_get
  <2>2. KeyOrNothing'
    BY <1>1, <1>2, <2>1 DEF UploadInv, Uploading, Refused, KeyOrNothing
  <2> QED
    BY <1>1, <1>2, <2>2, Idle DEF Uploading, Refused
<1>3. CASE job.dev = "uart"
  <2>1. Uploading
    BY <1>1, <1>3 DEF UploadInv, Uploading
  <2>2. CASE LoadInit
    <3>1. pc' = "load_header" /\ job' = job /\ rx' = rx
      BY <1>3, <2>2 DEF LoadInit, dev_init, uart_setup
    <3> QED
      BY <2>1, <3>1 DEF UploadInv, Arriving, Uploading, Refused
  <2>3. CASE LoadHeader
    <3>1. PICK w \in Word, err \in BOOLEAN :
            /\ stream_get(w, err)
            /\ job' = [job EXCEPT !.words = Append(job.words, w), !.rc = job.rc \/ err]
      BY <2>3 DEF LoadHeader
    <3>2. job'.words = Append(job.words, w) /\ job'.rc = (job.rc \/ err)
      BY <1>1, <3>1 DEF Jobs
    <3>3. \E s \in Uploads : Arriving(s)'
      BY <2>1, <2>3, <3>1, <3>2, WordArrives DEF LoadHeader
    <3>4. pc' \in {"load_header", "load_signature"}
      BY <2>3 DEF LoadHeader
    <3> QED
      BY <1>1, <1>3, <2>1, <3>2, <3>3, <3>4 DEF UploadInv, Uploading, Refused
  <2>4. CASE LoadSignature
    <3>1. /\ job'.words = job.words /\ job'.rc = job.rc /\ rx' = rx
      BY <1>1, <2>4 DEF LoadSignature, Jobs
    <3>2. Refused' => \A s \in Executables : ~IsPrefix(job'.words, s)
      <4> SUFFICES ASSUME Refused', NEW s \in Executables, IsPrefix(job.words, s) PROVE FALSE
        BY <3>1
      <4>1. job.words[1] # BIN_SIGNATURE /\ job.words \in Seq(Word) /\ Len(job.words) = 4
        BY <1>1, <2>4 DEF LoadSignature, Refused, BootInv, HeadInv, HeaderWords, Jobs
      <4>2. s \in Seq(Word) /\ s[1] = BIN_SIGNATURE
        BY ExecutablesAccepted DEF Accepted
      <4>3. s[1] = job.words[1]
        BY <4>1, <4>2, PrefixWords
      <4> QED
        BY <4>1, <4>2, <4>3
    <3>3. CASE pc' = "load_failed"
      <4>1. Refused' /\ ~Uploading'
        BY <1>1, <1>3, <3>3 DEF Uploading, Refused
      <4> QED
        BY <3>2, <4>1 DEF UploadInv
    <3>4. CASE pc' # "load_failed"
      BY <1>1, <1>3, <2>1, <3>1, <3>4 DEF UploadInv, Arriving, Uploading, Refused, Loads
    <3> QED
      BY <3>3, <3>4
  <2> QED
    BY <2>2, <2>3, <2>4
<1> QED
  BY <1>2, <1>3

(* The data. *)
LEMMA DataUpload ==
  ASSUME BootInv, UploadInv, LoadWord
  PROVE  UploadInv'
<1>1. pc = "load_data" /\ job \in Jobs
  BY DEF BootInv, HeadInv, LoadWord, Loads
<1>2. PICK w \in Word, err \in BOOLEAN :
        /\ stream_get(w, err)
        /\ \/ /\ job' = [job EXCEPT !.words = Append(job.words, w), !.i = job.i + WordBytes,
                                    !.sum = (job.sum + w) % WordMax, !.rc = err]
              /\ pc' = pc
           \/ Panic
  BY DEF LoadWord
<1>3. CASE Panic
  BY <1>3, PanicKeeps DEF Panic
<1>4. CASE ~Panic
  <2>1. pc' = "load_data" /\ job'.words = Append(job.words, w) /\ job'.rc = err
        /\ job'.dev = job.dev
    BY <1>1, <1>2, <1>4 DEF Jobs
  <2>2. CASE job.dev = "uart"
    <3>1. Uploading
      BY <1>1, <2>2 DEF Uploading
    <3>2. \E s \in Uploads : Arriving(s)'
      BY <1>1, <1>2, <2>1, <3>1, WordArrives
    <3> QED
      BY <2>1, <2>2, <3>2 DEF UploadInv, Uploading, Refused
  <2>3. CASE job.dev # "uart"
    <3>1. rx' = rx
      BY <1>1, <1>2, <2>3 DEF Jobs, Media, stream_get, spi_flash_stream_get,
         twi_flash_stream_get, sdcard_stream_get
    <3>2. KeyOrNothing'
      BY <1>1, <2>3, <3>1 DEF UploadInv, Uploading, Refused, KeyOrNothing
    <3> QED
      BY <2>1, <2>3, <3>2, Idle DEF Uploading, Refused
  <2> QED
    BY <2>2, <2>3
<1> QED
  BY <1>3, <1>4

(* The checksum: an upload that passes has been read to its end, and what  *)
(* fails is not the beginning of an executable.                            *)
LEMMA CheckUpload ==
  ASSUME UploadsEnd, BootInv, UploadInv, LoadCheck
  PROVE  UploadInv'
<1>1. pc = "load_data" /\ job \in Jobs /\ job.words \in Seq(Word) /\ job' = job /\ rx' = rx
      /\ pc' \in {"load_failed", "load_ok"}
  BY DEF BootInv, HeadInv, LoadCheck, Loads, Jobs
<1>2. CASE job.dev # "uart"
  <2>1. KeyOrNothing'
    BY <1>1, <1>2 DEF UploadInv, Uploading, Refused, KeyOrNothing
  <2> QED
    BY <1>1, <1>2, <2>1, Idle DEF Uploading, Refused
<1>3. CASE job.dev = "uart" /\ job.rc
  <2>1. pc' = "load_failed"
    BY <1>3 DEF LoadCheck
  <2>2. Refused' /\ job'.rc /\ ~Uploading'
    BY <1>1, <1>3, <2>1 DEF Uploading, Refused
  <2> QED
    BY <2>2 DEF UploadInv
<1>4. CASE job.dev = "uart" /\ ~job.rc
  <2>1. Uploading
    BY <1>1, <1>4 DEF UploadInv, Uploading
  <2>2. job.i >= job.words[3]
        /\ (pc' = "load_failed" <=> (job.sum + 1) % WordMax # 0)
    BY <1>4 DEF LoadCheck
  <2>3. /\ Len(job.words) >= HeaderWords
        /\ Len(job.words) = HeaderWords + DataWords(job.words)
        /\ Accepted(job.words) <=> (job.sum + 1) % WordMax = 0
    BY <1>1, <2>2, AllThere
  <2>4. CASE pc' = "load_failed"
    <3>1. ASSUME NEW s \in Executables, IsPrefix(job.words, s) PROVE FALSE
      <4>1. s \in Seq(Word) /\ Accepted(s)
        BY <3>1, ExecutablesAccepted
      <4>2. Len(job.words) <= Len(s) /\ \A k \in 1 .. Len(job.words) : s[k] = job.words[k]
        BY <1>1, <3>1, <4>1, PrefixWords
      <4>3. Accepted(job.words)
        BY <1>1, <2>3, <4>1, <4>2, AcceptedPrefix
      <4> QED
        BY <2>2, <2>3, <2>4, <4>3
    <3>2. \A s \in Executables : ~IsPrefix(job'.words, s)
      BY <1>1, <3>1
    <3>3. Refused' /\ ~Uploading'
      BY <1>1, <1>4, <2>4 DEF Uploading, Refused
    <3> QED
      BY <3>2, <3>3 DEF UploadInv
  <2>5. CASE pc' = "load_ok"
    <3>1. PICK s \in Uploads : Arriving(s)
      BY <2>1, <2>3 DEF UploadInv, HeaderWords
    <3>2. s \in Seq(Word)
      BY BootloaderAssumption
    <3>3. /\ Len(s) = Len(job.words) + Len(rx) /\ Len(rx) \in Nat /\ Len(job.words) \in Nat
          /\ \A k \in 1 .. Len(job.words) : s[k] = job.words[k]
      BY <1>1, <3>1 DEF Arriving
    <3>4. Accepted(s)
      BY <1>1, <2>2, <2>3, <2>5, <3>2, <3>3, AcceptedPrefix
    <3>5. DataWords(s) = DataWords(job.words)
      <4>1. s[3] = job.words[3]
        BY <2>3, <3>3 DEF HeaderWords
      <4> QED
        BY <4>1 DEF DataWords
    <3>6. Len(s) = Len(job.words)
      BY <2>3, <3>1, <3>4, <3>5 DEF UploadsEnd
    <3>7. rx = <<>>
      <4>1. Len(rx) = 0
        BY <3>3, <3>6
      <4> QED
        BY <3>1, <4>1 DEF Arriving
    <3> QED
      BY <1>1, <2>5, <3>7, IdleAt DEF KeyOrNothing, Loads
  <2> QED
    BY <1>1, <2>4, <2>5
<1> QED
  BY <1>2, <1>3, <1>4

(* system_app_load returns: after a refused upload, to the panic handler.  *)
LEMMA ReturnUpload ==
  ASSUME UploadInv, LoadReturn
  PROVE  UploadInv'
<1>1. rx' = rx /\ pc \in {"load_failed", "load_ok"}
  BY DEF LoadReturn
<1>2. CASE Refused
  <2>1. pc' = "panic"
    BY <1>2 DEF LoadReturn, LoadFailed, Panic, Refused
  <2> QED
    BY <2>1, PanicKeeps
<1>3. CASE ~Refused
  <2>1. KeyOrNothing'
    BY <1>1, <1>3 DEF UploadInv, Uploading, KeyOrNothing
  <2>2. Resume \/ pc' = "boot"
    BY <1>3 DEF LoadReturn, LoadFailed, Refused
  <2> QED
    BY <2>1, <2>2, ResumesIdle, IdleAt DEF Loads
<1> QED
  BY <1>2, <1>3

(* The user presses a key, the host sends an upload.                       *)
LEMMA OutsideUpload ==
  ASSUME UploadInv, PressKey \/ Upload
  PROVE  UploadInv'
<1>1. CASE PressKey
  <2>1. PICK v \in Keys : rx' = Append(rx, [kind |-> "key", v |-> v])
    BY <1>1 DEF PressKey
  <2>2. ~Uploading /\ pc # "panic" /\ Len(rx) < 1 /\ pc' = pc /\ job' = job
    BY <1>1 DEF PressKey
  <2>3. CASE Refused
    BY <2>2, <2>3 DEF UploadInv, Uploading, Refused
  <2>4. CASE ~Refused
    <3>1. rx = <<>>
      BY <2>2, <2>4 DEF UploadInv, KeyOrNothing
    <3>2. rx' = << [kind |-> "key", v |-> v] >>
      BY <2>1, <3>1
    <3>3. KeyOrNothing'
      BY <3>2 DEF KeyOrNothing
    <3> QED
      BY <2>2, <2>4, <3>3, Idle DEF Uploading, Refused
  <2> QED
    BY <2>3, <2>4
<1>2. CASE Upload
  <2>1. PICK s \in Uploads : rx' = [k \in DOMAIN s |-> [kind |-> "data", v |-> s[k]]]
    BY <1>2 DEF Upload
  <2>2. Uploading /\ pc' = pc /\ job' = job /\ job.words = <<>> /\ pc = "load_header"
    BY <1>2 DEF Upload, Uploading
  <2>3. s \in Seq(Word)
    BY BootloaderAssumption
  <2>4. DOMAIN s = 1 .. Len(s) /\ Len(s) \in Nat /\ \A k \in 1 .. Len(s) : s[k] \in Word
    BY <2>3
  <2>5. rx' \in Seq([kind : {"data"}, v : Word]) /\ Len(rx') = Len(s)
        /\ \A k \in 1 .. Len(s) : rx'[k].v = s[k]
    BY <2>1, <2>4
  <2>6. Arriving(s)'
    BY <2>2, <2>4, <2>5 DEF Arriving
  <2>7. \E t \in Uploads : Arriving(t)'
    BY <2>6
  <2> QED
    BY <2>2, <2>7 DEF UploadInv, Uploading, Refused
<1> QED
  BY <1>1, <1>2

(* Every step keeps it. *)
LEMMA UploadStepInv ==
  ASSUME UploadsEnd, BootInv, UploadInv, [Next]_vars
  PROVE  UploadInv'
<1>1. CASE Main
  BY <1>1, MainUpload, OthersUpload, HeaderUpload, DataUpload, CheckUpload, ReturnUpload
     DEF Main, Loading
<1>2. CASE PressKey \/ Upload
  BY <1>2, OutsideUpload
<1>3. CASE TimerInterrupt \/ Tick \/ UNCHANGED vars
  <2>1. pc' = pc /\ job' = job /\ rx' = rx
    BY <1>3 DEF TimerInterrupt, Tick, vars
  <2> QED
    BY <2>1 DEF UploadInv, Arriving, KeyOrNothing, Uploading, Refused
<1> QED
  BY <1>1, <1>2, <1>3 DEF Next

(* As long as hosts send nothing behind an executable, an upload made by   *)
(* image_gen is not refused unless the receiver has overflown, and none of *)
(* its words is ever taken for a command: the console and the prompts find *)
(* keys only.                                                              *)
THEOREM BootUploadDecided == ASSUME UploadsEnd PROVE Spec => []UploadDecided
<1>1. Init => UploadInv
  BY DEF Init, UploadInv, Uploading, Refused, KeyOrNothing
<1>2. BootInv /\ UploadInv /\ [Next]_vars => UploadInv'
  BY UploadStepInv
<1>3. UploadInv => UploadDecided
  <2>1. KeyOrNothing => \A k \in DOMAIN rx : rx[k].kind = "key"
    BY DEF KeyOrNothing
  <2> QED
    BY <2>1 DEF UploadInv, UploadDecided, Uploading, Refused
<1> QED
  BY <1>1, <1>2, <1>3, BootInductive, PTL DEF Spec

-----------------------------------------------------------------------------
(***************************************************************************)
(* Stores: what system_app_store has done to the flash at each stage.      *)
(***************************************************************************)

(* Header and data of every image that fits main memory fit a flash.       *)
ImageFits == HeaderWords + RamBytes \div WordBytes <= FlashBytes \div WordBytes

Cells(dev) == IF dev = "spi" THEN spi.mem ELSE twi
SectorCells == SPI_FLASH_SECTOR_SIZE \div WordBytes
SizeWords == (g.size + WordBytes - 1) \div WordBytes

(* An executable that is available, or arrives, lies inside main memory.   *)
RoomInv ==
  /\ pc = "load_data" /\ Len(job.words) > HeaderWords =>
       g.base \div WordBytes + Len(job.words) - HeaderWords <= RamBytes \div WordBytes
  /\ g.size # 0 =>
       /\ g.base \in Word /\ g.size \in Word
       /\ g.base \div WordBytes + SizeWords <= RamBytes \div WordBytes

FlashTypes ==
  /\ twi \in [Flash -> Word]
  /\ spi \in [mem : [Flash -> Word], wel : BOOLEAN, present : BOOLEAN]

(* The device of a store in progress and what is known of the other locals.*)
Stores == {"store_init", "store_ask", "store_erase", "store_data", "store_header"}
StoreJobs == [dev : {"twi", "spi"}, ret : {"console", "auto"}, words : Seq(Word), i : Nat,
              sum : Word, rc : BOOLEAN]
TargetInv ==
  /\ pc \in Stores => job \in StoreJobs
  /\ pc = "store_init" => job = [NoJob EXCEPT !.dev = job.dev]
  /\ pc \in Stores \ {"store_init"} => g.size # 0 /\ (job.dev = "spi" => spi.present)
  /\ pc \in {"store_data", "store_header"} => stored.dev = "none"

(* A cell takes any word if it can be overwritten or has been erased.      *)
Ready(c) == job.dev = "twi" \/ spi.mem[c] = Erased

(* The sectors that spi_flash_erase goes through hold header and data.     *)
Erasable ==
  job.dev = "twi" \/ (HeaderWords + SizeWords) * WordBytes <= num_sectors * SPI_FLASH_SECTOR_SIZE

(* The sectors before the current one have been erased.                    *)
EraseInv ==
  pc \in {"store_ask", "store_erase"} =>
    /\ job.words = Header(g.base, g.size, 0) /\ job.sum = 0 /\ ~job.rc
    /\ g.addr = job.i * SPI_FLASH_SECTOR_SIZE
    /\ pc = "store_ask" => job.i = 0
    /\ \A c \in Flash : c < job.i * SectorCells => Ready(c)

(* The data so far are in the flash behind the header's space; that space  *)
(* and the cells of the words to come can be programmed.                   *)
ProgramInv ==
  pc = "store_data" =>
    /\ Len(job.words) >= HeaderWords /\ job.words[1] = BIN_SIGNATURE
    /\ job.words[2] = g.base /\ job.words[3] = g.size
    /\ job.i = WordBytes * (Len(job.words) - HeaderWords)
    /\ job.i < g.size + WordBytes
    /\ g.addr = WordBytes * Len(job.words)
    /\ job.sum = Checksum(Data(job.words))
    /\ ~job.rc /\ Erasable =>
         /\ \A k \in HeaderWords + 1 .. Len(job.words) : Cells(job.dev)[k - 1] = job.words[k]
         /\ \A c \in Flash :
              c < HeaderWords \/ (Len(job.words) <= c /\ c < HeaderWords + SizeWords) => Ready(c)

(* The data are there, and the header so far.                              *)
HeaderInv ==
  pc = "store_header" =>
    /\ Len(job.words) >= HeaderWords /\ job.words[1] = BIN_SIGNATURE
    /\ job.words[2] = g.base /\ job.words[3] = g.size
    /\ job.words[4] = Complement(Checksum(Data(job.words)))
    /\ job.i <= HeaderWords /\ g.addr = WordBytes * job.i
    /\ ~job.rc => Len(job.words) = HeaderWords + SizeWords
    /\ ~job.rc /\ Erasable =>
         /\ \A k \in 1 .. Len(job.words) :
              k <= job.i \/ HeaderWords < k => Cells(job.dev)[k - 1] = job.words[k]
         /\ \A c \in Flash : job.i <= c /\ c < HeaderWords => Ready(c)

(* Whatever has been stored is still there.                                *)
StoredInv ==
  stored.dev # "none" =>
    /\ stored.dev \in {"twi", "spi"} /\ stored.words \in Seq(Word) /\ Accepted(stored.words)
    /\ Len(stored.words) <= FlashBytes \div WordBytes
    /\ stored.dev = "twi" \/ FitsErased(stored.words) =>
         \A k \in 1 .. Len(stored.words) : Cells(stored.dev)[k - 1] = stored.words[k]

StoreInv ==
  /\ RoomInv /\ FlashTypes /\ TargetInv
  /\ EraseInv /\ ProgramInv /\ HeaderInv /\ StoredInv

-----------------------------------------------------------------------------
(* The cells of a flash. *)

(* Sizes in bytes and in words. *)
LEMMA FlashSize ==
  /\ WordBytes \in Nat \ {0} /\ FlashBytes \div WordBytes \in Nat \ {0}
  /\ Cardinality(Flash) = FlashBytes \div WordBytes
  /\ RamBytes \div WordBytes \in Nat
  /\ SectorCells \in Nat /\ SPI_FLASH_SECTOR_SIZE = WordBytes * SectorCells
<1>1. /\ WordBytes \in Nat \ {0} /\ FlashBytes \in Nat \ {0} /\ RamBytes \in Nat
      /\ SPI_FLASH_SECTOR_SIZE \in Nat
      /\ FlashBytes % WordBytes = 0 /\ SPI_FLASH_SECTOR_SIZE % WordBytes = 0
  BY BootImageAssumption, BootloaderAssumption
<1> DEFINE n == FlashBytes \div WordBytes
<1>2. n \in Nat /\ FlashBytes = WordBytes * n + (FlashBytes % WordBytes)
  BY <1>1, Division
<1>3. SectorCells \in Nat
      /\ SPI_FLASH_SECTOR_SIZE = WordBytes * SectorCells + (SPI_FLASH_SECTOR_SIZE % WordBytes)
  BY <1>1, Division DEF SectorCells
<1>4. RamBytes \div WordBytes \in Nat
  BY <1>1, Division
<1>5. SPI_FLASH_SECTOR_SIZE = WordBytes * SectorCells
  BY <1>1, <1>3
<1> HIDE DEF n
<1>6. n # 0
  <2>1. WordBytes * 0 = 0
    BY <1>1
  <2> QED
    BY <1>1, <1>2, <2>1
<1>7. Cardinality(0 .. n - 1) = n
  <2>1. Cardinality(0 .. n - 1) = IF 0 > n - 1 THEN 0 ELSE n - 1 - 0 + 1
    BY <1>2, FS_Interval
  <2> QED
    BY <1>2, <1>6, <2>1
<1> QED
  BY <1>1, <1>2, <1>3, <1>4, <1>5, <1>6, <1>7 DEF Flash, n

(* Words lie one behind the other, from address 0 on. *)
LEMMA CellAt ==
  ASSUME NEW k \in Nat
  PROVE  Cell(WordBytes * k) \in Flash /\ (k \in Flash => Cell(WordBytes * k) = k)
<1> DEFINE n == FlashBytes \div WordBytes
<1>1. WordBytes \in Nat \ {0} /\ n \in Nat \ {0} /\ Cardinality(Flash) = n /\ Flash = 0 .. n - 1
  BY FlashSize DEF Flash
<1> HIDE DEF n
<1>2. Cell(WordBytes * k) = k % n
  <2>1. (WordBytes * k + 0) \div WordBytes = k
    <3>1. 0 \in 0 .. WordBytes - 1
      BY <1>1
    <3> QED
      BY <1>1, <3>1, Quotient
  <2>2. WordBytes * k + 0 = WordBytes * k
    <3>1. WordBytes * k \in Nat
      BY <1>1, Z3
    <3> QED
      BY <3>1
  <2> QED
    BY <1>1, <2>1, <2>2 DEF Cell
<1>3. k % n \in 0 .. n - 1
  BY <1>1, Division
<1>4. ASSUME k \in 0 .. n - 1 PROVE k % n = k
  <2>1. (n * 0 + k) % n = k
    BY <1>1, <1>4, Quotient
  <2>2. n * 0 + k = k
    BY <1>1
  <2> QED
    BY <2>1, <2>2
<1> QED
  BY <1>1, <1>2, <1>3, <1>4

(* What one call of stream_put() for the word of cell k has done.          *)
Put(k, w, err) ==
  /\ g' \in Globals /\ g'.base = g.base /\ g'.size = g.size /\ g'.addr = WordBytes * (k + 1)
  /\ FlashTypes' /\ spi'.present = spi.present
  /\ \A c \in Flash : c # k => spi'.mem[c] = spi.mem[c] /\ twi'[c] = twi[c]
  /\ job.dev = "spi" => twi' = twi
  /\ job.dev = "twi" => spi' = spi
  /\ ~err /\ Ready(k) => /\ job.dev = "spi" => spi'.mem[k] = w
                         /\ job.dev = "twi" => twi'[k] = w

(* It does. *)
LEMMA PutWord ==
  ASSUME FlashTypes, g \in Globals, job.dev \in {"twi", "spi"}, job.dev = "spi" => spi.present,
         NEW k \in Flash, g.addr = WordBytes * k, NEW w \in Word, NEW err \in BOOLEAN,
         stream_put(w, err)
  PROVE  Put(k, w, err)
<1>1. k \in Nat /\ Cell(g.addr) = k
  <2>1. k \in Nat
    BY FlashSize DEF Flash
  <2> QED
    BY <2>1, CellAt
<1>2. g' \in Globals /\ g'.base = g.base /\ g'.size = g.size /\ g'.addr = WordBytes * (k + 1)
  <2>1. g' = [g EXCEPT !.addr = g.addr + WordBytes]
    BY DEF stream_put, NextWord
  <2>2. WordBytes * (k + 1) = WordBytes * k + WordBytes /\ WordBytes * k \in Nat
    BY <1>1, FlashSize, Z3
  <2>3. g.addr + WordBytes \in Nat /\ g.addr + WordBytes = WordBytes * (k + 1)
    BY <2>2, FlashSize
  <2> QED
    BY <2>1, <2>3 DEF Globals
<1>3. CASE job.dev = "twi"
  <2>1. twi_flash_stream_put(w, err) /\ spi' = spi
    BY <1>3 DEF stream_put
  <2>2. PICK r \in twi_transfer_byte(TRUE, twi[k], w) :
          r.rc = err /\ twi' = [twi EXCEPT ![k] = r.cell]
    BY <1>1, <2>1 DEF twi_flash_stream_put
  <2>3. r.cell \in {twi[k], w} /\ (~err => r.cell = w)
    <3>1. \/ r = [rc |-> FALSE, cell |-> w, data |-> twi[k]]
          \/ r \in [rc : {TRUE}, cell : {twi[k], w}, data : {0, twi[k]}]
      BY DEF twi_transfer_byte
    <3>2. CASE r = [rc |-> FALSE, cell |-> w, data |-> twi[k]]
      BY <3>2
    <3>3. CASE r \in [rc : {TRUE}, cell : {twi[k], w}, data : {0, twi[k]}]
      BY <2>2, <3>3
    <3> QED
      BY <3>1, <3>2, <3>3
  <2>4. r.cell \in Word
    BY <2>3 DEF FlashTypes
  <2>5. /\ twi' \in [Flash -> Word] /\ twi'[k] = r.cell
        /\ \A c \in Flash : c # k => twi'[c] = twi[c]
    BY <2>2, <2>4 DEF FlashTypes
  <2>6. FlashTypes'
    BY <2>1, <2>5 DEF FlashTypes
  <2> QED
    BY <1>2, <1>3, <2>1, <2>3, <2>5, <2>6 DEF Put
<1>4. CASE job.dev = "spi"
  <2>1. spi' = spi_flash_stream_put(spi, g.addr, w) /\ twi' = twi
    BY <1>4 DEF stream_put
  <2> DEFINE on == [spi EXCEPT !.wel = TRUE]
             x == And(spi.mem[k], w)
  <2>2. spi_flash_cmd(spi, TRUE) = on /\ on.wel = TRUE
    <3>1. spi.present = TRUE
      BY <1>4 DEF FlashTypes
    <3> QED
      BY <3>1 DEF FlashTypes, spi_flash_cmd
  <2>3. spi' = [spi EXCEPT !.wel = FALSE, !.mem = [spi.mem EXCEPT ![k] = x]]
    BY <1>1, <2>1, <2>2 DEF spi_flash_stream_put, FlashTypes
  <2>4. x \in Word /\ (spi.mem[k] = Erased => x = w)
    <3>1. spi.mem[k] \in Word
      BY DEF FlashTypes
    <3> QED
      BY <3>1, FlashAssumption
  <2> HIDE DEF x
  <2> DEFINE m == [spi.mem EXCEPT ![k] = x]
  <2>5. m \in [Flash -> Word] /\ m[k] = x /\ \A c \in Flash : c # k => m[c] = spi.mem[c]
    BY <2>4 DEF FlashTypes
  <2> HIDE DEF m
  <2>6. /\ spi' \in [mem : [Flash -> Word], wel : BOOLEAN, present : BOOLEAN]
        /\ spi'.mem = m /\ spi'.present = spi.present
    BY <2>3, <2>5 DEF FlashTypes, m
  <2>7. FlashTypes'
    BY <2>1, <2>6 DEF FlashTypes
  <2>8. Ready(k) => spi.mem[k] = Erased
    BY <1>4 DEF Ready
  <2> QED
    BY <1>2, <1>4, <2>1, <2>4, <2>5, <2>6, <2>7, <2>8 DEF Put
<1> QED
  BY <1>3, <1>4

-----------------------------------------------------------------------------
(* Steps that leave the flashes as they are. *)

FlashesKept ==
  /\ twi' = twi /\ stored' = stored
  /\ spi' \in [mem : [Flash -> Word], wel : BOOLEAN, present : BOOLEAN]
  /\ spi'.mem = spi.mem /\ spi'.present = spi.present

(* What has been stored stays there.                                       *)
LEMMA StoredKept ==
  ASSUME StoreInv, FlashesKept
  PROVE  StoredInv' /\ FlashTypes'
<1>1. FlashTypes'
  BY DEF StoreInv, FlashTypes, FlashesKept
<1>2. StoredInv'
  BY DEF StoreInv, StoredInv, FlashesKept, Cells, FitsErased
<1> QED
  BY <1>1, <1>2

(* A device is left alone, or only its write enable latch is used.         *)
LEMMA FlashesSame ==
  ASSUME StoreInv, spi' = spi, twi' = twi, stored' = stored
  PROVE  FlashesKept
BY DEF StoreInv, FlashTypes, FlashesKept

(* dev_init() of each device.                                              *)
LEMMA FlashSetup ==
  ASSUME StoreInv, job.dev \in Media, NEW err \in BOOLEAN, dev_init(err), twi' = twi,
         stored' = stored
  PROVE  /\ FlashesKept
         /\ ~err /\ job.dev \in {"twi", "spi"} =>
              g' = [g EXCEPT !.addr = 0] /\ (job.dev = "spi" => spi.present)
<1>1. spi \in [mem : [Flash -> Word], wel : BOOLEAN, present : BOOLEAN]
  BY DEF StoreInv, FlashTypes
<1>2. CASE job.dev # "spi"
  <2>1. spi' = spi
    BY <1>2 DEF dev_init, Media, uart_setup, twi_flash_setup, sdcard_setup
  <2>2. job.dev = "twi" => g' = [g EXCEPT !.addr = 0]
    BY DEF dev_init, twi_flash_setup
  <2> QED
    BY <1>2, <2>1, <2>2, FlashesSame
<1>3. CASE job.dev = "spi"
  <2>1. err = spi_flash_setup.rc /\ spi' = spi_flash_setup.dev /\ g' = [g EXCEPT !.addr = 0]
    BY <1>3 DEF dev_init
  <2> DEFINE on == [spi EXCEPT !.wel = spi.present]
             off == [on EXCEPT !.wel = FALSE]
  <2>2. spi_flash_cmd(spi, TRUE) = on /\ spi_flash_cmd(on, FALSE) = off
    BY <1>1 DEF spi_flash_cmd
  <2>3. /\ on \in [mem : [Flash -> Word], wel : BOOLEAN, present : BOOLEAN]
        /\ on.mem = spi.mem /\ on.present = spi.present /\ on.wel = spi.present
    BY <1>1
  <2>4. /\ off \in [mem : [Flash -> Word], wel : BOOLEAN, present : BOOLEAN]
        /\ off.mem = spi.mem /\ off.present = spi.present /\ off.wel = FALSE
    BY <1>1
  <2> HIDE DEF on, off
  <2>5. spi_flash_setup = IF on.wel /\ ~off.wel THEN [rc |-> FALSE, dev |-> off]
                          ELSE [rc |-> TRUE, dev |-> IF on.wel THEN off ELSE on]
    BY <2>2 DEF spi_flash_setup
  <2>6. /\ spi_flash_setup.dev \in {on, off}
        /\ ~spi_flash_setup.rc => spi.present
    BY <2>3, <2>4, <2>5
  <2>7. FlashesKept
    BY <2>1, <2>3, <2>4, <2>6 DEF FlashesKept
  <2> QED
    BY <2>1, <2>6, <2>7
<1> QED
  BY <1>2, <1>3

(* stream_get() of each device.                                            *)
LEMMA FlashRead ==
  ASSUME StoreInv, BootInv, job.dev \in Media, spi' = spi, twi' = twi, stored' = stored,
         NEW w, NEW err \in BOOLEAN, stream_get(w, err)
  PROVE  FlashesKept /\ SameExe
BY FlashesSame, StreamWord DEF BootInv

(* Steps after which no store is in progress and no data are being loaded. *)
LEMMA Storeless ==
  ASSUME StoreInv, FlashesKept, pc' \notin Stores \cup {"load_data"},
         g'.size = 0 \/ (g'.base = g.base /\ g'.size = g.size)
  PROVE  StoreInv'
<1>1. RoomInv'
  BY DEF StoreInv, RoomInv, SizeWords
<1>2. TargetInv' /\ EraseInv' /\ ProgramInv' /\ HeaderInv'
  BY DEF TargetInv, EraseInv, ProgramInv, HeaderInv, Stores
<1> QED
  BY <1>1, <1>2, StoredKept DEF StoreInv

(* The start of system_app_load.                                           *)
LEMMA LoadFromStore ==
  ASSUME StoreInv, BootInv, FlashesKept, NEW dev, NEW ret, LoadFrom(dev, ret, g)
  PROVE  StoreInv'
<1>1. pc' = "load_init" /\ g'.size = 0
  BY DEF LoadFrom, BootInv, Types, Globals
<1> QED
  BY <1>1, Storeless DEF Stores

(* Auto-boot goes to the next medium, or to the console.                   *)
LEMMA ResumeStore ==
  ASSUME StoreInv, BootInv, FlashesKept, Resume
  PROVE  StoreInv'
<1>1. CASE job.ret = "auto" /\ job.dev \in DOMAIN NextMedium
  <2>1. LoadFrom(NextMedium[job.dev], "auto", g)
    BY <1>1 DEF Resume
  <2> QED
    BY <2>1, LoadFromStore
<1>2. CASE ~(job.ret = "auto" /\ job.dev \in DOMAIN NextMedium)
  <2>1. pc' = "console" /\ g' = g
    BY <1>2 DEF Resume
  <2> QED
    BY <2>1, Storeless DEF Stores
<1> QED
  BY <1>1, <1>2

(* Steps of the user, the host and the clock, and stuttering.              *)
LEMMA BystanderStore ==
  ASSUME StoreInv, pc' = pc, g' = g, job' = job, spi' = spi, twi' = twi, stored' = stored
  PROVE  StoreInv'
<1>1. RoomInv' /\ FlashTypes' /\ TargetInv' /\ StoredInv'
  BY DEF StoreInv, RoomInv, SizeWords, FlashTypes, TargetInv, StoredInv, Cells, FitsErased
<1>2. EraseInv' /\ ProgramInv' /\ HeaderInv'
  BY DEF StoreInv, EraseInv, ProgramInv, HeaderInv, Ready, Erasable, SizeWords, num_sectors,
     Cells
<1> QED
  BY <1>1, <1>2 DEF StoreInv

-----------------------------------------------------------------------------
(* What the other operations do to a store. *)

(* A word of the header arrives.                                           *)
LEMMA LoadHeaderStore ==
  ASSUME StoreInv, BootInv, LoadHeader
  PROVE  StoreInv'
<1>1. PICK w \in Word, err \in BOOLEAN :
        /\ stream_get(w, err)
        /\ job' = [job EXCEPT !.words = Append(job.words, w), !.rc = job.rc \/ err]
  BY DEF LoadHeader
<1>2. /\ spi' = spi /\ twi' = twi /\ stored' = stored /\ pc = "load_header"
      /\ pc' = IF Len(job.words) < 3 THEN "load_header" ELSE "load_signature"
  BY DEF LoadHeader, HeaderWords
<1>3. job.dev \in Media
  BY <1>2 DEF BootInv, HeadInv, Loads, Jobs
<1>4. FlashesKept /\ SameExe
  BY <1>1, <1>2, <1>3, FlashRead
<1> QED
  BY <1>2, <1>4, Storeless DEF Stores, SameExe

(* Loads.                                                                  *)
LEMMA LoadEarlyStore ==
  ASSUME StoreInv, BootInv, LoadInit \/ LoadHeader \/ LoadSignature \/ LoadReturn
  PROVE  StoreInv'
<1>1. CASE LoadInit
  <2>1. PICK err \in BOOLEAN : dev_init(err) /\ pc' = IF err THEN "load_failed" ELSE "load_header"
    BY <1>1 DEF LoadInit
  <2>2. job.dev \in Media /\ twi' = twi /\ stored' = stored
    BY <1>1 DEF BootInv, HeadInv, LoadInit, Loads, Jobs
  <2>3. FlashesKept /\ SameExe
    BY <2>1, <2>2, FlashSetup, DevInit DEF BootInv
  <2> QED
    BY <2>1, <2>3, Storeless DEF Stores, SameExe
<1>2. CASE LoadHeader
  BY <1>2, LoadHeaderStore
<1>3. CASE LoadSignature
  <2>1. /\ FlashesKept /\ g.size = 0 /\ g'.size = 0 /\ pc' \in {"load_data", "load_failed"}
        /\ job'.words = job.words /\ Len(job.words) = 4
    <3>1. g.size = 0 /\ job \in Jobs /\ Len(job.words) = 4
      BY <1>3 DEF BootInv, SizeInv, HeadInv, LoadSignature, Loads, HeaderWords
    <3>2. /\ g' = [g EXCEPT !.base = job.words[2]] /\ job' = [job EXCEPT !.sum = job.words[4]]
          /\ pc' \in {"load_data", "load_failed"} /\ FlashesKept
      BY <1>3, FlashesSame DEF LoadSignature
    <3>3. g'.size = 0
      BY <3>1, <3>2 DEF BootInv, Types, Globals
    <3>4. job'.words = job.words
      BY <3>1, <3>2 DEF Jobs
    <3> QED
      BY <3>1, <3>2, <3>3, <3>4
  <2>2. RoomInv'
    BY <2>1 DEF RoomInv, HeaderWords
  <2>3. TargetInv' /\ EraseInv' /\ ProgramInv' /\ HeaderInv'
    BY <2>1 DEF TargetInv, EraseInv, ProgramInv, HeaderInv, Stores
  <2> QED
    BY <2>1, <2>2, <2>3, StoredKept DEF StoreInv
<1>4. CASE LoadReturn
  <2>1. FlashesKept
    BY <1>4, FlashesSame DEF LoadReturn
  <2>2. CASE Resume
    BY <2>1, <2>2, ResumeStore
  <2>3. CASE pc' \in {"boot", "panic"} /\ g' = g
    BY <2>1, <2>3, Storeless DEF Stores
  <2> QED
    BY <1>4, <2>2, <2>3 DEF LoadReturn, LoadFailed, Panic
<1> QED
  BY <1>1, <1>2, <1>3, <1>4

(* A word of the data arrives, and was inside main memory.                 *)
LEMMA LoadWordStore ==
  ASSUME StoreInv, BootInv, LoadWord
  PROVE  StoreInv'
<1>1. job.dev \in Media /\ job \in Jobs /\ job.words \in Seq(Word) /\ g.size = 0
  BY DEF BootInv, SizeInv, HeadInv, LoadWord, Loads, Jobs
<1>2. /\ Len(job.words) >= 4 /\ g.base = job.words[2]
      /\ job.i = WordBytes * (Len(job.words) - 4) /\ pc = "load_data"
  BY DEF BootInv, DataInv, LoadWord, HeaderWords
<1>3. PICK w \in Word, err \in BOOLEAN :
        /\ stream_get(w, err)
        /\ LET addr == job.words[2] + job.i
           IN  IF addr % WordBytes = 0 /\ addr \div WordBytes \in Ram
                 THEN /\ ram' = [ram EXCEPT ![addr \div WordBytes] = w]
                      /\ job' = [job EXCEPT !.words = Append(job.words, w),
                                            !.i = job.i + WordBytes,
                                            !.sum = (job.sum + w) % WordMax, !.rc = err]
                      /\ UNCHANGED <<pc, cpu>>
                 ELSE Panic /\ UNCHANGED <<ram, job>>
  BY DEF LoadWord
<1>4. spi' = spi /\ twi' = twi /\ stored' = stored
  BY DEF LoadWord
<1>5. FlashesKept /\ SameExe
  BY <1>1, <1>3, <1>4, FlashRead
<1> DEFINE m == Len(job.words) - 4
           addr == job.words[2] + job.i
           at == addr \div WordBytes
           b == job.words[2] \div WordBytes
<1>6. CASE addr % WordBytes = 0 /\ at \in Ram
  <2>1. /\ pc' = "load_data"
        /\ job' = [job EXCEPT !.words = Append(job.words, w), !.i = job.i + WordBytes,
                              !.sum = (job.sum + w) % WordMax, !.rc = err]
    BY <1>2, <1>3, <1>6
  <2>2. m \in Nat /\ Len(job.words) = m + 4 /\ job.words[2] \in Nat
    <3>1. job.words[2] \in Word
      BY <1>1, <1>2
    <3> QED
      BY <1>1, <1>2, <3>1 DEF Word
  <2>3. at = b + m /\ b \in Nat
    <3>1. WordBytes \in Nat \ {0}
      BY BootImageAssumption
    <3>2. (job.words[2] + WordBytes * m) \div WordBytes = b + m
      BY <2>2, <3>1, DivAdd
    <3>3. b \in Nat
      BY <2>2, <3>1, Division
    <3> QED
      BY <1>2, <3>2, <3>3
  <2>4. at < RamBytes \div WordBytes
    <3>1. at \in 0 .. RamBytes \div WordBytes - 1
      BY <1>6 DEF Ram
    <3> QED
      BY <2>2, <2>3, <3>1, FlashSize
  <2>5. Len(job'.words) = m + 5
    <3>1. job'.words = Append(job.words, w)
      BY <1>1, <2>1 DEF Jobs
    <3> QED
      BY <1>1, <2>2, <3>1
  <2>6. g'.base \div WordBytes = b /\ g'.size = 0
    BY <1>1, <1>2, <1>5 DEF SameExe
  <2> HIDE DEF m, at, b, addr
  <2>7. b + (m + 5) - 4 <= RamBytes \div WordBytes
    BY <2>2, <2>3, <2>4, FlashSize
  <2>8. RoomInv'
    BY <2>5, <2>6, <2>7 DEF RoomInv, HeaderWords
  <2>9. TargetInv' /\ EraseInv' /\ ProgramInv' /\ HeaderInv'
    BY <2>1 DEF TargetInv, EraseInv, ProgramInv, HeaderInv, Stores
  <2> QED
    BY <1>5, <2>8, <2>9, StoredKept DEF StoreInv
<1>7. CASE ~(addr % WordBytes = 0 /\ at \in Ram)
  <2>1. pc' = "panic"
    BY <1>3, <1>7 DEF Panic
  <2> QED
    BY <1>5, <2>1, Storeless DEF Stores, SameExe
<1> QED
  BY <1>6, <1>7

(* The image has passed the checks: it is one that stores can handle.      *)
LEMMA LoadCheckStore ==
  ASSUME StoreInv, BootInv, LoadCheck
  PROVE  StoreInv'
<1>1. /\ pc = "load_data" /\ g.size = 0 /\ job \in Jobs /\ job.words \in Seq(Word)
      /\ g \in Globals
  BY DEF BootInv, Types, SizeInv, HeadInv, LoadCheck, Loads, Jobs
<1>2. FlashesKept
  BY FlashesSame DEF LoadCheck
<1>3. CASE job.rc \/ (job.sum + 1) % WordMax # 0
  <2>1. pc' = "load_failed" /\ g' = g
    BY <1>3 DEF LoadCheck
  <2> QED
    BY <1>2, <2>1, Storeless DEF Stores
<1>4. CASE ~(job.rc \/ (job.sum + 1) % WordMax # 0)
  <2>1. pc' = "load_ok" /\ g' = [g EXCEPT !.size = job.words[3]] /\ job.i >= job.words[3]
    BY <1>4 DEF LoadCheck
  <2>2. g'.base = g.base /\ g'.size = job.words[3]
    BY <1>1, <2>1 DEF Globals
  <2>3. /\ Len(job.words) >= 4 /\ g.base = job.words[2]
        /\ job.i = WordBytes * (Len(job.words) - 4)
    BY <1>1 DEF BootInv, DataInv, HeaderWords
  <2>4. job.words[2] \in Word /\ job.words[3] \in Word
    BY <1>1, <2>3
  <2>5. Len(job.words) = 4 + DataWords(job.words)
    BY <1>1, <2>1, AllThere DEF HeaderWords
  <2>6. ASSUME g'.size # 0
        PROVE  g'.base \div WordBytes + DataWords(job.words) <= RamBytes \div WordBytes
    <3>1. Len(job.words) - 4 # 0
      <4>1. WordBytes * 0 = 0 /\ job.words[3] \in Nat
        BY <2>4, FlashSize DEF Word
      <4>2. job.i # 0
        <5>1. job.words[3] # 0 /\ job.i \in Nat
          BY <1>1, <2>2, <2>6 DEF Jobs
        <5> QED
          BY <2>1, <4>1, <5>1
      <4> QED
        BY <2>3, <4>1, <4>2
    <3>2. g.base \div WordBytes + Len(job.words) - 4 <= RamBytes \div WordBytes
      <4>1. Len(job.words) > 4
        <5> DEFINE n == Len(job.words)
        <5>1. n \in Nat /\ n >= 4 /\ n - 4 # 0
          BY <1>1, <2>3, <3>1
        <5> HIDE DEF n
        <5>2. n > 4
          BY <5>1
        <5> QED
          BY <5>2 DEF n
      <4> QED
        BY <1>1, <4>1 DEF StoreInv, RoomInv, HeaderWords
    <3>3. g.base \div WordBytes \in Nat /\ DataWords(job.words) \in Int
      <4>1. g.base \in Nat
        BY <1>1 DEF Globals
      <4>2. g.base \div WordBytes \in Nat
        BY <4>1, FlashSize, Division
      <4>3. DataWords(job.words) \in Int
        <5> DEFINE x == job.words[3] + WordBytes - 1
        <5>1. x \in Nat
          BY <2>4, FlashSize DEF Word
        <5> HIDE DEF x
        <5>2. x \div WordBytes \in Nat
          BY <5>1, FlashSize, Division
        <5> QED
          BY <5>2 DEF DataWords, x
      <4> QED
        BY <4>2, <4>3
    <3> QED
      BY <2>2, <2>5, <3>2, <3>3, FlashSize
  <2>7. RoomInv'
    <3>1. SizeWords' = DataWords(job.words)
      BY <2>2 DEF SizeWords, DataWords
    <3> QED
      BY <2>1, <2>2, <2>3, <2>4, <2>6, <3>1 DEF RoomInv
  <2>8. TargetInv' /\ EraseInv' /\ ProgramInv' /\ HeaderInv'
    BY <2>1 DEF TargetInv, EraseInv, ProgramInv, HeaderInv, Stores
  <2> QED
    BY <1>2, <2>7, <2>8, StoredKept DEF StoreInv
<1> QED
  BY <1>3, <1>4

(* Reset, the wait for a key, and system_app_boot.                         *)
LEMMA MainStore ==
  ASSUME StoreInv, BootInv, system_setup \/ AutoBootWait \/ Boot \/ BootAsk \/ BootStep
  PROVE  StoreInv'
<1>1. FlashesKept
  <2>1. spi' = spi /\ twi' = twi /\ stored' = stored
    BY DEF system_setup, AutoBootWait, Boot, BootAsk, BootStep
  <2> QED
    BY <2>1, FlashesSame
<1>2. CASE system_setup
  <2>1. pc' = "wait_key" /\ g' = [base |-> DEFAULT_EXE_ADDR, size |-> 0, addr |-> 0]
    BY <1>2 DEF system_setup
  <2> QED
    BY <1>1, <2>1, Storeless DEF Stores
<1>3. CASE LoadFrom("twi", "auto", g)
  BY <1>1, <1>3, LoadFromStore
<1>4. CASE Resume
  BY <1>1, <1>4, ResumeStore
<1>5. CASE /\ pc' \in {"wait_key", "wait_time", "console", "boot_ask", "boot_irq", "boot_led", "app"}
           /\ g' = g
  BY <1>1, <1>5, Storeless DEF Stores
<1>6. CASE AutoBootWait
  BY <1>3, <1>5, <1>6 DEF AutoBootWait
<1>7. CASE Boot \/ BootAsk \/ BootStep
  BY <1>4, <1>5, <1>7 DEF Boot, BootAsk, BootStep
<1> QED
  BY <1>2, <1>6, <1>7

(* The console.                                                            *)
LEMMA ConsoleStore ==
  ASSUME StoreInv, BootInv, Console
  PROVE  StoreInv'
<1>1. FlashesKept /\ pc = "console"
  BY FlashesSame DEF Console
<1>2. PICK cmd \in Keys :
        CASE cmd \in DOMAIN Source -> LoadFrom(Source[cmd], "console", g) /\ UNCHANGED cpu
          [] cmd \in DOMAIN Target ->
              /\ pc' = "store_init"
              /\ job' = [NoJob EXCEPT !.dev = Target[cmd]]
              /\ UNCHANGED <<g, cpu>>
          [] cmd = "e" -> pc' = "boot" /\ UNCHANGED <<g, job, cpu>>
          [] cmd = "x" -> Panic /\ UNCHANGED <<g, job>>
          [] cmd = "r" -> /\ pc' = "reset"
                         /\ cpu' = [cpu EXCEPT !.mie = FALSE]
                         /\ UNCHANGED <<g, job>>
          [] OTHER -> UNCHANGED <<pc, g, job, cpu>>
  BY DEF Console
<1>3. DOMAIN Source = {"u", "t", "l", "c"} /\ DOMAIN Target = {"w", "s"}
  BY DEF Source, Target
<1>4. CASE cmd \in DOMAIN Source
  <2>1. LoadFrom(Source[cmd], "console", g)
    BY <1>2, <1>3, <1>4
  <2> QED
    BY <1>1, <2>1, LoadFromStore
<1>5. CASE cmd \in DOMAIN Target
  <2> DEFINE dev == Target[cmd]
  <2>1. pc' = "store_init" /\ job' = [NoJob EXCEPT !.dev = dev] /\ g' = g
    BY <1>2, <1>3, <1>5
  <2>2. dev \in {"twi", "spi"}
    BY <1>5 DEF Target
  <2> HIDE DEF dev
  <2>3. job' \in StoreJobs /\ job'.dev = dev
    <3>1. job' = [dev |-> dev, ret |-> "console", words |-> <<>>, i |-> 0, sum |-> 0, rc |-> FALSE]
      BY <2>1 DEF NoJob
    <3>2. <<>> \in Seq(Word) /\ 0 \in Word
      BY WordMaxAssumption DEF Word
    <3> QED
      BY <2>2, <3>1, <3>2 DEF StoreJobs
  <2>4. TargetInv'
    BY <2>1, <2>3 DEF TargetInv, Stores
  <2>5. RoomInv'
    BY <2>1 DEF StoreInv, RoomInv, SizeWords
  <2>6. EraseInv' /\ ProgramInv' /\ HeaderInv'
    BY <2>1 DEF EraseInv, ProgramInv, HeaderInv
  <2> QED
    BY <1>1, <2>4, <2>5, <2>6, StoredKept DEF StoreInv
<1>6. CASE cmd \notin DOMAIN Source \cup DOMAIN Target
  <2>1. pc' \in {"boot", "panic", "reset", "console"} /\ g' = g
    BY <1>1, <1>2, <1>3, <1>6 DEF Panic
  <2> QED
    BY <1>1, <2>1, Storeless DEF Stores
<1> QED
  BY <1>4, <1>5, <1>6

-----------------------------------------------------------------------------
(* system_app_store up to the data. *)

(* Products grow with their factors.                                       *)
LEMMA ProductGrows ==
  ASSUME NEW a \in Nat, NEW b \in Nat, NEW n \in Nat, a <= b
  PROVE  a * n \in Nat /\ b * n \in Nat /\ a * n <= b * n
<1>1. PICK d \in Nat : b = a + d
  <2>1. b - a \in Nat /\ b = a + (b - a)
    OBVIOUS
  <2> QED
    BY <2>1
<1>2. b * n = a * n + d * n
  BY <1>1, Z3
<1>3. a * n \in Nat /\ d * n \in Nat
  BY Z3
<1> DEFINE an == a * n
           dn == d * n
<1> HIDE DEF an, dn
<1>4. an \in Nat /\ dn \in Nat /\ b * n = an + dn
  BY <1>2, <1>3 DEF an, dn
<1> QED
  BY <1>4 DEF an

(* And with nothing else.                                                  *)
LEMMA FactorGrows ==
  ASSUME NEW a \in Nat, NEW b \in Nat, NEW n \in Nat \ {0}, a * n <= b * n
  PROVE  a <= b
<1> SUFFICES ASSUME b + 1 <= a PROVE FALSE
  OBVIOUS
<1>1. (b + 1) * n <= a * n /\ a * n \in Nat
  BY ProductGrows
<1>2. (b + 1) * n = b * n + n /\ b * n \in Nat
  BY Z3
<1> DEFINE bn == b * n
           an == a * n
           cn == (b + 1) * n
<1>3. bn \in Nat /\ an \in Nat /\ cn = bn + n /\ cn <= an /\ an <= bn
  BY <1>1, <1>2
<1> HIDE DEF an, bn, cn
<1> QED
  BY <1>3

(* The words of an image, and the sectors for them.                        *)
LEMMA SizeTypes ==
  ASSUME g \in Globals
  PROVE  SizeWords \in Nat /\ num_sectors \in Nat /\ g.size \in Nat
<1> DEFINE x == g.size + WordBytes - 1
<1>1. x \in Nat /\ g.size \in Nat
  BY FlashSize DEF Globals
<1> HIDE DEF x
<1>2. x \div WordBytes \in Nat
  BY <1>1, FlashSize, Division
<1>3. SPI_FLASH_SECTOR_SIZE \in Nat \ {0}
  BY BootloaderAssumption
<1>4. g.size \div SPI_FLASH_SECTOR_SIZE \in Nat
  BY <1>1, <1>3, Division
<1> QED
  BY <1>1, <1>2, <1>4 DEF SizeWords, num_sectors, x

(* The header of an image.                                                 *)
LEMMA HeaderWordsTyped ==
  ASSUME NEW b \in Word, NEW s \in Word
  PROVE  /\ Header(b, s, 0) \in Seq(Word) /\ Len(Header(b, s, 0)) = 4
         /\ Header(b, s, 0)[1] = BIN_SIGNATURE /\ Header(b, s, 0)[2] = b
         /\ Header(b, s, 0)[3] = s
<1>1. BIN_SIGNATURE \in Word /\ 0 \in Word
  <2>1. 9 % WordMax \in 0 .. WordMax - 1
    BY WordMaxAssumption, Division
  <2> QED
    BY <2>1, WordMaxAssumption DEF BIN_SIGNATURE, Word
<1> QED
  BY <1>1 DEF Header

(* The device is set up.                                                   *)
LEMMA StoreInitStep ==
  ASSUME StoreInv, BootInv, StoreInit
  PROVE  StoreInv'
<1>1. /\ pc = "store_init" /\ twi' = twi /\ stored' = stored
      /\ job \in StoreJobs /\ g \in Globals /\ job.dev \in {"twi", "spi"}
      /\ job.i = 0 /\ job.sum = 0 /\ ~job.rc
  <2>1. pc = "store_init" /\ twi' = twi /\ stored' = stored
    BY DEF StoreInit
  <2>2. job \in StoreJobs /\ job = [NoJob EXCEPT !.dev = job.dev] /\ g \in Globals
    BY <2>1 DEF StoreInv, TargetInv, Stores, BootInv, Types
  <2>3. job.i = 0 /\ job.sum = 0 /\ job.rc = FALSE
    BY <2>2 DEF NoJob
  <2> QED
    BY <2>1, <2>2, <2>3 DEF StoreJobs
<1>2. job.dev \in Media
  BY <1>1 DEF Media
<1>3. CASE g.size = 0
  <2>1. Resume /\ FlashesKept
    BY <1>1, <1>3, FlashesSame DEF StoreInit
  <2> QED
    BY <2>1, ResumeStore
<1>4. CASE g.size # 0
  <2> DEFINE words == Header(g.base, g.size, 0)
  <2>1. PICK err \in BOOLEAN :
          /\ dev_init(err)
          /\ pc' = IF err THEN "console" ELSE "store_ask"
          /\ job' = IF err THEN NoJob ELSE [job EXCEPT !.words = words]
    BY <1>4 DEF StoreInit
  <2>2. /\ FlashesKept /\ SameExe
        /\ ~err => g' = [g EXCEPT !.addr = 0] /\ (job.dev = "spi" => spi.present)
    BY <1>1, <1>2, <2>1, FlashSetup, DevInit DEF BootInv
  <2>3. CASE err
    BY <2>1, <2>2, <2>3, Storeless DEF Stores, SameExe
  <2>4. CASE ~err
    <3>1. words \in Seq(Word)
      BY <1>4, HeaderWordsTyped DEF StoreInv, RoomInv
    <3> HIDE DEF words
    <3>2. /\ pc' = "store_ask" /\ job' \in StoreJobs /\ job'.words = words /\ job'.dev = job.dev
          /\ job'.i = 0 /\ job'.sum = 0 /\ ~job'.rc
      BY <1>1, <2>1, <2>4, <3>1 DEF StoreJobs
    <3>3. g'.base = g.base /\ g'.size = g.size /\ g'.addr = 0
      BY <1>1, <2>2, <2>4 DEF Globals
    <3>4. words = Header(g'.base, g'.size, 0)
      BY <3>3 DEF words
    <3>5. 0 * SPI_FLASH_SECTOR_SIZE = 0 /\ 0 * SectorCells = 0
      BY FlashSize, BootloaderAssumption
    <3>6. EraseInv'
      <4>1. g'.addr = job'.i * SPI_FLASH_SECTOR_SIZE
        BY <3>2, <3>3, <3>5
      <4>2. \A c \in Flash : ~(c < job'.i * SectorCells)
        BY <3>2, <3>5, FlashSize DEF Flash
      <4> QED
        BY <3>2, <3>4, <4>1, <4>2 DEF EraseInv
    <3>7. TargetInv'
      BY <1>4, <2>2, <2>4, <3>2, <3>3 DEF TargetInv, FlashesKept, Stores
    <3>8. RoomInv' /\ ProgramInv' /\ HeaderInv'
      BY <3>2, <3>3 DEF StoreInv, RoomInv, SizeWords, ProgramInv, HeaderInv
    <3> QED
      BY <2>2, <3>6, <3>7, <3>8, StoredKept DEF StoreInv
  <2> QED
    BY <2>3, <2>4
<1> QED
  BY <1>3, <1>4

(* The user is asked.                                                      *)
LEMMA StoreAskStep ==
  ASSUME StoreInv, BootInv, StoreAsk
  PROVE  StoreInv'
<1>1. pc = "store_ask" /\ spi' = spi /\ twi' = twi /\ stored' = stored /\ FlashesKept
  BY FlashesSame DEF StoreAsk
<1>2. CASE Resume
  BY <1>1, <1>2, ResumeStore
<1>3. CASE pc' = "store_erase" /\ g' = g /\ job' = job
  <2>1. RoomInv' /\ TargetInv' /\ ProgramInv' /\ HeaderInv'
    BY <1>1, <1>3 DEF StoreInv, RoomInv, SizeWords, TargetInv, ProgramInv, HeaderInv, Stores
  <2>2. EraseInv'
    BY <1>1, <1>3 DEF StoreInv, EraseInv, Ready
  <2> QED
    BY <1>1, <2>1, <2>2, StoredKept DEF StoreInv
<1> QED
  BY <1>2, <1>3 DEF StoreAsk

(* A sector that is erased at its address holds nothing afterwards.        *)
LEMMA SectorErased ==
  ASSUME FlashTypes, spi.present, NEW i \in Nat, g.addr = i * SPI_FLASH_SECTOR_SIZE,
         spi' = EraseSector(spi, g.addr)
  PROVE  /\ spi' \in [mem : [Flash -> Word], wel : BOOLEAN, present : BOOLEAN]
         /\ spi'.present = spi.present
         /\ \A c \in Flash : spi'.mem[c] \in {Erased, spi.mem[c]}
         /\ \A c \in Flash : i * SectorCells <= c /\ c < (i + 1) * SectorCells =>
                               spi'.mem[c] = Erased
<1> DEFINE on == [spi EXCEPT !.wel = TRUE]
           K == 0 .. SPI_FLASH_SECTOR_SIZE \div WordBytes - 1
           sector == {Cell(a) : a \in {g.addr + WordBytes * k : k \in K}}
           m == [c \in Flash |-> IF c \in sector THEN Erased ELSE spi.mem[c]]
<1>1. spi_flash_cmd(spi, TRUE) = on /\ on.wel = TRUE
  BY DEF FlashTypes, spi_flash_cmd
<1>2. spi' = [spi EXCEPT !.wel = FALSE, !.mem = m]
  BY <1>1 DEF EraseSector, FlashTypes
<1>3. Erased \in Word
  BY WordMaxAssumption DEF Erased, Word
<1>4. \A c \in Flash : i * SectorCells <= c /\ c < (i + 1) * SectorCells => c \in sector
  <2> SUFFICES ASSUME NEW c \in Flash, i * SectorCells <= c, c < (i + 1) * SectorCells
               PROVE  c \in sector
    OBVIOUS
  <2> DEFINE S == SectorCells
             iS == i * S
             k == c - iS
  <2>1. S \in Nat /\ iS \in Nat /\ (i + 1) * S = iS + S /\ c \in Nat /\ K = 0 .. S - 1
    <3>1. S \in Nat /\ c \in Nat
      BY FlashSize DEF Flash
    <3>2. iS \in Nat /\ (i + 1) * S = iS + S
      BY <3>1, Z3
    <3> QED
      BY <3>1, <3>2 DEF SectorCells
  <2>2. iS <= c /\ c < iS + S
    BY <2>1
  <2> HIDE DEF iS, S, K
  <2>3. k \in K /\ k \in Nat /\ c = iS + k
    BY <2>1, <2>2
  <2> HIDE DEF k
  <2>4. g.addr + WordBytes * k = WordBytes * c
    <3>1. g.addr = i * (WordBytes * S)
      BY FlashSize DEF S
    <3>2. i * (WordBytes * S) = WordBytes * iS
      BY <2>1, FlashSize, Z3 DEF iS
    <3>3. WordBytes * c = WordBytes * iS + WordBytes * k
      BY <2>1, <2>3, FlashSize, Z3
    <3> QED
      BY <3>1, <3>2, <3>3
  <2>5. Cell(WordBytes * c) = c
    BY <2>1, CellAt
  <2> QED
    BY <2>3, <2>4, <2>5
<1> HIDE DEF sector
<1>5. /\ m \in [Flash -> Word]
      /\ \A c \in Flash : m[c] = IF c \in sector THEN Erased ELSE spi.mem[c]
  BY <1>3 DEF FlashTypes
<1> HIDE DEF m
<1>6. /\ spi' \in [mem : [Flash -> Word], wel : BOOLEAN, present : BOOLEAN]
      /\ spi'.mem = m /\ spi'.present = spi.present
  BY <1>2, <1>5 DEF FlashTypes
<1> QED
  BY <1>4, <1>5, <1>6

(* A sector is erased, or all are.                                         *)
LEMMA StoreEraseStep ==
  ASSUME StoreInv, BootInv, StoreErase
  PROVE  StoreInv'
<1>1. /\ pc = "store_erase" /\ twi' = twi /\ stored' = [dev |-> "none", words |-> <<>>]
      /\ g \in Globals /\ job \in StoreJobs /\ g.size # 0
      /\ job.dev = "spi" => spi.present
  BY DEF StoreErase, StoreInv, TargetInv, Stores, BootInv, Types
<1>2. /\ job.words = Header(g.base, g.size, 0) /\ job.sum = 0 /\ ~job.rc
      /\ g.addr = job.i * SPI_FLASH_SECTOR_SIZE
      /\ \A c \in Flash : c < job.i * SectorCells => Ready(c)
  BY <1>1 DEF StoreInv, EraseInv
<1>3. /\ job.i \in Nat /\ job.dev \in {"twi", "spi"} /\ g.addr \in Nat
      /\ g.base \in Word /\ g.size \in Word /\ g.size \in Nat
  <2>1. job.i \in Nat /\ job.dev \in {"twi", "spi"} /\ g.addr \in Nat /\ g.size \in Nat
    BY <1>1 DEF StoreJobs, Globals
  <2>2. g.base \in Word /\ g.size \in Word
    BY <1>1 DEF StoreInv, RoomInv
  <2> QED
    BY <2>1, <2>2
<1>4. stored'.dev = "none" /\ StoredInv'
  BY <1>1 DEF StoredInv
<1>5. CASE job.dev = "spi" /\ job.i < num_sectors
  <2>1. /\ spi' = EraseSector(spi, g.addr) /\ pc' = "store_erase"
        /\ g' = [g EXCEPT !.addr = g.addr + SPI_FLASH_SECTOR_SIZE]
        /\ job' = [job EXCEPT !.i = job.i + 1]
    BY <1>1, <1>5 DEF StoreErase
  <2>2. /\ spi' \in [mem : [Flash -> Word], wel : BOOLEAN, present : BOOLEAN]
        /\ spi'.present = spi.present
        /\ \A c \in Flash : spi'.mem[c] \in {Erased, spi.mem[c]}
        /\ \A c \in Flash : job.i * SectorCells <= c /\ c < (job.i + 1) * SectorCells =>
                              spi'.mem[c] = Erased
    BY <1>1, <1>2, <1>3, <1>5, <2>1, SectorErased DEF StoreInv
  <2>3. FlashTypes'
    BY <1>1, <2>2 DEF StoreInv, FlashTypes
  <2>4. g.addr + SPI_FLASH_SECTOR_SIZE \in Nat
    BY <1>3, BootloaderAssumption
  <2>5. g'.base = g.base /\ g'.size = g.size /\ g'.addr = g.addr + SPI_FLASH_SECTOR_SIZE
    BY <1>1, <2>1 DEF Globals
  <2>6. /\ job' \in StoreJobs /\ job'.i = job.i + 1 /\ job'.dev = job.dev
        /\ job'.words = job.words /\ job'.sum = job.sum /\ job'.rc = job.rc
    BY <1>1, <1>3, <2>1 DEF StoreJobs
  <2>7. g'.addr = job'.i * SPI_FLASH_SECTOR_SIZE
    <3>1. (job.i + 1) * SPI_FLASH_SECTOR_SIZE = job.i * SPI_FLASH_SECTOR_SIZE + SPI_FLASH_SECTOR_SIZE
      <4>1. SPI_FLASH_SECTOR_SIZE \in Nat
        BY BootloaderAssumption
      <4> DEFINE n == job.i
      <4>2. n \in Nat
        BY <1>3
      <4> HIDE DEF n
      <4>3. (n + 1) * SPI_FLASH_SECTOR_SIZE = n * SPI_FLASH_SECTOR_SIZE + SPI_FLASH_SECTOR_SIZE
        BY <4>1, <4>2, Z3
      <4> QED
        BY <4>3 DEF n
    <3> QED
      BY <1>2, <2>5, <2>6, <3>1
  <2>8. ASSUME NEW c \in Flash, c < job'.i * SectorCells PROVE spi'.mem[c] = Erased
    <3>1. CASE c < job.i * SectorCells
      <4>1. spi.mem[c] = Erased
        BY <1>2, <1>5, <3>1 DEF Ready
      <4> QED
        BY <2>2, <4>1
    <3>2. CASE ~(c < job.i * SectorCells)
      <4>1. job.i * SectorCells <= c
        <5> DEFINE x == job.i * SectorCells
        <5>1. x \in Nat /\ c \in Nat /\ ~(c < x)
          BY <1>3, <3>2, FlashSize, ProductGrows DEF Flash
        <5> HIDE DEF x
        <5>2. x <= c
          BY <5>1
        <5> QED
          BY <5>2 DEF x
      <4> QED
        BY <2>2, <2>6, <2>8, <4>1
    <3> QED
      BY <3>1, <3>2
  <2>9. \A c \in Flash : c < job'.i * SectorCells => Ready(c)'
    BY <2>8 DEF Ready
  <2>10. EraseInv'
    BY <1>2, <2>1, <2>5, <2>6, <2>7, <2>9 DEF EraseInv
  <2>11. RoomInv' /\ TargetInv' /\ ProgramInv' /\ HeaderInv'
    BY <1>1, <2>1, <2>2, <2>5, <2>6 DEF StoreInv, RoomInv, SizeWords, TargetInv, ProgramInv,
       HeaderInv, Stores
  <2> QED
    BY <1>4, <2>3, <2>10, <2>11 DEF StoreInv
<1>6. CASE ~(job.dev = "spi" /\ job.i < num_sectors)
  <2>1. /\ pc' = "store_data" /\ job' = [job EXCEPT !.i = 0] /\ spi' = spi
        /\ g' = [g EXCEPT !.addr = HeaderWords * WordBytes]
    BY <1>6 DEF StoreErase, BIN_OFFSET_DATA
  <2>2. g'.base = g.base /\ g'.size = g.size /\ g'.addr = HeaderWords * WordBytes
    BY <1>1, <2>1 DEF Globals
  <2>3. /\ job' \in StoreJobs /\ job'.i = 0 /\ job'.dev = job.dev
        /\ job'.words = job.words /\ job'.sum = 0 /\ ~job'.rc
    BY <1>1, <1>2, <2>1 DEF StoreJobs
  <2>4. FlashTypes'
    BY <1>1, <2>1 DEF StoreInv, FlashTypes
  <2>5. RoomInv' /\ TargetInv' /\ EraseInv' /\ HeaderInv'
    BY <1>1, <1>4, <2>1, <2>2, <2>3 DEF StoreInv, RoomInv, SizeWords, TargetInv, EraseInv,
       HeaderInv, Stores
  <2>6. /\ Len(job.words) = 4 /\ job.words[1] = BIN_SIGNATURE
        /\ job.words[2] = g.base /\ job.words[3] = g.size /\ job.words \in Seq(Word)
    BY <1>2, <1>3, HeaderWordsTyped
  <2>7. Checksum(Data(job.words)) = 0
    <3>1. Data(job.words) = <<>>
      BY <2>6 DEF Data, HeaderWords
    <3> QED
      BY <3>1, ChecksumEmpty
  <2>8. ASSUME Erasable, NEW c \in Flash, c < 4 + SizeWords PROVE Ready(c)
    <3>1. CASE job.dev = "twi"
      BY <3>1 DEF Ready
    <3>2. CASE job.dev # "twi"
      <4> DEFINE n == num_sectors
                 i == job.i
                 t == 4 + SizeWords
                 S == SectorCells
      <4>1. /\ n \in Nat /\ i \in Nat /\ t \in Nat /\ S \in Nat /\ WordBytes \in Nat \ {0}
            /\ c \in Nat
        BY <1>1, <1>3, SizeTypes, FlashSize DEF Flash
      <4>2. n <= i
        <5>1. ~(i < n)
          BY <1>3, <1>6, <3>2
        <5> HIDE DEF n, i
        <5> QED
          BY <4>1, <5>1
      <4>3. t * WordBytes <= n * SPI_FLASH_SECTOR_SIZE
        BY <2>8, <3>2 DEF Erasable, HeaderWords
      <4> HIDE DEF n, i, t, S
      <4>4. n * SPI_FLASH_SECTOR_SIZE = (n * S) * WordBytes /\ n * S \in Nat
        <5>1. SPI_FLASH_SECTOR_SIZE = WordBytes * S
          BY FlashSize DEF S
        <5>2. n * (WordBytes * S) = (n * S) * WordBytes /\ n * S \in Nat
          BY <4>1, Z3
        <5> QED
          BY <5>1, <5>2
      <4>5. t <= n * S
        <5> DEFINE nS == n * S
        <5>1. nS \in Nat /\ t * WordBytes <= nS * WordBytes
          BY <4>3, <4>4
        <5> HIDE DEF nS
        <5>2. t <= nS
          BY <4>1, <5>1, FactorGrows
        <5> QED
          BY <5>2 DEF nS
      <4>6. n * S <= i * S /\ i * S \in Nat
        BY <4>1, <4>2, ProductGrows
      <4>7. c < i * S
        <5> DEFINE nS == n * S
                   iS == i * S
        <5>1. nS \in Nat /\ iS \in Nat /\ t <= nS /\ nS <= iS /\ c < t
          BY <2>8, <4>4, <4>5, <4>6 DEF t
        <5> HIDE DEF nS, iS
        <5>2. c < iS
          BY <4>1, <5>1
        <5> QED
          BY <5>2 DEF iS
      <4> QED
        BY <1>2, <4>7 DEF i, S
    <3> QED
      BY <3>1, <3>2
  <2>9. ProgramInv'
    <3>1. /\ SizeWords' = SizeWords /\ num_sectors' = num_sectors
          /\ Erasable' <=> Erasable
      BY <2>2, <2>3 DEF SizeWords, num_sectors, Erasable
    <3>2. \A c \in Flash : Ready(c)' <=> Ready(c)
      BY <2>1, <2>3 DEF Ready
    <3>3. /\ job'.i = WordBytes * (Len(job'.words) - 4) /\ job'.i < g'.size + WordBytes
          /\ g'.addr = WordBytes * Len(job'.words)
      <4>1. WordBytes * (4 - 4) = 0 /\ 0 < g.size + WordBytes /\ 4 * WordBytes = WordBytes * 4
        BY <1>3, FlashSize
      <4> QED
        BY <2>2, <2>3, <2>6, <4>1 DEF HeaderWords
    <3>4. job'.sum = Checksum(Data(job'.words))
      BY <2>3, <2>7
    <3>5. Erasable => \A c \in Flash : c < 4 \/ (4 <= c /\ c < 4 + SizeWords) => Ready(c)
      <4>1. SizeWords \in Nat /\ \A c \in Flash : c \in Nat
        BY <1>1, SizeTypes DEF Flash
      <4> QED
        BY <2>8, <4>1
    <3>6. Erasable' => \A c \in Flash :
            c < 4 \/ (Len(job'.words) <= c /\ c < 4 + SizeWords') => Ready(c)'
      <4>1. Len(job'.words) = 4
        BY <2>3, <2>6
      <4> QED
        BY <3>1, <3>2, <3>5, <4>1
    <3>7. \A k \in 4 + 1 .. Len(job'.words) : (Cells(job.dev)[k - 1] = job.words[k])'
      <4>1. Len(job'.words) = 4
        BY <2>3, <2>6
      <4>2. \A k \in 4 + 1 .. 4 : FALSE
        OBVIOUS
      <4> QED
        BY <4>1, <4>2
    <3>8. /\ Len(job'.words) >= 4 /\ job'.words[1] = BIN_SIGNATURE
          /\ job'.words[2] = g'.base /\ job'.words[3] = g'.size
      BY <2>2, <2>3, <2>6
    <3> QED
      BY <3>3, <3>4, <3>6, <3>7, <3>8 DEF ProgramInv, HeaderWords
  <2> QED
    BY <1>4, <2>4, <2>5, <2>9 DEF StoreInv
<1> QED
  BY <1>5, <1>6

-----------------------------------------------------------------------------
(* The data of a store. *)

(* How many words a number of bytes makes.                                 *)
LEMMA SizeReached ==
  ASSUME g \in Globals, NEW m \in Nat
  PROVE  /\ WordBytes * m < g.size => m < SizeWords
         /\ WordBytes * m >= g.size /\ WordBytes * m < g.size + WordBytes => m = SizeWords
<1> DEFINE s == g.size
           x == s + WordBytes - 1
           N == x \div WordBytes
           r == x % WordBytes
           W == WordBytes
<1>1. s \in Nat /\ W \in Nat \ {0} /\ x \in Nat
  BY FlashSize DEF Globals
<1>2. N = SizeWords
  BY DEF SizeWords
<1> HIDE DEF x
<1>3. N \in Nat /\ r \in 0 .. W - 1 /\ x = W * N + r
  BY <1>1, Division
<1>4. x = s + W - 1
  BY DEF x
<1> HIDE DEF N, r, W, s
<1>5. ASSUME W * m < s PROVE m < N
  <2> SUFFICES ASSUME N <= m PROVE FALSE
    BY <1>3
  <2>1. N * W <= m * W /\ N * W \in Nat /\ m * W \in Nat
    BY <1>1, <1>3, ProductGrows
  <2>2. N * W = W * N /\ m * W = W * m
    BY <1>1, <1>3, Z3
  <2> DEFINE WN == W * N
             Wm == W * m
  <2>3. WN \in Nat /\ Wm \in Nat /\ WN <= Wm /\ Wm < s /\ s + W - 1 = WN + r
    BY <1>3, <1>4, <1>5, <2>1, <2>2
  <2> HIDE DEF WN, Wm
  <2> QED
    BY <1>1, <1>3, <2>3
<1>6. ASSUME W * m >= s, W * m < s + W PROVE m = N
  <2> DEFINE Wm == W * m
             t == x - Wm
  <2>1. Wm \in Nat
    BY <1>1, Z3
  <2>2. Wm >= s /\ Wm < s + W
    BY <1>6
  <2> HIDE DEF Wm
  <2>3. t \in 0 .. W - 1 /\ x = Wm + t
    BY <1>1, <1>4, <2>1, <2>2
  <2> HIDE DEF t
  <2>4. (W * m + t) \div W = m
    BY <1>1, <2>3, Quotient
  <2> QED
    BY <2>3, <2>4 DEF Wm, N, W
<1> QED
  BY <1>2, <1>5, <1>6 DEF W, s

(* What one call of stream_put() does to the cells of the device.          *)
LEMMA PutCells ==
  ASSUME NEW k \in Flash, NEW w, NEW err \in BOOLEAN, Put(k, w, err),
         job.dev \in {"twi", "spi"}, job'.dev = job.dev
  PROVE  /\ \A c \in Flash :
              c # k => /\ Cells(job.dev)'[c] = Cells(job.dev)[c]
                       /\ Ready(c) => Ready(c)'
         /\ ~err /\ Ready(k) => Cells(job.dev)'[k] = w
<1>1. CASE job.dev = "twi"
  BY <1>1 DEF Put, Cells, Ready
<1>2. CASE job.dev = "spi"
  BY <1>2 DEF Put, Cells, Ready
<1> QED
  BY <1>1, <1>2

(* The image of an available executable fits the flash, and its words are  *)
(* inside main memory.                                                     *)
LEMMA ImageRoom ==
  ASSUME ImageFits, StoreInv, BootInv, g.size # 0
  PROVE  /\ 4 + SizeWords <= FlashBytes \div WordBytes
         /\ \A m \in Nat :
              m < SizeWords => (g.base + WordBytes * m) \div WordBytes \in Ram
<1> DEFINE b == g.base \div WordBytes
           R == RamBytes \div WordBytes
           F == FlashBytes \div WordBytes
           N == SizeWords
<1>1. g \in Globals /\ g.base \in Nat
  BY DEF BootInv, Types, Globals
<1>2. b \in Nat /\ R \in Nat /\ F \in Nat /\ N \in Nat /\ WordBytes \in Nat \ {0}
  BY <1>1, FlashSize, SizeTypes, Division
<1>3. b + N <= R /\ 4 + R <= F
  BY DEF StoreInv, RoomInv, ImageFits, HeaderWords
<1>4. Ram = 0 .. R - 1
  BY DEF Ram
<1>5. ASSUME NEW m \in Nat, m < N PROVE (g.base + WordBytes * m) \div WordBytes \in 0 .. R - 1
  <2>1. (g.base + WordBytes * m) \div WordBytes = b + m
    BY <1>1, <1>2, DivAdd
  <2> HIDE DEF b, R, N
  <2>2. b + m \in 0 .. R - 1
    BY <1>2, <1>3, <1>5
  <2> QED
    BY <2>1, <2>2
<1> HIDE DEF b, R, F, N
<1>6. 4 + N <= F
  BY <1>2, <1>3
<1> QED
  BY <1>4, <1>5, <1>6 DEF F, N

(* A word of the data is written.                                          *)
LEMMA StoreWordStep ==
  ASSUME ImageFits, StoreInv, BootInv, StoreWord
  PROVE  StoreInv'
<1> DEFINE n == Len(job.words)
           m == n - 4
           N == SizeWords
           at == (g.base + job.i) \div WordBytes
           w == ram[at]
<1>1. /\ pc = "store_data" /\ g \in Globals /\ job \in StoreJobs /\ g.size # 0
      /\ job.dev = "spi" => spi.present
      /\ stored.dev = "none"
  BY DEF StoreWord, StoreInv, TargetInv, Stores, BootInv, Types
<1>2. /\ n >= 4 /\ job.words[1] = BIN_SIGNATURE
      /\ job.words[2] = g.base /\ job.words[3] = g.size
      /\ job.i = WordBytes * m /\ g.addr = WordBytes * n
      /\ job.sum = Checksum(Data(job.words))
  BY <1>1 DEF StoreInv, ProgramInv, HeaderWords
<1>3. /\ job.i < g.size /\ ~job.rc
  BY DEF StoreWord
<1>4. Erasable =>
        /\ \A k \in 5 .. n : Cells(job.dev)[k - 1] = job.words[k]
        /\ \A c \in Flash : c < 4 \/ (n <= c /\ c < 4 + N) => Ready(c)
  BY <1>1, <1>3 DEF StoreInv, ProgramInv, HeaderWords
<1>5. PICK err \in BOOLEAN :
        /\ stream_put(w, err)
        /\ job' = [job EXCEPT !.i = job.i + WordBytes, !.rc = err,
                              !.sum = (job.sum + w) % WordMax, !.words = Append(job.words, w)]
  BY DEF StoreWord
<1>6. pc' = "store_data" /\ stored' = stored
  BY <1>1 DEF StoreWord
<1>7. /\ job.words \in Seq(Word) /\ job.sum \in Word /\ job.i \in Nat /\ g.size \in Nat
      /\ job.dev \in {"twi", "spi"} /\ n \in Nat /\ m \in Nat /\ n = m + 4
  BY <1>1, <1>2 DEF StoreJobs, Globals
<1>8. m < N /\ N \in Nat
  <2>1. WordBytes * m < g.size
    BY <1>2, <1>3
  <2> QED
    BY <1>1, <1>7, <2>1, SizeReached, SizeTypes
<1>9. w \in Word
  <2>1. at \in Ram
    BY <1>1, <1>2, <1>7, <1>8, ImageRoom
  <2> QED
    BY <2>1 DEF BootInv, Types
<1>10. n \in Flash
  <2> DEFINE F == FlashBytes \div WordBytes
  <2>1. 4 + N <= F /\ F \in Nat
    BY <1>1, ImageRoom, FlashSize
  <2> HIDE DEF F, n, N
  <2>2. n \in 0 .. F - 1
    <3> HIDE DEF m
    <3> QED
      BY <1>7, <1>8, <2>1
  <2> QED
    BY <2>2 DEF Flash, F
<1> HIDE DEF w, at
<1>11. Put(n, w, err)
  BY <1>1, <1>2, <1>5, <1>7, <1>9, <1>10, PutWord DEF StoreInv
<1>12. (job.sum + w) % WordMax \in Word
  <2> DEFINE x == job.sum + w
  <2>1. x \in Nat
    BY <1>7, <1>9 DEF Word
  <2> HIDE DEF x
  <2>2. x % WordMax \in 0 .. WordMax - 1
    BY <2>1, Division, WordMaxAssumption
  <2> QED
    BY <2>2 DEF x, Word
<1>13. /\ Append(job.words, w) \in Seq(Word) /\ Len(Append(job.words, w)) = n + 1
       /\ \A k \in 1 .. n + 1 : Append(job.words, w)[k] = IF k = n + 1 THEN w ELSE job.words[k]
  BY <1>7, <1>9
<1>14. /\ job' \in StoreJobs /\ job'.dev = job.dev /\ job'.i = job.i + WordBytes
       /\ job'.rc = err /\ job'.sum = (job.sum + w) % WordMax
       /\ job'.words = Append(job.words, w)
  <2>1. job.i + WordBytes \in Nat
    BY <1>7, FlashSize
  <2> QED
    BY <1>1, <1>5, <1>12, <1>13, <2>1 DEF StoreJobs
<1>15. /\ g' \in Globals /\ g'.base = g.base /\ g'.size = g.size
       /\ g'.addr = WordBytes * (n + 1) /\ FlashTypes' /\ spi'.present = spi.present
  BY <1>11 DEF Put
<1>16. N' = N /\ (Erasable' <=> Erasable)
  BY <1>14, <1>15 DEF SizeWords, num_sectors, Erasable
<1>17. RoomInv' /\ TargetInv' /\ EraseInv' /\ HeaderInv' /\ StoredInv'
  <2>1. RoomInv'
    BY <1>6, <1>15, <1>16 DEF StoreInv, RoomInv
  <2>2. TargetInv'
    BY <1>1, <1>6, <1>14, <1>15 DEF TargetInv, Stores
  <2> QED
    BY <1>1, <1>6, <2>1, <2>2 DEF EraseInv, HeaderInv, StoredInv
<1> DEFINE v == Append(job.words, w)
<1>18. /\ Len(v) = n + 1 /\ n + 1 >= 4 /\ v[1] = BIN_SIGNATURE /\ v[2] = g.base /\ v[3] = g.size
  BY <1>2, <1>7, <1>13
<1>19. job'.i = WordBytes * (n + 1 - 4) /\ job'.i < g'.size + WordBytes
  <2>1. WordBytes * (m + 1) = WordBytes * m + WordBytes /\ n + 1 - 4 = m + 1
    BY <1>7, FlashSize, Z3
  <2>2. job.i + WordBytes < g.size + WordBytes
    BY <1>3, <1>7, FlashSize
  <2> QED
    BY <1>2, <1>14, <1>15, <2>1, <2>2
<1>20. job'.sum = Checksum(Data(v))
  <2>1. /\ Data(job.words) \in Seq(Word)
        /\ Data(v) = Append(Data(job.words), w)
    BY <1>2, <1>7, <1>9, DataAppend DEF HeaderWords
  <2> QED
    BY <1>2, <1>9, <1>14, <2>1, ChecksumAppend
<1>21. ASSUME ~err, Erasable
       PROVE  /\ \A k \in 5 .. n + 1 : Cells(job.dev)'[k - 1] = v[k]
              /\ \A c \in Flash : c < 4 \/ (n + 1 <= c /\ c < 4 + N) => Ready(c)'
  <2>1. Ready(n)
    BY <1>4, <1>7, <1>8, <1>10, <1>21
  <2>2. /\ Cells(job.dev)'[n] = w
        /\ \A c \in Flash : c # n => /\ Cells(job.dev)'[c] = Cells(job.dev)[c]
                                     /\ Ready(c) => Ready(c)'
    BY <1>7, <1>10, <1>11, <1>14, <1>21, <2>1, PutCells
  <2>3. \A c \in Flash : c \in Nat
    BY DEF Flash
  <2> HIDE DEF v
  <2>4. ASSUME NEW k \in 5 .. n + 1 PROVE Cells(job.dev)'[k - 1] = v[k]
    <3>1. v[k] = IF k = n + 1 THEN w ELSE job.words[k]
      BY <1>7, <1>13 DEF v
    <3>2. CASE k = n + 1
      <4>1. k - 1 = n
        BY <1>7, <3>2
      <4> QED
        BY <2>2, <3>1, <3>2, <4>1
    <3>3. CASE k # n + 1
      <4>1. k \in 5 .. n /\ k - 1 # n /\ k - 1 \in 0 .. n
        BY <1>7, <3>3
      <4>2. k - 1 \in Flash
        <5> DEFINE F == FlashBytes \div WordBytes
        <5>1. n \in 0 .. F - 1 /\ F \in Nat
          BY <1>10, FlashSize DEF Flash
        <5> HIDE DEF F, n
        <5>2. k - 1 \in 0 .. F - 1
          BY <4>1, <5>1
        <5> QED
          BY <5>2 DEF Flash, F
      <4> QED
        BY <1>4, <1>21, <2>2, <3>1, <3>3, <4>1, <4>2
    <3> QED
      BY <3>2, <3>3
  <2>5. ASSUME NEW c \in Flash, c < 4 \/ (n + 1 <= c /\ c < 4 + N) PROVE Ready(c)'
    <3>1. c # n /\ (c < 4 \/ (n <= c /\ c < 4 + N))
      <4>1. c \in Nat /\ n \in Nat /\ n >= 4
        BY <1>2, <1>7, <2>3
      <4> HIDE DEF n, N
      <4> QED
        BY <2>5, <4>1
    <3> QED
      BY <1>4, <1>21, <2>2, <3>1
  <2> QED
    BY <2>4, <2>5
<1>22. ProgramInv'
  <2>1. job'.words = v /\ Len(job'.words) = n + 1
    BY <1>14, <1>18
  <2>2. ASSUME ~job'.rc, Erasable'
        PROVE  /\ \A k \in 5 .. Len(job'.words) : (Cells(job.dev)[k - 1] = job.words[k])'
               /\ \A c \in Flash :
                    c < 4 \/ (Len(job'.words) <= c /\ c < 4 + N') => Ready(c)'
    <3>1. ~err /\ Erasable
      BY <1>14, <1>16, <2>2
    <3> HIDE DEF v, n, N
    <3>2. \A k \in 5 .. n + 1 : (Cells(job.dev)[k - 1] = job.words[k])'
      BY <1>21, <2>1, <3>1
    <3>3. \A c \in Flash : c < 4 \/ (n + 1 <= c /\ c < 4 + N') => Ready(c)'
      BY <1>16, <1>21, <3>1
    <3> QED
      BY <2>1, <3>2, <3>3
  <2>3. /\ Len(job'.words) >= 4 /\ job'.words[1] = BIN_SIGNATURE
        /\ job'.words[2] = g'.base /\ job'.words[3] = g'.size
    BY <1>15, <1>18, <2>1
  <2>4. /\ job'.i = WordBytes * (Len(job'.words) - 4) /\ job'.i < g'.size + WordBytes
        /\ g'.addr = WordBytes * Len(job'.words)
    BY <1>15, <1>19, <2>1
  <2>5. job'.sum = Checksum(Data(job'.words))
    BY <1>20, <2>1
  <2> HIDE DEF v
  <2> QED
    BY <2>2, <2>3, <2>4, <2>5 DEF ProgramInv, HeaderWords
<1> QED
  BY <1>15, <1>17, <1>22 DEF StoreInv

-----------------------------------------------------------------------------
(* The header of a store, and its end. *)

(* The checksum goes into the header and leaves the data as they are.      *)
LEMMA DataHeader ==
  ASSUME NEW words \in Seq(Word), Len(words) >= 4, NEW x \in Word,
         NEW more, more = [words EXCEPT ![4] = x]
  PROVE  /\ more \in Seq(Word) /\ Len(more) = Len(words) /\ Data(more) = Data(words)
         /\ \A k \in 1 .. Len(words) : more[k] = IF k = 4 THEN x ELSE words[k]
<1> DEFINE n == Len(words) - 4
<1>1. /\ n \in Nat /\ Len(words) = n + 4
      /\ more \in Seq(Word) /\ Len(more) = n + 4
      /\ \A k \in 1 .. n + 4 : more[k] = IF k = 4 THEN x ELSE words[k]
  OBVIOUS
<1> HIDE DEF n
<1> DEFINE d == Data(words)
           e == Data(more)
<1>2. d \in Seq(Word) /\ Len(d) = n /\ \A i \in 1 .. n : d[i] = words[i + 4]
  BY <1>1 DEF Data, HeaderWords
<1>3. e \in Seq(Word) /\ Len(e) = n /\ \A i \in 1 .. n : e[i] = more[i + 4]
  BY <1>1 DEF Data, HeaderWords
<1> HIDE DEF d, e
<1>4. ASSUME NEW i \in 1 .. n PROVE d[i] = e[i]
  <2>1. i + 4 \in 1 .. n + 4 /\ i + 4 # 4
    BY <1>1
  <2> QED
    BY <1>1, <1>2, <1>3, <2>1
<1>5. d = e
  BY <1>1, <1>2, <1>3, <1>4
<1> QED
  BY <1>1, <1>5 DEF d, e

(* All data have been written, or an error has ended the loop.             *)
LEMMA StoreDataEndStep ==
  ASSUME ImageFits, StoreInv, BootInv, StoreDataEnd
  PROVE  StoreInv'
<1> DEFINE n == Len(job.words)
           m == n - 4
           x == Complement(job.sum)
           v == [job.words EXCEPT ![4] = x]
<1>1. /\ pc = "store_data" /\ g \in Globals /\ job \in StoreJobs /\ g.size # 0
      /\ job.dev = "spi" => spi.present
      /\ stored.dev = "none"
  BY DEF StoreDataEnd, StoreInv, TargetInv, Stores, BootInv, Types
<1>2. /\ n >= 4 /\ job.words[1] = BIN_SIGNATURE
      /\ job.words[2] = g.base /\ job.words[3] = g.size
      /\ job.i = WordBytes * m /\ job.i < g.size + WordBytes
      /\ job.sum = Checksum(Data(job.words))
  BY <1>1 DEF StoreInv, ProgramInv, HeaderWords
<1>3. ~job.rc /\ Erasable =>
        /\ \A k \in 5 .. n : Cells(job.dev)[k - 1] = job.words[k]
        /\ \A c \in Flash : c < 4 => Ready(c)
  BY <1>1 DEF StoreInv, ProgramInv, HeaderWords
<1>4. /\ pc' = "store_header" /\ g' = [g EXCEPT !.addr = 0]
      /\ job' = [job EXCEPT !.i = 0, !.words = v]
      /\ spi' = spi /\ twi' = twi /\ stored' = stored
      /\ job.i >= g.size \/ job.rc
  BY DEF StoreDataEnd
<1>5. /\ job.words \in Seq(Word) /\ job.sum \in Word /\ n \in Nat /\ m \in Nat /\ n = m + 4
      /\ job.dev \in {"twi", "spi"}
  BY <1>1, <1>2 DEF StoreJobs
<1>6. x \in Word
  BY <1>5, WordMaxAssumption DEF Complement, Word
<1> HIDE DEF x
<1>7. /\ v \in Seq(Word) /\ Len(v) = n /\ Data(v) = Data(job.words)
      /\ \A k \in 1 .. n : v[k] = IF k = 4 THEN x ELSE job.words[k]
  BY <1>2, <1>5, <1>6, DataHeader
<1> HIDE DEF v
<1>8. job' \in StoreJobs /\ job'.i = 0 /\ job'.dev = job.dev /\ job'.rc = job.rc /\ job'.words = v
  BY <1>1, <1>4, <1>7 DEF StoreJobs
<1>9. g'.base = g.base /\ g'.size = g.size /\ g'.addr = 0
  BY <1>1, <1>4 DEF Globals
<1>10. SizeWords' = SizeWords /\ (Erasable' <=> Erasable)
  BY <1>8, <1>9 DEF SizeWords, num_sectors, Erasable
<1>11. RoomInv' /\ FlashTypes' /\ TargetInv' /\ EraseInv' /\ ProgramInv' /\ StoredInv'
  <2>1. RoomInv' /\ FlashTypes'
    BY <1>4, <1>9, <1>10 DEF StoreInv, RoomInv, FlashTypes
  <2>2. TargetInv'
    BY <1>1, <1>4, <1>8, <1>9 DEF TargetInv, Stores
  <2> QED
    BY <1>1, <1>4, <2>1, <2>2 DEF EraseInv, ProgramInv, StoredInv
<1>12. ~job.rc => n = 4 + SizeWords
  <2> SUFFICES ASSUME ~job.rc PROVE n = 4 + SizeWords
    OBVIOUS
  <2>1. WordBytes * m >= g.size /\ WordBytes * m < g.size + WordBytes
    BY <1>2, <1>4
  <2>2. m = SizeWords
    BY <1>1, <1>5, <2>1, SizeReached
  <2> QED
    BY <1>5, <2>2
<1>13. /\ Len(job'.words) = n /\ n >= 4 /\ job'.words[1] = BIN_SIGNATURE
       /\ job'.words[2] = g'.base /\ job'.words[3] = g'.size
       /\ job'.words[4] = Complement(Checksum(Data(job'.words)))
  BY <1>2, <1>5, <1>7, <1>8, <1>9 DEF x
<1>14. \A c : /\ (Ready(c)' <=> Ready(c))
              /\ (Cells(job.dev)[c])' = Cells(job.dev)[c]
  BY <1>4, <1>8 DEF Ready, Cells
<1>15. ASSUME ~job'.rc, Erasable'
       PROVE  /\ \A k \in 1 .. Len(job'.words) :
                   k <= job'.i \/ 4 < k => (Cells(job.dev)[k - 1] = job.words[k])'
              /\ \A c \in Flash : job'.i <= c /\ c < 4 => Ready(c)'
  <2>1. ~job.rc /\ Erasable
    BY <1>8, <1>10, <1>15
  <2> HIDE DEF n
  <2>2. ASSUME NEW k \in 1 .. n, k <= 0 \/ 4 < k
        PROVE  (Cells(job.dev)[k - 1] = job.words[k])'
    <3>1. k \in 5 .. n /\ k # 4
      BY <1>5, <2>2
    <3> QED
      BY <1>3, <1>7, <1>8, <1>14, <2>1, <2>2, <3>1
  <2> QED
    BY <1>3, <1>8, <1>13, <1>14, <2>1, <2>2
<1>16. job'.i <= 4 /\ g'.addr = WordBytes * job'.i
  BY <1>8, <1>9, FlashSize
<1>17. ~job'.rc => Len(job'.words) = 4 + SizeWords'
  BY <1>8, <1>10, <1>12, <1>13
<1>18. HeaderInv'
  BY <1>13, <1>15, <1>16, <1>17 DEF HeaderInv, HeaderWords
<1> QED
  BY <1>11, <1>18 DEF StoreInv

(* A word of the header is written.                                        *)
LEMMA StoreHeaderStep ==
  ASSUME ImageFits, StoreInv, BootInv, StoreHeader
  PROVE  StoreInv'
<1> DEFINE n == Len(job.words)
           i == job.i
           w == job.words[i + 1]
<1>1. /\ pc = "store_header" /\ g \in Globals /\ job \in StoreJobs /\ g.size # 0
      /\ job.dev = "spi" => spi.present
      /\ stored.dev = "none"
  BY DEF StoreHeader, StoreInv, TargetInv, Stores, BootInv, Types
<1>2. /\ n >= 4 /\ job.words[1] = BIN_SIGNATURE
      /\ job.words[2] = g.base /\ job.words[3] = g.size
      /\ job.words[4] = Complement(Checksum(Data(job.words)))
      /\ g.addr = WordBytes * i
      /\ ~job.rc => n = 4 + SizeWords
      /\ ~job.rc /\ Erasable =>
           /\ \A k \in 1 .. n : k <= i \/ 4 < k => Cells(job.dev)[k - 1] = job.words[k]
           /\ \A c \in Flash : i <= c /\ c < 4 => Ready(c)
  BY <1>1 DEF StoreInv, HeaderInv, HeaderWords
<1>3. PICK err \in BOOLEAN :
        /\ stream_put(w, err)
        /\ job' = [job EXCEPT !.i = i + 1, !.rc = job.rc \/ err]
  BY DEF StoreHeader
<1>4. pc' = "store_header" /\ stored' = stored /\ i < 4
  BY <1>1 DEF StoreHeader, HeaderWords
<1>5. /\ job.words \in Seq(Word) /\ n \in Nat /\ i \in Nat /\ i + 1 \in 1 .. n
      /\ job.dev \in {"twi", "spi"}
  <2>1. job.words \in Seq(Word) /\ i \in Nat /\ job.dev \in {"twi", "spi"}
    BY <1>1 DEF StoreJobs
  <2> QED
    BY <1>2, <1>4, <2>1
<1>6. w \in Word
  BY <1>5
<1>7. i \in Flash
  <2> DEFINE F == FlashBytes \div WordBytes
             N == SizeWords
  <2>1. 4 + N <= F /\ F \in Nat /\ N \in Nat
    BY <1>1, ImageRoom, FlashSize, SizeTypes
  <2> HIDE DEF F, N, i
  <2>2. i \in 0 .. F - 1
    BY <1>4, <1>5, <2>1
  <2> QED
    BY <2>2 DEF Flash, F
<1> HIDE DEF w
<1>8. Put(i, w, err)
  BY <1>1, <1>2, <1>3, <1>5, <1>6, <1>7, PutWord DEF StoreInv
<1>9. /\ job' \in StoreJobs /\ job'.dev = job.dev /\ job'.i = i + 1
      /\ job'.rc = (job.rc \/ err) /\ job'.words = job.words
  <2>1. i + 1 \in Nat
    BY <1>5
  <2> QED
    BY <1>1, <1>3, <2>1 DEF StoreJobs
<1>10. /\ g' \in Globals /\ g'.base = g.base /\ g'.size = g.size
       /\ g'.addr = WordBytes * (i + 1) /\ FlashTypes' /\ spi'.present = spi.present
  BY <1>8 DEF Put
<1>11. SizeWords' = SizeWords /\ (Erasable' <=> Erasable)
  BY <1>9, <1>10 DEF SizeWords, num_sectors, Erasable
<1>12. RoomInv' /\ TargetInv' /\ EraseInv' /\ ProgramInv' /\ StoredInv'
  <2>1. RoomInv'
    BY <1>4, <1>10, <1>11 DEF StoreInv, RoomInv
  <2>2. TargetInv'
    BY <1>1, <1>4, <1>9, <1>10 DEF TargetInv, Stores
  <2> QED
    BY <1>1, <1>4, <2>1, <2>2 DEF EraseInv, ProgramInv, StoredInv
<1>13. ASSUME ~job'.rc, Erasable'
       PROVE  /\ \A k \in 1 .. n :
                   k <= i + 1 \/ 4 < k => (Cells(job.dev)[k - 1] = job.words[k])'
              /\ \A c \in Flash : i + 1 <= c /\ c < 4 => Ready(c)'
  <2>1. ~job.rc /\ ~err /\ Erasable
    BY <1>9, <1>11, <1>13
  <2>2. Ready(i)
    BY <1>2, <1>4, <1>5, <1>7, <2>1
  <2>3. /\ Cells(job.dev)'[i] = w
        /\ \A c \in Flash : c # i => /\ Cells(job.dev)'[c] = Cells(job.dev)[c]
                                     /\ Ready(c) => Ready(c)'
    BY <1>5, <1>7, <1>8, <1>9, <2>1, <2>2, PutCells
  <2>4. ASSUME NEW k \in 1 .. n, k <= i + 1 \/ 4 < k
        PROVE  (Cells(job.dev)[k - 1] = job.words[k])'
    <3>1. CASE k = i + 1
      <4>1. k - 1 = i /\ job.words[k] = w
        BY <1>5, <3>1 DEF w
      <4> QED
        BY <1>9, <2>3, <4>1
    <3>2. CASE k # i + 1
      <4>1. (k <= i \/ 4 < k) /\ k - 1 # i /\ k - 1 \in 0 .. n - 1
        <5> HIDE DEF i, n
        <5> QED
          BY <1>5, <2>4, <3>2
      <4>2. k - 1 \in Flash
        <5> DEFINE F == FlashBytes \div WordBytes
                   N == SizeWords
        <5>1. 4 + N <= F /\ F \in Nat /\ N \in Nat /\ n = 4 + N
          BY <1>1, <1>2, <2>1, ImageRoom, FlashSize, SizeTypes
        <5> HIDE DEF F, N, n
        <5>2. k - 1 \in 0 .. F - 1
          BY <4>1, <5>1
        <5> QED
          BY <5>2 DEF Flash, F
      <4>3. Cells(job.dev)[k - 1] = job.words[k]
        BY <1>2, <2>1, <4>1
      <4> QED
        BY <1>9, <2>3, <4>1, <4>2, <4>3
    <3> QED
      BY <3>1, <3>2
  <2>5. ASSUME NEW c \in Flash, i + 1 <= c, c < 4 PROVE Ready(c)'
    <3>1. i <= c /\ c # i
      <4>1. c \in Nat
        BY DEF Flash
      <4> QED
        BY <1>5, <2>5, <4>1
    <3> QED
      BY <1>2, <2>1, <2>3, <2>5, <3>1
  <2> QED
    BY <2>4, <2>5
<1>14. HeaderInv'
  <2>1. /\ Len(job'.words) = n /\ n >= 4 /\ job'.words[1] = BIN_SIGNATURE
        /\ job'.words[2] = g'.base /\ job'.words[3] = g'.size
        /\ job'.words[4] = Complement(Checksum(Data(job'.words)))
    BY <1>2, <1>9, <1>10
  <2>2. job'.i <= 4 /\ g'.addr = WordBytes * job'.i
    BY <1>4, <1>5, <1>9, <1>10
  <2>3. ~job'.rc => Len(job'.words) = 4 + SizeWords'
    BY <1>2, <1>9, <1>11, <2>1
  <2>4. ~job'.rc /\ Erasable' =>
          /\ \A k \in 1 .. Len(job'.words) :
               k <= job'.i \/ 4 < k => (Cells(job.dev)[k - 1] = job.words[k])'
          /\ \A c \in Flash : job'.i <= c /\ c < 4 => Ready(c)'
    BY <1>9, <1>13, <2>1
  <2> QED
    BY <2>1, <2>2, <2>3, <2>4 DEF HeaderInv, HeaderWords
<1> QED
  BY <1>10, <1>12, <1>14 DEF StoreInv

(* The image that has been stored is one that a load accepts.              *)
LEMMA StoredAccepted ==
  ASSUME StoreInv, BootInv, pc = "store_header", ~job.rc
  PROVE  Accepted(job.words)
<1> DEFINE n == SizeWords
           d == Data(job.words)
           c == Checksum(d)
<1>1. /\ job.words \in Seq(Word) /\ n \in Nat
      /\ Len(job.words) = 4 + n /\ job.words[1] = BIN_SIGNATURE
      /\ job.words[3] = g.size /\ job.words[4] = Complement(c)
  <2>1. job.words \in Seq(Word) /\ g \in Globals
    BY DEF StoreInv, TargetInv, Stores, StoreJobs, BootInv, Types
  <2> QED
    BY <2>1, SizeTypes DEF StoreInv, HeaderInv, HeaderWords
<1>2. d = SubSeq(job.words, 4 + 1, 4 + n)
  BY <1>1 DEF Data, HeaderWords
<1>3. c \in Nat
  <2>1. d \in Seq(Word) /\ 0 \in Word
    BY <1>1, DataAppend, WordMaxAssumption DEF HeaderWords, Word
  <2> QED
    BY <2>1, ChecksumAppend
<1>4. (Complement(c) + c + 1) % WordMax = 0
  <2> HIDE DEF c
  <2>1. Complement(c) + c + 1 = WordMax
    BY <1>3, WordMaxAssumption DEF Complement
  <2>2. (WordMax * 1 + 0) % WordMax = 0 /\ WordMax * 1 + 0 = WordMax
    <3>1. 0 \in 0 .. WordMax - 1 /\ 1 \in Nat /\ WordMax * 1 + 0 = WordMax
      BY WordMaxAssumption
    <3> QED
      BY <3>1, Quotient, WordMaxAssumption
  <2> QED
    BY <2>1, <2>2
<1>5. (job.words[3] + WordBytes - 1) \div WordBytes = n
  BY <1>1 DEF SizeWords
<1> HIDE DEF n, d
<1>6. (job.words[4] + Checksum(SubSeq(job.words, 4 + 1, 4 + n)) + 1) % WordMax = 0
  BY <1>1, <1>2, <1>4
<1> HIDE DEF c
<1>7. Len(job.words) >= 4 /\ Len(job.words) >= 4 + n
  BY <1>1
<1> QED
  BY <1>1, <1>5, <1>6, <1>7 DEF Accepted, HeaderWords

(* system_app_store returns.                                               *)
LEMMA StoreReturnStep ==
  ASSUME ImageFits, StoreInv, BootInv, StoreReturn
  PROVE  StoreInv'
<1>1. /\ pc = "store_header" /\ job.i = 4 /\ Resume /\ spi' = spi /\ twi' = twi
      /\ stored' = IF job.rc THEN stored ELSE [dev |-> job.dev, words |-> job.words]
  BY DEF StoreReturn, HeaderWords
<1>2. CASE job.rc
  BY <1>1, <1>2, FlashesSame, ResumeStore
<1>3. CASE ~job.rc
  <2> DEFINE n == Len(job.words)
             F == FlashBytes \div WordBytes
  <2>1. stored' = [dev |-> job.dev, words |-> job.words]
    BY <1>1, <1>3
  <2>2. job.words \in Seq(Word) /\ job.dev \in {"twi", "spi"} /\ g.size # 0 /\ g \in Globals
    BY <1>1 DEF StoreInv, TargetInv, Stores, StoreJobs, BootInv, Types
  <2>3. /\ n = 4 + SizeWords /\ job.words[3] = g.size
        /\ Erasable => \A k \in 1 .. n : k <= 4 \/ 4 < k => Cells(job.dev)[k - 1] = job.words[k]
    BY <1>1, <1>3 DEF StoreInv, HeaderInv, HeaderWords
  <2>4. n <= F
    BY <2>2, <2>3, ImageRoom
  <2>5. job.dev = "twi" \/ FitsErased(job.words) => Erasable
    BY <2>3 DEF FitsErased, Erasable, num_sectors, HeaderWords
  <2>6. Accepted(job.words)
    BY <1>1, <1>3, StoredAccepted
  <2>7. ASSUME Erasable, NEW k \in 1 .. n
        PROVE  (Cells(stored.dev)[k - 1] = stored.words[k])'
    <3>1. Cells(job.dev)[k - 1] = job.words[k]
      <4>1. k <= 4 \/ 4 < k
        OBVIOUS
      <4> QED
        BY <2>3, <2>7, <4>1
    <3> HIDE DEF n
    <3>2. (IF job.dev = "spi" THEN spi.mem ELSE twi)[k - 1] = job.words[k]
      BY <3>1 DEF Cells
    <3>3. stored'.dev = job.dev /\ stored'.words = job.words /\ spi' = spi /\ twi' = twi
      BY <1>1, <2>1
    <3>4. (IF stored'.dev = "spi" THEN spi'.mem ELSE twi')[k - 1] = stored'.words[k]
      BY <3>2, <3>3
    <3> QED
      BY <3>4 DEF Cells
  <2>8. stored'.dev = job.dev /\ stored'.words = job.words
    BY <2>1
  <2>9. StoredInv'
    <3>1. Len(stored'.words) <= F
      BY <2>4, <2>8
    <3>2. (stored.dev = "twi" \/ FitsErased(stored.words))' =>
            \A k \in 1 .. Len(stored'.words) : (Cells(stored.dev)[k - 1] = stored.words[k])'
      <4>1. (stored.dev = "twi" \/ FitsErased(stored.words))' => Erasable
        BY <2>5, <2>8 DEF FitsErased
      <4>2. Len(stored'.words) = n
        BY <2>8
      <4> HIDE DEF n
      <4> QED
        BY <2>7, <4>1, <4>2
    <3> QED
      BY <2>2, <2>6, <2>8, <3>1, <3>2 DEF StoredInv
  <2>10. pc' \in {"load_init", "console"} /\ (g' = g \/ g'.size = 0)
    BY <1>1, <2>2 DEF Resume, LoadFrom, Globals
  <2>11. RoomInv' /\ FlashTypes'
    BY <1>1, <2>10 DEF StoreInv, RoomInv, SizeWords, FlashTypes
  <2>12. TargetInv' /\ EraseInv' /\ ProgramInv' /\ HeaderInv'
    BY <2>10 DEF TargetInv, EraseInv, ProgramInv, HeaderInv, Stores
  <2> QED
    BY <2>9, <2>11, <2>12 DEF StoreInv
<1> QED
  BY <1>2, <1>3

-----------------------------------------------------------------------------
(* Every step keeps the invariant. *)
LEMMA StoreStepInv ==
  ASSUME ImageFits, StoreInv, BootInv, [Next]_vars
  PROVE  StoreInv'
<1>1. CASE Loading
  BY <1>1, LoadEarlyStore, LoadHeaderStore, LoadWordStore, LoadCheckStore DEF Loading
<1>2. CASE Storing
  BY <1>2, StoreInitStep, StoreAskStep, StoreEraseStep, StoreWordStep, StoreDataEndStep,
     StoreHeaderStep, StoreReturnStep DEF Storing
<1>3. CASE system_setup \/ AutoBootWait \/ Console \/ Boot \/ BootAsk \/ BootStep
  BY <1>3, MainStore, ConsoleStore
<1>4. CASE TimerInterrupt \/ PressKey \/ Upload \/ Tick \/ UNCHANGED vars
  <2>1. pc' = pc /\ g' = g /\ job' = job /\ spi' = spi /\ twi' = twi /\ stored' = stored
    BY <1>4 DEF TimerInterrupt, PressKey, Upload, Tick, vars
  <2> QED
    BY <2>1, BystanderStore
<1> QED
  BY <1>1, <1>2, <1>3, <1>4 DEF Next, Main

(* It holds at power-up. *)
LEMMA StoreInitInv == Init => StoreInv
<1> SUFFICES ASSUME Init PROVE StoreInv
  OBVIOUS
<1>1. /\ pc = "reset" /\ g = [base |-> DEFAULT_EXE_ADDR, size |-> 0, addr |-> 0]
      /\ spi \in [mem : FlashImages, wel : {FALSE}, present : BOOLEAN]
      /\ twi \in FlashImages /\ stored = [dev |-> "none", words |-> <<>>]
  BY DEF Init
<1>2. FlashTypes
  BY <1>1, FlashAssumption DEF FlashTypes
<1> QED
  BY <1>1, <1>2 DEF StoreInv, RoomInv, TargetInv, EraseInv, ProgramInv, HeaderInv, StoredInv,
     Stores

(* What the invariant says of an image is what a load from its flash reads.*)
LEMMA StoredReads ==
  ASSUME StoreInv
  PROVE  StoredImageLoads
<1> SUFFICES ASSUME stored.dev = "twi" \/ (stored.dev = "spi" /\ FitsErased(stored.words))
             PROVE  /\ FlashWords(stored.dev, Len(stored.words)) = stored.words
                    /\ Accepted(stored.words)
  BY DEF StoredImageLoads
<1> DEFINE n == Len(stored.words)
           F == FlashBytes \div WordBytes
<1>1. /\ stored.words \in Seq(Word) /\ Accepted(stored.words) /\ n <= F
      /\ \A k \in 1 .. n : Cells(stored.dev)[k - 1] = stored.words[k]
  BY DEF StoreInv, StoredInv
<1>2. n \in Nat /\ F \in Nat /\ Flash = 0 .. F - 1
  BY <1>1, FlashSize DEF Flash
<1>3. \A k \in 1 .. n : Cell((k - 1) * WordBytes) = k - 1
  <2> HIDE DEF n, F
  <2> SUFFICES ASSUME NEW k \in 1 .. n PROVE Cell((k - 1) * WordBytes) = k - 1
    OBVIOUS
  <2>1. k - 1 \in 0 .. F - 1 /\ k - 1 \in Nat
    BY <1>1, <1>2
  <2>2. (k - 1) * WordBytes = WordBytes * (k - 1)
    BY <2>1, FlashSize
  <2> QED
    BY <1>2, <2>1, <2>2, CellAt
<1> DEFINE f == FlashWords(stored.dev, n)
<1>4. f = [k \in 1 .. n |-> Cells(stored.dev)[Cell((k - 1) * WordBytes)]]
  BY DEF FlashWords, Cells
<1> HIDE DEF f
<1>5. DOMAIN f = 1 .. n /\ \A k \in 1 .. n : f[k] = Cells(stored.dev)[Cell((k - 1) * WordBytes)]
  BY <1>4
<1>6. \A k \in 1 .. n : f[k] = stored.words[k]
  BY <1>1, <1>3, <1>5
<1>7. f = [k \in 1 .. n |-> f[k]]
  BY <1>4
<1>8. f = [k \in 1 .. n |-> stored.words[k]]
  BY <1>6, <1>7
<1>9. stored.words = [k \in 1 .. n |-> stored.words[k]]
  BY <1>1
<1> QED
  BY <1>1, <1>8, <1>9 DEF f

(* A store that has reported success has put an image into the flash that  *)
(* a load accepts word for word, and nothing changes it until the next     *)
(* store; for the SPI flash, of images that the erased sectors hold.       *)
THEOREM BootStoredImageLoads == ASSUME ImageFits PROVE Spec => []StoredImageLoads
<1>1. BootInv /\ StoreInv /\ [Next]_vars => StoreInv'
  BY StoreStepInv
<1>2. StoreInv => StoredImageLoads
  BY StoredReads
<1> QED
  BY <1>1, <1>2, StoreInitInv, BootInductive, PTL DEF Spec
=============================================================================
