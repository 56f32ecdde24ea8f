---------------------------- MODULE CacheProofs ----------------------------
(***************************************************************************)
(* The cache for any number and size of blocks, with single transfers and  *)
(* with bursts, answers after any number of cycles and any bus errors.     *)
(***************************************************************************)
EXTENDS Cache, TLAPS, SequenceTheorems

-----------------------------------------------------------------------------
(* The invariant *)

ReadStates == {"S_READ_START", "S_READ_WAIT", "S_READ_BURST", "S_READ_DONE"}
WriteStates == {"S_WRITE_START", "S_WRITE_REQ", "S_WRITE_RSP", "S_WRITE_WAIT", "S_WRITE_BURST",
                "S_WRITE_DONE"}
Reading == ctrl.state \in ReadStates
Writing == ctrl.state \in WriteStates
Moving == (Reading \/ Writing) /\ ctrl.state \notin {"S_READ_DONE", "S_WRITE_DONE"}
Syncing == ctrl.state \in {"S_SYNC_DELAY", "S_SYNC_CHECK", "S_SYNC_NEXT"} \/ (Writing /\ ctrl.sync)
Serving == ctrl.state \in {"S_CHECK", "S_BYPASS"} \/ Reading \/ (Writing /\ ~ctrl.sync)

Byte == Value \cup {Junk}
BusReq == [rw : BOOLEAN, addr : Addr, data : Byte]

CacheTypeOK ==
  /\ TypeOK
  /\ generic \in Generics
  /\ rd \in [valid : BOOLEAN, dirty : BOOLEAN, tag : Tag, data : Byte]
  /\ host \in [stb : BOOLEAN, fence : BOOLEAN, busy : BOOLEAN, fenced : BOOLEAN,
               req : Requests, data : Byte]
  /\ host.req.rw => host.data \in Value
  /\ queue \in Seq(BusReq)
  /\ fresh \in [Addr -> SUBSET Value]
  /\ failed \subseteq Idx

(* The host keeps its request until it is answered. *)
HostInv ==
  /\ host.stb \/ ctrl.pnd_req => host.busy
  /\ Serving => host.busy /\ ~host.stb /\ ~ctrl.sync
  /\ Reading \/ (Writing /\ ~ctrl.sync) => haddr[2] = ctrl.idx /\ ~host.req.bypass
  /\ In("S_BYPASS") => host.req.bypass
  /\ In("S_CHECK") => (ctrl.pnd_bp <=> host.req.bypass)
  /\ Serving /\ ~In("S_CHECK") => ~ctrl.pnd_req
  /\ Syncing => ctrl.sync
  /\ In("S_SYNC_START") => ~ctrl.sync

(* What the read ports show when the control engine looks at them. *)
hidx == haddr[2]
hword == <<haddr[2], haddr[3]>>
LookupInv ==
  /\ In("S_CHECK") /\ ~ctrl.pnd_bp =>
       IF hit THEN valid[hidx] /\ tag[hidx] = haddr[1] /\ rd.data = data[hword]
       ELSE IF drt THEN valid[hidx] /\ dirty[hidx] /\ tag[hidx] # haddr[1]
       ELSE ~(valid[hidx] /\ dirty[hidx])
  /\ In("S_SYNC_CHECK") =>
       ~ctrl.cln /\ rd.valid = valid[ctrl.idx] /\ rd.dirty = dirty[ctrl.idx]

(* The words of a block transfer: those behind ofs_int are done, those     *)
(* before Issued have been requested, and in between they are answered in  *)
(* order.                                                                  *)
Answer == ctrl.ofs_int + (IF rsp.ack THEN 1 ELSE 0)
Issued ==
  CASE ctrl.state \in {"S_READ_START", "S_WRITE_START", "S_WRITE_REQ", "S_WRITE_WAIT"} -> ctrl.ofs_int
    [] ctrl.state \in {"S_READ_WAIT", "S_WRITE_RSP"} -> ctrl.ofs_int + 1
    [] ctrl.state = "S_READ_BURST" -> ctrl.ofs_ext
    [] ctrl.state = "S_WRITE_BURST" -> IF Overflow(ctrl.ofs_buf) THEN BLOCK_WORDS ELSE ctrl.ofs_buf
WordReq(r, o) ==
  /\ r.addr = <<ctrl.tag, ctrl.idx, o>> /\ (r.rw <=> Writing)
  /\ Writing => r.data = data[<<ctrl.idx, o>>]
TransferInv ==
  /\ Moving =>
       /\ Answer <= Issued /\ Issued <= BLOCK_WORDS
       /\ Len(queue) = Issued - Answer
       /\ \A j \in 1 .. Len(queue) : WordReq(queue[j], Answer + j - 1)
       /\ ctrl.state \notin {"S_READ_BURST", "S_WRITE_BURST"} => ctrl.ofs_ext = ctrl.ofs_int
  /\ ctrl.state \in {"S_READ_BURST", "S_WRITE_WAIT", "S_WRITE_BURST"} => BURSTS_EN
  /\ ctrl.state \in {"S_READ_START", "S_READ_WAIT", "S_WRITE_START", "S_WRITE_REQ", "S_WRITE_RSP"}
       => (BURSTS_EN => ctrl.ofs_int = 0)
  /\ In("S_WRITE_REQ") => rd.data = data[<<ctrl.idx, ctrl.ofs_int>>]
  /\ In("S_WRITE_BURST") =>
       IF Overflow(ctrl.ofs_buf) THEN Overflow(ctrl.ofs_ext)
       ELSE ctrl.ofs_ext = ctrl.ofs_buf + 1 /\ rd.data = data[<<ctrl.idx, ctrl.ofs_buf>>]

(* Nothing is under way on the bus otherwise. *)
NoTransfer == queue = <<>> /\ ~rsp.ack
BypassReq(r) ==
  r.addr = haddr /\ (r.rw <=> host.req.rw /\ host.req.ben) /\ (r.rw => r.data = host.data)
BusInv ==
  /\ ~Moving /\ ~In("S_BYPASS") => NoTransfer
  /\ In("S_BYPASS") => \/ ctrl.bp_req /\ NoTransfer
                       \/ ~ctrl.bp_req /\ ~rsp.ack /\ Len(queue) = 1 /\ BypassReq(queue[1])
                       \/ ~ctrl.bp_req /\ rsp.ack /\ queue = <<>>
  /\ In("S_BYPASS") /\ rsp.ack /\ ~rsp.err /\ ~host.req.rw => rsp.data \in fresh[haddr]

(* A block that is read in is not modified; a word received in it is one   *)
(* the host may be given.                                                  *)
Here(o) == <<ctrl.tag, ctrl.idx, o>>
Loaded(o) == data[<<ctrl.idx, o>>] \in fresh[Here(o)]
ReadInv ==
  Reading =>
    /\ ~(valid[ctrl.idx] /\ dirty[ctrl.idx])
    /\ haddr[1] = ctrl.tag
    /\ \A o \in Ofs : o < ctrl.ofs_int \/ In("S_READ_DONE") => ctrl.bus_err \/ Loaded(o)
    /\ rsp.ack => rsp.err \/ rsp.data \in fresh[Here(ctrl.ofs_int)]

(* A block that is written back is modified; a word taken by the bus is in *)
(* memory.                                                                 *)
Stored(o) == mem[Here(o)] \in fresh[Here(o)]
WriteInv ==
  Writing =>
    /\ valid[ctrl.idx] /\ dirty[ctrl.idx]
    /\ IF In("S_WRITE_START") /\ ctrl.ofs_int = 0 THEN rd.tag = tag[ctrl.idx]
       ELSE ctrl.tag = tag[ctrl.idx]
    /\ ~ctrl.sync => tag[ctrl.idx] # haddr[1]
    /\ \A o \in Ofs : o < ctrl.ofs_int \/ In("S_WRITE_DONE") => ctrl.bus_err \/ Stored(o)
    /\ rsp.ack => rsp.err \/ Stored(ctrl.ofs_int)

(* Synchronization has flushed the blocks before idx. *)
SyncInv ==
  /\ Syncing =>
       /\ \A i \in Idx : i < ctrl.idx => (valid[i] <=> i \in failed) /\ (i \in failed => dirty[i])
       /\ \A i \in failed : i <= ctrl.idx
       /\ ctrl.idx \in failed <=> ctrl.state \notin {"S_SYNC_DELAY", "S_SYNC_CHECK"} /\ ctrl.bus_err
  /\ In("S_SYNC_NEXT") =>
       IF ctrl.bus_err
       THEN valid[ctrl.idx] /\ dirty[ctrl.idx] /\ ctrl.tag = tag[ctrl.idx]
       ELSE \A a \in Addr : a[2] = ctrl.idx => mem[a] \in fresh[a]

(* A cached word and a word not waiting to be written back are ones the    *)
(* host may be given.  An uncached store counts from its answer on.        *)
LineInv ==
  \A a \in Addr : Cached(a) /\ ~(Reading /\ a[2] = ctrl.idx) => data[<<a[2], a[3]>>] \in fresh[a]
MemInv ==
  \A a \in Addr : \/ Cached(a) /\ dirty[a[2]]
                  \/ mem[a] \in fresh[a]
                  \/ /\ In("S_BYPASS") /\ rsp.ack /\ ~rsp.err /\ host.req.rw /\ host.req.ben
                     /\ a = haddr /\ mem[a] = host.data

(* Only blocks that nobody else uses are modified. *)
DirtyInv ==
  \A i \in Idx : /\ dirty[i] => ~READ_ONLY
                 /\ valid[i] /\ dirty[i] =>
                      \A a \in Addr : a[1] = tag[i] /\ a[2] = i => a \notin Foreign(generic)

CacheInv ==
  /\ CacheTypeOK /\ HostInv /\ LookupInv /\ TransferInv /\ BusInv
  /\ ReadInv /\ WriteInv /\ SyncInv /\ LineInv /\ MemInv /\ DirtyInv

-----------------------------------------------------------------------------
(* Registers of the control engine *)

CtrlState == [state : State, sync : BOOLEAN, bus_err : BOOLEAN, pnd_req : BOOLEAN,
              pnd_syn : BOOLEAN, pnd_bp : BOOLEAN, bp_req : BOOLEAN, hit : BOOLEAN,
              cln : BOOLEAN, tag : Tag, idx : Idx, ofs_int : Ofs,
              ofs_ext : 0 .. 2 * BLOCK_WORDS - 1, ofs_buf : 0 .. 2 * BLOCK_WORDS - 1]

(* Where a state assigns nothing. *)
LEMMA KeepFacts ==
  ASSUME ctrl \in CtrlState, host.stb \in BOOLEAN, host.fence \in BOOLEAN
  PROVE  /\ Keep \in CtrlState
         /\ Keep.state = ctrl.state /\ Keep.sync = ctrl.sync /\ Keep.bus_err = ctrl.bus_err
         /\ Keep.pnd_req <=> ctrl.pnd_req \/ host.stb
         /\ ~Keep.pnd_bp /\ ~Keep.bp_req /\ ~Keep.hit /\ ~Keep.cln
         /\ Keep.tag = ctrl.tag /\ Keep.idx = ctrl.idx /\ Keep.ofs_int = ctrl.ofs_int
         /\ Keep.ofs_ext = ctrl.ofs_ext /\ Keep.ofs_buf = ctrl.ofs_ext
<1>1. Keep \in CtrlState
  BY DEF Keep, CtrlState
<1> QED
  BY <1>1 DEF Keep, CtrlState

(* The generics never change. *)
LEMMA Fixed ==
  ASSUME generic' = generic
  PROVE  /\ NUM_BLOCKS' = NUM_BLOCKS /\ BLOCK_WORDS' = BLOCK_WORDS /\ READ_ONLY' = READ_ONLY
         /\ BURSTS_EN' = BURSTS_EN /\ Requests' = Requests /\ Shared' = Shared
         /\ Idx' = Idx /\ Ofs' = Ofs /\ Addr' = Addr
BY DEF NUM_BLOCKS, BLOCK_WORDS, READ_ONLY, BURSTS_EN, Requests, Shared, Idx, Ofs, Addr

(* Sizes and offsets. *)
LEMMA Sizes ==
  ASSUME generic \in Generics
  PROVE  /\ NUM_BLOCKS \in Nat \ {0} /\ BLOCK_WORDS \in Nat \ {0} /\ READ_ONLY \in BOOLEAN
         /\ BURSTS_EN \in BOOLEAN /\ (BURSTS_EN => BLOCK_WORDS > 1)
         /\ Requests \subseteq [rw : BOOLEAN, ben : BOOLEAN, bypass : BOOLEAN, addr : Addr]
         /\ READ_ONLY => \A r \in Requests : ~r.rw
         /\ Shared \subseteq Addr /\ \E r \in Requests : ~r.rw
         /\ 0 \in Idx /\ 0 \in Ofs
BY CacheAssumption DEF NUM_BLOCKS, BLOCK_WORDS, READ_ONLY, BURSTS_EN, Requests, Shared, Addr, Idx, Ofs

(* The remainder of a number that is at most the modulus. *)
LEMMA Modulo ==
  ASSUME NEW n \in Nat \ {0}, NEW o \in 0 .. n
  PROVE  o % n = IF o = n THEN 0 ELSE o
<1>1. CASE o = n
  BY <1>1, Z3
<1>2. CASE o < n
  BY <1>2, Z3
<1> QED
  BY <1>1, <1>2

(* Offsets and block indices wrap at the end of the block and of the cache. *)
LEMMA Offsets ==
  ASSUME generic \in Generics
  PROVE  /\ \A o \in Ofs : /\ IncInt(o) = IF o = BLOCK_WORDS - 1 THEN 0 ELSE o + 1
                           /\ IncInt(o) \in Ofs /\ o % BLOCK_WORDS = o
         /\ \A o \in Nat : o < 2 * BLOCK_WORDS - 1 => IncExt(o) = o + 1
         /\ \A o \in Nat : o < 2 * BLOCK_WORDS => IncExt(o) \in 0 .. 2 * BLOCK_WORDS - 1
         /\ \A o \in Nat : o % BLOCK_WORDS \in Ofs
         /\ \A i \in Idx : /\ (i + 1) % NUM_BLOCKS = IF i = NUM_BLOCKS - 1 THEN 0 ELSE i + 1
                           /\ (i + 1) % NUM_BLOCKS \in Idx
<1> DEFINE w == BLOCK_WORDS
           n == NUM_BLOCKS
           v == 2 * BLOCK_WORDS
<1>1. w \in Nat \ {0} /\ n \in Nat \ {0} /\ v \in Nat \ {0} /\ v = w + w
  BY Sizes
<1> HIDE DEF w, n, v
<1>2. ASSUME NEW o \in 0 .. w - 1
      PROVE  (o + 1) % w = (IF o = w - 1 THEN 0 ELSE o + 1) /\ o % w = o
  <2>1. o \in 0 .. w /\ o + 1 \in 0 .. w
    BY <1>1
  <2> QED
    BY <1>1, <2>1, Modulo
<1>3. ASSUME NEW o \in Nat, o < v
      PROVE  (o < v - 1 => (o + 1) % v = o + 1) /\ (o + 1) % v \in 0 .. v - 1
  <2>1. o + 1 \in 0 .. v
    BY <1>1, <1>3
  <2>2. (o + 1) % v = IF o + 1 = v THEN 0 ELSE o + 1
    BY <1>1, <2>1, Modulo
  <2> QED
    BY <1>1, <1>3, <2>2
<1>4. ASSUME NEW i \in 0 .. n - 1
      PROVE  (i + 1) % n = (IF i = n - 1 THEN 0 ELSE i + 1) /\ (i + 1) % n \in 0 .. n - 1
  <2>1. i + 1 \in 0 .. n
    BY <1>1
  <2>2. (i + 1) % n = IF i + 1 = n THEN 0 ELSE i + 1
    BY <1>1, <2>1, Modulo
  <2> QED
    BY <1>1, <2>2
<1>5. \A o \in Nat : o % w \in 0 .. w - 1
  BY <1>1
<1>6. \A o \in 0 .. w - 1 : (o + 1) % w \in 0 .. w - 1
  BY <1>1, <1>2
<1>7. /\ \A o \in 0 .. w - 1 : (o + 1) % w = (IF o = w - 1 THEN 0 ELSE o + 1) /\ o % w = o
      /\ \A o \in 0 .. w - 1 : (o + 1) % w \in 0 .. w - 1
      /\ \A o \in Nat : o % w \in 0 .. w - 1
  BY <1>2, <1>5, <1>6
<1>8. \A o \in Nat : o < v => (o < v - 1 => (o + 1) % v = o + 1) /\ (o + 1) % v \in 0 .. v - 1
  BY <1>3
<1>9. \A i \in 0 .. n - 1 : /\ (i + 1) % n = (IF i = n - 1 THEN 0 ELSE i + 1)
                            /\ (i + 1) % n \in 0 .. n - 1
  BY <1>4
<1>10. \A o \in Nat : o < v - 1 => o < v
  BY <1>1
<1>11. /\ \A o \in Nat : o < v - 1 => IncExt(o) = o + 1
       /\ \A o \in Nat : o < v => IncExt(o) \in 0 .. v - 1
  BY <1>8, <1>10 DEF IncExt, v
<1>12. /\ \A o \in Ofs : /\ IncInt(o) = IF o = w - 1 THEN 0 ELSE o + 1
                         /\ IncInt(o) \in Ofs /\ o % w = o
       /\ \A o \in Nat : o % w \in Ofs
  BY <1>7 DEF IncInt, Ofs, w
<1> QED
  BY <1>9, <1>11, <1>12 DEF Idx, w, n, v

(* One lemma per state of the control engine follows. *)
HostState == [stb : BOOLEAN, fence : BOOLEAN, busy : BOOLEAN, fenced : BOOLEAN,
              req : Requests, data : Byte]
(* Types of the registers, the host and the response lines. *)
LEMMA Ctrl ==
  ASSUME CacheTypeOK
  PROVE  /\ generic \in Generics /\ ctrl \in CtrlState /\ host \in HostState
         /\ host.stb \in BOOLEAN /\ host.fence \in BOOLEAN /\ host.req \in Requests
         /\ haddr \in Addr /\ haddr[1] \in Tag /\ haddr[2] \in Idx /\ haddr[3] \in Ofs
         /\ rsp.ack \in BOOLEAN /\ rsp.err \in BOOLEAN
<1>1. /\ generic \in Generics /\ ctrl \in CtrlState /\ host \in HostState
      /\ rsp.ack \in BOOLEAN /\ rsp.err \in BOOLEAN
  BY DEF CacheTypeOK, TypeOK, CtrlState, HostState
<1>2. host.stb \in BOOLEAN /\ host.fence \in BOOLEAN /\ host.req \in Requests
  BY <1>1 DEF HostState
<1>3. haddr \in Addr
  BY <1>1, <1>2, Sizes DEF haddr
<1>4. haddr[1] \in Tag /\ haddr[2] \in Idx /\ haddr[3] \in Ofs
  BY <1>3 DEF Addr
<1> QED
  BY <1>1, <1>2, <1>3, <1>4

(* A fence goes first, then a pending or new access. *)
LEMMA Ctrl_IDLE ==
  ASSUME CacheTypeOK, S_IDLE
  PROVE  /\ ctrl' \in CtrlState /\ ~ctrl'.sync
         /\ ctrl'.pnd_req <=> ctrl.pnd_req \/ host.stb
         /\ \/ ctrl'.state \in {"S_IDLE", "S_SYNC_START"}
            \/ /\ ctrl'.state = "S_CHECK" /\ (ctrl'.pnd_bp <=> host.req.bypass)
               /\ ctrl.pnd_req \/ host.stb
               /\ ~ctrl'.hit /\ ~ctrl'.cln
<1> DEFINE k == [Keep EXCEPT !.bus_err = FALSE, !.sync = FALSE]
<1>1. /\ k \in CtrlState /\ k.state = "S_IDLE" /\ ~k.sync /\ (k.pnd_req <=> ctrl.pnd_req \/ host.stb)
      /\ ~k.hit /\ ~k.cln
  BY Ctrl, KeepFacts DEF CtrlState, S_IDLE, In
<1>2. ctrl' = IF ctrl.pnd_syn THEN [k EXCEPT !.state = "S_SYNC_START"]
              ELSE IF host.stb \/ ctrl.pnd_req
              THEN [k EXCEPT !.state = "S_CHECK", !.pnd_bp = host.req.bypass]
              ELSE k
  BY DEF S_IDLE
<1> HIDE DEF k
<1>3. host.req.bypass \in BOOLEAN /\ "S_SYNC_START" \in State /\ "S_CHECK" \in State
  BY Ctrl, Sizes DEF State
<1>4. CASE ctrl.pnd_syn
  BY <1>1, <1>2, <1>3, <1>4 DEF CtrlState
<1>5. CASE ~ctrl.pnd_syn /\ (host.stb \/ ctrl.pnd_req)
  BY <1>1, <1>2, <1>3, <1>5 DEF CtrlState
<1>6. CASE ~ctrl.pnd_syn /\ ~(host.stb \/ ctrl.pnd_req)
  BY <1>1, <1>2, <1>6
<1> QED
  BY <1>4, <1>5, <1>6

(* The lookup. *)
LEMMA Ctrl_CHECK ==
  ASSUME CacheTypeOK, S_CHECK
  PROVE  /\ ctrl' \in CtrlState /\ ctrl'.sync = ctrl.sync /\ ~ctrl'.pnd_req /\ ctrl'.bp_req
         /\ ctrl'.tag = haddr[1] /\ ctrl'.idx = haddr[2] /\ ctrl'.ofs_int = 0 /\ ctrl'.ofs_ext = 0
         /\ ctrl'.state = IF ctrl.pnd_bp THEN "S_BYPASS"
                          ELSE IF hit THEN "S_IDLE"
                          ELSE IF drt /\ ~READ_ONLY THEN "S_WRITE_START" ELSE "S_READ_START"
<1> DEFINE n == IF ctrl.pnd_bp THEN "S_BYPASS"
                ELSE IF hit THEN "S_IDLE"
                ELSE IF drt /\ ~READ_ONLY THEN "S_WRITE_START" ELSE "S_READ_START"
<1>1. n \in State
  BY DEF State
<1>2. ctrl' = [Keep EXCEPT !.tag = haddr[1], !.idx = haddr[2], !.ofs_ext = 0, !.ofs_int = 0,
                           !.pnd_req = FALSE, !.bp_req = TRUE, !.state = n]
  BY DEF S_CHECK
<1>3. 0 \in Ofs /\ 0 \in 0 .. 2 * BLOCK_WORDS - 1
  BY Ctrl, Sizes
<1> HIDE DEF n
<1>4. ctrl' \in CtrlState
  BY <1>1, <1>2, <1>3, Ctrl, KeepFacts DEF CtrlState
<1>5. /\ ctrl'.sync = ctrl.sync /\ ~ctrl'.pnd_req /\ ctrl'.bp_req
      /\ ctrl'.tag = haddr[1] /\ ctrl'.idx = haddr[2] /\ ctrl'.ofs_int = 0 /\ ctrl'.ofs_ext = 0
      /\ ctrl'.state = n
  BY <1>2, Ctrl, KeepFacts DEF CtrlState
<1> QED
  BY <1>4, <1>5 DEF n

(* The uncached access waits for its answer. *)
LEMMA Ctrl_BYPASS ==
  ASSUME CacheTypeOK, S_BYPASS
  PROVE  /\ ctrl' \in CtrlState /\ ctrl'.sync = ctrl.sync /\ ~ctrl'.bp_req
         /\ ctrl'.pnd_req <=> ctrl.pnd_req \/ host.stb
         /\ ctrl'.state = IF rsp.ack THEN "S_IDLE" ELSE "S_BYPASS"
<1>1. "S_IDLE" \in State
  BY DEF State
<1>2. Keep.state = "S_BYPASS"
  BY Ctrl, KeepFacts DEF S_BYPASS, In
<1>3. ctrl' = [Keep EXCEPT !.state = IF rsp.ack THEN "S_IDLE" ELSE "S_BYPASS"]
  BY <1>2 DEF S_BYPASS
<1>4. Keep \in CtrlState
  BY Ctrl, KeepFacts
<1> QED
  BY <1>1, <1>2, <1>3, <1>4, Ctrl, KeepFacts DEF CtrlState

(* A synchronization begins with block 0. *)
LEMMA Ctrl_SYNC_START ==
  ASSUME CacheTypeOK, S_SYNC_START
  PROVE  /\ ctrl' \in CtrlState /\ ctrl'.sync /\ ctrl'.idx = 0 /\ ctrl'.state = "S_SYNC_DELAY"
         /\ ctrl'.pnd_req <=> ctrl.pnd_req \/ host.stb
<1>1. "S_SYNC_DELAY" \in State /\ 0 \in Idx
  BY Ctrl, Sizes DEF State
<1>2. ctrl' = [Keep EXCEPT !.pnd_syn = FALSE, !.sync = TRUE, !.idx = 0, !.state = "S_SYNC_DELAY"]
  BY DEF S_SYNC_START
<1> QED
  BY <1>1, <1>2, Ctrl, KeepFacts DEF CtrlState

(* The status of the block is read. *)
LEMMA Ctrl_SYNC_DELAY ==
  ASSUME CacheTypeOK, S_SYNC_DELAY
  PROVE  /\ ctrl' \in CtrlState /\ ctrl'.sync = ctrl.sync /\ ctrl'.idx = ctrl.idx /\ ~ctrl'.cln
         /\ ctrl'.pnd_req <=> ctrl.pnd_req \/ host.stb
         /\ ctrl'.state = "S_SYNC_CHECK"
<1>1. "S_SYNC_CHECK" \in State
  BY DEF State
<1>2. ctrl' = [Keep EXCEPT !.state = "S_SYNC_CHECK"]
  BY DEF S_SYNC_DELAY
<1> QED
  BY <1>1, <1>2, Ctrl, KeepFacts DEF CtrlState

(* A modified block is written back. *)
LEMMA Ctrl_SYNC_CHECK ==
  ASSUME CacheTypeOK, S_SYNC_CHECK
  PROVE  /\ ctrl' \in CtrlState /\ ctrl'.sync = ctrl.sync /\ ~ctrl'.bus_err
         /\ ctrl'.idx = ctrl.idx /\ ctrl'.ofs_int = 0 /\ ctrl'.ofs_ext = 0
         /\ ctrl'.pnd_req <=> ctrl.pnd_req \/ host.stb
         /\ ctrl'.state = IF drt /\ ~READ_ONLY THEN "S_WRITE_START" ELSE "S_SYNC_NEXT"
<1> DEFINE n == IF drt /\ ~READ_ONLY THEN "S_WRITE_START" ELSE "S_SYNC_NEXT"
<1>1. n \in State /\ 0 \in Ofs /\ 0 \in 0 .. 2 * BLOCK_WORDS - 1
  BY Ctrl, Sizes DEF State
<1>2. ctrl' = [Keep EXCEPT !.ofs_ext = 0, !.ofs_int = 0, !.bus_err = FALSE, !.state = n]
  BY DEF S_SYNC_CHECK
<1> HIDE DEF n
<1>3. ctrl' \in CtrlState
  BY <1>1, <1>2, Ctrl, KeepFacts DEF CtrlState
<1>4. /\ ctrl'.sync = ctrl.sync /\ ~ctrl'.bus_err
      /\ ctrl'.idx = ctrl.idx /\ ctrl'.ofs_int = 0 /\ ctrl'.ofs_ext = 0
      /\ ctrl'.pnd_req <=> ctrl.pnd_req \/ host.stb
      /\ ctrl'.state = n
  BY <1>2, Ctrl, KeepFacts DEF CtrlState
<1> QED
  BY <1>3, <1>4 DEF n

(* The next block, or the end. *)
LEMMA Ctrl_SYNC_NEXT ==
  ASSUME CacheTypeOK, S_SYNC_NEXT
  PROVE  /\ ctrl' \in CtrlState /\ ctrl'.sync = ctrl.sync
         /\ ctrl'.idx = IF ctrl.idx = NUM_BLOCKS - 1 THEN 0 ELSE ctrl.idx + 1
         /\ ctrl'.pnd_req <=> ctrl.pnd_req \/ host.stb
         /\ ctrl'.state = IF ctrl.idx = NUM_BLOCKS - 1 THEN "S_IDLE" ELSE "S_SYNC_DELAY"
<1> DEFINE n == IF ctrl.idx = NUM_BLOCKS - 1 THEN "S_IDLE" ELSE "S_SYNC_DELAY"
           i == (ctrl.idx + 1) % NUM_BLOCKS
<1>1. n \in State
  BY DEF State
<1>2. i \in Idx /\ i = IF ctrl.idx = NUM_BLOCKS - 1 THEN 0 ELSE ctrl.idx + 1
  BY Ctrl, Offsets DEF CtrlState
<1>3. Keep.idx = ctrl.idx
  BY Ctrl, KeepFacts
<1>4. ctrl' = [Keep EXCEPT !.idx = i, !.state = n]
  BY <1>3 DEF S_SYNC_NEXT
<1> HIDE DEF n, i
<1>5. ctrl' \in CtrlState
  BY <1>1, <1>2, <1>4, Ctrl, KeepFacts DEF CtrlState
<1>6. /\ ctrl'.sync = ctrl.sync /\ ctrl'.idx = i /\ ctrl'.state = n
      /\ ctrl'.pnd_req <=> ctrl.pnd_req \/ host.stb
  BY <1>4, Ctrl, KeepFacts DEF CtrlState
<1> QED
  BY <1>2, <1>5, <1>6 DEF n

(* What block transfers leave alone. *)
Stays ==
  /\ ctrl'.sync = ctrl.sync /\ ctrl'.idx = ctrl.idx
  /\ ctrl'.pnd_req <=> ctrl.pnd_req \/ host.stb

(* The request for the next word, or for the first of a burst. *)
LEMMA Ctrl_READ_START ==
  ASSUME CacheTypeOK, S_READ_START
  PROVE  /\ ctrl' \in CtrlState /\ Stays /\ ctrl'.state = "S_READ_WAIT" /\ ctrl'.bus_err = ctrl.bus_err
         /\ ctrl'.tag = ctrl.tag /\ ctrl'.ofs_int = ctrl.ofs_int /\ ctrl'.ofs_ext = ctrl.ofs_ext
<1>1. "S_READ_WAIT" \in State
  BY DEF State
<1>2. ctrl' = [Keep EXCEPT !.state = "S_READ_WAIT"]
  BY DEF S_READ_START
<1> QED
  BY <1>1, <1>2, Ctrl, KeepFacts DEF CtrlState, Stays

(* The answer to a single read, or the first of a burst. *)
LEMMA Ctrl_READ_WAIT ==
  ASSUME CacheTypeOK, S_READ_WAIT, ctrl.ofs_ext = ctrl.ofs_int
  PROVE  /\ ctrl' \in CtrlState /\ Stays /\ ctrl'.tag = ctrl.tag
         /\ ~rsp.ack => /\ ctrl'.state = "S_READ_WAIT" /\ ctrl'.bus_err = ctrl.bus_err
                        /\ ctrl'.ofs_int = ctrl.ofs_int /\ ctrl'.ofs_ext = ctrl.ofs_ext
         /\ rsp.ack => /\ ctrl'.bus_err <=> ctrl.bus_err \/ rsp.err
                       /\ ctrl'.ofs_int = IF LastWord THEN 0 ELSE ctrl.ofs_int + 1
                       /\ ctrl'.ofs_ext = ctrl.ofs_int + 1
                       /\ ctrl'.state = IF BURSTS_EN THEN "S_READ_BURST"
                                        ELSE IF LastWord THEN "S_READ_DONE" ELSE "S_READ_START"
<1> DEFINE n == IF BURSTS_EN THEN "S_READ_BURST"
                ELSE IF LastWord THEN "S_READ_DONE" ELSE "S_READ_START"
           i == IncInt(ctrl.ofs_int)
           e == IncExt(ctrl.ofs_int)
           b == ctrl.bus_err \/ rsp.err
<1>1. n \in State /\ b \in BOOLEAN
  BY DEF State
<1>2. ctrl.ofs_int \in Ofs /\ ctrl.ofs_int \in Nat /\ ctrl.ofs_int < 2 * BLOCK_WORDS - 1
  BY Ctrl, Sizes DEF CtrlState, Ofs
<1>3. i \in Ofs /\ i = IF LastWord THEN 0 ELSE ctrl.ofs_int + 1
  BY <1>2, Ctrl, Offsets DEF LastWord
<1>4. e \in 0 .. 2 * BLOCK_WORDS - 1 /\ e = ctrl.ofs_int + 1
  BY <1>2, Ctrl, Offsets, Sizes
<1>5. /\ Keep \in CtrlState /\ Keep.bus_err = ctrl.bus_err /\ Keep.ofs_int = ctrl.ofs_int
      /\ Keep.ofs_ext = ctrl.ofs_int /\ Keep.state = "S_READ_WAIT"
  BY Ctrl, KeepFacts DEF S_READ_WAIT, In
<1>6. ctrl' = IF ~rsp.ack THEN Keep
              ELSE [Keep EXCEPT !.bus_err = b, !.ofs_int = i, !.ofs_ext = e, !.state = n]
  BY <1>5 DEF S_READ_WAIT
<1> HIDE DEF n, i, e, b
<1>7. ctrl' \in CtrlState
  BY <1>1, <1>3, <1>4, <1>5, <1>6 DEF CtrlState
<1>8. CASE ~rsp.ack
  BY <1>6, <1>7, <1>8, Ctrl, KeepFacts DEF S_READ_WAIT, In, Stays
<1>9. CASE rsp.ack
  <2>1. Stays /\ ctrl'.tag = ctrl.tag
    BY <1>6, <1>9, Ctrl, KeepFacts DEF CtrlState, Stays
  <2>2. ctrl'.bus_err = b /\ ctrl'.ofs_int = i /\ ctrl'.ofs_ext = e /\ ctrl'.state = n
    BY <1>5, <1>6, <1>9 DEF CtrlState
  <2> QED
    BY <1>3, <1>4, <1>7, <1>9, <2>1, <2>2 DEF n, b
<1> QED
  BY <1>8, <1>9

(* A cycle of a read burst, sending and receiving. *)
LEMMA Ctrl_READ_BURST ==
  ASSUME CacheTypeOK, S_READ_BURST
  PROVE  /\ ctrl' \in CtrlState /\ Stays /\ ctrl'.tag = ctrl.tag
         /\ ctrl'.ofs_ext = IF Overflow(ctrl.ofs_ext) THEN ctrl.ofs_ext ELSE IncExt(ctrl.ofs_ext)
         /\ ctrl'.ofs_buf = ctrl.ofs_ext
         /\ ~rsp.ack => /\ ctrl'.state = "S_READ_BURST" /\ ctrl'.bus_err = ctrl.bus_err
                        /\ ctrl'.ofs_int = ctrl.ofs_int
         /\ rsp.ack => /\ ctrl'.bus_err <=> ctrl.bus_err \/ rsp.err
                       /\ ctrl'.ofs_int = IF LastWord THEN 0 ELSE ctrl.ofs_int + 1
                       /\ ctrl'.state = IF LastWord THEN "S_READ_DONE" ELSE "S_READ_BURST"
<1> DEFINE n == IF LastWord THEN "S_READ_DONE" ELSE "S_READ_BURST"
           i == IncInt(ctrl.ofs_int)
           e == IF Overflow(ctrl.ofs_ext) THEN ctrl.ofs_ext ELSE IncExt(ctrl.ofs_ext)
           b == ctrl.bus_err \/ rsp.err
           k == [Keep EXCEPT !.ofs_ext = e]
<1>1. n \in State /\ b \in BOOLEAN
  BY DEF State
<1>2. ctrl.ofs_int \in Ofs /\ ctrl.ofs_ext \in Nat /\ ctrl.ofs_ext < 2 * BLOCK_WORDS
  BY Ctrl, Sizes DEF CtrlState
<1>3. i \in Ofs /\ i = IF LastWord THEN 0 ELSE ctrl.ofs_int + 1
  BY <1>2, Ctrl, Offsets DEF LastWord
<1>4. e \in 0 .. 2 * BLOCK_WORDS - 1
  <2>1. IncExt(ctrl.ofs_ext) \in 0 .. 2 * BLOCK_WORDS - 1
    BY <1>2, Ctrl, Offsets
  <2>2. ctrl.ofs_ext \in 0 .. 2 * BLOCK_WORDS - 1
    BY Ctrl DEF CtrlState
  <2> QED
    BY <2>1, <2>2
<1>5. ctrl' = Receive(k, "S_READ_DONE")
  <2>1. Keep.ofs_ext = ctrl.ofs_ext
    BY Ctrl, KeepFacts
  <2> QED
    BY <2>1 DEF S_READ_BURST
<1> HIDE DEF e
<1>6. /\ k \in CtrlState /\ k.state = "S_READ_BURST" /\ k.bus_err = ctrl.bus_err
      /\ k.ofs_int = ctrl.ofs_int /\ k.ofs_ext = e /\ k.ofs_buf = ctrl.ofs_ext
      /\ k.tag = ctrl.tag /\ k.idx = ctrl.idx /\ k.sync = ctrl.sync
      /\ k.pnd_req <=> ctrl.pnd_req \/ host.stb
      /\ ~k.cln /\ ~k.hit
  BY <1>4, Ctrl, KeepFacts DEF CtrlState, S_READ_BURST, In
<1> HIDE DEF k
<1>7. ctrl' = IF ~rsp.ack THEN k ELSE [k EXCEPT !.bus_err = b, !.ofs_int = i, !.state = n]
  BY <1>5, <1>6 DEF Receive
<1> HIDE DEF n, i, b
<1>8. ctrl' \in CtrlState
  BY <1>1, <1>3, <1>6, <1>7 DEF CtrlState
<1>9. CASE ~rsp.ack
  BY <1>6, <1>7, <1>8, <1>9 DEF e, Stays
<1>10. CASE rsp.ack
  <2>1. /\ Stays /\ ctrl'.tag = ctrl.tag /\ ctrl'.ofs_ext = e /\ ctrl'.ofs_buf = ctrl.ofs_ext
    BY <1>6, <1>7, <1>10 DEF CtrlState, Stays
  <2>2. ctrl'.bus_err = b /\ ctrl'.ofs_int = i /\ ctrl'.state = n
    BY <1>6, <1>7, <1>10 DEF CtrlState
  <2> QED
    BY <1>3, <1>8, <1>10, <2>1, <2>2 DEF n, b, e
<1> QED
  BY <1>9, <1>10

(* The download ends: S_CHECK finds a hit, or S_IDLE after an error. *)
LEMMA Ctrl_READ_DONE ==
  ASSUME CacheTypeOK, S_READ_DONE
  PROVE  /\ ctrl' \in CtrlState /\ Stays /\ ctrl'.hit /\ ~ctrl'.pnd_bp
         /\ ctrl'.state = IF ctrl.bus_err THEN "S_IDLE" ELSE "S_CHECK"
<1> DEFINE n == IF ctrl.bus_err THEN "S_IDLE" ELSE "S_CHECK"
<1>1. n \in State
  BY DEF State
<1>2. ctrl' = [Keep EXCEPT !.hit = TRUE, !.state = n]
  BY DEF S_READ_DONE
<1> HIDE DEF n
<1>3. /\ ctrl' \in CtrlState /\ Stays /\ ctrl'.hit /\ ~ctrl'.pnd_bp /\ ctrl'.state = n
  BY <1>1, <1>2, Ctrl, KeepFacts DEF CtrlState, Stays
<1> QED
  BY <1>3 DEF n

(* The word to write is read; with the first one, the tag of its block. *)
LEMMA Ctrl_WRITE_START ==
  ASSUME CacheTypeOK, rd.tag \in Tag, S_WRITE_START
  PROVE  /\ ctrl' \in CtrlState /\ Stays /\ ctrl'.state = "S_WRITE_REQ" /\ ctrl'.bus_err = ctrl.bus_err
         /\ ctrl'.ofs_int = ctrl.ofs_int /\ ctrl'.ofs_ext = ctrl.ofs_ext
         /\ ctrl'.tag = IF ctrl.ofs_int = 0 THEN rd.tag ELSE ctrl.tag
<1> DEFINE x == IF ctrl.ofs_int = 0 THEN rd.tag ELSE ctrl.tag
<1>1. "S_WRITE_REQ" \in State /\ x \in Tag /\ Keep.tag = ctrl.tag
  BY Ctrl, KeepFacts DEF State, CtrlState
<1>2. ctrl' = [Keep EXCEPT !.tag = x, !.state = "S_WRITE_REQ"]
  BY <1>1 DEF S_WRITE_START
<1> HIDE DEF x
<1>3. /\ ctrl' \in CtrlState /\ Stays /\ ctrl'.state = "S_WRITE_REQ" /\ ctrl'.bus_err = ctrl.bus_err
      /\ ctrl'.ofs_int = ctrl.ofs_int /\ ctrl'.ofs_ext = ctrl.ofs_ext /\ ctrl'.tag = x
  BY <1>1, <1>2, Ctrl, KeepFacts DEF CtrlState, Stays
<1> QED
  BY <1>3 DEF x

(* The request to write the word. *)
LEMMA Ctrl_WRITE_REQ ==
  ASSUME CacheTypeOK, S_WRITE_REQ
  PROVE  /\ ctrl' \in CtrlState /\ Stays /\ ctrl'.state = "S_WRITE_RSP" /\ ctrl'.bus_err = ctrl.bus_err
         /\ ctrl'.tag = ctrl.tag /\ ctrl'.ofs_int = ctrl.ofs_int /\ ctrl'.ofs_ext = ctrl.ofs_ext
<1>1. "S_WRITE_RSP" \in State
  BY DEF State
<1>2. ctrl' = [Keep EXCEPT !.state = "S_WRITE_RSP"]
  BY DEF S_WRITE_REQ
<1> QED
  BY <1>1, <1>2, Ctrl, KeepFacts DEF CtrlState, Stays

(* The answer to a single write, or the first of a burst. *)
LEMMA Ctrl_WRITE_RSP ==
  ASSUME CacheTypeOK, S_WRITE_RSP, ctrl.ofs_ext = ctrl.ofs_int
  PROVE  /\ ctrl' \in CtrlState /\ Stays /\ ctrl'.tag = ctrl.tag
         /\ ~rsp.ack => /\ ctrl'.state = "S_WRITE_RSP" /\ ctrl'.bus_err = ctrl.bus_err
                        /\ ctrl'.ofs_int = ctrl.ofs_int /\ ctrl'.ofs_ext = ctrl.ofs_ext
         /\ rsp.ack => /\ ctrl'.bus_err <=> ctrl.bus_err \/ rsp.err
                       /\ ctrl'.ofs_int = IF LastWord THEN 0 ELSE ctrl.ofs_int + 1
                       /\ ctrl'.ofs_ext = ctrl.ofs_int + 1
                       /\ ctrl'.state = IF BURSTS_EN THEN "S_WRITE_WAIT"
                                        ELSE IF LastWord THEN "S_WRITE_DONE" ELSE "S_WRITE_START"
<1> DEFINE n == IF BURSTS_EN THEN "S_WRITE_WAIT"
                ELSE IF LastWord THEN "S_WRITE_DONE" ELSE "S_WRITE_START"
           i == IncInt(ctrl.ofs_int)
           e == IncExt(ctrl.ofs_int)
           b == ctrl.bus_err \/ rsp.err
<1>1. n \in State /\ b \in BOOLEAN
  BY DEF State
<1>2. ctrl.ofs_int \in Ofs /\ ctrl.ofs_int \in Nat /\ ctrl.ofs_int < 2 * BLOCK_WORDS - 1
  BY Ctrl, Sizes DEF CtrlState, Ofs
<1>3. i \in Ofs /\ i = IF LastWord THEN 0 ELSE ctrl.ofs_int + 1
  BY <1>2, Ctrl, Offsets DEF LastWord
<1>4. e \in 0 .. 2 * BLOCK_WORDS - 1 /\ e = ctrl.ofs_int + 1
  BY <1>2, Ctrl, Offsets, Sizes
<1>5. /\ Keep \in CtrlState /\ Keep.bus_err = ctrl.bus_err /\ Keep.ofs_int = ctrl.ofs_int
      /\ Keep.ofs_ext = ctrl.ofs_int /\ Keep.state = "S_WRITE_RSP"
  BY Ctrl, KeepFacts DEF S_WRITE_RSP, In
<1>6. ctrl' = IF ~rsp.ack THEN Keep
              ELSE [Keep EXCEPT !.bus_err = b, !.ofs_int = i, !.ofs_ext = e, !.state = n]
  BY <1>5 DEF S_WRITE_RSP
<1> HIDE DEF n, i, e, b
<1>7. ctrl' \in CtrlState
  BY <1>1, <1>3, <1>4, <1>5, <1>6 DEF CtrlState
<1>8. CASE ~rsp.ack
  BY <1>6, <1>7, <1>8, Ctrl, KeepFacts DEF S_WRITE_RSP, In, Stays
<1>9. CASE rsp.ack
  <2>1. Stays /\ ctrl'.tag = ctrl.tag
    BY <1>6, <1>9, Ctrl, KeepFacts DEF CtrlState, Stays
  <2>2. ctrl'.bus_err = b /\ ctrl'.ofs_int = i /\ ctrl'.ofs_ext = e /\ ctrl'.state = n
    BY <1>5, <1>6, <1>9 DEF CtrlState
  <2> QED
    BY <1>3, <1>4, <1>7, <1>9, <2>1, <2>2 DEF n, b
<1> QED
  BY <1>8, <1>9

(* The second word of a burst is read. *)
LEMMA Ctrl_WRITE_WAIT ==
  ASSUME CacheTypeOK, S_WRITE_WAIT
  PROVE  /\ ctrl' \in CtrlState /\ Stays /\ ctrl'.state = "S_WRITE_BURST" /\ ctrl'.bus_err = ctrl.bus_err
         /\ ctrl'.tag = ctrl.tag /\ ctrl'.ofs_int = ctrl.ofs_int
         /\ ctrl'.ofs_ext = IncExt(ctrl.ofs_ext) /\ ctrl'.ofs_buf = ctrl.ofs_ext
<1> DEFINE e == IncExt(ctrl.ofs_ext)
<1>1. "S_WRITE_BURST" \in State /\ Keep.ofs_ext = ctrl.ofs_ext
  BY Ctrl, KeepFacts DEF State
<1>2. e \in 0 .. 2 * BLOCK_WORDS - 1
  <2>1. ctrl.ofs_ext \in Nat /\ ctrl.ofs_ext < 2 * BLOCK_WORDS
    BY Ctrl, Sizes DEF CtrlState
  <2> QED
    BY <2>1, Ctrl, Offsets
<1>3. ctrl' = [Keep EXCEPT !.ofs_ext = e, !.state = "S_WRITE_BURST"]
  BY <1>1 DEF S_WRITE_WAIT
<1> HIDE DEF e
<1>4. /\ ctrl' \in CtrlState /\ Stays /\ ctrl'.state = "S_WRITE_BURST" /\ ctrl'.bus_err = ctrl.bus_err
      /\ ctrl'.tag = ctrl.tag /\ ctrl'.ofs_int = ctrl.ofs_int
      /\ ctrl'.ofs_ext = e /\ ctrl'.ofs_buf = ctrl.ofs_ext
  BY <1>1, <1>2, <1>3, Ctrl, KeepFacts DEF CtrlState, Stays
<1> QED
  BY <1>4 DEF e

(* A cycle of a write burst, sending and receiving. *)
LEMMA Ctrl_WRITE_BURST ==
  ASSUME CacheTypeOK, S_WRITE_BURST
  PROVE  /\ ctrl' \in CtrlState /\ Stays /\ ctrl'.tag = ctrl.tag
         /\ ctrl'.ofs_ext = IF Overflow(ctrl.ofs_buf) THEN ctrl.ofs_ext ELSE IncExt(ctrl.ofs_ext)
         /\ ctrl'.ofs_buf = ctrl.ofs_ext
         /\ ~rsp.ack => /\ ctrl'.state = "S_WRITE_BURST" /\ ctrl'.bus_err = ctrl.bus_err
                        /\ ctrl'.ofs_int = ctrl.ofs_int
         /\ rsp.ack => /\ ctrl'.bus_err <=> ctrl.bus_err \/ rsp.err
                       /\ ctrl'.ofs_int = IF LastWord THEN 0 ELSE ctrl.ofs_int + 1
                       /\ ctrl'.state = IF LastWord THEN "S_WRITE_DONE" ELSE "S_WRITE_BURST"
<1> DEFINE n == IF LastWord THEN "S_WRITE_DONE" ELSE "S_WRITE_BURST"
           i == IncInt(ctrl.ofs_int)
           e == IF Overflow(ctrl.ofs_buf) THEN ctrl.ofs_ext ELSE IncExt(ctrl.ofs_ext)
           b == ctrl.bus_err \/ rsp.err
           k == [Keep EXCEPT !.ofs_ext = e]
<1>1. n \in State /\ b \in BOOLEAN
  BY DEF State
<1>2. ctrl.ofs_int \in Ofs /\ ctrl.ofs_ext \in Nat /\ ctrl.ofs_ext < 2 * BLOCK_WORDS
  BY Ctrl, Sizes DEF CtrlState
<1>3. i \in Ofs /\ i = IF LastWord THEN 0 ELSE ctrl.ofs_int + 1
  BY <1>2, Ctrl, Offsets DEF LastWord
<1>4. e \in 0 .. 2 * BLOCK_WORDS - 1
  <2>1. IncExt(ctrl.ofs_ext) \in 0 .. 2 * BLOCK_WORDS - 1
    BY <1>2, Ctrl, Offsets
  <2>2. ctrl.ofs_ext \in 0 .. 2 * BLOCK_WORDS - 1
    BY Ctrl DEF CtrlState
  <2> QED
    BY <2>1, <2>2
<1>5. ctrl' = Receive(k, "S_WRITE_DONE")
  <2>1. Keep.ofs_ext = ctrl.ofs_ext
    BY Ctrl, KeepFacts
  <2> QED
    BY <2>1 DEF S_WRITE_BURST
<1> HIDE DEF e
<1>6. /\ k \in CtrlState /\ k.state = "S_WRITE_BURST" /\ k.bus_err = ctrl.bus_err
      /\ k.ofs_int = ctrl.ofs_int /\ k.ofs_ext = e /\ k.ofs_buf = ctrl.ofs_ext
      /\ k.tag = ctrl.tag /\ k.idx = ctrl.idx /\ k.sync = ctrl.sync
      /\ k.pnd_req <=> ctrl.pnd_req \/ host.stb
      /\ ~k.cln /\ ~k.hit
  BY <1>4, Ctrl, KeepFacts DEF CtrlState, S_WRITE_BURST, In
<1> HIDE DEF k
<1>7. ctrl' = IF ~rsp.ack THEN k ELSE [k EXCEPT !.bus_err = b, !.ofs_int = i, !.state = n]
  BY <1>5, <1>6 DEF Receive
<1> HIDE DEF n, i, b
<1>8. ctrl' \in CtrlState
  BY <1>1, <1>3, <1>6, <1>7 DEF CtrlState
<1>9. CASE ~rsp.ack
  BY <1>6, <1>7, <1>8, <1>9 DEF e, Stays
<1>10. CASE rsp.ack
  <2>1. /\ Stays /\ ctrl'.tag = ctrl.tag /\ ctrl'.ofs_ext = e /\ ctrl'.ofs_buf = ctrl.ofs_ext
    BY <1>6, <1>7, <1>10 DEF CtrlState, Stays
  <2>2. ctrl'.bus_err = b /\ ctrl'.ofs_int = i /\ ctrl'.state = n
    BY <1>6, <1>7, <1>10 DEF CtrlState
  <2> QED
    BY <1>3, <1>8, <1>10, <2>1, <2>2 DEF n, b, e
<1> QED
  BY <1>9, <1>10

(* The write-back ends. *)
LEMMA Ctrl_WRITE_DONE ==
  ASSUME CacheTypeOK, S_WRITE_DONE
  PROVE  /\ ctrl' \in CtrlState /\ Stays /\ ctrl'.bus_err = ctrl.bus_err /\ ctrl'.tag = ctrl.tag
         /\ ctrl'.cln /\ ~ctrl'.hit /\ ~ctrl'.pnd_bp
         /\ ctrl'.state = IF ctrl.sync THEN "S_SYNC_NEXT"
                          ELSE IF ctrl.bus_err THEN "S_IDLE" ELSE "S_CHECK"
<1> DEFINE n == IF ctrl.sync THEN "S_SYNC_NEXT" ELSE IF ctrl.bus_err THEN "S_IDLE" ELSE "S_CHECK"
<1>1. n \in State
  BY DEF State
<1>2. ctrl' = [Keep EXCEPT !.cln = TRUE, !.state = n]
  BY DEF S_WRITE_DONE
<1> HIDE DEF n
<1>3. /\ ctrl' \in CtrlState /\ Stays /\ ctrl'.bus_err = ctrl.bus_err /\ ctrl'.tag = ctrl.tag
      /\ ctrl'.cln /\ ~ctrl'.hit /\ ~ctrl'.pnd_bp /\ ctrl'.state = n
  BY <1>1, <1>2, Ctrl, KeepFacts DEF CtrlState, Stays
<1> QED
  BY <1>3 DEF n

-----------------------------------------------------------------------------
(* Memories, host and bus *)

(* Addresses of the memories. *)
LEMMA Lines ==
  ASSUME CacheTypeOK
  PROVE  /\ cache_addr \in Addr /\ index \in Idx /\ word \in Idx \X Ofs
         /\ word = <<index, cache_addr[3]>> /\ cache_addr[1] \in Tag
         /\ \A a \in Addr : a[1] \in Tag /\ a[2] \in Idx /\ a[3] \in Ofs /\ a = <<a[1], a[2], a[3]>>
         /\ \A o \in Ofs : Here(o) \in Addr /\ Here(o)[1] = ctrl.tag /\ Here(o)[2] = ctrl.idx
                           /\ Here(o)[3] = o
<1>1. /\ ctrl.tag \in Tag /\ ctrl.idx \in Idx /\ ctrl.ofs_int \in Ofs /\ ctrl.ofs_ext % BLOCK_WORDS \in Ofs
  BY Ctrl, Offsets, Sizes DEF CtrlState
<1>2. cache_addr \in Addr
  BY <1>1, Ctrl DEF cache_addr, Addr
<1>3. index \in Idx /\ word \in Idx \X Ofs /\ word = <<index, cache_addr[3]>> /\ cache_addr[1] \in Tag
  BY <1>2 DEF index, word, Addr
<1> QED
  BY <1>1, <1>2, <1>3 DEF Addr, Here

(* Most states do not write to the memories. *)
LEMMA RamRest ==
  ASSUME CacheTypeOK, DirtyInv, memories,
         ctrl.state \notin {"S_CHECK", "S_READ_WAIT", "S_READ_BURST", "S_READ_DONE",
                            "S_WRITE_DONE", "S_SYNC_NEXT"}
  PROVE  /\ valid' = valid /\ dirty' = dirty /\ tag' = tag /\ data' = data
         /\ rd'.valid = valid[index] /\ rd'.dirty = dirty[index] /\ rd'.tag = tag[index]
         /\ rd'.data = data[word]
<1>1. ~cache_set /\ ~cache_drt /\ ~cache_we /\ ~dirty_we
  BY DEF cache_set, cache_drt, cache_we, dirty_we, WriteHit
<1>2. valid' = valid /\ dirty' = dirty /\ tag' = tag /\ data' = data
  BY <1>1 DEF memories, status_valid, dirty_flag, tag_ram, data_ram
<1>3. rd' = [valid |-> valid[index], dirty |-> ~READ_ONLY /\ dirty[index], tag |-> tag[index],
             data |-> data[word]]
  BY <1>1 DEF memories, spram_out
<1>4. dirty[index] \in BOOLEAN /\ (dirty[index] => ~READ_ONLY)
  BY Lines DEF CacheTypeOK, TypeOK, DirtyInv
<1>5. (~READ_ONLY /\ dirty[index]) = dirty[index]
  BY <1>4
<1> QED
  BY <1>2, <1>3, <1>5

(* What the host may be given changes only with stores and with the end of *)
(* a block or of a synchronization.                                        *)
LEMMA FreshRest ==
  ASSUME CacheTypeOK, GhostStep,
         ctrl.state \notin {"S_CHECK", "S_BYPASS", "S_WRITE_DONE", "S_SYNC_NEXT"}
  PROVE  fresh' = fresh
<1>1. ~(host_ack /\ ~host_err)
  BY DEF host_ack, host_err
<1>2. fresh' = [a \in Addr |-> fresh[a]]
  BY <1>1 DEF GhostStep, In
<1> QED
  BY <1>2 DEF CacheTypeOK

(* The response channel. *)
RspState == [ack : BOOLEAN, err : BOOLEAN, data : Byte]

(* The bus answers nothing if nothing was asked. *)
LEMMA BusQuiet ==
  ASSUME BusStep, queue = <<>>, ~bus_stb
  PROVE  NoTransfer' /\ mem' = mem /\ queue' \in Seq(BusReq) /\ rsp' \in RspState
<1>1. /\ rsp' = [ack |-> FALSE, err |-> FALSE, data |-> Junk]
      /\ queue' = <<>> /\ mem' = mem
  BY DEF BusStep
<1>2. <<>> \in Seq(BusReq)
  BY EmptySeq
<1>3. rsp' \in RspState /\ ~rsp'.ack
  BY <1>1 DEF RspState, Byte
<1> QED
  BY <1>1, <1>2, <1>3 DEF NoTransfer

(* The host waits for its answer. *)
LEMMA HostHolds ==
  ASSUME CacheTypeOK, HostStep, host.busy, ~host_ack
  PROVE  /\ host' \in HostState /\ host'.busy /\ ~host'.stb
         /\ host'.req = host.req /\ host'.data = host.data
<1> DEFINE w == [host EXCEPT !.stb = FALSE, !.fence = FALSE]
<1>1. w \in HostState /\ w.busy /\ ~w.stb /\ w.req = host.req /\ w.data = host.data
  BY Ctrl DEF HostState
<1>2. host' = w \/ host' = [w EXCEPT !.fence = TRUE, !.fenced = TRUE]
  BY DEF HostStep
<1> HIDE DEF w
<1> QED
  BY <1>1, <1>2 DEF HostState

(* The host starts an access only when it has no other. *)
LEMMA HostMoves ==
  ASSUME CacheTypeOK, HostStep
  PROVE  /\ host' \in HostState /\ (host'.stb => host'.busy)
         /\ host'.req.rw => host'.data \in Value
         /\ host.busy /\ ~host_ack => host'.busy
<1>1. CASE host.busy /\ ~host_ack
  BY <1>1, HostHolds DEF CacheTypeOK
<1>2. CASE ~(host.busy /\ ~host_ack)
  <2> DEFINE e == [host EXCEPT !.stb = FALSE, !.fence = FALSE, !.busy = FALSE, !.fenced = FALSE]
  <2>1. e \in HostState /\ ~e.stb /\ e.req = host.req /\ e.data = host.data
    BY Ctrl DEF HostState
  <2>2. \/ host' = e \/ host' = [e EXCEPT !.fence = TRUE]
        \/ \E r \in Requests, v \in Byte :
             /\ r.rw <=> v \in Value
             /\ host' = [e EXCEPT !.stb = TRUE, !.busy = TRUE, !.req = r, !.data = v]
    BY <1>2 DEF HostStep, Byte
  <2> HIDE DEF e
  <2>3. CASE host' = e \/ host' = [e EXCEPT !.fence = TRUE]
    <3>1. host' \in HostState /\ ~host'.stb /\ host'.req = host.req /\ host'.data = host.data
      BY <2>1, <2>3 DEF HostState
    <3> QED
      BY <1>2, <3>1 DEF CacheTypeOK
  <2>4. ASSUME NEW r \in Requests, NEW v \in Byte, r.rw <=> v \in Value,
               host' = [e EXCEPT !.stb = TRUE, !.busy = TRUE, !.req = r, !.data = v]
        PROVE  host' \in HostState /\ host'.stb /\ host'.busy /\ host'.req = r /\ host'.data = v
    BY <2>1, <2>4 DEF HostState
  <2> QED
    BY <1>2, <2>2, <2>3, <2>4
<1> QED
  BY <1>1, <1>2

(* The requests after this cycle's one, and the number of words requested. *)
Sent == IF bus_stb THEN Append(queue, bus_req) ELSE queue
IssuedNow == Issued + (IF bus_stb THEN 1 ELSE 0)

(* A request of a block transfer is the one for the next word. *)
LEMMA NextWord ==
  ASSUME CacheInv, Moving, bus_stb
  PROVE  /\ bus_req \in BusReq /\ WordReq(bus_req, Issued)
         /\ Issued \in Ofs
<1>1. /\ ctrl.tag \in Tag /\ ctrl.idx \in Idx /\ ctrl.ofs_int \in Ofs
      /\ ctrl.ofs_ext \in Nat /\ ctrl.ofs_buf \in Nat /\ rd.data \in Byte /\ generic \in Generics
      /\ BLOCK_WORDS \in Nat \ {0}
  BY Ctrl, Sizes DEF CacheInv, CtrlState, CacheTypeOK
<1>2. \A o \in Ofs : o % BLOCK_WORDS = o
  BY <1>1, Offsets
<1> DEFINE w == ctrl.state \in {"S_WRITE_REQ", "S_WRITE_BURST"}
           o == IF ctrl.state = "S_WRITE_BURST" THEN ctrl.ofs_buf ELSE ctrl.ofs_ext
<1>3. bus_req = [rw |-> w, addr |-> <<ctrl.tag, ctrl.idx, o % BLOCK_WORDS>>, data |-> rd.data]
  BY DEF bus_req, Moving, Reading, Writing, ReadStates, WriteStates
<1>4. /\ o = Issued /\ o \in Ofs /\ (w <=> Writing)
      /\ w => rd.data = data[<<ctrl.idx, o>>]
  <2>1. CASE ctrl.state = "S_READ_START"
    BY <1>1, <2>1 DEF CacheInv, TransferInv, Issued, Moving, Reading, Writing, ReadStates, WriteStates
  <2>2. CASE ctrl.state = "S_READ_BURST"
    BY <1>1, <2>2 DEF bus_stb, Overflow, Issued, Ofs, Writing, WriteStates
  <2>3. CASE ctrl.state = "S_WRITE_REQ"
    BY <1>1, <2>3 DEF CacheInv, TransferInv, Issued, Moving, Writing, WriteStates, In
  <2>4. CASE ctrl.state = "S_WRITE_BURST"
    BY <1>1, <2>4 DEF bus_stb, CacheInv, TransferInv, Overflow, Issued, Ofs, Writing, WriteStates, In
  <2> QED
    BY <2>1, <2>2, <2>3, <2>4 DEF bus_stb, Moving, Reading, Writing, ReadStates, WriteStates
<1>5. o % BLOCK_WORDS = o /\ w \in BOOLEAN
  BY <1>2, <1>4
<1> HIDE DEF o, w
<1>6. bus_req = [rw |-> w, addr |-> <<ctrl.tag, ctrl.idx, o>>, data |-> rd.data]
  BY <1>3, <1>5
<1>7. <<ctrl.tag, ctrl.idx, o>> \in Addr
  BY <1>1, <1>4 DEF Addr
<1>8. bus_req \in BusReq
  <2>1. CASE w = TRUE
    BY <1>1, <1>6, <1>7, <2>1 DEF BusReq
  <2>2. CASE w = FALSE
    BY <1>1, <1>6, <1>7, <2>2 DEF BusReq
  <2> QED
    BY <1>5, <2>1, <2>2
<1>9. WordReq(bus_req, o)
  <2>1. bus_req.addr = <<ctrl.tag, ctrl.idx, o>> /\ bus_req.data = rd.data
    BY <1>6
  <2>2. bus_req.rw = w
    BY <1>6, Zenon
  <2> QED
    BY <1>4, <2>1, <2>2 DEF WordReq
<1> QED
  BY <1>4, <1>8, <1>9

(* The requests under way are those for the words from Answer on. *)
LEMMA Lineup ==
  ASSUME CacheInv, Moving
  PROVE  /\ Sent \in Seq(BusReq) /\ Answer \in Nat /\ Issued \in Nat
         /\ IssuedNow <= BLOCK_WORDS /\ Len(Sent) = IssuedNow - Answer
         /\ \A j \in 1 .. Len(Sent) : WordReq(Sent[j], Answer + j - 1)
<1>1. /\ queue \in Seq(BusReq) /\ ctrl.ofs_int \in Nat /\ ctrl.ofs_ext \in Nat /\ ctrl.ofs_buf \in Nat
      /\ BLOCK_WORDS \in Nat \ {0} /\ generic \in Generics
  BY Ctrl, Sizes DEF CacheInv, CtrlState, CacheTypeOK, Ofs
<1>2. Answer \in Nat /\ Issued \in Nat
  BY <1>1 DEF Answer, Issued, Moving, Reading, Writing, ReadStates, WriteStates
<1>3. /\ Answer <= Issued /\ Issued <= BLOCK_WORDS /\ Len(queue) = Issued - Answer
      /\ \A j \in 1 .. Len(queue) : WordReq(queue[j], Answer + j - 1)
  BY DEF CacheInv, TransferInv
<1>4. CASE ~bus_stb
  BY <1>1, <1>2, <1>3, <1>4 DEF Sent, IssuedNow
<1>5. CASE bus_stb
  <2>1. bus_req \in BusReq /\ WordReq(bus_req, Issued) /\ Issued \in Ofs
    BY <1>5, NextWord
  <2> DEFINE q == Append(queue, bus_req)
  <2>2. /\ q \in Seq(BusReq) /\ Len(q) = Len(queue) + 1
        /\ \A j \in 1 .. Len(queue) : q[j] = queue[j]
        /\ q[Len(queue) + 1] = bus_req
    BY <1>1, <2>1, AppendProperties
  <2>3. Sent = q /\ IssuedNow = Issued + 1
    BY <1>5 DEF Sent, IssuedNow
  <2> HIDE DEF q
  <2>4. Len(q) = IssuedNow - Answer /\ IssuedNow <= BLOCK_WORDS
    BY <1>1, <1>2, <1>3, <2>1, <2>2, <2>3 DEF Ofs
  <2>5. ASSUME NEW j \in 1 .. Len(q)
        PROVE  WordReq(q[j], Answer + j - 1)
    <3>1. CASE j \in 1 .. Len(queue)
      BY <1>3, <2>2, <3>1
    <3>2. CASE j = Len(queue) + 1
      <4>1. Answer + j - 1 = Issued
        BY <1>2, <1>3, <3>2
      <4> QED
        BY <2>1, <2>2, <3>2, <4>1
    <3> QED
      BY <1>2, <1>3, <2>2, <3>1, <3>2
  <2> QED
    BY <1>2, <2>2, <2>3, <2>4, <2>5
<1> QED
  BY <1>4, <1>5

(* Words in the block that is written back are ones the host may be given. *)
LEMMA WordToWrite ==
  ASSUME CacheInv, Writing, ~(In("S_WRITE_START") /\ ctrl.ofs_int = 0), NEW o \in Ofs
  PROVE  data[<<ctrl.idx, o>>] \in fresh[Here(o)] /\ data[<<ctrl.idx, o>>] \in Value
<1>1. Here(o) \in Addr /\ Here(o)[1] = ctrl.tag /\ Here(o)[2] = ctrl.idx /\ Here(o)[3] = o
  BY Lines DEF CacheInv
<1>2. Cached(Here(o))
  BY <1>1 DEF CacheInv, WriteInv, Cached
<1>3. ~Reading
  BY DEF Writing, Reading, WriteStates, ReadStates
<1>4. data[<<ctrl.idx, o>>] \in fresh[Here(o)]
  BY <1>1, <1>2, <1>3 DEF CacheInv, LineInv
<1>5. fresh[Here(o)] \subseteq Value
  BY <1>1 DEF CacheInv, CacheTypeOK
<1> QED
  BY <1>4, <1>5

(* The words answered, the answer of this cycle included. *)
AnswerNow == Answer + (IF rsp'.ack THEN 1 ELSE 0)

(* The bus answers the words of a block transfer in order. *)
LEMMA BusMoves ==
  ASSUME CacheInv, Moving, BusStep
  PROVE  /\ queue' \in Seq(BusReq) /\ rsp' \in RspState /\ mem' \in [Addr -> Value]
         /\ AnswerNow <= IssuedNow /\ Len(queue') = IssuedNow - AnswerNow
         /\ \A j \in 1 .. Len(queue') : WordReq(queue'[j], AnswerNow + j - 1)
         /\ rsp'.ack => Answer \in Ofs
         /\ rsp'.ack /\ Reading => rsp'.err \/ rsp'.data \in fresh[Here(Answer)]
         /\ rsp'.ack /\ Writing => rsp'.err \/ mem'[Here(Answer)] \in fresh[Here(Answer)]
         /\ \A a \in Addr : mem'[a] = mem[a] \/ mem'[a] \in fresh[a]
<1>1. /\ Sent \in Seq(BusReq) /\ Answer \in Nat /\ IssuedNow \in Nat /\ BLOCK_WORDS \in Nat
      /\ IssuedNow <= BLOCK_WORDS /\ Len(Sent) = IssuedNow - Answer
      /\ \A j \in 1 .. Len(Sent) : WordReq(Sent[j], Answer + j - 1)
  BY Lineup, Ctrl, Sizes DEF CacheInv, IssuedNow
<1>2. mem \in [Addr -> Value] /\ Len(Sent) \in Nat
  BY <1>1, LenProperties DEF CacheInv, CacheTypeOK, TypeOK
<1>3. \/ /\ rsp' = [ack |-> FALSE, err |-> FALSE, data |-> Junk]
         /\ queue' = Sent /\ mem' = mem
      \/ /\ Sent # <<>>
         /\ queue' = Tail(Sent)
         /\ \/ rsp' = [ack |-> TRUE, err |-> TRUE, data |-> Junk] /\ mem' = mem
            \/ /\ rsp' = [ack |-> TRUE, err |-> FALSE,
                          data |-> IF Head(Sent).rw THEN Junk ELSE mem[Head(Sent).addr]]
               /\ mem' = IF Head(Sent).rw THEN [mem EXCEPT ![Head(Sent).addr] = Head(Sent).data]
                         ELSE mem
  BY DEF BusStep, Sent
<1>4. Junk \in Byte
  BY DEF Byte
<1> HIDE DEF Sent, IssuedNow, Answer
<1>5. CASE /\ rsp' = [ack |-> FALSE, err |-> FALSE, data |-> Junk]
           /\ queue' = Sent /\ mem' = mem
  <2>1. ~rsp'.ack /\ rsp' \in RspState /\ AnswerNow = Answer
    BY <1>1, <1>4, <1>5 DEF RspState, AnswerNow
  <2>2. Answer <= IssuedNow
    BY <1>1, <1>2
  <2> QED
    BY <1>1, <1>2, <1>5, <2>1, <2>2
<1>6. CASE Sent # <<>> /\ queue' = Tail(Sent) /\ rsp'.ack
  <2> DEFINE s == Sent
  <2>1. s[1] = Head(s) /\ Len(s) # 0 /\ Head(s) \in BusReq /\ Tail(s) \in Seq(BusReq)
        /\ Len(Tail(s)) = Len(s) - 1
        /\ \A j \in 1 .. Len(Tail(s)) : Tail(s)[j] = s[j + 1]
    BY <1>1, <1>6, HeadTailProperties, EmptySeq
  <2>2. AnswerNow = Answer + 1
    BY <1>6 DEF AnswerNow
  <2>3. /\ AnswerNow <= IssuedNow /\ Len(queue') = IssuedNow - AnswerNow /\ Answer \in Ofs
        /\ 1 \in 1 .. Len(s)
    BY <1>1, <1>2, <1>6, <2>1, <2>2 DEF Ofs
  <2>4. ASSUME NEW j \in 1 .. Len(queue')
        PROVE  WordReq(queue'[j], AnswerNow + j - 1)
    <3>1. j + 1 \in 1 .. Len(s) /\ queue'[j] = s[j + 1] /\ Answer + (j + 1) - 1 = AnswerNow + j - 1
      BY <1>1, <1>2, <1>6, <2>1, <2>2
    <3>2. WordReq(s[j + 1], Answer + (j + 1) - 1)
      BY <1>1, <3>1
    <3> QED
      BY <3>1, <3>2
  <2>5. WordReq(Head(s), Answer)
    <3>1. WordReq(s[1], Answer + 1 - 1) /\ Answer + 1 - 1 = Answer
      BY <1>1, <2>3
    <3> QED
      BY <2>1, <3>1
  <2>6. Head(s).addr = Here(Answer) /\ (Head(s).rw <=> Writing)
        /\ (Writing => Head(s).data = data[<<ctrl.idx, Answer>>])
    BY <2>5 DEF WordReq, Here
  <2>7. Here(Answer) \in Addr /\ Here(Answer)[2] = ctrl.idx /\ Here(Answer)[1] = ctrl.tag
    BY <2>3, Lines DEF CacheInv
  <2>8. ~(Reading /\ Writing) /\ (Reading \/ Writing)
    BY DEF Moving, Reading, Writing, ReadStates, WriteStates
  <2>9. CASE rsp' = [ack |-> TRUE, err |-> TRUE, data |-> Junk] /\ mem' = mem
    <3>1. rsp' \in RspState /\ rsp'.err
      BY <1>4, <2>9 DEF RspState
    <3> QED
      BY <1>2, <1>6, <2>1, <2>3, <2>4, <2>9, <3>1
  <2>10. CASE /\ rsp' = [ack |-> TRUE, err |-> FALSE,
                         data |-> IF Head(s).rw THEN Junk ELSE mem[Head(s).addr]]
              /\ mem' = IF Head(s).rw THEN [mem EXCEPT ![Head(s).addr] = Head(s).data] ELSE mem
    <3>1. CASE Writing
      <4> DEFINE v == data[<<ctrl.idx, Answer>>]
      <4>1. ~(In("S_WRITE_START") /\ ctrl.ofs_int = 0)
        <5>1. ~In("S_WRITE_START")
          <6>1. ASSUME In("S_WRITE_START") PROVE FALSE
            <7>1. IssuedNow = ctrl.ofs_int /\ ctrl.ofs_int \in Nat
              BY <6>1, Ctrl DEF IssuedNow, Issued, bus_stb, In, CacheInv, CtrlState, Ofs
            <7> QED
              BY <2>2, <2>3, <7>1 DEF Answer
          <6> QED
            BY <6>1
        <5> QED
          BY <5>1
      <4>2. v \in fresh[Here(Answer)] /\ v \in Value
        BY <2>3, <3>1, <4>1, WordToWrite
      <4>3. mem' = [mem EXCEPT ![Here(Answer)] = v] /\ rsp' = [ack |-> TRUE, err |-> FALSE, data |-> Junk]
        BY <2>6, <2>10, <3>1
      <4> HIDE DEF v
      <4>4. rsp' \in RspState
        BY <1>4, <4>3 DEF RspState
      <4>5. /\ mem' \in [Addr -> Value] /\ mem'[Here(Answer)] = v
            /\ \A a \in Addr : mem'[a] = mem[a] \/ (a = Here(Answer) /\ mem'[a] = v)
        BY <1>2, <2>7, <4>2, <4>3
      <4> QED
        BY <1>6, <2>1, <2>3, <2>4, <2>8, <3>1, <4>2, <4>4, <4>5
    <3>2. CASE Reading
      <4>1. mem' = mem /\ rsp' = [ack |-> TRUE, err |-> FALSE, data |-> mem[Here(Answer)]]
        BY <2>6, <2>8, <2>10, <3>2
      <4>2. mem[Here(Answer)] \in Value /\ mem[Here(Answer)] \in Byte
        BY <1>2, <2>7 DEF Byte
      <4>3. rsp' \in RspState /\ rsp'.data = mem[Here(Answer)]
        BY <4>1, <4>2 DEF RspState
      <4>4. mem[Here(Answer)] \in fresh[Here(Answer)]
        <5>1. ~(valid[ctrl.idx] /\ dirty[ctrl.idx]) /\ ~In("S_BYPASS")
          BY <3>2 DEF CacheInv, ReadInv, Reading, ReadStates, In
        <5> QED
          BY <2>7, <5>1 DEF CacheInv, MemInv, Cached
      <4> QED
        BY <1>2, <1>6, <2>1, <2>3, <2>4, <2>8, <3>2, <4>1, <4>3, <4>4
    <3> QED
      BY <2>8, <3>1, <3>2
  <2> QED
    BY <1>3, <1>6, <2>9, <2>10
<1> QED
  BY <1>3, <1>5, <1>6

(* Types of the memories. *)
LEMMA RamTypes ==
  ASSUME CacheTypeOK, memories
  PROVE  /\ valid' \in [Idx -> BOOLEAN] /\ dirty' \in [Idx -> BOOLEAN] /\ tag' \in [Idx -> Tag]
         /\ data' \in [Idx \X Ofs -> Byte]
         /\ rd' \in [valid : BOOLEAN, dirty : BOOLEAN, tag : Tag, data : Byte]
<1>1. /\ valid \in [Idx -> BOOLEAN] /\ dirty \in [Idx -> BOOLEAN] /\ tag \in [Idx -> Tag]
      /\ data \in [Idx \X Ofs -> Byte] /\ rsp.data \in Byte /\ host.data \in Byte
      /\ ctrl.bus_err \in BOOLEAN
  BY DEF CacheTypeOK, TypeOK, Byte
<1>2. index \in Idx /\ word \in Idx \X Ofs /\ cache_addr[1] \in Tag
  BY Lines
<1>3. /\ cache_vld \in BOOLEAN /\ cache_drt \in BOOLEAN /\ cache_data \in Byte
      /\ dirty_we \in BOOLEAN /\ cache_set \in BOOLEAN /\ cache_we \in BOOLEAN
  BY <1>1 DEF cache_vld, cache_drt, cache_data, dirty_we, cache_set, cache_we
<1>4. /\ valid' = IF cache_set THEN [valid EXCEPT ![index] = cache_vld] ELSE valid
      /\ dirty' = IF dirty_we THEN [dirty EXCEPT ![index] = cache_drt] ELSE dirty
      /\ tag' = IF cache_set THEN [tag EXCEPT ![index] = cache_addr[1]] ELSE tag
      /\ data' = IF cache_we THEN [data EXCEPT ![word] = cache_data] ELSE data
  BY DEF memories, status_valid, dirty_flag, tag_ram, data_ram
<1> DEFINE v == valid[index]
           d == ~READ_ONLY /\ spram_out(dirty[index], dirty_we, cache_drt, NUM_BLOCKS)
           t == spram_out(tag[index], cache_set, cache_addr[1], NUM_BLOCKS)
           x == spram_out(data[word], cache_we, cache_data, NUM_BLOCKS * BLOCK_WORDS)
<1>5. rd' = [valid |-> v, dirty |-> d, tag |-> t, data |-> x]
  BY DEF memories
<1>6. v \in BOOLEAN /\ d \in BOOLEAN /\ t \in Tag /\ x \in Byte
  BY <1>1, <1>2, <1>3 DEF spram_out
<1> HIDE DEF v, d, t, x
<1>7. rd' \in [valid : BOOLEAN, dirty : BOOLEAN, tag : Tag, data : Byte]
  BY <1>5, <1>6
<1> HIDE DEF index, word, cache_set, cache_we, cache_vld, cache_drt, dirty_we, cache_data
<1>8. /\ valid' \in [Idx -> BOOLEAN] /\ dirty' \in [Idx -> BOOLEAN]
  BY <1>1, <1>2, <1>3, <1>4
<1>9. tag' \in [Idx -> Tag] /\ data' \in [Idx \X Ofs -> Byte]
  BY <1>1, <1>2, <1>3, <1>4
<1> QED
  BY <1>7, <1>8, <1>9

(* Types of the ghosts. *)
LEMMA GhostTypes ==
  ASSUME CacheTypeOK, GhostStep
  PROVE  fresh' \in [Addr -> SUBSET Value] /\ failed' \subseteq Idx
<1>1. /\ fresh \in [Addr -> SUBSET Value] /\ mem \in [Addr -> Value] /\ failed \subseteq Idx
      /\ host.req.rw => host.data \in Value
      /\ ctrl.idx \in Idx
  BY DEF CacheTypeOK, TypeOK
<1>2. failed' \subseteq Idx
  BY <1>1 DEF GhostStep
<1> DEFINE f(a) == IF host_ack /\ ~host_err /\ host.req.rw /\ host.req.ben /\ a = haddr
    THEN {host.data} \cup (IF host.req.bypass THEN fresh[a] ELSE {})
    ELSE IF \/ In("S_WRITE_DONE") /\ ~ctrl.sync /\ ctrl.bus_err /\ a \in Block(ctrl.tag, ctrl.idx)
            \/ In("S_SYNC_NEXT") /\ ctrl.idx = NUM_BLOCKS - 1 /\ a \in Shared
    THEN {mem[a]}
    ELSE fresh[a]
<1>3. fresh' = [a \in Addr |-> f(a)]
  BY DEF GhostStep
<1>4. ASSUME NEW a \in Addr PROVE f(a) \in SUBSET Value
  <2>1. fresh[a] \subseteq Value /\ {mem[a]} \subseteq Value
    BY <1>1
  <2>2. host.req.rw => {host.data} \cup fresh[a] \subseteq Value /\ {host.data} \cup {} \subseteq Value
    BY <1>1, <2>1
  <2> QED
    BY <2>1, <2>2
<1> HIDE DEF f
<1> QED
  BY <1>2, <1>3, <1>4

(* Types after a cycle of which the rest is known. *)
LEMMA Types ==
  ASSUME CacheTypeOK, Cycle, ctrl' \in CtrlState, mem' \in [Addr -> Value],
         rsp' \in RspState, queue' \in Seq(BusReq)
  PROVE  CacheTypeOK'
<1>1. generic' = generic /\ generic \in Generics
  BY DEF Cycle, CacheTypeOK
<1>2. /\ NUM_BLOCKS' = NUM_BLOCKS /\ BLOCK_WORDS' = BLOCK_WORDS /\ Requests' = Requests
      /\ Idx' = Idx /\ Ofs' = Ofs /\ Addr' = Addr
  BY <1>1, Fixed
<1>3. /\ valid' \in [Idx -> BOOLEAN] /\ dirty' \in [Idx -> BOOLEAN] /\ tag' \in [Idx -> Tag]
      /\ data' \in [Idx \X Ofs -> Byte]
      /\ rd' \in [valid : BOOLEAN, dirty : BOOLEAN, tag : Tag, data : Byte]
  BY RamTypes DEF Cycle
<1>4. fresh' \in [Addr -> SUBSET Value] /\ failed' \subseteq Idx
  BY GhostTypes DEF Cycle
<1>5. host' \in HostState /\ (host'.req.rw => host'.data \in Value)
  BY HostMoves DEF Cycle
<1>6. TypeOK'
  BY <1>2, <1>3 DEF TypeOK, CtrlState, RspState, Byte
<1> QED
  BY <1>1, <1>2, <1>3, <1>4, <1>5, <1>6 DEF CacheTypeOK, HostState, BusReq

(* The action of each state. *)
LEMMA Engine ==
  ASSUME Cycle
  PROVE  /\ ctrl.state = "S_IDLE" => S_IDLE
         /\ ctrl.state = "S_CHECK" => S_CHECK
         /\ ctrl.state = "S_BYPASS" => S_BYPASS
         /\ ctrl.state = "S_SYNC_START" => S_SYNC_START
         /\ ctrl.state = "S_SYNC_DELAY" => S_SYNC_DELAY
         /\ ctrl.state = "S_SYNC_CHECK" => S_SYNC_CHECK
         /\ ctrl.state = "S_SYNC_NEXT" => S_SYNC_NEXT
         /\ ctrl.state = "S_READ_START" => S_READ_START
         /\ ctrl.state = "S_READ_WAIT" => S_READ_WAIT
         /\ ctrl.state = "S_READ_BURST" => S_READ_BURST
         /\ ctrl.state = "S_READ_DONE" => S_READ_DONE
         /\ ctrl.state = "S_WRITE_START" => S_WRITE_START
         /\ ctrl.state = "S_WRITE_REQ" => S_WRITE_REQ
         /\ ctrl.state = "S_WRITE_RSP" => S_WRITE_RSP
         /\ ctrl.state = "S_WRITE_WAIT" => S_WRITE_WAIT
         /\ ctrl.state = "S_WRITE_BURST" => S_WRITE_BURST
         /\ ctrl.state = "S_WRITE_DONE" => S_WRITE_DONE
BY DEF Cycle, ctrl_engine, In, S_IDLE, S_CHECK, S_BYPASS, S_SYNC_START, S_SYNC_DELAY,
       S_SYNC_CHECK, S_SYNC_NEXT, S_READ_START, S_READ_WAIT, S_READ_BURST, S_READ_DONE,
       S_WRITE_START, S_WRITE_REQ, S_WRITE_RSP, S_WRITE_WAIT, S_WRITE_BURST, S_WRITE_DONE

(* A cycle within the download of a block. *)
LEMMA ReadProgress ==
  ASSUME CacheInv, Cycle, ctrl.state \in {"S_READ_START", "S_READ_WAIT", "S_READ_BURST"}
  PROVE  /\ ctrl' \in CtrlState /\ Stays /\ ctrl'.tag = ctrl.tag
         /\ ctrl'.state \in ReadStates
         /\ ctrl'.state = "S_READ_DONE" => Answer = BLOCK_WORDS
         /\ ctrl'.state # "S_READ_DONE" => Answer \in Ofs /\ ctrl'.ofs_int = Answer /\ Issued' = IssuedNow
         /\ ctrl'.state \notin {"S_READ_BURST", "S_READ_DONE"} => ctrl'.ofs_ext = ctrl'.ofs_int
         /\ ctrl'.state = "S_READ_BURST" => BURSTS_EN
         /\ ctrl'.state \in {"S_READ_START", "S_READ_WAIT"} => (BURSTS_EN => ctrl'.ofs_int = 0)
         /\ IF rsp.ack THEN ctrl'.bus_err <=> ctrl.bus_err \/ rsp.err ELSE ctrl'.bus_err = ctrl.bus_err
<1>1. /\ ctrl.ofs_int \in Ofs /\ ctrl.ofs_ext \in Nat /\ BLOCK_WORDS \in Nat \ {0}
      /\ rsp.ack \in BOOLEAN /\ generic \in Generics /\ CacheTypeOK
      /\ BURSTS_EN => BLOCK_WORDS > 1
  BY Ctrl, Sizes DEF CacheInv, CtrlState, CacheTypeOK
<1>2. /\ Answer <= Issued /\ Issued <= BLOCK_WORDS
      /\ ctrl.state # "S_READ_BURST" => ctrl.ofs_ext = ctrl.ofs_int
      /\ ctrl.state \in {"S_READ_START", "S_READ_WAIT"} => (BURSTS_EN => ctrl.ofs_int = 0)
      /\ ctrl.state = "S_READ_BURST" => BURSTS_EN
  BY DEF CacheInv, TransferInv, Moving, Reading, ReadStates
<1>3. CASE ctrl.state = "S_READ_START"
  <2>1. S_READ_START
    BY <1>3, Engine
  <2>2. /\ ctrl' \in CtrlState /\ Stays /\ ctrl'.state = "S_READ_WAIT" /\ ctrl'.bus_err = ctrl.bus_err
        /\ ctrl'.tag = ctrl.tag /\ ctrl'.ofs_int = ctrl.ofs_int /\ ctrl'.ofs_ext = ctrl.ofs_ext
    BY <1>1, <2>1, Ctrl_READ_START
  <2>3. ~rsp.ack /\ Answer = ctrl.ofs_int
    BY <1>1, <1>2, <1>3 DEF Answer, Issued, Ofs
  <2>4. Issued' = IssuedNow
    BY <1>3, <2>2 DEF Issued, IssuedNow, bus_stb
  <2> QED
    BY <1>1, <1>2, <1>3, <2>2, <2>3, <2>4 DEF ReadStates
<1>4. CASE ctrl.state = "S_READ_WAIT"
  <2>1. S_READ_WAIT
    BY <1>4, Engine
  <2>2. /\ ctrl' \in CtrlState /\ Stays /\ ctrl'.tag = ctrl.tag
        /\ ~rsp.ack => /\ ctrl'.state = "S_READ_WAIT" /\ ctrl'.bus_err = ctrl.bus_err
                       /\ ctrl'.ofs_int = ctrl.ofs_int /\ ctrl'.ofs_ext = ctrl.ofs_ext
        /\ rsp.ack => /\ ctrl'.bus_err <=> ctrl.bus_err \/ rsp.err
                      /\ ctrl'.ofs_int = IF LastWord THEN 0 ELSE ctrl.ofs_int + 1
                      /\ ctrl'.ofs_ext = ctrl.ofs_int + 1
                      /\ ctrl'.state = IF BURSTS_EN THEN "S_READ_BURST"
                                       ELSE IF LastWord THEN "S_READ_DONE" ELSE "S_READ_START"
    BY <1>1, <1>2, <1>4, <2>1, Ctrl_READ_WAIT
  <2>3. IssuedNow = ctrl.ofs_int + 1
    BY <1>1, <1>4 DEF IssuedNow, Issued, bus_stb, Ofs
  <2>4. CASE ~rsp.ack
    BY <1>1, <1>2, <1>4, <2>2, <2>3, <2>4 DEF ReadStates, Answer, Issued, Ofs
  <2>5. CASE rsp.ack
    <3>1. Answer = ctrl.ofs_int + 1
      BY <2>5 DEF Answer
    <3>2. CASE BURSTS_EN
      <4>1. ~LastWord
        BY <1>1, <1>2, <1>4, <3>2 DEF LastWord
      <4> QED
        BY <1>1, <1>2, <1>4, <2>2, <2>3, <2>5, <3>1, <3>2, <4>1 DEF ReadStates, Issued, Ofs
    <3>3. CASE ~BURSTS_EN /\ LastWord
      BY <1>1, <1>2, <1>4, <2>2, <2>3, <2>5, <3>1, <3>3 DEF ReadStates, LastWord, Ofs
    <3>4. CASE ~BURSTS_EN /\ ~LastWord
      BY <1>1, <1>2, <1>4, <2>2, <2>3, <2>5, <3>1, <3>4 DEF ReadStates, LastWord, Issued, Ofs
    <3> QED
      BY <3>2, <3>3, <3>4
  <2> QED
    BY <1>1, <2>4, <2>5
<1>5. CASE ctrl.state = "S_READ_BURST"
  <2>1. S_READ_BURST
    BY <1>5, Engine
  <2>2. /\ ctrl' \in CtrlState /\ Stays /\ ctrl'.tag = ctrl.tag
        /\ ctrl'.ofs_ext = IF Overflow(ctrl.ofs_ext) THEN ctrl.ofs_ext ELSE IncExt(ctrl.ofs_ext)
        /\ ~rsp.ack => /\ ctrl'.state = "S_READ_BURST" /\ ctrl'.bus_err = ctrl.bus_err
                       /\ ctrl'.ofs_int = ctrl.ofs_int
        /\ rsp.ack => /\ ctrl'.bus_err <=> ctrl.bus_err \/ rsp.err
                      /\ ctrl'.ofs_int = IF LastWord THEN 0 ELSE ctrl.ofs_int + 1
                      /\ ctrl'.state = IF LastWord THEN "S_READ_DONE" ELSE "S_READ_BURST"
    BY <1>1, <2>1, Ctrl_READ_BURST
  <2>3. ctrl'.ofs_ext = IssuedNow
    <3>1. ~Overflow(ctrl.ofs_ext) => IncExt(ctrl.ofs_ext) = ctrl.ofs_ext + 1
      BY <1>1, Offsets DEF Overflow
    <3> QED
      BY <1>1, <1>5, <2>2, <3>1 DEF IssuedNow, Issued, bus_stb
  <2>4. ctrl'.state = "S_READ_BURST" => Issued' = IssuedNow
    BY <2>3 DEF Issued
  <2>5. CASE ~rsp.ack
    BY <1>1, <1>2, <1>5, <2>2, <2>4, <2>5 DEF ReadStates, Answer, Ofs
  <2>6. CASE rsp.ack /\ LastWord
    BY <1>1, <1>2, <1>5, <2>2, <2>6 DEF ReadStates, LastWord, Answer, Ofs
  <2>7. CASE rsp.ack /\ ~LastWord
    BY <1>1, <1>2, <1>5, <2>2, <2>4, <2>7 DEF ReadStates, LastWord, Answer, Ofs
  <2> QED
    BY <1>1, <2>5, <2>6, <2>7
<1> QED
  BY <1>3, <1>4, <1>5

(* While a block is downloaded, the received word is written. *)
LEMMA ReadRam ==
  ASSUME CacheInv, memories, ctrl.state \in {"S_READ_START", "S_READ_WAIT", "S_READ_BURST"}
  PROVE  /\ valid' = valid /\ dirty' = dirty /\ tag' = tag
         /\ \A i \in Idx : \A o \in Ofs :
              i # ctrl.idx \/ o # ctrl.ofs_int => data'[<<i, o>>] = data[<<i, o>>]
         /\ ctrl.state = "S_READ_START" => data' = data
         /\ ctrl.state # "S_READ_START" => data'[<<ctrl.idx, ctrl.ofs_int>>] = rsp.data
<1>1. ~cache_set /\ ~cache_drt /\ ~dirty_we
  BY DEF cache_set, cache_drt, dirty_we, WriteHit
<1>2. valid' = valid /\ dirty' = dirty /\ tag' = tag
  BY <1>1 DEF memories, status_valid, dirty_flag, tag_ram
<1>3. data \in [Idx \X Ofs -> Byte] /\ ctrl.idx \in Idx /\ ctrl.ofs_int \in Ofs
  BY DEF CacheInv, CacheTypeOK, TypeOK, Byte
<1>4. CASE ctrl.state = "S_READ_START"
  <2>1. ~cache_we
    BY <1>4 DEF cache_we, WriteHit
  <2> QED
    BY <1>2, <1>4, <2>1 DEF memories, data_ram
<1>5. CASE ctrl.state # "S_READ_START"
  <2>1. cache_we /\ cache_data = rsp.data /\ cache_addr = <<ctrl.tag, ctrl.idx, ctrl.ofs_int>>
    BY <1>5 DEF cache_we, cache_data, cache_addr
  <2>2. word = <<ctrl.idx, ctrl.ofs_int>>
    BY <2>1 DEF word
  <2>3. data' = [data EXCEPT ![<<ctrl.idx, ctrl.ofs_int>>] = rsp.data]
    BY <2>1, <2>2 DEF memories, data_ram
  <2> QED
    BY <1>2, <1>3, <1>5, <2>3
<1> QED
  BY <1>4, <1>5

(* A cycle within the download of a block keeps the invariant. *)
LEMMA Keeps_READ ==
  ASSUME CacheInv, Cycle, ctrl.state \in {"S_READ_START", "S_READ_WAIT", "S_READ_BURST"}
  PROVE  CacheInv'
<1>1. /\ ctrl' \in CtrlState /\ Stays /\ ctrl'.tag = ctrl.tag
      /\ ctrl'.state \in ReadStates
      /\ ctrl'.state = "S_READ_DONE" => Answer = BLOCK_WORDS
      /\ ctrl'.state # "S_READ_DONE" => Answer \in Ofs /\ ctrl'.ofs_int = Answer /\ Issued' = IssuedNow
      /\ ctrl'.state \notin {"S_READ_BURST", "S_READ_DONE"} => ctrl'.ofs_ext = ctrl'.ofs_int
      /\ ctrl'.state = "S_READ_BURST" => BURSTS_EN
      /\ ctrl'.state \in {"S_READ_START", "S_READ_WAIT"} => (BURSTS_EN => ctrl'.ofs_int = 0)
      /\ IF rsp.ack THEN ctrl'.bus_err <=> ctrl.bus_err \/ rsp.err ELSE ctrl'.bus_err = ctrl.bus_err
  BY ReadProgress
<1>2. Reading /\ Moving /\ ~Writing /\ Serving /\ Reading' /\ ~Writing'
  BY <1>1 DEF Reading, Writing, Moving, Serving, ReadStates, WriteStates
<1>3. CacheTypeOK /\ memories /\ HostStep /\ BusStep /\ GhostStep /\ generic' = generic
  BY DEF Cycle, CacheInv
<1>4. /\ NUM_BLOCKS' = NUM_BLOCKS /\ BLOCK_WORDS' = BLOCK_WORDS /\ READ_ONLY' = READ_ONLY
      /\ BURSTS_EN' = BURSTS_EN /\ Idx' = Idx /\ Ofs' = Ofs /\ Addr' = Addr
  BY <1>3, Fixed
<1>5. /\ queue' \in Seq(BusReq) /\ rsp' \in RspState /\ mem' \in [Addr -> Value]
      /\ AnswerNow <= IssuedNow /\ Len(queue') = IssuedNow - AnswerNow
      /\ \A j \in 1 .. Len(queue') : WordReq(queue'[j], AnswerNow + j - 1)
      /\ rsp'.ack => rsp'.err \/ rsp'.data \in fresh[Here(Answer)]
      /\ \A a \in Addr : mem'[a] = mem[a] \/ mem'[a] \in fresh[a]
  BY <1>2, <1>3, BusMoves
<1>6. /\ IssuedNow <= BLOCK_WORDS /\ Answer \in Nat /\ Issued \in Nat
  BY <1>2, Lineup
<1>7. /\ BLOCK_WORDS \in Nat \ {0} /\ ctrl.ofs_int \in Ofs /\ ctrl.idx \in Idx /\ rsp'.ack \in BOOLEAN
  BY <1>3, <1>5, Ctrl, Sizes DEF CtrlState, RspState
<1>8. /\ valid' = valid /\ dirty' = dirty /\ tag' = tag
      /\ \A i \in Idx : \A o \in Ofs :
           i # ctrl.idx \/ o # ctrl.ofs_int => data'[<<i, o>>] = data[<<i, o>>]
      /\ ctrl.state = "S_READ_START" => data' = data
      /\ ctrl.state # "S_READ_START" => data'[<<ctrl.idx, ctrl.ofs_int>>] = rsp.data
  BY <1>3, ReadRam
<1>9. fresh' = fresh
  BY <1>3, FreshRest
<1>10. host.busy /\ ~host.stb /\ ~ctrl.sync /\ ~ctrl.pnd_req /\ haddr[2] = ctrl.idx /\ ~host.req.bypass
  BY <1>2 DEF CacheInv, HostInv, In
<1>11. ~host_ack
  BY DEF host_ack, host_err, In
<1>12. /\ host' \in HostState /\ host'.busy /\ ~host'.stb
       /\ host'.req = host.req /\ host'.data = host.data /\ haddr' = haddr
  BY <1>3, <1>10, <1>11, HostHolds DEF haddr
<1>13. ~ctrl'.sync /\ ~ctrl'.pnd_req /\ ctrl'.idx = ctrl.idx
  BY <1>1, <1>10 DEF Stays
<1>14. ctrl'.state = "S_READ_DONE" => queue' = <<>> /\ ~rsp'.ack
  <2>1. ctrl'.state = "S_READ_DONE" => AnswerNow = Answer /\ ~rsp'.ack /\ Len(queue') = 0
    BY <1>1, <1>5, <1>6, <1>7, LenProperties DEF AnswerNow, IssuedNow
  <2> QED
    BY <1>5, <2>1, EmptySeq
<1>15. CacheTypeOK'
  BY <1>1, <1>3, <1>5, Types
<1>16. HostInv'
  BY <1>1, <1>2, <1>10, <1>12, <1>13 DEF HostInv, Syncing, Serving, ReadStates, In
<1>17. LookupInv'
  BY <1>1 DEF LookupInv, ReadStates, In
<1>18. TransferInv'
  <2>1. CASE ctrl'.state = "S_READ_DONE"
    BY <2>1 DEF TransferInv, Moving, In
  <2>2. CASE ctrl'.state # "S_READ_DONE"
    <3>1. Answer' = AnswerNow
      BY <1>1, <2>2 DEF Answer, AnswerNow
    <3>2. \A j \in 1 .. Len(queue') : WordReq(queue[j], Answer + j - 1)'
      BY <1>1, <1>2, <1>5, <1>13, <3>1 DEF WordReq
    <3>3. /\ Answer' <= Issued' /\ Issued' <= BLOCK_WORDS'
          /\ Len(queue') = Issued' - Answer'
          /\ \A j \in 1 .. Len(queue') : WordReq(queue[j], Answer + j - 1)'
      BY <1>1, <1>4, <1>5, <1>6, <2>2, <3>1, <3>2
    <3> QED
      BY <1>1, <1>2, <1>4, <2>2, <3>3 DEF TransferInv, Writing, WriteStates, In
  <2> QED
    BY <2>1, <2>2
<1>19. BusInv'
  BY <1>1, <1>2, <1>14 DEF BusInv, NoTransfer, Moving, ReadStates, In
<1>20. ReadInv'
  <2>1. /\ ~(valid'[ctrl'.idx] /\ dirty'[ctrl'.idx]) /\ haddr'[1] = ctrl'.tag
    BY <1>1, <1>2, <1>8, <1>12, <1>13 DEF CacheInv, ReadInv
  <2>2. rsp'.ack => rsp'.err \/ rsp'.data \in fresh'[Here(ctrl.ofs_int)']
    BY <1>1, <1>5, <1>9, <1>13, <1>14 DEF Here
  <2>3. ASSUME NEW o \in Ofs, o < ctrl'.ofs_int \/ ctrl'.state = "S_READ_DONE", ~ctrl'.bus_err
        PROVE  Loaded(o)'
    <3>1. o \in Nat /\ o < Answer
      BY <1>1, <1>7, <2>3 DEF Ofs
    <3>2. ~ctrl.bus_err /\ (rsp.ack => ~rsp.err)
      BY <1>1, <2>3
    <3>3. CASE o < ctrl.ofs_int
      <4>1. Loaded(o)
        BY <1>2, <3>2, <3>3 DEF CacheInv, ReadInv
      <4>2. o # ctrl.ofs_int
        BY <1>7, <3>1, <3>3 DEF Ofs
      <4>3. data'[<<ctrl.idx, o>>] = data[<<ctrl.idx, o>>]
        BY <1>7, <1>8, <4>2
      <4> QED
        BY <1>1, <1>9, <1>13, <4>1, <4>3 DEF Loaded, Here
    <3>4. CASE ~(o < ctrl.ofs_int)
      <4>1. rsp.ack /\ o = ctrl.ofs_int
        BY <1>7, <3>1, <3>4 DEF Answer, Ofs
      <4>2. rsp.data \in fresh[Here(o)]
        BY <1>2, <3>2, <4>1 DEF CacheInv, ReadInv
      <4>3. ctrl.state # "S_READ_START"
        <5>1. Answer <= Issued
          BY <1>2 DEF CacheInv, TransferInv
        <5> QED
          BY <1>7, <4>1, <5>1 DEF Answer, Issued, Ofs
      <4> QED
        BY <1>1, <1>8, <1>9, <1>13, <4>1, <4>2, <4>3 DEF Loaded, Here
    <3> QED
      BY <3>3, <3>4
  <2> QED
    BY <1>4, <2>1, <2>2, <2>3 DEF ReadInv, In
<1>21. WriteInv' /\ SyncInv'
  BY <1>1, <1>2 DEF WriteInv, SyncInv, Syncing, ReadStates, In
<1>22. LineInv'
  <2>1. ASSUME NEW a \in Addr, Cached(a)', a[2] # ctrl.idx
        PROVE  data'[<<a[2], a[3]>>] \in fresh'[a]
    <3>1. a[2] \in Idx /\ a[3] \in Ofs
      BY <1>3, Lines
    <3>2. Cached(a)
      BY <1>8, <2>1 DEF Cached
    <3>3. data[<<a[2], a[3]>>] \in fresh[a]
      BY <2>1, <3>2 DEF CacheInv, LineInv
    <3> QED
      BY <1>8, <1>9, <2>1, <3>1, <3>3
  <2> QED
    BY <1>2, <1>4, <1>13, <2>1 DEF LineInv
<1>23. MemInv'
  <2>1. ~In("S_BYPASS")
    BY DEF In
  <2>2. ASSUME NEW a \in Addr
        PROVE  (Cached(a)' /\ dirty'[a[2]]) \/ mem'[a] \in fresh'[a]
    <3>1. (Cached(a) /\ dirty[a[2]]) \/ mem[a] \in fresh[a]
      BY <2>1 DEF CacheInv, MemInv
    <3> QED
      BY <1>5, <1>8, <1>9, <3>1 DEF Cached
  <2> QED
    BY <1>4, <2>2 DEF MemInv
<1>24. DirtyInv'
  BY <1>3, <1>4, <1>8 DEF CacheInv, DirtyInv
<1> QED
  BY <1>15, <1>16, <1>17, <1>18, <1>19, <1>20, <1>21, <1>22, <1>23, <1>24 DEF CacheInv

(* A cycle within the write-back of a block. *)
LEMMA WriteProgress ==
  ASSUME CacheInv, Cycle, Writing, ctrl.state # "S_WRITE_DONE"
  PROVE  /\ ctrl' \in CtrlState /\ Stays
         /\ ctrl'.tag = tag[ctrl.idx] /\ (ctrl.state # "S_WRITE_START" => ctrl'.tag = ctrl.tag)
         /\ ctrl'.state \in WriteStates
         /\ ctrl'.state = "S_WRITE_DONE" => Answer = BLOCK_WORDS
         /\ ctrl'.state # "S_WRITE_DONE" => Answer \in Ofs /\ ctrl'.ofs_int = Answer /\ Issued' = IssuedNow
         /\ ctrl'.state \notin {"S_WRITE_BURST", "S_WRITE_DONE"} => ctrl'.ofs_ext = ctrl'.ofs_int
         /\ ctrl'.state \in {"S_WRITE_WAIT", "S_WRITE_BURST"} => BURSTS_EN
         /\ ctrl'.state \in {"S_WRITE_START", "S_WRITE_REQ", "S_WRITE_RSP"} =>
              (BURSTS_EN => ctrl'.ofs_int = 0)
         /\ ctrl'.state = "S_WRITE_START" => ctrl'.ofs_int # 0
         /\ ctrl'.state = "S_WRITE_REQ" => rd'.data = data[<<ctrl.idx, ctrl'.ofs_int>>]
         /\ ctrl'.state = "S_WRITE_BURST" =>
              IF Overflow(ctrl.ofs_buf)' THEN Overflow(ctrl.ofs_ext)'
              ELSE ctrl'.ofs_ext = ctrl'.ofs_buf + 1 /\ rd'.data = data[<<ctrl.idx, ctrl'.ofs_buf>>]
         /\ IF rsp.ack THEN ctrl'.bus_err <=> ctrl.bus_err \/ rsp.err ELSE ctrl'.bus_err = ctrl.bus_err
<1>1. /\ ctrl.ofs_int \in Ofs /\ ctrl.ofs_ext \in Nat /\ ctrl.ofs_buf \in Nat
      /\ BLOCK_WORDS \in Nat \ {0} /\ BLOCK_WORDS' = BLOCK_WORDS /\ rd.tag \in Tag
      /\ rsp.ack \in BOOLEAN /\ generic \in Generics /\ CacheTypeOK
      /\ BURSTS_EN => BLOCK_WORDS > 1
      /\ ctrl.idx \in Idx
  BY Ctrl, Sizes, Fixed DEF CacheInv, CtrlState, CacheTypeOK, Cycle
<1>2. /\ Answer <= Issued /\ Issued <= BLOCK_WORDS
      /\ ctrl.state # "S_WRITE_BURST" => ctrl.ofs_ext = ctrl.ofs_int
      /\ ctrl.state \in {"S_WRITE_START", "S_WRITE_REQ", "S_WRITE_RSP"} => (BURSTS_EN => ctrl.ofs_int = 0)
      /\ ctrl.state \in {"S_WRITE_WAIT", "S_WRITE_BURST"} => BURSTS_EN
      /\ ctrl.state = "S_WRITE_BURST" =>
           IF Overflow(ctrl.ofs_buf) THEN Overflow(ctrl.ofs_ext) ELSE ctrl.ofs_ext = ctrl.ofs_buf + 1
  BY DEF CacheInv, TransferInv, Moving, Writing, WriteStates, In
<1>3. IF ctrl.state = "S_WRITE_START" /\ ctrl.ofs_int = 0 THEN rd.tag = tag[ctrl.idx]
      ELSE ctrl.tag = tag[ctrl.idx]
  BY DEF CacheInv, WriteInv, In
<1>4. rd'.data = data[word]
  BY RamRest DEF CacheInv, Cycle, Writing, WriteStates
<1>5. CASE ctrl.state = "S_WRITE_START"
  <2>1. /\ ctrl' \in CtrlState /\ Stays /\ ctrl'.state = "S_WRITE_REQ" /\ ctrl'.bus_err = ctrl.bus_err
        /\ ctrl'.ofs_int = ctrl.ofs_int /\ ctrl'.ofs_ext = ctrl.ofs_ext
        /\ ctrl'.tag = IF ctrl.ofs_int = 0 THEN rd.tag ELSE ctrl.tag
    BY <1>1, <1>5, Engine, Ctrl_WRITE_START
  <2>2. ~rsp.ack /\ Answer = ctrl.ofs_int
    BY <1>1, <1>2, <1>5 DEF Answer, Issued, Ofs
  <2>3. Issued' = IssuedNow
    BY <1>1, <1>5, <2>1 DEF Issued, IssuedNow, bus_stb, Ofs
  <2>4. rd'.data = data[<<ctrl.idx, ctrl'.ofs_int>>]
    BY <1>4, <1>5, <2>1 DEF word, cache_addr
  <2> QED
    BY <1>1, <1>2, <1>3, <1>5, <2>1, <2>2, <2>3, <2>4 DEF WriteStates
<1>6. CASE ctrl.state = "S_WRITE_REQ"
  <2>1. /\ ctrl' \in CtrlState /\ Stays /\ ctrl'.state = "S_WRITE_RSP" /\ ctrl'.bus_err = ctrl.bus_err
        /\ ctrl'.tag = ctrl.tag /\ ctrl'.ofs_int = ctrl.ofs_int /\ ctrl'.ofs_ext = ctrl.ofs_ext
    BY <1>1, <1>6, Engine, Ctrl_WRITE_REQ
  <2>2. ~rsp.ack /\ Answer = ctrl.ofs_int
    BY <1>1, <1>2, <1>6 DEF Answer, Issued, Ofs
  <2>3. Issued' = IssuedNow
    BY <1>1, <1>6, <2>1 DEF Issued, IssuedNow, bus_stb, Ofs
  <2> QED
    BY <1>1, <1>2, <1>3, <1>6, <2>1, <2>2, <2>3 DEF WriteStates
<1>7. CASE ctrl.state = "S_WRITE_RSP"
  <2>1. /\ ctrl' \in CtrlState /\ Stays /\ ctrl'.tag = ctrl.tag
        /\ ~rsp.ack => /\ ctrl'.state = "S_WRITE_RSP" /\ ctrl'.bus_err = ctrl.bus_err
                       /\ ctrl'.ofs_int = ctrl.ofs_int /\ ctrl'.ofs_ext = ctrl.ofs_ext
        /\ rsp.ack => /\ ctrl'.bus_err <=> ctrl.bus_err \/ rsp.err
                      /\ ctrl'.ofs_int = IF LastWord THEN 0 ELSE ctrl.ofs_int + 1
                      /\ ctrl'.ofs_ext = ctrl.ofs_int + 1
                      /\ ctrl'.state = IF BURSTS_EN THEN "S_WRITE_WAIT"
                                       ELSE IF LastWord THEN "S_WRITE_DONE" ELSE "S_WRITE_START"
    BY <1>1, <1>2, <1>7, Engine, Ctrl_WRITE_RSP
  <2>2. IssuedNow = ctrl.ofs_int + 1 /\ ctrl.tag = tag[ctrl.idx]
    BY <1>1, <1>3, <1>7 DEF IssuedNow, Issued, bus_stb, Ofs
  <2>3. CASE ~rsp.ack
    BY <1>1, <1>2, <1>7, <2>1, <2>2, <2>3 DEF WriteStates, Answer, Issued, Ofs
  <2>4. CASE rsp.ack
    <3>1. Answer = ctrl.ofs_int + 1
      BY <2>4 DEF Answer
    <3>2. CASE BURSTS_EN
      <4>1. ~LastWord
        BY <1>1, <1>2, <1>7, <3>2 DEF LastWord
      <4> QED
        BY <1>1, <1>2, <1>7, <2>1, <2>2, <2>4, <3>1, <3>2, <4>1 DEF WriteStates, Issued, Ofs
    <3>3. CASE ~BURSTS_EN /\ LastWord
      BY <1>1, <1>2, <1>7, <2>1, <2>2, <2>4, <3>1, <3>3 DEF WriteStates, LastWord, Ofs
    <3>4. CASE ~BURSTS_EN /\ ~LastWord
      BY <1>1, <1>2, <1>7, <2>1, <2>2, <2>4, <3>1, <3>4 DEF WriteStates, LastWord, Issued, Ofs
    <3> QED
      BY <3>2, <3>3, <3>4
  <2> QED
    BY <1>1, <2>3, <2>4
<1>8. CASE ctrl.state = "S_WRITE_WAIT"
  <2>1. /\ ctrl' \in CtrlState /\ Stays /\ ctrl'.state = "S_WRITE_BURST" /\ ctrl'.bus_err = ctrl.bus_err
        /\ ctrl'.tag = ctrl.tag /\ ctrl'.ofs_int = ctrl.ofs_int
        /\ ctrl'.ofs_ext = IncExt(ctrl.ofs_ext) /\ ctrl'.ofs_buf = ctrl.ofs_ext
    BY <1>1, <1>8, Engine, Ctrl_WRITE_WAIT
  <2>2. ~rsp.ack /\ Answer = ctrl.ofs_int /\ ctrl.ofs_ext = ctrl.ofs_int /\ BLOCK_WORDS > 1
    BY <1>1, <1>2, <1>8 DEF Answer, Issued, Ofs
  <2>3. ctrl'.ofs_ext = ctrl'.ofs_buf + 1
    BY <1>1, <2>1, <2>2, Offsets DEF Ofs
  <2>4. ~Overflow(ctrl.ofs_buf)'
    BY <1>1, <2>1, <2>2 DEF Overflow, Ofs
  <2>5. rd'.data = data[<<ctrl.idx, ctrl'.ofs_buf>>]
    <3>1. word = <<ctrl.idx, ctrl.ofs_ext % BLOCK_WORDS>>
      BY <1>8 DEF word, cache_addr
    <3>2. ctrl.ofs_ext % BLOCK_WORDS = ctrl.ofs_ext
      BY <1>1, <2>2, Offsets
    <3> QED
      BY <1>4, <2>1, <3>1, <3>2
  <2>6. Issued' = IssuedNow
    BY <1>1, <1>8, <2>1, <2>2, <2>4 DEF Issued, IssuedNow, bus_stb, Ofs
  <2> QED
    BY <1>1, <1>2, <1>3, <1>8, <2>1, <2>2, <2>3, <2>4, <2>5, <2>6 DEF WriteStates
<1>9. CASE ctrl.state = "S_WRITE_BURST"
  <2>1. /\ ctrl' \in CtrlState /\ Stays /\ ctrl'.tag = ctrl.tag
        /\ ctrl'.ofs_ext = IF Overflow(ctrl.ofs_buf) THEN ctrl.ofs_ext ELSE IncExt(ctrl.ofs_ext)
        /\ ctrl'.ofs_buf = ctrl.ofs_ext
        /\ ~rsp.ack => /\ ctrl'.state = "S_WRITE_BURST" /\ ctrl'.bus_err = ctrl.bus_err
                       /\ ctrl'.ofs_int = ctrl.ofs_int
        /\ rsp.ack => /\ ctrl'.bus_err <=> ctrl.bus_err \/ rsp.err
                      /\ ctrl'.ofs_int = IF LastWord THEN 0 ELSE ctrl.ofs_int + 1
                      /\ ctrl'.state = IF LastWord THEN "S_WRITE_DONE" ELSE "S_WRITE_BURST"
    BY <1>1, <1>9, Engine, Ctrl_WRITE_BURST
  <2>2. /\ ~Overflow(ctrl.ofs_buf) => ctrl'.ofs_ext = ctrl'.ofs_buf + 1
        /\ Overflow(ctrl.ofs_buf) => Overflow(ctrl.ofs_ext) /\ ctrl'.ofs_ext = ctrl.ofs_ext
    <3>1. CASE ~Overflow(ctrl.ofs_buf)
      <4>1. ctrl.ofs_ext = ctrl.ofs_buf + 1 /\ ctrl.ofs_buf < BLOCK_WORDS /\ BLOCK_WORDS > 1
        BY <1>1, <1>2, <1>9, <3>1 DEF Overflow
      <4>2. ctrl.ofs_ext < 2 * BLOCK_WORDS - 1
        BY <1>1, <4>1
      <4> QED
        BY <1>1, <2>1, <3>1, <4>2, Offsets
    <3>2. CASE Overflow(ctrl.ofs_buf)
      BY <1>2, <1>9, <2>1, <3>2
    <3> QED
      BY <3>1, <3>2
  <2>3. ctrl'.state = "S_WRITE_BURST" => Issued' = IssuedNow
    <3>1. CASE ~Overflow(ctrl.ofs_buf)
      <4>1. ctrl.ofs_ext = ctrl.ofs_buf + 1 /\ ctrl.ofs_buf < BLOCK_WORDS
        BY <1>1, <1>2, <1>9, <3>1 DEF Overflow
      <4> QED
        BY <1>1, <1>9, <2>1, <3>1, <4>1 DEF Issued, IssuedNow, bus_stb, Overflow
    <3>2. CASE Overflow(ctrl.ofs_buf)
      BY <1>1, <1>2, <1>9, <2>1, <3>2 DEF Issued, IssuedNow, bus_stb, Overflow
    <3> QED
      BY <3>1, <3>2
  <2>4. IF Overflow(ctrl.ofs_buf)' THEN Overflow(ctrl.ofs_ext)'
        ELSE ctrl'.ofs_ext = ctrl'.ofs_buf + 1 /\ rd'.data = data[<<ctrl.idx, ctrl'.ofs_buf>>]
    <3>1. CASE ~Overflow(ctrl.ofs_ext)
      <4>1. ~Overflow(ctrl.ofs_buf) /\ ctrl.ofs_ext \in Ofs
        BY <1>1, <2>2, <3>1 DEF Overflow, Ofs
      <4>2. ctrl.ofs_ext % BLOCK_WORDS = ctrl.ofs_ext
        BY <1>1, <4>1, Offsets
      <4>3. rd'.data = data[<<ctrl.idx, ctrl'.ofs_buf>>]
        BY <1>4, <1>9, <2>1, <4>2 DEF word, cache_addr
      <4> QED
        BY <1>1, <2>1, <2>2, <3>1, <4>1, <4>3 DEF Overflow
    <3>2. CASE Overflow(ctrl.ofs_ext)
      BY <1>1, <2>1, <2>2, <3>2 DEF Overflow
    <3> QED
      BY <3>1, <3>2
  <2>5. CASE ~rsp.ack
    BY <1>1, <1>2, <1>3, <1>9, <2>1, <2>3, <2>4, <2>5 DEF WriteStates, Answer, Ofs
  <2>6. CASE rsp.ack /\ LastWord
    BY <1>1, <1>2, <1>3, <1>9, <2>1, <2>6 DEF WriteStates, LastWord, Answer, Ofs
  <2>7. CASE rsp.ack /\ ~LastWord
    BY <1>1, <1>2, <1>3, <1>9, <2>1, <2>3, <2>4, <2>7 DEF WriteStates, LastWord, Answer, Ofs
  <2> QED
    BY <1>1, <2>5, <2>6, <2>7
<1> QED
  BY <1>5, <1>6, <1>7, <1>8, <1>9 DEF Writing, WriteStates

(* A cycle within the write-back of a block keeps the invariant. *)
LEMMA Keeps_WRITE ==
  ASSUME CacheInv, Cycle, Writing, ctrl.state # "S_WRITE_DONE"
  PROVE  CacheInv'
<1>1. /\ ctrl' \in CtrlState /\ Stays
      /\ ctrl'.tag = tag[ctrl.idx] /\ (ctrl.state # "S_WRITE_START" => ctrl'.tag = ctrl.tag)
      /\ ctrl'.state \in WriteStates
      /\ ctrl'.state = "S_WRITE_DONE" => Answer = BLOCK_WORDS
      /\ ctrl'.state # "S_WRITE_DONE" => Answer \in Ofs /\ ctrl'.ofs_int = Answer /\ Issued' = IssuedNow
      /\ ctrl'.state \notin {"S_WRITE_BURST", "S_WRITE_DONE"} => ctrl'.ofs_ext = ctrl'.ofs_int
      /\ ctrl'.state \in {"S_WRITE_WAIT", "S_WRITE_BURST"} => BURSTS_EN
      /\ ctrl'.state \in {"S_WRITE_START", "S_WRITE_REQ", "S_WRITE_RSP"} => (BURSTS_EN => ctrl'.ofs_int = 0)
      /\ ctrl'.state = "S_WRITE_START" => ctrl'.ofs_int # 0
      /\ ctrl'.state = "S_WRITE_REQ" => rd'.data = data[<<ctrl.idx, ctrl'.ofs_int>>]
      /\ ctrl'.state = "S_WRITE_BURST" =>
           IF Overflow(ctrl.ofs_buf)' THEN Overflow(ctrl.ofs_ext)'
           ELSE ctrl'.ofs_ext = ctrl'.ofs_buf + 1 /\ rd'.data = data[<<ctrl.idx, ctrl'.ofs_buf>>]
      /\ IF rsp.ack THEN ctrl'.bus_err <=> ctrl.bus_err \/ rsp.err ELSE ctrl'.bus_err = ctrl.bus_err
  BY WriteProgress
<1>2. Writing' /\ ~Reading' /\ ~Reading /\ Moving
  BY <1>1 DEF Reading, Writing, Moving, ReadStates, WriteStates
<1>3. CacheTypeOK /\ memories /\ HostStep /\ BusStep /\ GhostStep /\ generic' = generic
  BY DEF Cycle, CacheInv
<1>4. /\ NUM_BLOCKS' = NUM_BLOCKS /\ BLOCK_WORDS' = BLOCK_WORDS /\ READ_ONLY' = READ_ONLY
      /\ BURSTS_EN' = BURSTS_EN /\ Idx' = Idx /\ Ofs' = Ofs /\ Addr' = Addr
  BY <1>3, Fixed
<1>5. /\ queue' \in Seq(BusReq) /\ rsp' \in RspState /\ mem' \in [Addr -> Value]
      /\ AnswerNow <= IssuedNow /\ Len(queue') = IssuedNow - AnswerNow
      /\ \A j \in 1 .. Len(queue') : WordReq(queue'[j], AnswerNow + j - 1)
      /\ rsp'.ack => rsp'.err \/ mem'[Here(Answer)] \in fresh[Here(Answer)]
      /\ \A a \in Addr : mem'[a] = mem[a] \/ mem'[a] \in fresh[a]
  BY <1>2, <1>3, BusMoves
<1>6. /\ IssuedNow <= BLOCK_WORDS /\ Answer \in Nat /\ Issued \in Nat
  BY <1>2, Lineup
<1>7. /\ BLOCK_WORDS \in Nat \ {0} /\ ctrl.ofs_int \in Ofs /\ ctrl.idx \in Idx /\ rsp'.ack \in BOOLEAN
      /\ ctrl.sync \in BOOLEAN
  BY <1>3, <1>5, Ctrl, Sizes DEF CtrlState, RspState
<1>8. valid' = valid /\ dirty' = dirty /\ tag' = tag /\ data' = data
  BY <1>3, RamRest DEF CacheInv, Writing, WriteStates
<1>9. fresh' = fresh
  BY <1>3, FreshRest DEF Writing, WriteStates
<1>10. ctrl'.sync = ctrl.sync /\ ctrl'.idx = ctrl.idx /\ (ctrl'.pnd_req <=> ctrl.pnd_req \/ host.stb)
  BY <1>1 DEF Stays
<1>11. ~host_ack
  BY DEF host_ack, host_err, In, Writing, WriteStates
<1>12. ~ctrl.sync => /\ host.busy /\ ~host.stb /\ ~ctrl.pnd_req /\ haddr[2] = ctrl.idx
                     /\ ~host.req.bypass
  BY DEF CacheInv, HostInv, In, Serving, Writing, WriteStates
<1>13. ~ctrl.sync => /\ host'.busy /\ ~host'.stb /\ host'.req = host.req /\ haddr' = haddr
  BY <1>3, <1>11, <1>12, HostHolds DEF haddr
<1>14. ctrl'.state = "S_WRITE_DONE" => queue' = <<>> /\ ~rsp'.ack
  <2>1. ctrl'.state = "S_WRITE_DONE" => AnswerNow = Answer /\ ~rsp'.ack /\ Len(queue') = 0
    BY <1>1, <1>5, <1>6, <1>7, LenProperties DEF AnswerNow, IssuedNow
  <2> QED
    BY <1>5, <2>1, EmptySeq
<1>15. ctrl.state = "S_WRITE_START" => ~rsp.ack /\ ~rsp'.ack /\ Len(queue') = 0 /\ Answer = ctrl.ofs_int
  <2>1. ctrl.state = "S_WRITE_START" => IssuedNow = ctrl.ofs_int
    BY <1>7 DEF IssuedNow, Issued, bus_stb, Ofs
  <2>2. ctrl.state = "S_WRITE_START" => Answer = ctrl.ofs_int /\ ~rsp.ack /\ ~rsp'.ack
    BY <1>5, <1>6, <1>7, <2>1 DEF Answer, AnswerNow, Ofs
  <2> QED
    BY <1>5, <1>6, <1>7, <2>1, <2>2 DEF AnswerNow, Ofs
<1>16. CacheTypeOK'
  BY <1>1, <1>3, <1>5, Types
<1>17. HostInv'
  <2>1. host'.stb \/ ctrl'.pnd_req => host'.busy
    BY <1>3, <1>10, <1>11, HostMoves DEF CacheInv, HostInv
  <2> QED
    BY <1>1, <1>2, <1>10, <1>12, <1>13, <2>1 DEF HostInv, Syncing, Serving, WriteStates, In
<1>18. LookupInv'
  BY <1>1 DEF LookupInv, WriteStates, In
<1>19. TransferInv'
  <2>1. ctrl'.state # "S_WRITE_DONE" => 
          /\ Answer' <= Issued' /\ Issued' <= BLOCK_WORDS'
          /\ Len(queue') = Issued' - Answer'
          /\ \A j \in 1 .. Len(queue') : WordReq(queue[j], Answer + j - 1)'
    <3>1. SUFFICES ASSUME ctrl'.state # "S_WRITE_DONE"
                   PROVE  /\ Answer' <= Issued' /\ Issued' <= BLOCK_WORDS'
                          /\ Len(queue') = Issued' - Answer'
                          /\ \A j \in 1 .. Len(queue') : WordReq(queue[j], Answer + j - 1)'
      OBVIOUS
    <3>2. Answer' = AnswerNow
      BY <1>1, <3>1 DEF Answer, AnswerNow
    <3>3. \A j \in 1 .. Len(queue') : WordReq(queue[j], Answer + j - 1)'
      BY <1>1, <1>2, <1>5, <1>8, <1>10, <1>15, <3>2 DEF WordReq
    <3> QED
      BY <1>1, <1>4, <1>5, <1>6, <3>1, <3>2, <3>3
  <2>2. ctrl'.state = "S_WRITE_REQ" => rd'.data = data'[<<ctrl'.idx, ctrl'.ofs_int>>]
    BY <1>1, <1>8, <1>10
  <2>3. ctrl'.state = "S_WRITE_BURST" =>
          IF Overflow(ctrl.ofs_buf)' THEN Overflow(ctrl.ofs_ext)'
          ELSE ctrl'.ofs_ext = ctrl'.ofs_buf + 1 /\ rd'.data = data'[<<ctrl'.idx, ctrl'.ofs_buf>>]
    BY <1>1, <1>8, <1>10
  <2> QED
    BY <1>1, <1>2, <1>4, <2>1, <2>2, <2>3 DEF TransferInv, Moving, WriteStates, In
<1>20. BusInv'
  BY <1>1, <1>2, <1>14 DEF BusInv, NoTransfer, Moving, WriteStates, In
<1>21. ReadInv'
  BY <1>2 DEF ReadInv
<1>22. WriteInv'
  <2>1. /\ valid'[ctrl'.idx] /\ dirty'[ctrl'.idx] /\ ctrl'.tag = tag'[ctrl'.idx]
        /\ (In("S_WRITE_START") /\ ctrl.ofs_int = 0)' => rd'.tag = tag'[ctrl'.idx]
    BY <1>1, <1>8, <1>10 DEF CacheInv, WriteInv, In
  <2>2. ~ctrl'.sync => tag'[ctrl'.idx] # haddr'[1]
    BY <1>8, <1>10, <1>13 DEF CacheInv, WriteInv
  <2>3. rsp'.ack => rsp'.err \/ Stored(ctrl.ofs_int)'
    BY <1>1, <1>5, <1>9, <1>10, <1>14, <1>15 DEF Stored, Here
  <2>4. ASSUME NEW o \in Ofs, o < ctrl'.ofs_int \/ ctrl'.state = "S_WRITE_DONE", ~ctrl'.bus_err
        PROVE  Stored(o)'
    <3>1. o \in Nat /\ o < Answer
      BY <1>1, <1>7, <2>4 DEF Ofs
    <3>2. ~ctrl.bus_err /\ (rsp.ack => ~rsp.err)
      BY <1>1, <2>4
    <3>3. ctrl'.tag = ctrl.tag
      BY <1>1, <1>7, <1>15, <3>1 DEF CacheInv, WriteInv, In, Ofs
    <3>4. Stored(o)
      <4>1. CASE o < ctrl.ofs_int
        BY <3>2, <4>1 DEF CacheInv, WriteInv
      <4>2. CASE ~(o < ctrl.ofs_int)
        <5>1. rsp.ack /\ o = ctrl.ofs_int
          BY <1>7, <3>1, <4>2 DEF Answer, Ofs
        <5> QED
          BY <3>2, <5>1 DEF CacheInv, WriteInv
      <4> QED
        BY <4>1, <4>2
    <3>5. Here(o) \in Addr
      BY <1>3, Lines
    <3> QED
      BY <1>5, <1>9, <1>10, <3>3, <3>4, <3>5 DEF Stored, Here
  <2> QED
    BY <1>4, <2>1, <2>2, <2>3, <2>4 DEF WriteInv, In
<1>23. SyncInv'
  <2>1. CASE ~ctrl.sync
    BY <1>1, <1>10, <2>1 DEF SyncInv, Syncing, WriteStates, In
  <2>2. CASE ctrl.sync
    <3>1. Syncing /\ ctrl.state \notin {"S_SYNC_DELAY", "S_SYNC_CHECK"}
      BY <2>2 DEF Syncing, Writing, WriteStates
    <3>2. failed' = IF rsp.ack /\ rsp.err THEN failed \cup {ctrl.idx} ELSE failed
      BY <1>3, <2>2 DEF GhostStep
    <3>3. /\ \A i \in Idx : i < ctrl.idx => (valid[i] <=> i \in failed) /\ (i \in failed => dirty[i])
          /\ \A i \in failed : i <= ctrl.idx
          /\ ctrl.idx \in failed <=> ctrl.bus_err
      BY <3>1 DEF CacheInv, SyncInv
    <3>4. \A i \in Idx : i < ctrl.idx => (valid[i] <=> i \in failed') /\ (i \in failed' => dirty[i])
      BY <1>7, <3>2, <3>3 DEF Idx
    <3>5. \A i \in failed' : i <= ctrl.idx
      BY <1>7, <3>2, <3>3, Sizes, <1>3 DEF CacheTypeOK, Idx
    <3>6. ctrl.idx \in failed' <=> ctrl'.bus_err
      BY <1>1, <3>2, <3>3
    <3> QED
      BY <1>1, <1>4, <1>8, <1>10, <3>4, <3>5, <3>6 DEF SyncInv, WriteStates, In
  <2> QED
    BY <2>1, <2>2
<1>24. LineInv'
  BY <1>2, <1>4, <1>8, <1>9 DEF CacheInv, LineInv, Cached
<1>25. MemInv'
  <2>1. ~In("S_BYPASS")
    BY DEF In, Writing, WriteStates
  <2>2. ASSUME NEW a \in Addr
        PROVE  (Cached(a)' /\ dirty'[a[2]]) \/ mem'[a] \in fresh'[a]
    <3>1. (Cached(a) /\ dirty[a[2]]) \/ mem[a] \in fresh[a]
      BY <2>1 DEF CacheInv, MemInv
    <3> QED
      BY <1>5, <1>8, <1>9, <3>1 DEF Cached
  <2> QED
    BY <1>4, <2>2 DEF MemInv
<1>26. DirtyInv'
  BY <1>3, <1>4, <1>8 DEF CacheInv, DirtyInv
<1> QED
  BY <1>16, <1>17, <1>18, <1>19, <1>20, <1>21, <1>22, <1>23, <1>24, <1>25, <1>26 DEF CacheInv

(* Between accesses, and while synchronization looks at the blocks. *)
LEMMA Keeps_QUIET ==
  ASSUME CacheInv, Cycle,
         ctrl.state \in {"S_IDLE", "S_SYNC_START", "S_SYNC_DELAY", "S_SYNC_CHECK"}
  PROVE  CacheInv'
<1>1. CacheTypeOK /\ memories /\ HostStep /\ BusStep /\ GhostStep /\ generic' = generic
  BY DEF Cycle, CacheInv
<1>2. /\ NUM_BLOCKS' = NUM_BLOCKS /\ BLOCK_WORDS' = BLOCK_WORDS /\ READ_ONLY' = READ_ONLY
      /\ BURSTS_EN' = BURSTS_EN /\ Idx' = Idx /\ Ofs' = Ofs /\ Addr' = Addr
  BY <1>1, Fixed
<1>3. ~Moving /\ ~Writing /\ ~Reading
  BY DEF Moving, Reading, Writing, ReadStates, WriteStates
<1>4. NoTransfer
  BY <1>3 DEF CacheInv, BusInv, In
<1>5. NoTransfer' /\ mem' = mem /\ queue' \in Seq(BusReq) /\ rsp' \in RspState
  <2>1. ~bus_stb
    BY DEF bus_stb
  <2> QED
    BY <1>1, <1>4, <2>1, BusQuiet DEF NoTransfer
<1>6. /\ valid' = valid /\ dirty' = dirty /\ tag' = tag /\ data' = data
      /\ rd'.valid = valid[index] /\ rd'.dirty = dirty[index] /\ rd'.tag = tag[index]
      /\ rd'.data = data[word]
  BY <1>1, RamRest DEF CacheInv
<1>7. fresh' = fresh
  BY <1>1, FreshRest
<1>8. mem' \in [Addr -> Value] /\ ctrl.idx \in Idx /\ BLOCK_WORDS \in Nat \ {0} /\ NUM_BLOCKS \in Nat \ {0}
  BY <1>1, <1>5, Ctrl, Sizes DEF CacheTypeOK, TypeOK
<1>9. ~host_ack
  BY DEF host_ack, host_err, In
<1>10. (ctrl'.pnd_req <=> ctrl.pnd_req \/ host.stb) => (host'.stb \/ ctrl'.pnd_req => host'.busy)
  BY <1>1, <1>9, HostMoves DEF CacheInv, HostInv
<1>11. LineInv' <=> \A a \in Addr : Cached(a) /\ ~(Reading' /\ a[2] = ctrl'.idx) =>
                                      data[<<a[2], a[3]>>] \in fresh[a]
  BY <1>2, <1>6, <1>7 DEF LineInv, Cached
<1>12. LineInv'
  BY <1>3, <1>11 DEF CacheInv, LineInv
<1>13. \A a \in Addr : (Cached(a) /\ dirty[a[2]]) \/ mem[a] \in fresh[a]
  BY DEF CacheInv, MemInv, In
<1>14. MemInv'
  BY <1>2, <1>5, <1>6, <1>7, <1>13 DEF MemInv, Cached
<1>15. DirtyInv'
  BY <1>1, <1>2, <1>6 DEF CacheInv, DirtyInv
<1>16. CASE ctrl.state = "S_IDLE"
  <2>1. /\ ctrl' \in CtrlState /\ ~ctrl'.sync
        /\ ctrl'.pnd_req <=> ctrl.pnd_req \/ host.stb
        /\ \/ ctrl'.state \in {"S_IDLE", "S_SYNC_START"}
           \/ /\ ctrl'.state = "S_CHECK" /\ (ctrl'.pnd_bp <=> host.req.bypass)
              /\ ctrl.pnd_req \/ host.stb
              /\ ~ctrl'.hit /\ ~ctrl'.cln
    BY <1>1, <1>16, Engine, Ctrl_IDLE
  <2>2. ~Moving' /\ ~Writing' /\ ~Reading' /\ ~Syncing'
    BY <2>1 DEF Moving, Reading, Writing, ReadStates, WriteStates, Syncing
  <2>3. ctrl'.state = "S_CHECK" => /\ host.busy /\ host'.busy /\ ~host'.stb
                                   /\ host'.req = host.req /\ haddr' = haddr
    BY <1>1, <1>9, <2>1, HostHolds DEF CacheInv, HostInv, haddr
  <2>4. CacheTypeOK'
    BY <1>1, <1>5, <1>8, <2>1, Types
  <2>5. HostInv'
    BY <1>10, <2>1, <2>2, <2>3 DEF HostInv, Serving, In
  <2>6. LookupInv'
    <3>1. SUFFICES ASSUME ctrl'.state = "S_CHECK", ~ctrl'.pnd_bp
                   PROVE  IF hit' THEN valid'[hidx'] /\ tag'[hidx'] = haddr'[1] /\ rd'.data = data'[hword']
                          ELSE IF drt' THEN valid'[hidx'] /\ dirty'[hidx'] /\ tag'[hidx'] # haddr'[1]
                          ELSE ~(valid'[hidx'] /\ dirty'[hidx'])
      BY <2>1 DEF LookupInv, In
    <3>2. index = hidx' /\ word = hword' /\ haddr' = haddr
      BY <1>16, <2>3, <3>1 DEF index, word, hidx, hword, cache_addr
    <3>3. hit' <=> rd'.valid /\ rd'.tag = haddr'[1]
      BY <2>1, <3>1 DEF hit
    <3>4. drt' <=> rd'.dirty /\ rd'.valid
      BY <2>1, <3>1 DEF drt
    <3> QED
      BY <1>6, <3>2, <3>3, <3>4
  <2>7. TransferInv' /\ BusInv' /\ ReadInv' /\ WriteInv' /\ SyncInv'
    BY <1>5, <2>1, <2>2 DEF TransferInv, BusInv, ReadInv, WriteInv, SyncInv, In
  <2> QED
    BY <1>12, <1>14, <1>15, <2>4, <2>5, <2>6, <2>7 DEF CacheInv
<1>17. CASE ctrl.state = "S_SYNC_START"
  <2>1. /\ ctrl' \in CtrlState /\ ctrl'.sync /\ ctrl'.idx = 0 /\ ctrl'.state = "S_SYNC_DELAY"
        /\ ctrl'.pnd_req <=> ctrl.pnd_req \/ host.stb
    BY <1>1, <1>17, Engine, Ctrl_SYNC_START
  <2>2. ~Moving' /\ ~Writing' /\ ~Reading' /\ ~Serving'
    BY <2>1 DEF Moving, Reading, Writing, ReadStates, WriteStates, Serving
  <2>3. CacheTypeOK'
    BY <1>1, <1>5, <1>8, <2>1, Types
  <2>4. HostInv' /\ LookupInv' /\ TransferInv' /\ BusInv' /\ ReadInv' /\ WriteInv'
    BY <1>5, <1>10, <2>1, <2>2
       DEF HostInv, LookupInv, TransferInv, BusInv, ReadInv, WriteInv, In
  <2>5. failed' = {}
    BY <1>1, <1>17 DEF GhostStep, CacheInv, HostInv, In
  <2>6. \A i \in Idx : ~(i < 0)
    BY <1>8 DEF Idx
  <2>7. SyncInv'
    BY <1>2, <2>1, <2>5, <2>6 DEF SyncInv, In
  <2> QED
    BY <1>12, <1>14, <1>15, <2>3, <2>4, <2>7 DEF CacheInv
<1>18. ASSUME ctrl.state \in {"S_SYNC_DELAY", "S_SYNC_CHECK"}
       PROVE  /\ ctrl.sync /\ failed' = failed /\ ctrl.idx \notin failed
              /\ \A i \in Idx : i < ctrl.idx => (valid[i] <=> i \in failed) /\ (i \in failed => dirty[i])
              /\ \A i \in failed : i <= ctrl.idx
  <2>1. Syncing /\ ctrl.sync
    BY <1>18 DEF Syncing, CacheInv, HostInv
  <2> QED
    BY <1>1, <1>4, <1>18, <2>1 DEF GhostStep, NoTransfer, CacheInv, SyncInv
<1>19. CASE ctrl.state = "S_SYNC_DELAY"
  <2>1. /\ ctrl' \in CtrlState /\ ctrl'.sync = ctrl.sync /\ ctrl'.idx = ctrl.idx /\ ~ctrl'.cln
        /\ ctrl'.pnd_req <=> ctrl.pnd_req \/ host.stb
        /\ ctrl'.state = "S_SYNC_CHECK"
    BY <1>1, <1>19, Engine, Ctrl_SYNC_DELAY
  <2>2. ~Moving' /\ ~Writing' /\ ~Reading' /\ ~Serving'
    BY <2>1 DEF Moving, Reading, Writing, ReadStates, WriteStates, Serving
  <2>3. CacheTypeOK'
    BY <1>1, <1>5, <1>8, <2>1, Types
  <2>4. HostInv' /\ TransferInv' /\ BusInv' /\ ReadInv' /\ WriteInv'
    BY <1>5, <1>10, <1>18, <1>19, <2>1, <2>2
       DEF HostInv, TransferInv, BusInv, ReadInv, WriteInv, In
  <2>5. LookupInv'
    <3>1. index = ctrl.idx
      BY <1>19 DEF index, cache_addr
    <3> QED
      BY <1>6, <2>1, <3>1 DEF LookupInv, In
  <2>6. SyncInv'
    BY <1>2, <1>6, <1>18, <1>19, <2>1 DEF SyncInv, In
  <2> QED
    BY <1>12, <1>14, <1>15, <2>3, <2>4, <2>5, <2>6 DEF CacheInv
<1>20. CASE ctrl.state = "S_SYNC_CHECK"
  <2>1. /\ ctrl' \in CtrlState /\ ctrl'.sync = ctrl.sync /\ ~ctrl'.bus_err
        /\ ctrl'.idx = ctrl.idx /\ ctrl'.ofs_int = 0 /\ ctrl'.ofs_ext = 0
        /\ ctrl'.pnd_req <=> ctrl.pnd_req \/ host.stb
        /\ ctrl'.state = IF drt /\ ~READ_ONLY THEN "S_WRITE_START" ELSE "S_SYNC_NEXT"
    BY <1>1, <1>20, Engine, Ctrl_SYNC_CHECK
  <2>2. ~ctrl.cln /\ rd.valid = valid[ctrl.idx] /\ rd.dirty = dirty[ctrl.idx]
    BY <1>20 DEF CacheInv, LookupInv, In
  <2>3. ~Reading' /\ ~Serving' /\ ctrl'.sync
    BY <1>18, <1>20, <2>1 DEF Reading, Writing, ReadStates, WriteStates, Serving
  <2>4. CacheTypeOK'
    BY <1>1, <1>5, <1>8, <2>1, Types
  <2>5. HostInv' /\ LookupInv' /\ ReadInv'
    BY <1>10, <2>1, <2>3 DEF HostInv, LookupInv, ReadInv, Syncing, In
  <2>6. BusInv'
    BY <1>5, <2>1 DEF BusInv, In
  <2>7. CASE ctrl'.state = "S_WRITE_START"
    <3>1. valid[ctrl.idx] /\ dirty[ctrl.idx]
      BY <2>1, <2>2, <2>7 DEF drt
    <3>2. index = ctrl.idx
      BY <1>20 DEF index, cache_addr
    <3>3. Answer' = 0 /\ Issued' = 0 /\ Len(queue') = 0
      BY <1>5, <2>1, <2>7 DEF Answer, Issued, NoTransfer
    <3>4. TransferInv'
      BY <1>2, <1>8, <2>1, <2>7, <3>3 DEF TransferInv, In
    <3>5. \A o \in Ofs : ~(o < 0)
      BY <1>8 DEF Ofs
    <3>6. WriteInv'
      BY <1>2, <1>5, <1>6, <2>1, <2>3, <2>7, <3>1, <3>2, <3>5 DEF WriteInv, NoTransfer, In
    <3>7. SyncInv'
      BY <1>2, <1>6, <1>18, <1>20, <2>1, <2>7 DEF SyncInv, In
    <3> QED
      BY <1>12, <1>14, <1>15, <2>4, <2>5, <2>6, <3>4, <3>6, <3>7 DEF CacheInv
  <2>8. CASE ctrl'.state = "S_SYNC_NEXT"
    <3>1. ~(valid[ctrl.idx] /\ dirty[ctrl.idx])
      BY <1>8, <2>1, <2>2, <2>8 DEF drt, CacheInv, DirtyInv
    <3>2. TransferInv' /\ WriteInv'
      BY <2>8 DEF TransferInv, WriteInv, Moving, Reading, Writing, ReadStates, WriteStates, In
    <3>3. \A a \in Addr : a[2] = ctrl.idx => mem[a] \in fresh[a]
      BY <1>13, <3>1 DEF Cached
    <3>4. SyncInv'
      BY <1>2, <1>5, <1>6, <1>7, <1>18, <1>20, <2>1, <2>8, <3>3 DEF SyncInv, In
    <3> QED
      BY <1>12, <1>14, <1>15, <2>4, <2>5, <2>6, <3>2, <3>4 DEF CacheInv
  <2> QED
    BY <2>1, <2>7, <2>8
<1> QED
  BY <1>16, <1>17, <1>19, <1>20

(* Synchronization drops the block it has looked at, unless its write-back *)
(* failed.                                                                 *)
LEMMA NextRam ==
  ASSUME CacheInv, memories, ctrl.state = "S_SYNC_NEXT"
  PROVE  /\ \A i \in Idx : /\ valid'[i] = IF i = ctrl.idx THEN ctrl.bus_err ELSE valid[i]
                           /\ dirty'[i] = IF i = ctrl.idx THEN ctrl.bus_err ELSE dirty[i]
                           /\ tag'[i] = IF i = ctrl.idx THEN ctrl.tag ELSE tag[i]
         /\ data' = data
         /\ ctrl.bus_err => valid[ctrl.idx] /\ dirty[ctrl.idx] /\ ctrl.tag = tag[ctrl.idx]
         /\ ~ctrl.bus_err => \A a \in Addr : a[2] = ctrl.idx => mem[a] \in fresh[a]
<1>1. /\ valid \in [Idx -> BOOLEAN] /\ dirty \in [Idx -> BOOLEAN] /\ tag \in [Idx -> Tag]
      /\ ctrl.idx \in Idx /\ ctrl.bus_err \in BOOLEAN
  BY DEF CacheInv, CacheTypeOK, TypeOK
<1>2. /\ ctrl.bus_err => valid[ctrl.idx] /\ dirty[ctrl.idx] /\ ctrl.tag = tag[ctrl.idx]
      /\ ~ctrl.bus_err => \A a \in Addr : a[2] = ctrl.idx => mem[a] \in fresh[a]
  BY DEF CacheInv, SyncInv, In
<1>3. cache_set /\ ~cache_we /\ ~WriteHit
  BY DEF cache_set, cache_we, WriteHit
<1>4. (cache_vld <=> ctrl.bus_err) /\ (cache_drt <=> ctrl.bus_err) /\ cache_vld \in BOOLEAN
      /\ cache_drt \in BOOLEAN /\ (dirty_we <=> ~READ_ONLY)
  BY <1>1, <1>3 DEF cache_vld, cache_drt, dirty_we
<1>5. index = ctrl.idx /\ cache_addr[1] = ctrl.tag
  BY DEF index, cache_addr
<1>6. cache_vld = ctrl.bus_err /\ cache_drt = ctrl.bus_err
  BY <1>1, <1>4
<1>7. /\ valid' = [valid EXCEPT ![ctrl.idx] = ctrl.bus_err]
      /\ dirty' = IF ~READ_ONLY THEN [dirty EXCEPT ![ctrl.idx] = ctrl.bus_err] ELSE dirty
      /\ tag' = [tag EXCEPT ![ctrl.idx] = ctrl.tag]
      /\ data' = data
  BY <1>3, <1>4, <1>5, <1>6 DEF memories, status_valid, dirty_flag, tag_ram, data_ram
<1>8. READ_ONLY => dirty[ctrl.idx] = FALSE /\ ctrl.bus_err = FALSE
  BY <1>1, <1>2 DEF CacheInv, DirtyInv
<1>9. \A i \in Idx : dirty'[i] = IF i = ctrl.idx THEN ctrl.bus_err ELSE dirty[i]
  BY <1>1, <1>7, <1>8
<1> QED
  BY <1>1, <1>2, <1>7, <1>9

(* Synchronization goes to the next block or ends. *)
LEMMA Keeps_SYNC_NEXT ==
  ASSUME CacheInv, Cycle, ctrl.state = "S_SYNC_NEXT"
  PROVE  CacheInv'
<1>1. CacheTypeOK /\ memories /\ HostStep /\ BusStep /\ GhostStep /\ generic' = generic
  BY DEF Cycle, CacheInv
<1>2. /\ NUM_BLOCKS' = NUM_BLOCKS /\ BLOCK_WORDS' = BLOCK_WORDS /\ READ_ONLY' = READ_ONLY
      /\ BURSTS_EN' = BURSTS_EN /\ Idx' = Idx /\ Ofs' = Ofs /\ Addr' = Addr
  BY <1>1, Fixed
<1>3. ~Moving /\ ~Writing /\ ~Reading /\ Syncing
  BY DEF Moving, Reading, Writing, ReadStates, WriteStates, Syncing
<1>4. NoTransfer /\ ctrl.sync
  BY <1>3 DEF CacheInv, BusInv, HostInv, In
<1>5. NoTransfer' /\ mem' = mem /\ queue' \in Seq(BusReq) /\ rsp' \in RspState
  <2>1. ~bus_stb
    BY DEF bus_stb
  <2> QED
    BY <1>1, <1>4, <2>1, BusQuiet DEF NoTransfer
<1>6. /\ \A i \in Idx : /\ valid'[i] = IF i = ctrl.idx THEN ctrl.bus_err ELSE valid[i]
                        /\ dirty'[i] = IF i = ctrl.idx THEN ctrl.bus_err ELSE dirty[i]
                        /\ tag'[i] = IF i = ctrl.idx THEN ctrl.tag ELSE tag[i]
      /\ data' = data
      /\ ctrl.bus_err => valid[ctrl.idx] /\ dirty[ctrl.idx] /\ ctrl.tag = tag[ctrl.idx]
      /\ ~ctrl.bus_err => \A a \in Addr : a[2] = ctrl.idx => mem[a] \in fresh[a]
  BY <1>1, NextRam
<1>7. mem' \in [Addr -> Value] /\ ctrl.idx \in Idx /\ NUM_BLOCKS \in Nat \ {0} /\ failed \subseteq Idx
  BY <1>1, <1>5, Ctrl, Sizes DEF CacheTypeOK, TypeOK
<1>8. ~host_ack
  BY DEF host_ack, host_err, In
<1>9. /\ failed' = failed
      /\ \A a \in Addr : fresh'[a] = IF ctrl.idx = NUM_BLOCKS - 1 /\ a \in Shared THEN {mem[a]} ELSE fresh[a]
  BY <1>1, <1>4, <1>8 DEF GhostStep, NoTransfer, In
<1>10. /\ ctrl' \in CtrlState /\ ctrl'.sync = ctrl.sync
       /\ ctrl'.idx = IF ctrl.idx = NUM_BLOCKS - 1 THEN 0 ELSE ctrl.idx + 1
       /\ ctrl'.pnd_req <=> ctrl.pnd_req \/ host.stb
       /\ ctrl'.state = IF ctrl.idx = NUM_BLOCKS - 1 THEN "S_IDLE" ELSE "S_SYNC_DELAY"
  BY <1>1, Engine, Ctrl_SYNC_NEXT
<1>11. ~Moving' /\ ~Writing' /\ ~Reading' /\ ~Serving'
  BY <1>10 DEF Moving, Reading, Writing, ReadStates, WriteStates, Serving
<1>12. CacheTypeOK'
  BY <1>1, <1>5, <1>7, <1>10, Types
<1>13. HostInv'
  <2>1. host'.stb \/ ctrl'.pnd_req => host'.busy
    BY <1>1, <1>8, <1>10, HostMoves DEF CacheInv, HostInv
  <2> QED
    BY <1>4, <1>10, <1>11, <2>1 DEF HostInv, In, Serving
<1>14. LookupInv' /\ TransferInv' /\ BusInv' /\ ReadInv' /\ WriteInv'
  BY <1>5, <1>10, <1>11 DEF LookupInv, TransferInv, BusInv, ReadInv, WriteInv, In
<1>15. /\ \A i \in Idx : i < ctrl.idx => (valid[i] <=> i \in failed) /\ (i \in failed => dirty[i])
       /\ \A i \in failed : i <= ctrl.idx
       /\ ctrl.idx \in failed <=> ctrl.bus_err
  BY <1>3 DEF CacheInv, SyncInv
<1>16. SyncInv'
  <2>1. CASE ctrl.idx = NUM_BLOCKS - 1
    BY <1>10, <1>11, <2>1 DEF SyncInv, Syncing, In
  <2>2. CASE ctrl.idx # NUM_BLOCKS - 1
    <3>1. ctrl'.idx = ctrl.idx + 1 /\ ctrl'.state = "S_SYNC_DELAY" /\ \A i \in Idx : i \in Nat
      BY <1>7, <1>10, <2>2 DEF Idx
    <3>2. ASSUME NEW i \in Idx, i < ctrl'.idx
          PROVE  (valid'[i] <=> i \in failed) /\ (i \in failed => dirty'[i])
      <4>1. i < ctrl.idx \/ i = ctrl.idx
        BY <1>7, <3>1, <3>2
      <4>2. CASE i = ctrl.idx
        BY <1>6, <1>15, <4>2
      <4>3. CASE i < ctrl.idx
        BY <1>6, <1>7, <1>15, <3>1, <4>3
      <4> QED
        BY <4>1, <4>2, <4>3
    <3>3. \A i \in failed : i <= ctrl'.idx /\ i # ctrl'.idx
      BY <1>7, <1>15, <3>1
    <3> QED
      BY <1>2, <1>9, <3>1, <3>2, <3>3 DEF SyncInv, In
  <2> QED
    BY <2>1, <2>2
<1>17. \A i \in Idx : valid'[i] /\ dirty'[i] => valid[i] /\ dirty[i] /\ tag'[i] = tag[i]
  BY <1>6
<1>18. DirtyInv'
  BY <1>1, <1>2, <1>6, <1>17 DEF CacheInv, DirtyInv
<1>19. \A a \in Addr : a[2] \in Idx
  BY <1>1, Lines
<1>20. LineInv'
  <2>1. ASSUME NEW a \in Addr, Cached(a)'
        PROVE  data'[<<a[2], a[3]>>] \in fresh'[a]
    <3>1. Cached(a) /\ a[2] \in Idx
      BY <1>6, <1>19, <2>1 DEF Cached
    <3>2. data[<<a[2], a[3]>>] \in fresh[a]
      BY <1>3, <3>1 DEF CacheInv, LineInv
    <3>3. CASE ctrl.idx = NUM_BLOCKS - 1 /\ a \in Shared
      <4>1. dirty[a[2]]
        <5>1. CASE a[2] = ctrl.idx
          BY <1>6, <2>1, <3>1, <5>1 DEF Cached
        <5>2. CASE a[2] # ctrl.idx
          <6>1. a[2] < ctrl.idx
            BY <1>7, <3>1, <3>3, <5>2 DEF Idx
          <6> QED
            BY <1>15, <3>1, <6>1 DEF Cached
        <5> QED
          BY <5>1, <5>2
      <4>2. a \notin Foreign(generic)
        BY <3>1, <4>1 DEF CacheInv, DirtyInv, Cached
      <4> QED
        BY <3>3, <4>2 DEF Foreign, Shared
    <3> QED
      BY <1>6, <1>9, <3>2, <3>3
  <2> QED
    BY <1>2, <2>1 DEF LineInv
<1>21. MemInv'
  <2>1. ASSUME NEW a \in Addr
        PROVE  (Cached(a)' /\ dirty'[a[2]]) \/ mem'[a] \in fresh'[a]
    <3>1. (Cached(a) /\ dirty[a[2]]) \/ mem[a] \in fresh[a]
      BY DEF CacheInv, MemInv, In
    <3>2. mem[a] \in fresh[a] => mem'[a] \in fresh'[a]
      BY <1>5, <1>9
    <3>3. CASE a[2] # ctrl.idx \/ ctrl.bus_err
      BY <1>6, <1>19, <3>1, <3>2, <3>3 DEF Cached
    <3>4. CASE a[2] = ctrl.idx /\ ~ctrl.bus_err
      BY <1>6, <3>2, <3>4
    <3> QED
      BY <3>3, <3>4
  <2> QED
    BY <1>2, <2>1 DEF MemInv
<1> QED
  BY <1>12, <1>13, <1>14, <1>16, <1>18, <1>20, <1>21 DEF CacheInv

(* A block that was downloaded is clean, and valid unless a word failed. *)
LEMMA DoneRam ==
  ASSUME CacheInv, memories, ctrl.state \in {"S_READ_DONE", "S_WRITE_DONE"}, ~ctrl.sync
  PROVE  /\ \A i \in Idx : /\ valid'[i] = IF i = ctrl.idx THEN ~ctrl.bus_err ELSE valid[i]
                           /\ dirty'[i] = IF i = ctrl.idx THEN FALSE ELSE dirty[i]
                           /\ tag'[i] = IF i = ctrl.idx THEN ctrl.tag ELSE tag[i]
         /\ data' = data
<1>1. /\ valid \in [Idx -> BOOLEAN] /\ dirty \in [Idx -> BOOLEAN] /\ tag \in [Idx -> Tag]
      /\ ctrl.idx \in Idx /\ ctrl.bus_err \in BOOLEAN /\ haddr \in Addr
  BY Ctrl DEF CacheInv, CacheTypeOK, TypeOK
<1>2. cache_set /\ ~cache_we /\ ~WriteHit
  BY DEF cache_set, cache_we, WriteHit
<1>3. cache_vld = ~ctrl.bus_err /\ cache_drt = FALSE /\ (dirty_we <=> ~READ_ONLY)
  BY <1>1, <1>2 DEF cache_vld, cache_drt, dirty_we
<1>4. index = ctrl.idx /\ cache_addr[1] = ctrl.tag
  <2>1. CASE ctrl.state = "S_READ_DONE"
    <3>1. Reading
      BY <2>1 DEF Reading, ReadStates
    <3>2. haddr[1] = ctrl.tag /\ haddr[2] = ctrl.idx
      BY <3>1 DEF CacheInv, ReadInv, HostInv
    <3> QED
      BY <2>1, <3>2 DEF index, cache_addr
  <2>2. CASE ctrl.state = "S_WRITE_DONE"
    BY <2>2 DEF index, cache_addr
  <2> QED
    BY <2>1, <2>2
<1>5. /\ valid' = [valid EXCEPT ![ctrl.idx] = ~ctrl.bus_err]
      /\ dirty' = IF ~READ_ONLY THEN [dirty EXCEPT ![ctrl.idx] = FALSE] ELSE dirty
      /\ tag' = [tag EXCEPT ![ctrl.idx] = ctrl.tag]
      /\ data' = data
  BY <1>2, <1>3, <1>4 DEF memories, status_valid, dirty_flag, tag_ram, data_ram
<1>6. READ_ONLY => dirty[ctrl.idx] = FALSE
  BY <1>1 DEF CacheInv, DirtyInv
<1>7. \A i \in Idx : dirty'[i] = IF i = ctrl.idx THEN FALSE ELSE dirty[i]
  BY <1>1, <1>5, <1>6
<1> QED
  BY <1>1, <1>5, <1>7

(* The end of a download. *)
LEMMA Keeps_READ_DONE ==
  ASSUME CacheInv, Cycle, ctrl.state = "S_READ_DONE"
  PROVE  CacheInv'
<1>1. CacheTypeOK /\ memories /\ HostStep /\ BusStep /\ GhostStep /\ generic' = generic
  BY DEF Cycle, CacheInv
<1>2. /\ NUM_BLOCKS' = NUM_BLOCKS /\ BLOCK_WORDS' = BLOCK_WORDS /\ READ_ONLY' = READ_ONLY
      /\ BURSTS_EN' = BURSTS_EN /\ Idx' = Idx /\ Ofs' = Ofs /\ Addr' = Addr
  BY <1>1, Fixed
<1>3. ~Moving /\ ~Writing /\ Reading /\ Serving
  BY DEF Moving, Reading, Writing, ReadStates, WriteStates, Serving
<1>4. /\ NoTransfer /\ ~ctrl.sync /\ host.busy /\ ~host.stb /\ ~ctrl.pnd_req
      /\ haddr[2] = ctrl.idx /\ ~host.req.bypass
  BY <1>3 DEF CacheInv, BusInv, HostInv, In
<1>5. NoTransfer' /\ mem' = mem /\ queue' \in Seq(BusReq) /\ rsp' \in RspState
  <2>1. ~bus_stb
    BY DEF bus_stb
  <2> QED
    BY <1>1, <1>4, <2>1, BusQuiet DEF NoTransfer
<1>6. /\ \A i \in Idx : /\ valid'[i] = IF i = ctrl.idx THEN ~ctrl.bus_err ELSE valid[i]
                        /\ dirty'[i] = IF i = ctrl.idx THEN FALSE ELSE dirty[i]
                        /\ tag'[i] = IF i = ctrl.idx THEN ctrl.tag ELSE tag[i]
      /\ data' = data
  BY <1>1, <1>4, DoneRam
<1>7. mem' \in [Addr -> Value] /\ ctrl.idx \in Idx
  BY <1>1, <1>5, Ctrl DEF CacheTypeOK, TypeOK
<1>8. fresh' = fresh
  BY <1>1, FreshRest
<1>9. /\ ~(valid[ctrl.idx] /\ dirty[ctrl.idx]) /\ haddr[1] = ctrl.tag
      /\ \A o \in Ofs : ctrl.bus_err \/ Loaded(o)
  BY <1>3 DEF CacheInv, ReadInv, In
<1>10. /\ ctrl' \in CtrlState /\ Stays /\ ctrl'.hit /\ ~ctrl'.pnd_bp
       /\ ctrl'.state = IF ctrl.bus_err THEN "S_IDLE" ELSE "S_CHECK"
  BY <1>1, Engine, Ctrl_READ_DONE
<1>11. ~ctrl'.sync /\ ~ctrl'.pnd_req
  BY <1>4, <1>10 DEF Stays
<1>12. ~Moving' /\ ~Writing' /\ ~Reading' /\ ~Syncing'
  BY <1>10 DEF Moving, Reading, Writing, ReadStates, WriteStates, Syncing
<1>13. ~ctrl.bus_err => host'.busy /\ ~host'.stb /\ host'.req = host.req /\ haddr' = haddr
  <2>1. ~ctrl.bus_err => ~host_ack
    BY DEF host_ack, host_err, In
  <2> QED
    BY <1>1, <1>4, <2>1, HostHolds DEF haddr
<1>14. CacheTypeOK'
  BY <1>1, <1>5, <1>7, <1>10, Types
<1>15. HostInv'
  <2>1. host'.stb => host'.busy
    BY <1>1, HostMoves
  <2> QED
    BY <1>4, <1>10, <1>11, <1>12, <1>13, <2>1 DEF HostInv, In, Serving
<1>16. LookupInv'
  <2>1. CASE ctrl.bus_err
    BY <1>10, <2>1 DEF LookupInv, In
  <2>2. CASE ~ctrl.bus_err
    <3>1. hit' /\ hidx' = ctrl.idx /\ haddr' = haddr /\ hword' = hword
      BY <1>4, <1>10, <1>13, <2>2 DEF hit, hidx, hword
    <3>2. valid'[hidx'] /\ tag'[hidx'] = haddr'[1]
      BY <1>6, <1>7, <1>9, <2>2, <3>1
    <3>3. rd'.data = data[hword]
      <4>1. ~cache_we
        BY DEF cache_we, WriteHit
      <4>2. word = hword
        BY DEF word, hword, cache_addr
      <4> QED
        BY <1>1, <4>1, <4>2 DEF memories, spram_out
    <3> QED
      BY <1>6, <1>10, <2>2, <3>1, <3>2, <3>3 DEF LookupInv, In
  <2> QED
    BY <2>1, <2>2
<1>17. TransferInv' /\ BusInv' /\ ReadInv' /\ WriteInv' /\ SyncInv'
  BY <1>5, <1>10, <1>12 DEF TransferInv, BusInv, ReadInv, WriteInv, SyncInv, In
<1>18. DirtyInv'
  <2>1. \A i \in Idx : /\ dirty'[i] => dirty[i]
                       /\ valid'[i] /\ dirty'[i] => valid[i] /\ tag'[i] = tag[i]
    BY <1>6
  <2> QED
    BY <1>1, <1>2, <2>1 DEF CacheInv, DirtyInv
<1>19. \A a \in Addr : a[2] \in Idx /\ a[3] \in Ofs /\ a = <<a[1], a[2], a[3]>>
  BY <1>1, Lines
<1>20. LineInv'
  <2>1. ASSUME NEW a \in Addr, Cached(a)'
        PROVE  data'[<<a[2], a[3]>>] \in fresh'[a]
    <3>1. CASE a[2] = ctrl.idx
      <4>1. ~ctrl.bus_err /\ a[1] = ctrl.tag
        BY <1>6, <1>7, <2>1, <3>1 DEF Cached
      <4>2. a = Here(a[3]) /\ a[3] \in Ofs
        BY <1>19, <3>1, <4>1 DEF Here
      <4>3. Loaded(a[3])
        BY <1>9, <4>1, <4>2
      <4> QED
        BY <1>6, <1>8, <3>1, <4>2, <4>3 DEF Loaded
    <3>2. CASE a[2] # ctrl.idx
      <4>1. Cached(a)
        BY <1>6, <1>19, <2>1, <3>2 DEF Cached
      <4> QED
        BY <1>6, <1>8, <3>2, <4>1 DEF CacheInv, LineInv
    <3> QED
      BY <3>1, <3>2
  <2> QED
    BY <1>2, <2>1 DEF LineInv
<1>21. MemInv'
  <2>1. ASSUME NEW a \in Addr
        PROVE  (Cached(a)' /\ dirty'[a[2]]) \/ mem'[a] \in fresh'[a]
    <3>1. (Cached(a) /\ dirty[a[2]]) \/ mem[a] \in fresh[a]
      BY DEF CacheInv, MemInv, In
    <3>2. CASE a[2] = ctrl.idx
      BY <1>5, <1>8, <1>9, <3>1, <3>2 DEF Cached
    <3>3. CASE a[2] # ctrl.idx
      BY <1>5, <1>6, <1>8, <1>19, <3>1, <3>3 DEF Cached
    <3> QED
      BY <3>2, <3>3
  <2> QED
    BY <1>2, <2>1 DEF MemInv
<1> QED
  BY <1>14, <1>15, <1>16, <1>17, <1>18, <1>20, <1>21 DEF CacheInv

(* The end of a write-back, before a download or while synchronizing. *)
LEMMA Keeps_WRITE_DONE ==
  ASSUME CacheInv, Cycle, ctrl.state = "S_WRITE_DONE"
  PROVE  CacheInv'
<1>1. CacheTypeOK /\ memories /\ HostStep /\ BusStep /\ GhostStep /\ generic' = generic
  BY DEF Cycle, CacheInv
<1>2. /\ NUM_BLOCKS' = NUM_BLOCKS /\ BLOCK_WORDS' = BLOCK_WORDS /\ READ_ONLY' = READ_ONLY
      /\ BURSTS_EN' = BURSTS_EN /\ Idx' = Idx /\ Ofs' = Ofs /\ Addr' = Addr
  BY <1>1, Fixed
<1>3. ~Moving /\ Writing /\ ~Reading
  BY DEF Moving, Reading, Writing, ReadStates, WriteStates
<1>4. NoTransfer
  BY <1>3 DEF CacheInv, BusInv, In
<1>5. NoTransfer' /\ mem' = mem /\ queue' \in Seq(BusReq) /\ rsp' \in RspState
  <2>1. ~bus_stb
    BY DEF bus_stb
  <2> QED
    BY <1>1, <1>4, <2>1, BusQuiet DEF NoTransfer
<1>6. mem' \in [Addr -> Value] /\ ctrl.idx \in Idx /\ ctrl.sync \in BOOLEAN /\ mem \in [Addr -> Value]
  BY <1>1, <1>5, Ctrl DEF CacheTypeOK, TypeOK
<1>7. /\ valid[ctrl.idx] /\ dirty[ctrl.idx] /\ ctrl.tag = tag[ctrl.idx]
      /\ ~ctrl.sync => tag[ctrl.idx] # haddr[1]
      /\ \A o \in Ofs : ctrl.bus_err \/ Stored(o)
  BY <1>3 DEF CacheInv, WriteInv, In
<1>8. /\ ctrl' \in CtrlState /\ Stays /\ ctrl'.bus_err = ctrl.bus_err /\ ctrl'.tag = ctrl.tag
      /\ ctrl'.cln /\ ~ctrl'.hit /\ ~ctrl'.pnd_bp
      /\ ctrl'.state = IF ctrl.sync THEN "S_SYNC_NEXT"
                       ELSE IF ctrl.bus_err THEN "S_IDLE" ELSE "S_CHECK"
  BY <1>1, Engine, Ctrl_WRITE_DONE
<1>9. ctrl'.sync = ctrl.sync /\ ctrl'.idx = ctrl.idx /\ (ctrl'.pnd_req <=> ctrl.pnd_req \/ host.stb)
  BY <1>8 DEF Stays
<1>10. ~Moving' /\ ~Writing' /\ ~Reading'
  BY <1>8 DEF Moving, Reading, Writing, ReadStates, WriteStates
<1>11. CacheTypeOK'
  BY <1>1, <1>5, <1>6, <1>8, Types
<1>12. TransferInv' /\ BusInv' /\ ReadInv' /\ WriteInv'
  BY <1>5, <1>8, <1>10 DEF TransferInv, BusInv, ReadInv, WriteInv, In
<1>13. \A a \in Addr : a[2] \in Idx /\ a[3] \in Ofs /\ a = <<a[1], a[2], a[3]>>
  BY <1>1, Lines
<1>14. ASSUME NEW a \in Addr, a[2] = ctrl.idx, ~ctrl.bus_err
       PROVE  mem[a] \in fresh[a]
  <2>1. CASE a[1] = ctrl.tag
    <3>1. a = Here(a[3]) /\ a[3] \in Ofs
      BY <1>13, <1>14, <2>1 DEF Here
    <3>2. Stored(a[3])
      BY <1>7, <1>14, <3>1
    <3> QED
      BY <3>1, <3>2 DEF Stored
  <2>2. CASE a[1] # ctrl.tag
    <3>1. ~Cached(a)
      BY <1>7, <1>14, <2>2 DEF Cached
    <3> QED
      BY <3>1 DEF CacheInv, MemInv, In
  <2> QED
    BY <2>1, <2>2
<1>15. \A a \in Addr : (Cached(a) /\ dirty[a[2]]) \/ mem[a] \in fresh[a]
  BY DEF CacheInv, MemInv, In
<1>16. CASE ctrl.sync
  <2>1. Syncing
    BY <1>3, <1>16 DEF Syncing
  <2>2. ~host_ack
    BY <1>16 DEF host_ack, host_err, In
  <2>3. valid' = valid /\ dirty' = dirty /\ tag' = tag /\ data' = data
    <3>1. ~cache_set /\ ~cache_we /\ ~cache_drt /\ ~dirty_we
      BY <1>16 DEF cache_set, cache_we, cache_drt, dirty_we, WriteHit
    <3> QED
      BY <1>1, <3>1 DEF memories, status_valid, dirty_flag, tag_ram, data_ram
  <2>4. failed' = failed /\ fresh' = fresh
    <3>1. failed' = failed
      BY <1>1, <1>4, <1>16 DEF GhostStep, NoTransfer
    <3>2. fresh' = [a \in Addr |-> fresh[a]]
      BY <1>1, <1>16, <2>2 DEF GhostStep, In
    <3> QED
      BY <1>1, <3>1, <3>2 DEF CacheTypeOK
  <2>5. ~Serving' /\ ctrl'.sync /\ ctrl'.state = "S_SYNC_NEXT"
    BY <1>8, <1>9, <1>10, <1>16 DEF Serving
  <2>6. HostInv'
    <3>1. host'.stb \/ ctrl'.pnd_req => host'.busy
      BY <1>1, <1>9, <2>2, HostMoves DEF CacheInv, HostInv
    <3> QED
      BY <1>10, <2>5, <3>1 DEF HostInv, In, Serving
  <2>7. LookupInv'
    BY <2>5 DEF LookupInv, In
  <2>8. SyncInv'
    <3>1. /\ \A i \in Idx : i < ctrl.idx => (valid[i] <=> i \in failed) /\ (i \in failed => dirty[i])
          /\ \A i \in failed : i <= ctrl.idx
          /\ ctrl.idx \in failed <=> ctrl.bus_err
      BY <2>1 DEF CacheInv, SyncInv
    <3>2. ~ctrl.bus_err => \A a \in Addr : a[2] = ctrl.idx => mem[a] \in fresh[a]
      BY <1>14
    <3> QED
      BY <1>2, <1>5, <1>7, <1>8, <1>9, <2>3, <2>4, <2>5, <3>1, <3>2 DEF SyncInv, In
  <2>9. LineInv'
    BY <1>2, <1>3, <1>10, <2>3, <2>4 DEF CacheInv, LineInv, Cached
  <2>10. MemInv'
    BY <1>2, <1>5, <1>15, <2>3, <2>4 DEF MemInv, Cached
  <2>11. DirtyInv'
    BY <1>1, <1>2, <2>3 DEF CacheInv, DirtyInv
  <2> QED
    BY <1>11, <1>12, <2>6, <2>7, <2>8, <2>9, <2>10, <2>11 DEF CacheInv
<1>17. CASE ~ctrl.sync
  <2>1. /\ \A i \in Idx : /\ valid'[i] = IF i = ctrl.idx THEN ~ctrl.bus_err ELSE valid[i]
                          /\ dirty'[i] = IF i = ctrl.idx THEN FALSE ELSE dirty[i]
                          /\ tag'[i] = IF i = ctrl.idx THEN ctrl.tag ELSE tag[i]
        /\ data' = data
    BY <1>1, <1>17, DoneRam
  <2>2. host.busy /\ ~host.stb /\ ~ctrl.pnd_req /\ haddr[2] = ctrl.idx /\ ~host.req.bypass
    BY <1>3, <1>17 DEF CacheInv, HostInv, In, Serving
  <2>3. ~ctrl.bus_err => host'.busy /\ ~host'.stb /\ host'.req = host.req /\ haddr' = haddr
    <3>1. ~ctrl.bus_err => ~host_ack
      BY DEF host_ack, host_err, In
    <3> QED
      BY <1>1, <2>2, <3>1, HostHolds DEF haddr
  <2>4. \A a \in Addr : fresh'[a] = IF ctrl.bus_err /\ a[1] = ctrl.tag /\ a[2] = ctrl.idx
                                    THEN {mem[a]} ELSE fresh[a]
    <3>1. ~(host_ack /\ ~host_err)
      BY DEF host_ack, host_err
    <3>2. fresh' = [a \in Addr |-> IF ctrl.bus_err /\ a \in Block(ctrl.tag, ctrl.idx)
                                   THEN {mem[a]} ELSE fresh[a]]
      BY <1>1, <1>17, <3>1 DEF GhostStep, In
    <3> QED
      BY <3>2 DEF Block
  <2>5. ~Syncing' /\ ~ctrl'.sync /\ ~ctrl'.pnd_req
    BY <1>8, <1>9, <1>10, <1>17, <2>2 DEF Syncing
  <2>6. HostInv'
    <3>1. host'.stb => host'.busy
      BY <1>1, HostMoves
    <3> QED
      BY <1>8, <1>10, <1>17, <2>2, <2>3, <2>5, <3>1 DEF HostInv, In, Serving
  <2>7. LookupInv'
    <3>1. CASE ctrl.bus_err
      BY <1>8, <1>17, <3>1 DEF LookupInv, In
    <3>2. CASE ~ctrl.bus_err
      <4>1. hidx' = ctrl.idx /\ haddr' = haddr
        BY <2>2, <2>3, <3>2 DEF hidx
      <4>2. index = ctrl.idx /\ cache_addr[1] = ctrl.tag
        BY DEF index, cache_addr
      <4>3. rd'.tag = tag[ctrl.idx]
        BY <1>1, <1>7, <4>2 DEF memories, spram_out
      <4>4. ~hit'
        BY <1>7, <1>8, <1>17, <4>1, <4>3 DEF hit
      <4>5. ~drt'
        BY <1>8 DEF drt
      <4>6. ~dirty'[hidx']
        BY <1>6, <2>1, <4>1
      <4> QED
        BY <1>8, <1>17, <3>2, <4>4, <4>5, <4>6 DEF LookupInv, In
    <3> QED
      BY <3>1, <3>2
  <2>8. SyncInv'
    BY <1>8, <1>17, <2>5 DEF SyncInv, In
  <2>9. DirtyInv'
    <3>1. \A i \in Idx : /\ dirty'[i] => dirty[i]
                         /\ valid'[i] /\ dirty'[i] => valid[i] /\ tag'[i] = tag[i]
      BY <2>1
    <3> QED
      BY <1>1, <1>2, <3>1 DEF CacheInv, DirtyInv
  <2>10. LineInv'
    <3>1. ASSUME NEW a \in Addr, Cached(a)'
          PROVE  data'[<<a[2], a[3]>>] \in fresh'[a]
      <4>1. Cached(a) /\ ~(ctrl.bus_err /\ a[2] = ctrl.idx)
        BY <1>6, <1>7, <1>13, <2>1, <3>1 DEF Cached
      <4>2. data[<<a[2], a[3]>>] \in fresh[a]
        BY <1>3, <4>1 DEF CacheInv, LineInv
      <4> QED
        BY <2>1, <2>4, <4>1, <4>2
    <3> QED
      BY <1>2, <3>1 DEF LineInv
  <2>11. MemInv'
    <3>1. ASSUME NEW a \in Addr
          PROVE  (Cached(a)' /\ dirty'[a[2]]) \/ mem'[a] \in fresh'[a]
      <4>1. CASE a[2] = ctrl.idx /\ ~ctrl.bus_err
        BY <1>5, <1>14, <2>4, <4>1
      <4>2. CASE a[2] = ctrl.idx /\ ctrl.bus_err
        <5>1. a[1] # ctrl.tag => mem[a] \in fresh[a]
          BY <1>7, <1>15, <4>2 DEF Cached
        <5> QED
          BY <1>5, <2>4, <4>2, <5>1
      <4>3. CASE a[2] # ctrl.idx
        BY <1>5, <1>13, <1>15, <2>1, <2>4, <4>3 DEF Cached
      <4> QED
        BY <4>1, <4>2, <4>3
    <3> QED
      BY <1>2, <3>1 DEF MemInv
  <2> QED
    BY <1>11, <1>12, <2>6, <2>7, <2>8, <2>9, <2>10, <2>11 DEF CacheInv
<1> QED
  BY <1>6, <1>16, <1>17

(* The lookup: a hit, a miss with or without write-back, or an uncached access. *)
LEMMA Keeps_CHECK ==
  ASSUME Separate, CacheInv, Cycle, ctrl.state = "S_CHECK"
  PROVE  CacheInv'
<1>1. CacheTypeOK /\ memories /\ HostStep /\ BusStep /\ GhostStep /\ generic' = generic
  BY DEF Cycle, CacheInv
<1>2. /\ NUM_BLOCKS' = NUM_BLOCKS /\ BLOCK_WORDS' = BLOCK_WORDS /\ READ_ONLY' = READ_ONLY
      /\ BURSTS_EN' = BURSTS_EN /\ Idx' = Idx /\ Ofs' = Ofs /\ Addr' = Addr
  BY <1>1, Fixed
<1>3. ~Moving /\ ~Writing /\ ~Reading /\ Serving
  BY DEF Moving, Reading, Writing, ReadStates, WriteStates, Serving
<1>4. /\ NoTransfer /\ ~ctrl.sync /\ host.busy /\ ~host.stb /\ (ctrl.pnd_bp <=> host.req.bypass)
  BY <1>3 DEF CacheInv, BusInv, HostInv, In
<1>5. NoTransfer' /\ mem' = mem /\ queue' \in Seq(BusReq) /\ rsp' \in RspState
  <2>1. ~bus_stb
    BY DEF bus_stb
  <2> QED
    BY <1>1, <1>4, <2>1, BusQuiet DEF NoTransfer
<1>6. /\ mem' \in [Addr -> Value] /\ haddr \in Addr /\ haddr[1] \in Tag /\ haddr[2] \in Idx
      /\ haddr[3] \in Ofs /\ BLOCK_WORDS \in Nat \ {0} /\ ctrl.pnd_bp \in BOOLEAN
  BY <1>1, <1>5, Ctrl, Sizes DEF CacheTypeOK, TypeOK
<1>7. /\ ctrl' \in CtrlState /\ ctrl'.sync = ctrl.sync /\ ~ctrl'.pnd_req /\ ctrl'.bp_req
      /\ ctrl'.tag = haddr[1] /\ ctrl'.idx = haddr[2] /\ ctrl'.ofs_int = 0 /\ ctrl'.ofs_ext = 0
      /\ ctrl'.state = IF ctrl.pnd_bp THEN "S_BYPASS"
                       ELSE IF hit THEN "S_IDLE"
                       ELSE IF drt /\ ~READ_ONLY THEN "S_WRITE_START" ELSE "S_READ_START"
  BY <1>1, Engine, Ctrl_CHECK
<1>8. CacheTypeOK'
  BY <1>1, <1>5, <1>6, <1>7, Types
<1>9. ~ctrl.pnd_bp =>
        IF hit THEN valid[hidx] /\ tag[hidx] = haddr[1] /\ rd.data = data[hword]
        ELSE IF drt THEN valid[hidx] /\ dirty[hidx] /\ tag[hidx] # haddr[1]
        ELSE ~(valid[hidx] /\ dirty[hidx])
  BY DEF CacheInv, LookupInv, In
<1>10. \A a \in Addr : (Cached(a) /\ dirty[a[2]]) \/ mem[a] \in fresh[a]
  BY DEF CacheInv, MemInv, In
<1>11. \A a \in Addr : Cached(a) => data[<<a[2], a[3]>>] \in fresh[a]
  BY <1>3 DEF CacheInv, LineInv
<1>12. SyncInv'
  <2>1. ~Syncing' /\ ~In("S_SYNC_NEXT")'
    BY <1>4, <1>7 DEF Syncing, In, Writing, WriteStates
  <2> QED
    BY <2>1 DEF SyncInv
<1>13. index = hidx /\ word = hword
  BY DEF index, word, hidx, hword, cache_addr
<1>14. ~host_err
  BY DEF host_err, In
<1>15. ASSUME ~WriteHit
       PROVE  /\ valid' = valid /\ dirty' = dirty /\ tag' = tag /\ data' = data
              /\ rd'.tag = tag[hidx] /\ DirtyInv'
  <2>1. ~cache_set /\ ~cache_we /\ ~cache_drt /\ ~dirty_we
    BY <1>15 DEF cache_set, cache_we, cache_drt, dirty_we
  <2>2. /\ valid' = valid /\ dirty' = dirty /\ tag' = tag /\ data' = data /\ rd'.tag = tag[hidx]
    BY <1>1, <1>13, <2>1 DEF memories, status_valid, dirty_flag, tag_ram, data_ram, spram_out
  <2> QED
    BY <1>1, <1>2, <2>2 DEF CacheInv, DirtyInv
<1>16. ASSUME ~(host_ack /\ host.req.rw)
       PROVE  fresh' = fresh
  <2>1. fresh' = [a \in Addr |-> fresh[a]]
    BY <1>1, <1>16 DEF GhostStep, In
  <2> QED
    BY <1>1, <2>1 DEF CacheTypeOK
<1>17. ASSUME ~WriteHit, fresh' = fresh
       PROVE  LineInv' /\ MemInv'
  <2>1. /\ valid' = valid /\ dirty' = dirty /\ tag' = tag /\ data' = data
    BY <1>15, <1>17
  <2>2. \A a \in Addr : (Cached(a) /\ dirty[a[2]])' \/ mem'[a] \in fresh'[a]
    BY <1>5, <1>10, <1>17, <2>1 DEF Cached
  <2>3. \A a \in Addr : Cached(a)' => data'[<<a[2], a[3]>>] \in fresh'[a]
    BY <1>11, <1>17, <2>1 DEF Cached
  <2> QED
    BY <1>2, <2>2, <2>3 DEF LineInv, MemInv
<1>18. ASSUME ctrl.pnd_bp \/ ~hit
       PROVE  /\ ~WriteHit /\ fresh' = fresh
              /\ host'.busy /\ ~host'.stb /\ host'.req = host.req /\ haddr' = haddr
  <2>1. ~host_ack /\ ~WriteHit
    BY <1>14, <1>18 DEF host_ack, WriteHit, In
  <2> QED
    BY <1>1, <1>4, <1>16, <2>1, HostHolds DEF haddr
<1>19. CASE ctrl.pnd_bp
  <2>1. /\ ~WriteHit /\ fresh' = fresh
        /\ host'.busy /\ ~host'.stb /\ host'.req = host.req /\ haddr' = haddr
    BY <1>18, <1>19
  <2>2. ctrl'.state = "S_BYPASS" /\ ~Moving' /\ ~Writing' /\ ~Reading' /\ ~Syncing'
    BY <1>7, <1>19 DEF Moving, Reading, Writing, ReadStates, WriteStates, Syncing
  <2>3. HostInv'
    BY <1>4, <1>7, <1>19, <2>1, <2>2 DEF HostInv, In
  <2>4. LookupInv' /\ TransferInv' /\ ReadInv' /\ WriteInv'
    BY <2>2 DEF LookupInv, TransferInv, ReadInv, WriteInv, In
  <2>5. BusInv'
    BY <1>5, <1>7, <2>2 DEF BusInv, NoTransfer, In
  <2> QED
    BY <1>8, <1>12, <1>15, <1>17, <2>1, <2>3, <2>4, <2>5 DEF CacheInv
<1>20. CASE ~ctrl.pnd_bp /\ hit
  <2>1. ctrl'.state = "S_IDLE" /\ ~Moving' /\ ~Writing' /\ ~Reading' /\ ~Syncing' /\ ~Serving'
    BY <1>7, <1>20 DEF Moving, Reading, Writing, ReadStates, WriteStates, Syncing, Serving
  <2>2. host_ack
    BY <1>20 DEF host_ack, In
  <2>3. HostInv'
    <3>1. host'.stb => host'.busy
      BY <1>1, HostMoves
    <3> QED
      BY <1>7, <2>1, <3>1 DEF HostInv, In
  <2>4. LookupInv' /\ TransferInv' /\ BusInv' /\ ReadInv' /\ WriteInv'
    BY <1>5, <2>1 DEF LookupInv, TransferInv, BusInv, ReadInv, WriteInv, In
  <2>5. CASE ~host.req.rw
    <3>1. ~WriteHit /\ fresh' = fresh
      BY <1>16, <2>5 DEF WriteHit
    <3> QED
      BY <1>8, <1>12, <1>15, <1>17, <2>3, <2>4, <3>1 DEF CacheInv
  <2>6. CASE host.req.rw
    <3>1. ~READ_ONLY /\ ~host.req.bypass /\ host.req \in Requests /\ generic \in Generics
      BY <1>1, <1>4, <1>20, <2>6, Ctrl, Sizes
    <3>2. WriteHit
      BY <1>20, <2>6, <3>1 DEF WriteHit
    <3>3. /\ ~cache_set /\ cache_drt = TRUE /\ (cache_we <=> host.req.ben) /\ dirty_we
          /\ cache_data = host.data
      BY <3>1, <3>2 DEF cache_set, cache_drt, cache_we, dirty_we, cache_data
    <3>4. /\ valid' = valid /\ tag' = tag /\ dirty' = [dirty EXCEPT ![hidx] = TRUE]
          /\ data' = IF host.req.ben THEN [data EXCEPT ![hword] = host.data] ELSE data
      BY <1>1, <1>13, <3>3 DEF memories, status_valid, dirty_flag, tag_ram, data_ram
    <3>5. /\ dirty \in [Idx -> BOOLEAN] /\ data \in [Idx \X Ofs -> Byte] /\ hidx \in Idx
          /\ hword \in Idx \X Ofs /\ hword = <<haddr[2], haddr[3]>> /\ hidx = haddr[2]
          /\ haddr = <<haddr[1], haddr[2], haddr[3]>>
      BY <1>1, <1>6, Lines DEF CacheTypeOK, TypeOK, Byte, hidx, hword
    <3>6. \A a \in Addr : fresh'[a] = IF host.req.ben /\ a = haddr THEN {host.data} ELSE fresh[a]
      <4>1. fresh' = [a \in Addr |-> IF host.req.ben /\ a = haddr THEN {host.data} \cup {} ELSE fresh[a]]
        BY <1>1, <1>14, <2>2, <2>6, <3>1 DEF GhostStep, In
      <4> QED
        BY <4>1
    <3>7. valid[hidx] /\ tag[hidx] = haddr[1]
      BY <1>9, <1>20
    <3>8. \A i \in Idx : dirty'[i] = IF i = hidx THEN TRUE ELSE dirty[i]
      BY <3>4, <3>5
    <3>9. LineInv'
      <4>1. ASSUME NEW a \in Addr, Cached(a)
            PROVE  data'[<<a[2], a[3]>>] \in fresh'[a]
        <5>1. a[2] \in Idx /\ a[3] \in Ofs /\ a = <<a[1], a[2], a[3]>>
          BY <1>1, Lines
        <5>2. CASE a = haddr
          <6>1. data[hword] \in fresh[a]
            BY <1>11, <3>5, <4>1, <5>2
          <6>2. data'[hword] = IF host.req.ben THEN host.data ELSE data[hword]
            BY <3>4, <3>5
          <6> QED
            BY <3>5, <3>6, <5>2, <6>1, <6>2
        <5>3. CASE a # haddr
          <6>1. <<a[2], a[3]>> # hword
            <7>1. SUFFICES ASSUME a[2] = haddr[2], a[3] = haddr[3] PROVE FALSE
              BY <3>5
            <7>2. a[1] = haddr[1]
              BY <3>5, <3>7, <4>1, <7>1 DEF Cached
            <7> QED
              BY <3>5, <5>1, <5>3, <7>1, <7>2
          <6>2. data'[<<a[2], a[3]>>] = data[<<a[2], a[3]>>]
            BY <3>4, <3>5, <5>1, <6>1
          <6> QED
            BY <1>11, <3>6, <4>1, <5>3, <6>2
        <5> QED
          BY <5>2, <5>3
      <4> QED
        BY <1>2, <3>4, <4>1 DEF LineInv, Cached
    <3>10. MemInv'
      <4>1. ASSUME NEW a \in Addr
            PROVE  (Cached(a) /\ dirty'[a[2]]) \/ mem'[a] \in fresh'[a]
        <5>1. a[2] \in Idx
          BY <1>1, Lines
        <5>2. CASE a = haddr
          BY <3>5, <3>7, <3>8, <5>2 DEF Cached
        <5>3. CASE a # haddr
          BY <1>5, <1>10, <3>6, <3>8, <5>1, <5>3
        <5> QED
          BY <5>2, <5>3
      <4> QED
        BY <1>2, <3>4, <4>1 DEF MemInv, Cached
    <3>11. DirtyInv'
      <4>1. \A a \in Foreign(generic) : ~(a[1] = haddr[1] /\ a[2] = haddr[2])
        BY <2>6, <3>1 DEF Separate, Requests, haddr
      <4>2. ASSUME NEW i \in Idx
            PROVE  /\ dirty'[i] => ~READ_ONLY
                   /\ valid[i] /\ dirty'[i] =>
                        \A a \in Addr : a[1] = tag[i] /\ a[2] = i => a \notin Foreign(generic)
        <5>1. CASE i = hidx
          BY <3>1, <3>5, <3>7, <4>1, <5>1
        <5>2. CASE i # hidx
          BY <3>8, <5>2 DEF CacheInv, DirtyInv
        <5> QED
          BY <5>1, <5>2
      <4> QED
        BY <1>1, <1>2, <3>4, <4>2 DEF DirtyInv
    <3> QED
      BY <1>8, <1>12, <2>3, <2>4, <3>9, <3>10, <3>11 DEF CacheInv
  <2> QED
    BY <2>5, <2>6
<1>21. CASE ~ctrl.pnd_bp /\ ~hit
  <2>1. /\ ~WriteHit /\ fresh' = fresh
        /\ host'.busy /\ ~host'.stb /\ host'.req = host.req /\ haddr' = haddr
    BY <1>18, <1>21
  <2>2. /\ valid' = valid /\ dirty' = dirty /\ tag' = tag /\ data' = data /\ rd'.tag = tag[hidx]
    BY <1>15, <2>1
  <2>3. ~Syncing' /\ ~ctrl'.sync /\ ctrl'.state \in {"S_WRITE_START", "S_READ_START"}
    BY <1>4, <1>7, <1>21 DEF Syncing
  <2>4. HostInv'
    BY <1>4, <1>7, <1>21, <2>1, <2>3 DEF HostInv, In
  <2>5. LookupInv'
    BY <2>3 DEF LookupInv, In
  <2>6. Answer' = 0 /\ Issued' = 0 /\ Len(queue') = 0
    BY <1>5, <1>7, <2>3 DEF Answer, Issued, NoTransfer
  <2>7. TransferInv'
    BY <1>2, <1>6, <1>7, <2>3, <2>6 DEF TransferInv, In
  <2>8. BusInv'
    BY <1>5, <2>3 DEF BusInv, NoTransfer, Moving, Reading, Writing, ReadStates, WriteStates, In
  <2>9. \A o \in Ofs : ~(o < 0)
    BY <1>6 DEF Ofs
  <2>10. ReadInv' /\ WriteInv'
    <3>1. CASE ctrl'.state = "S_WRITE_START"
      <4>1. valid[hidx] /\ dirty[hidx] /\ tag[hidx] # haddr[1]
        BY <1>7, <1>9, <1>21, <3>1
      <4>2. ReadInv'
        BY <3>1 DEF ReadInv, Reading, ReadStates
      <4> QED
        BY <1>2, <1>5, <1>7, <2>1, <2>2, <2>9, <3>1, <4>1, <4>2 DEF WriteInv, NoTransfer, In, hidx
    <3>2. CASE ctrl'.state = "S_READ_START"
      <4>1. ~(valid[hidx] /\ dirty[hidx])
        BY <1>6, <1>7, <1>9, <1>21, <3>2 DEF CacheInv, DirtyInv, hidx
      <4>2. WriteInv'
        BY <3>2 DEF WriteInv, Writing, WriteStates
      <4> QED
        BY <1>2, <1>5, <1>7, <2>1, <2>2, <2>9, <3>2, <4>1, <4>2 DEF ReadInv, NoTransfer, In, hidx
    <3> QED
      BY <2>3, <3>1, <3>2
  <2> QED
    BY <1>8, <1>12, <1>15, <1>17, <2>1, <2>4, <2>5, <2>7, <2>8, <2>10 DEF CacheInv
<1> QED
  BY <1>6, <1>19, <1>20, <1>21

(* An uncached access has one request under way. *)
LEMMA BypassSent ==
  ASSUME CacheInv, ctrl.state = "S_BYPASS", ~rsp.ack
  PROVE  /\ Sent \in Seq(BusReq) /\ Len(Sent) = 1
         /\ BypassReq(Sent[1]) /\ Sent[1] \in BusReq
<1>1. /\ host \in HostState /\ host.req \in Requests /\ haddr \in Addr /\ queue \in Seq(BusReq)
      /\ host.data \in Byte /\ generic \in Generics
  BY Ctrl DEF CacheInv, CacheTypeOK
<1>2. \/ ctrl.bp_req /\ NoTransfer
      \/ ~ctrl.bp_req /\ Len(queue) = 1 /\ BypassReq(queue[1])
  BY DEF CacheInv, BusInv, In
<1>3. CASE ctrl.bp_req /\ NoTransfer
  <2> DEFINE w == host.req.rw /\ host.req.ben
             r == [rw |-> w, addr |-> haddr, data |-> host.data]
  <2>1. bus_stb /\ bus_req = r /\ w \in BOOLEAN /\ (w <=> host.req.rw /\ host.req.ben)
    BY <1>3 DEF bus_stb, bus_req
  <2> HIDE DEF w
  <2>2. r \in BusReq
    <3>1. CASE w = TRUE
      BY <1>1, <3>1 DEF BusReq
    <3>2. CASE w = FALSE
      BY <1>1, <3>2 DEF BusReq
    <3> QED
      BY <2>1, <3>1, <3>2
  <2>3. r.rw = w
    BY Zenon
  <2>4. r.addr = haddr /\ r.data = host.data
    OBVIOUS
  <2>5. BypassReq(r)
    BY <2>1, <2>3, <2>4 DEF BypassReq
  <2> HIDE DEF r
  <2>6. Sent = <<r>>
    <3>1. queue = <<>> /\ Sent = Append(queue, r)
      BY <1>3, <2>1 DEF Sent, NoTransfer
    <3> QED
      BY <3>1
  <2> QED
    BY <2>2, <2>5, <2>6
<1>4. CASE ~ctrl.bp_req /\ Len(queue) = 1 /\ BypassReq(queue[1])
  <2>1. Sent = queue
    BY <1>4 DEF Sent, bus_stb
  <2>2. queue[1] \in BusReq
    <3>1. queue \in Seq(BusReq) /\ 1 \in 1 .. Len(queue)
      BY <1>1, <1>4
    <3> QED
      BY <3>1, ElementOfSeq
  <2> QED
    BY <1>1, <1>4, <2>1, <2>2
<1> QED
  BY <1>2, <1>3, <1>4

(* An uncached access. *)
LEMMA Keeps_BYPASS ==
  ASSUME CacheInv, Cycle, ctrl.state = "S_BYPASS"
  PROVE  CacheInv'
<1>1. CacheTypeOK /\ memories /\ HostStep /\ BusStep /\ GhostStep /\ generic' = generic
  BY DEF Cycle, CacheInv
<1>2. /\ NUM_BLOCKS' = NUM_BLOCKS /\ BLOCK_WORDS' = BLOCK_WORDS /\ READ_ONLY' = READ_ONLY
      /\ BURSTS_EN' = BURSTS_EN /\ Idx' = Idx /\ Ofs' = Ofs /\ Addr' = Addr
  BY <1>1, Fixed
<1>3. ~Moving /\ ~Writing /\ ~Reading /\ Serving
  BY DEF Moving, Reading, Writing, ReadStates, WriteStates, Serving
<1>4. ~ctrl.sync /\ host.busy /\ ~host.stb /\ host.req.bypass /\ ~ctrl.pnd_req
  BY <1>3 DEF CacheInv, HostInv, In
<1>5. /\ valid' = valid /\ dirty' = dirty /\ tag' = tag /\ data' = data
  BY <1>1, RamRest DEF CacheInv
<1>6. /\ haddr \in Addr /\ mem \in [Addr -> Value] /\ host.req \in Requests /\ generic \in Generics
      /\ host.req.rw => host.data \in Value
      /\ rsp.ack \in BOOLEAN
  BY <1>1, Ctrl DEF CacheTypeOK, TypeOK
<1>7. /\ ctrl' \in CtrlState /\ ctrl'.sync = ctrl.sync /\ ~ctrl'.bp_req
      /\ ctrl'.pnd_req <=> ctrl.pnd_req \/ host.stb
      /\ ctrl'.state = IF rsp.ack THEN "S_IDLE" ELSE "S_BYPASS"
  BY <1>1, Engine, Ctrl_BYPASS
<1>8. ~Moving' /\ ~Writing' /\ ~Reading' /\ ~Syncing'
  BY <1>7 DEF Moving, Reading, Writing, ReadStates, WriteStates, Syncing
<1>9. LookupInv' /\ TransferInv' /\ ReadInv' /\ WriteInv' /\ SyncInv'
  BY <1>7, <1>8 DEF LookupInv, TransferInv, ReadInv, WriteInv, SyncInv, In
<1>10. DirtyInv'
  BY <1>1, <1>2, <1>5 DEF CacheInv, DirtyInv
<1>11. \A a \in Addr : Cached(a) => data[<<a[2], a[3]>>] \in fresh[a]
  BY <1>3 DEF CacheInv, LineInv
<1>12. \A a \in Addr : \/ Cached(a) /\ dirty[a[2]]
                       \/ mem[a] \in fresh[a]
                       \/ /\ rsp.ack /\ ~rsp.err /\ host.req.rw /\ host.req.ben
                          /\ a = haddr /\ mem[a] = host.data
  BY DEF CacheInv, MemInv, In
<1>13. CASE rsp.ack
  <2>1. ~ctrl.bp_req /\ queue = <<>>
    BY <1>13 DEF CacheInv, BusInv, NoTransfer, In
  <2>2. NoTransfer' /\ mem' = mem /\ queue' \in Seq(BusReq) /\ rsp' \in RspState
    <3>1. ~bus_stb
      BY <2>1 DEF bus_stb
    <3> QED
      BY <1>1, <2>1, <3>1, BusQuiet
  <2>3. CacheTypeOK'
    BY <1>1, <1>6, <1>7, <2>2, Types
  <2>4. host_ack /\ (host_err <=> rsp.err)
    BY <1>13 DEF host_ack, host_err, In
  <2>5. \A a \in Addr : fresh'[a] = IF ~rsp.err /\ host.req.rw /\ host.req.ben /\ a = haddr
                                    THEN {host.data} \cup fresh[a] ELSE fresh[a]
    <3>1. fresh' = [a \in Addr |-> IF ~rsp.err /\ host.req.rw /\ host.req.ben /\ a = haddr
                                   THEN {host.data} \cup fresh[a] ELSE fresh[a]]
      BY <1>1, <1>4, <2>4 DEF GhostStep, In
    <3> QED
      BY <3>1
  <2>6. HostInv'
    <3>1. host'.stb => host'.busy
      BY <1>1, HostMoves
    <3> QED
      BY <1>4, <1>7, <1>8, <1>13, <3>1 DEF HostInv, Serving, In
  <2>7. BusInv'
    BY <1>7, <1>13, <2>2 DEF BusInv, In
  <2>8. LineInv'
    <3>1. \A a \in Addr : Cached(a)' => data'[<<a[2], a[3]>>] \in fresh'[a]
      BY <1>5, <1>11, <2>5 DEF Cached
    <3> QED
      BY <1>2, <3>1 DEF LineInv
  <2>9. MemInv'
    <3>1. \A a \in Addr : (Cached(a) /\ dirty[a[2]])' \/ mem'[a] \in fresh'[a]
      BY <1>5, <1>12, <2>2, <2>5 DEF Cached
    <3> QED
      BY <1>2, <3>1 DEF MemInv
  <2> QED
    BY <1>9, <1>10, <2>3, <2>6, <2>7, <2>8, <2>9 DEF CacheInv
<1>14. CASE ~rsp.ack
  <2>1. ~host_ack
    BY <1>14 DEF host_ack, host_err, In
  <2>2. /\ host'.busy /\ ~host'.stb /\ host'.req = host.req /\ host'.data = host.data /\ haddr' = haddr
    BY <1>1, <1>4, <2>1, HostHolds DEF haddr
  <2>3. fresh' = fresh
    <3>1. fresh' = [a \in Addr |-> fresh[a]]
      BY <1>1, <2>1 DEF GhostStep, In
    <3> QED
      BY <1>1, <3>1 DEF CacheTypeOK
  <2>4. HostInv'
    BY <1>4, <1>7, <1>8, <1>14, <2>2 DEF HostInv, In
  <2>5. LineInv'
    <3>1. \A a \in Addr : Cached(a)' => data'[<<a[2], a[3]>>] \in fresh'[a]
      BY <1>5, <1>11, <2>3 DEF Cached
    <3> QED
      BY <1>2, <3>1 DEF LineInv
  <2>6. \A a \in Addr : (Cached(a) /\ dirty[a[2]]) \/ mem[a] \in fresh[a]
    BY <1>12, <1>14
  <2>7. mem' = mem => MemInv'
    <3>1. mem' = mem => \A a \in Addr : (Cached(a) /\ dirty[a[2]])' \/ mem'[a] \in fresh'[a]
      BY <1>5, <2>3, <2>6 DEF Cached
    <3> QED
      BY <1>2, <3>1 DEF MemInv
  <2>8. /\ Sent \in Seq(BusReq) /\ Len(Sent) = 1 /\ BypassReq(Sent[1]) /\ Sent[1] \in BusReq
    BY <1>14, BypassSent
  <2>9. /\ Head(Sent) = Sent[1] /\ Tail(Sent) = <<>> /\ Tail(Sent) \in Seq(BusReq)
    <3>1. Sent # <<>>
      <4> DEFINE s == Sent
      <4>1. s \in Seq(BusReq) /\ Len(s) = 1
        BY <2>8
      <4> HIDE DEF s
      <4>2. s # <<>>
        BY <4>1, EmptySeq
      <4> QED
        BY <4>2 DEF s
    <3>2. Len(Tail(Sent)) = 0 /\ Tail(Sent) \in Seq(BusReq) /\ Head(Sent) = Sent[1]
      BY <2>8, <3>1, HeadTailProperties
    <3> QED
      BY <3>2, EmptySeq
  <2>10. \/ /\ rsp' = [ack |-> FALSE, err |-> FALSE, data |-> Junk]
            /\ queue' = Sent /\ mem' = mem
         \/ /\ queue' = <<>>
            /\ rsp' = [ack |-> TRUE, err |-> TRUE, data |-> Junk] /\ mem' = mem
         \/ /\ queue' = <<>>
            /\ rsp' = [ack |-> TRUE, err |-> FALSE,
                       data |-> IF Sent[1].rw THEN Junk ELSE mem[haddr]]
            /\ mem' = IF Sent[1].rw THEN [mem EXCEPT ![haddr] = Sent[1].data] ELSE mem
    BY <1>1, <2>8, <2>9 DEF BusStep, Sent, BypassReq
  <2> HIDE DEF Sent
  <2>11. Junk \in Byte /\ <<>> \in Seq(BusReq) /\ \A v \in Value : v \in Byte
    BY EmptySeq DEF Byte
  <2>12. CASE rsp' = [ack |-> FALSE, err |-> FALSE, data |-> Junk] /\ queue' = Sent /\ mem' = mem
    <3>1. rsp' \in RspState /\ ~rsp'.ack
      BY <2>11, <2>12 DEF RspState
    <3>2. CacheTypeOK'
      BY <1>1, <1>6, <1>7, <2>8, <2>12, <3>1, Types
    <3>3. BypassReq(queue[1])'
      BY <2>2, <2>8, <2>12 DEF BypassReq
    <3>4. BusInv'
      BY <1>7, <1>14, <2>8, <2>12, <3>1, <3>3 DEF BusInv, In
    <3> QED
      BY <1>9, <1>10, <2>4, <2>5, <2>7, <2>12, <3>2, <3>4 DEF CacheInv
  <2>13. CASE rsp' = [ack |-> TRUE, err |-> TRUE, data |-> Junk] /\ queue' = <<>> /\ mem' = mem
    <3>1. rsp' \in RspState /\ rsp'.ack /\ rsp'.err
      BY <2>11, <2>13 DEF RspState
    <3>2. CacheTypeOK'
      BY <1>1, <1>6, <1>7, <2>11, <2>13, <3>1, Types
    <3>3. BusInv'
      BY <1>7, <1>14, <2>13, <3>1 DEF BusInv, In
    <3> QED
      BY <1>9, <1>10, <2>4, <2>5, <2>7, <2>13, <3>2, <3>3 DEF CacheInv
  <2>14. CASE /\ queue' = <<>> /\ Sent[1].rw
              /\ rsp' = [ack |-> TRUE, err |-> FALSE, data |-> Junk]
              /\ mem' = [mem EXCEPT ![haddr] = Sent[1].data]
    <3>1. host.req.rw /\ host.req.ben /\ Sent[1].data = host.data /\ host.data \in Value
      BY <1>6, <2>8, <2>14 DEF BypassReq
    <3>2. rsp' \in RspState /\ rsp'.ack /\ ~rsp'.err
      BY <2>11, <2>14 DEF RspState
    <3>3. /\ mem' \in [Addr -> Value] /\ mem'[haddr] = host.data
          /\ \A a \in Addr : a # haddr => mem'[a] = mem[a]
      BY <1>6, <2>14, <3>1
    <3>4. CacheTypeOK'
      BY <1>1, <1>7, <2>11, <2>14, <3>2, <3>3, Types
    <3>5. BusInv'
      BY <1>7, <1>14, <2>2, <2>14, <3>1, <3>2 DEF BusInv, In
    <3>6. MemInv'
      <4>1. \A a \in Addr : \/ (Cached(a) /\ dirty[a[2]])' \/ mem'[a] \in fresh'[a]
                            \/ a = haddr' /\ mem'[a] = host'.data
        BY <1>5, <2>2, <2>3, <2>6, <3>3 DEF Cached
      <4> QED
        BY <1>2, <1>7, <1>14, <2>2, <3>1, <3>2, <4>1 DEF MemInv, In
    <3> QED
      BY <1>9, <1>10, <2>4, <2>5, <3>4, <3>5, <3>6 DEF CacheInv
  <2>15. CASE /\ queue' = <<>> /\ ~Sent[1].rw /\ mem' = mem
              /\ rsp' = [ack |-> TRUE, err |-> FALSE, data |-> mem[haddr]]
    <3>1. rsp' \in RspState /\ rsp'.ack /\ rsp'.data = mem[haddr]
      BY <1>6, <2>11, <2>15 DEF RspState
    <3>2. CacheTypeOK'
      BY <1>1, <1>6, <1>7, <2>11, <2>15, <3>1, Types
    <3>3. ~host.req.rw => mem[haddr] \in fresh[haddr]
      <4>1. ~host.req.rw => haddr \in Foreign(generic)
        BY <1>4, <1>6 DEF Foreign, Requests, haddr
      <4>2. ~host.req.rw => ~(Cached(haddr) /\ dirty[haddr[2]])
        <5>1. haddr[2] \in Idx
          BY <1>1, <1>6, Lines
        <5> QED
          BY <1>6, <4>1, <5>1 DEF CacheInv, DirtyInv, Cached
      <4> QED
        BY <1>6, <2>6, <4>2
    <3>4. BusInv'
      BY <1>7, <1>14, <2>2, <2>3, <2>15, <3>1, <3>3 DEF BusInv, In
    <3> QED
      BY <1>9, <1>10, <2>4, <2>5, <2>7, <2>15, <3>2, <3>4 DEF CacheInv
  <2>16. Sent[1].rw \in BOOLEAN
    BY <2>8 DEF BusReq
  <2> QED
    BY <2>10, <2>12, <2>13, <2>14, <2>15, <2>16
<1> QED
  BY <1>6, <1>13, <1>14

(* Another host's store, and a step that changes nothing. *)
LEMMA Keeps_OTHER ==
  ASSUME CacheInv, UNCHANGED <<generic, ctrl, ram, host, queue, rsp, failed>>,
         mem' \in [Addr -> Value], fresh' \in [Addr -> SUBSET Value],
         \A a \in Addr : fresh[a] \subseteq fresh'[a] /\ (mem'[a] = mem[a] \/ mem'[a] \in fresh'[a])
  PROVE  CacheInv'
<1>1. /\ generic' = generic /\ ctrl' = ctrl /\ host' = host /\ queue' = queue /\ rsp' = rsp
      /\ failed' = failed /\ valid' = valid /\ dirty' = dirty /\ tag' = tag /\ data' = data /\ rd' = rd
  BY DEF ram
<1>2. /\ NUM_BLOCKS' = NUM_BLOCKS /\ BLOCK_WORDS' = BLOCK_WORDS /\ READ_ONLY' = READ_ONLY
      /\ BURSTS_EN' = BURSTS_EN /\ Requests' = Requests /\ Shared' = Shared
      /\ Idx' = Idx /\ Ofs' = Ofs /\ Addr' = Addr
  BY <1>1, Fixed
<1>3. haddr' = haddr /\ (Reading' <=> Reading) /\ (Writing' <=> Writing) /\ (Moving' <=> Moving)
      /\ (Syncing' <=> Syncing) /\ (Serving' <=> Serving) /\ Answer' = Answer /\ Issued' = Issued
      /\ hidx' = hidx /\ hword' = hword
  BY <1>1, <1>2 DEF haddr, Reading, Writing, Moving, Syncing, Serving, Answer, Issued, Overflow, hidx, hword
<1>4. CacheTypeOK'
  BY <1>1, <1>2 DEF CacheInv, CacheTypeOK, TypeOK, BusReq, Byte
<1>5. HostInv'
  BY <1>1, <1>3 DEF CacheInv, HostInv, In
<1>6. LookupInv'
  <2>1. (hit' <=> hit) /\ (drt' <=> drt)
    BY <1>1, <1>3 DEF hit, drt
  <2> QED
    BY <1>1, <1>3, <2>1 DEF CacheInv, LookupInv, In
<1>7. TransferInv'
  BY <1>1, <1>2, <1>3 DEF CacheInv, TransferInv, WordReq, Overflow, In
<1>8. haddr \in Addr /\ ctrl.ofs_int \in Ofs
  BY Ctrl DEF CacheInv, CacheTypeOK, TypeOK
<1>9. BusInv'
  <2>1. NoTransfer' <=> NoTransfer
    BY <1>1 DEF NoTransfer
  <2>2. BypassReq(queue[1])' <=> BypassReq(queue[1])
    BY <1>1, <1>3 DEF BypassReq
  <2>3. rsp.data \in fresh[haddr] => rsp'.data \in fresh'[haddr']
    BY <1>1, <1>3, <1>8
  <2> QED
    BY <1>1, <1>3, <2>1, <2>2, <2>3 DEF CacheInv, BusInv, In
<1>10. \A o \in Ofs : Here(o) \in Addr /\ Here(o)' = Here(o)
  BY <1>1, Lines DEF CacheInv, Here
<1>11. /\ \A o \in Ofs : Loaded(o) => Loaded(o)'
       /\ \A o \in Ofs : Stored(o) => Stored(o)'
  <2>1. ASSUME NEW o \in Ofs, Loaded(o) PROVE Loaded(o)'
    BY <1>1, <1>10, <2>1 DEF Loaded
  <2>2. ASSUME NEW o \in Ofs, Stored(o) PROVE Stored(o)'
    BY <1>1, <1>10, <2>2 DEF Stored
  <2> QED
    BY <2>1, <2>2
<1>12. ReadInv'
  <2>1. rsp.data \in fresh[Here(ctrl.ofs_int)] => (rsp.data \in fresh[Here(ctrl.ofs_int)])'
    BY <1>1, <1>8, <1>10
  <2> QED
    BY <1>1, <1>2, <1>3, <1>11, <2>1 DEF CacheInv, ReadInv, In
<1>13. WriteInv'
  <2>1. Stored(ctrl.ofs_int) => Stored(ctrl.ofs_int)'
    BY <1>1, <1>8, <1>10 DEF Stored
  <2> QED
    BY <1>1, <1>2, <1>3, <1>11, <2>1 DEF CacheInv, WriteInv, In
<1>14. \A a \in Addr : mem[a] \in fresh[a] => mem'[a] \in fresh'[a]
  OBVIOUS
<1>15. SyncInv'
  BY <1>1, <1>2, <1>3, <1>14 DEF CacheInv, SyncInv, In
<1>16. LineInv'
  BY <1>1, <1>2, <1>3 DEF CacheInv, LineInv, Cached
<1>17. MemInv'
  <2>1. ASSUME NEW a \in Addr
        PROVE  \/ Cached(a)' /\ dirty'[a[2]]
               \/ mem'[a] \in fresh'[a]
               \/ /\ In("S_BYPASS") /\ rsp.ack /\ ~rsp.err /\ host.req.rw /\ host.req.ben
                  /\ a = haddr /\ mem'[a] = host.data
    BY <1>1, <1>14 DEF CacheInv, MemInv, Cached
  <2> QED
    BY <1>1, <1>2, <1>3, <2>1 DEF MemInv, In
<1>18. DirtyInv'
  BY <1>1, <1>2 DEF CacheInv, DirtyInv
<1> QED
  BY <1>4, <1>5, <1>6, <1>7, <1>9, <1>12, <1>13, <1>15, <1>16, <1>17, <1>18 DEF CacheInv

(* The power-on state. *)
LEMMA CacheInit == ASSUME Init PROVE CacheInv
<1>1. generic \in Generics
  BY DEF Init
<1>2. /\ NUM_BLOCKS \in Nat \ {0} /\ BLOCK_WORDS \in Nat \ {0} /\ READ_ONLY \in BOOLEAN
      /\ Requests \subseteq [rw : BOOLEAN, ben : BOOLEAN, bypass : BOOLEAN, addr : Addr]
      /\ 0 \in Idx /\ 0 \in Ofs /\ \E r \in Requests : ~r.rw
  BY <1>1, Sizes
<1>3. (CHOOSE r \in Requests : ~r.rw) \in Requests /\ ~(CHOOSE r \in Requests : ~r.rw).rw
  BY <1>2
<1>4. (CHOOSE t \in Tag : TRUE) \in Tag
  <2>1. PICK r \in Requests : ~r.rw
    BY <1>2
  <2>2. r.addr \in Addr
    BY <1>2
  <2>3. \E t \in Tag : TRUE
    BY <2>2 DEF Addr
  <2> QED
    BY <2>3
<1>5. (CHOOSE v \in Value : TRUE) \in Value
  BY CacheAssumption
<1>6. ctrl \in CtrlState /\ ctrl.state = "S_IDLE" /\ ~ctrl.pnd_req /\ ~ctrl.sync
  <2> DEFINE t == CHOOSE x \in Tag : TRUE
  <2>1. t \in Tag
    BY <1>4
  <2>2. ctrl = [state |-> "S_IDLE", sync |-> FALSE, bus_err |-> FALSE, pnd_req |-> FALSE,
                pnd_syn |-> FALSE, pnd_bp |-> FALSE, bp_req |-> FALSE, hit |-> FALSE, cln |-> FALSE,
                tag |-> t, idx |-> 0, ofs_int |-> 0, ofs_ext |-> 0, ofs_buf |-> 0]
    BY DEF Init
  <2> HIDE DEF t
  <2>3. 0 \in 0 .. 2 * BLOCK_WORDS - 1 /\ "S_IDLE" \in State
    BY <1>2 DEF State
  <2> QED
    BY <1>2, <2>1, <2>2, <2>3 DEF CtrlState
<1>7. /\ valid \in [Idx -> BOOLEAN] /\ dirty \in [Idx -> BOOLEAN] /\ tag \in [Idx -> Tag]
      /\ \A i \in Idx : ~valid[i] /\ (dirty[i] => ~READ_ONLY)
  BY <1>2 DEF Init
<1>8. /\ data \in [Idx \X Ofs -> Byte] /\ mem \in [Addr -> Value]
      /\ rsp \in [ack : BOOLEAN, err : BOOLEAN, data : Byte] /\ ~rsp.ack /\ queue = <<>>
      /\ failed = {} /\ fresh = [a \in Addr |-> {mem[a]}]
  BY <1>5 DEF Init, Byte
<1>9. rd \in [valid : BOOLEAN, dirty : BOOLEAN, tag : Tag, data : Byte]
  <2>1. tag[0] \in Tag
    BY <1>2, <1>7
  <2>2. rd = [valid |-> FALSE, dirty |-> FALSE, tag |-> tag[0], data |-> Junk]
    BY DEF Init
  <2> QED
    BY <2>1, <2>2 DEF Byte
<1>10. host \in HostState /\ ~host.stb /\ ~host.busy /\ ~host.req.rw
  <2> DEFINE q == CHOOSE r \in Requests : ~r.rw
  <2>1. q \in Requests /\ ~q.rw
    BY <1>3
  <2>2. host = [stb |-> FALSE, fence |-> FALSE, busy |-> FALSE, fenced |-> FALSE, req |-> q, data |-> Junk]
    BY DEF Init
  <2> HIDE DEF q
  <2> QED
    BY <2>1, <2>2 DEF HostState, Byte
<1>11. CacheTypeOK
  <2>1. TypeOK
    BY <1>6, <1>7, <1>8 DEF TypeOK, CtrlState, Byte
  <2>2. queue \in Seq(BusReq)
    BY <1>8, EmptySeq
  <2>3. fresh \in [Addr -> SUBSET Value] /\ failed \subseteq Idx
    BY <1>8
  <2> QED
    BY <1>1, <1>9, <1>10, <2>1, <2>2, <2>3 DEF CacheTypeOK, HostState
<1>12. ~Moving /\ ~Reading /\ ~Writing /\ ~Syncing /\ ~Serving
  BY <1>6 DEF Moving, Reading, Writing, ReadStates, WriteStates, Syncing, Serving
<1>13. HostInv /\ LookupInv /\ TransferInv /\ BusInv /\ ReadInv /\ WriteInv /\ SyncInv
  BY <1>6, <1>8, <1>10, <1>12
     DEF HostInv, LookupInv, TransferInv, BusInv, NoTransfer, ReadInv, WriteInv, SyncInv, In
<1>14. LineInv /\ MemInv /\ DirtyInv
  <2>1. \A a \in Addr : a[2] \in Idx
    BY <1>11, Lines
  <2>2. LineInv
    BY <1>7, <2>1 DEF LineInv, Cached
  <2>3. MemInv
    BY <1>8 DEF MemInv
  <2> QED
    BY <1>7, <2>2, <2>3 DEF DirtyInv
<1> QED
  BY <1>11, <1>13, <1>14 DEF CacheInv

(* Every step keeps the invariant. *)
LEMMA CacheStep ==
  ASSUME Separate, CacheInv, [Next]_vars
  PROVE  CacheInv'
<1>1. mem \in [Addr -> Value] /\ fresh \in [Addr -> SUBSET Value] /\ generic \in Generics
      /\ ctrl.state \in State
  BY DEF CacheInv, CacheTypeOK, TypeOK
<1>2. CASE Cycle
  <2>1. CASE ctrl.state \in {"S_IDLE", "S_SYNC_START", "S_SYNC_DELAY", "S_SYNC_CHECK"}
    BY <1>2, <2>1, Keeps_QUIET
  <2>2. CASE ctrl.state = "S_CHECK"
    BY <1>2, <2>2, Keeps_CHECK
  <2>3. CASE ctrl.state = "S_BYPASS"
    BY <1>2, <2>3, Keeps_BYPASS
  <2>4. CASE ctrl.state = "S_SYNC_NEXT"
    BY <1>2, <2>4, Keeps_SYNC_NEXT
  <2>5. CASE ctrl.state \in {"S_READ_START", "S_READ_WAIT", "S_READ_BURST"}
    BY <1>2, <2>5, Keeps_READ
  <2>6. CASE ctrl.state = "S_READ_DONE"
    BY <1>2, <2>6, Keeps_READ_DONE
  <2>7. CASE ctrl.state = "S_WRITE_DONE"
    BY <1>2, <2>7, Keeps_WRITE_DONE
  <2>8. CASE ctrl.state \in {"S_WRITE_START", "S_WRITE_REQ", "S_WRITE_RSP", "S_WRITE_WAIT", "S_WRITE_BURST"}
    <3>1. Writing /\ ctrl.state # "S_WRITE_DONE"
      BY <2>8 DEF Writing, WriteStates
    <3> QED
      BY <1>2, <3>1, Keeps_WRITE
  <2> QED
    BY <1>1, <2>1, <2>2, <2>3, <2>4, <2>5, <2>6, <2>7, <2>8 DEF State
<1>3. CASE OtherWrite
  <2>1. PICK x \in Shared, v \in Value :
          /\ mem' = [mem EXCEPT ![x] = v]
          /\ fresh' = [fresh EXCEPT ![x] = @ \cup {v}]
          /\ UNCHANGED <<generic, ctrl, ram, host, queue, rsp, failed>>
    BY <1>3 DEF OtherWrite
  <2>2. x \in Addr
    BY <1>1, Sizes
  <2>3. /\ mem' \in [Addr -> Value] /\ fresh' \in [Addr -> SUBSET Value]
        /\ \A a \in Addr : fresh[a] \subseteq fresh'[a] /\ (mem'[a] = mem[a] \/ mem'[a] \in fresh'[a])
    BY <1>1, <2>1, <2>2
  <2> QED
    BY <2>1, <2>3, Keeps_OTHER
<1>4. CASE UNCHANGED vars
  <2>1. UNCHANGED <<generic, ctrl, ram, host, queue, rsp, failed>> /\ mem' = mem /\ fresh' = fresh
    BY <1>4 DEF vars
  <2> QED
    BY <1>1, <2>1, Keeps_OTHER
<1> QED
  BY <1>2, <1>3, <1>4 DEF Next

(* The invariant holds for ever.  No fairness is needed. *)
LEMMA CacheInvariance == ASSUME Separate PROVE Spec => []CacheInv
<1>1. Init => CacheInv
  BY CacheInit
<1>2. CacheInv /\ [Next]_vars => CacheInv'
  BY CacheStep
<1> QED
  BY <1>1, <1>2, PTL DEF Spec

-----------------------------------------------------------------------------
(* Theorems *)

(***************************************************************************)
(* Registers, memories and lines of the cache keep their types: the        *)
(* offsets of S_READ_BURST and S_WRITE_BURST, for instance, do not wrap    *)
(* and every received word lands in its block.                             *)
(***************************************************************************)
THEOREM CacheTypeCorrect == ASSUME Separate PROVE Spec => []TypeOK
<1>1. CacheInv => TypeOK
  BY DEF CacheInv, CacheTypeOK
<1> QED
  BY <1>1, CacheInvariance, PTL

(***************************************************************************)
(* A cached or uncached read that ends without error gives the host its    *)
(* own last store, or a value other hosts stored that no fence has made    *)
(* stale (S_CHECK hit, S_READ_DONE to S_CHECK, S_BYPASS).                  *)
(***************************************************************************)
THEOREM CacheReadCorrect == ASSUME Separate PROVE Spec => []ReadCorrect
<1>1. ASSUME CacheInv
      PROVE  ReadCorrect
  <2>1. SUFFICES ASSUME host_ack, ~host_err, ~host.req.rw
                 PROVE  host_data \in fresh[haddr]
    BY DEF ReadCorrect
  <2>2. CASE ctrl.state = "S_CHECK"
    <3>1. ~ctrl.pnd_bp /\ hit
      BY <2>1, <2>2 DEF host_ack, In
    <3>2. valid[hidx] /\ tag[hidx] = haddr[1] /\ rd.data = data[hword]
      BY <1>1, <2>2, <3>1 DEF CacheInv, LookupInv, In
    <3>3. haddr \in Addr
      BY <1>1, Ctrl DEF CacheInv
    <3>4. data[hword] \in fresh[haddr]
      BY <1>1, <2>2, <3>2, <3>3 DEF CacheInv, LineInv, Cached, Reading, ReadStates, hidx, hword
    <3> QED
      BY <2>2, <3>2, <3>4 DEF host_data
  <2>3. CASE ctrl.state = "S_BYPASS"
    BY <1>1, <2>1, <2>3 DEF host_ack, host_err, host_data, CacheInv, BusInv, In
  <2> QED
    BY <2>1, <2>2, <2>3 DEF host_ack, In
<1> QED
  BY <1>1, CacheInvariance, PTL

(***************************************************************************)
(* Between accesses a word lives in its block if that is cached and in     *)
(* memory otherwise, and a block not marked dirty agrees with memory: no   *)
(* store is forgotten by a write-back, a download or a failed transfer.    *)
(***************************************************************************)
THEOREM CacheCoherent == ASSUME Separate PROVE Spec => []Coherent
<1>1. ASSUME CacheInv
      PROVE  Coherent
  <2>1. SUFFICES ASSUME ctrl.state = "S_IDLE", NEW a \in Addr
                 PROVE  /\ Cached(a) => data[<<a[2], a[3]>>] \in fresh[a]
                        /\ ~(Cached(a) /\ dirty[a[2]]) => mem[a] \in fresh[a]
    BY DEF Coherent, In
  <2>2. ~Reading /\ ~In("S_BYPASS")
    BY <2>1 DEF Reading, ReadStates, In
  <2> QED
    BY <1>1, <2>2 DEF CacheInv, LineInv, MemInv
<1> QED
  BY <1>1, CacheInvariance, PTL

(***************************************************************************)
(* When synchronization ends (S_SYNC_NEXT to S_IDLE), memory holds every   *)
(* store of the host, and a block is kept, still dirty, exactly if the bus *)
(* refused one of its words.                                               *)
(***************************************************************************)
THEOREM CacheFenceFlushes == ASSUME Separate PROVE Spec => FenceFlushes
<1>1. ASSUME CacheInv, Cycle, ctrl.state = "S_SYNC_NEXT", ctrl'.state = "S_IDLE"
      PROVE  /\ \A i \in Idx : valid'[i] <=> i \in failed
             /\ \A i \in failed : dirty'[i]
             /\ \A a \in Addr : ~Cached(a)' => mem[a] \in fresh[a]
  <2>1. memories /\ CacheTypeOK /\ S_SYNC_NEXT
    BY <1>1, Engine DEF CacheInv, Cycle
  <2>2. ctrl.idx = NUM_BLOCKS - 1
    BY <1>1, <2>1, Ctrl_SYNC_NEXT
  <2>3. /\ \A i \in Idx : /\ valid'[i] = IF i = ctrl.idx THEN ctrl.bus_err ELSE valid[i]
                          /\ dirty'[i] = IF i = ctrl.idx THEN ctrl.bus_err ELSE dirty[i]
                          /\ tag'[i] = IF i = ctrl.idx THEN ctrl.tag ELSE tag[i]
        /\ ctrl.bus_err => valid[ctrl.idx] /\ dirty[ctrl.idx] /\ ctrl.tag = tag[ctrl.idx]
        /\ ~ctrl.bus_err => \A a \in Addr : a[2] = ctrl.idx => mem[a] \in fresh[a]
    BY <1>1, <2>1, NextRam
  <2>4. /\ \A i \in Idx : i < ctrl.idx => (valid[i] <=> i \in failed) /\ (i \in failed => dirty[i])
        /\ ctrl.idx \in failed <=> ctrl.bus_err
    BY <1>1 DEF CacheInv, SyncInv, Syncing
  <2>5. \A i \in Idx : i # ctrl.idx => i < ctrl.idx
    BY <2>1, <2>2, Ctrl, Sizes DEF Idx
  <2>6. failed \subseteq Idx /\ \A a \in Addr : a[2] \in Idx
    BY <2>1, Lines DEF CacheTypeOK
  <2>7. \A i \in Idx : (valid'[i] <=> i \in failed) /\ (i \in failed => dirty'[i])
    BY <2>3, <2>4, <2>5
  <2>8. ASSUME NEW a \in Addr, ~Cached(a)'
        PROVE  mem[a] \in fresh[a]
    <3>1. Cached(a) => a[2] = ctrl.idx /\ ~ctrl.bus_err
      BY <2>3, <2>6, <2>8 DEF Cached
    <3>2. Cached(a) \/ mem[a] \in fresh[a]
      BY <1>1 DEF CacheInv, MemInv, In
    <3> QED
      BY <2>3, <3>1, <3>2
  <2> QED
    BY <2>6, <2>7, <2>8
<1>2. CacheInv /\ [Next]_vars =>
        [In("S_SYNC_NEXT") /\ ctrl'.state = "S_IDLE" =>
           /\ \A i \in Idx : valid'[i] <=> i \in failed
           /\ \A i \in failed : dirty'[i]
           /\ \A a \in Addr : ~Cached(a)' => mem[a] \in fresh[a]]_vars
  <2>1. OtherWrite => ctrl' = ctrl
    BY DEF OtherWrite
  <2> QED
    BY <1>1, <2>1 DEF Next, In
<1> QED
  BY <1>2, CacheInvariance, PTL DEF Spec, FenceFlushes
=============================================================================
