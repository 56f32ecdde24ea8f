------------------------------- MODULE Cache -------------------------------
(***************************************************************************)
(* The processor cache, rtl/core/neorv32_cache.vhd, clock by clock: one    *)
(* step of the control engine, the status, tag and data memories with      *)
(* their registered read ports, the host in front of it (a CPU's LSU or    *)
(* fetch unit, rtl/core/neorv32_top.vhd) and the bus behind it, which      *)
(* answers requests in order, any number of cycles later, with errors.     *)
(*                                                                         *)
(* The four byte RAMs of a word are copies of one another, each with its   *)
(* own write enable: the model follows one byte lane, and an access may    *)
(* leave that lane alone (ben = FALSE).  An address is <<tag, index, word  *)
(* offset>>.  fresh and failed are ghosts that the properties refer to.    *)
(***************************************************************************)
EXTENDS Naturals, Sequences

CONSTANTS
  Generics,     \* the instances: generics of the entity and surroundings
  Tag,          \* tags of the addresses in use
  Value,        \* contents of the byte lane
  Junk          \* what data lines and memories carry that nothing has driven

VARIABLE generic  \* the instance of this behaviour, it never changes

NUM_BLOCKS == generic.NUM_BLOCKS    \* number of blocks
BLOCK_WORDS == generic.BLOCK_WORDS  \* words per block
READ_ONLY == generic.READ_ONLY      \* instruction cache
BURSTS_EN == generic.BURSTS_EN      \* block transfers are bursts
Requests == generic.requests        \* accesses the host makes: rw, ben, bypass, addr
Shared == generic.shared            \* addresses that other bus hosts write

Idx == 0 .. NUM_BLOCKS - 1
Ofs == 0 .. BLOCK_WORDS - 1
Addr == Tag \X Idx \X Ofs

ASSUME CacheAssumption ==
  /\ Junk \notin Value /\ Value # {}
  /\ \A g \in Generics :
       LET AddrOf == Tag \X (0 .. g.NUM_BLOCKS - 1) \X (0 .. g.BLOCK_WORDS - 1)
       IN  /\ g.NUM_BLOCKS \in Nat \ {0} /\ g.BLOCK_WORDS \in Nat \ {0}
           /\ g.READ_ONLY \in BOOLEAN /\ g.BURSTS_EN \in BOOLEAN
           /\ g.BURSTS_EN => g.BLOCK_WORDS > 1  \* bursts_en_c of the top entity
           /\ g.requests \subseteq [rw : BOOLEAN, ben : BOOLEAN, bypass : BOOLEAN, addr : AddrOf]
           /\ g.READ_ONLY => \A r \in g.requests : ~r.rw
           /\ \E r \in g.requests : ~r.rw  \* what the address lines show before the first access
           /\ g.shared \subseteq AddrOf

VARIABLES
  ctrl,   \* registers of the control engine
  valid,  \* index -> block valid
  dirty,  \* index -> block modified
  tag,    \* index -> tag of the block
  data,   \* <<index, offset>> -> byte
  rd,     \* registered read ports of the four memories
  host,   \* request lines of the host: stb, fence, req, data; busy, fenced
  queue,  \* requests the bus has not answered
  rsp,    \* response lines of the bus: ack, err, data
  mem,    \* memory behind the bus
  fresh,  \* address -> values the host may be given
  failed  \* blocks whose write-back failed in this synchronization

ram == <<valid, dirty, tag, data, rd>>
vars == <<generic, ctrl, ram, host, queue, rsp, mem, fresh, failed>>

State == {"S_IDLE", "S_CHECK", "S_BYPASS", "S_SYNC_START", "S_SYNC_DELAY", "S_SYNC_CHECK",
          "S_SYNC_NEXT", "S_READ_START", "S_READ_WAIT", "S_READ_BURST", "S_READ_DONE",
          "S_WRITE_START", "S_WRITE_REQ", "S_WRITE_RSP", "S_WRITE_WAIT", "S_WRITE_BURST",
          "S_WRITE_DONE"}

(* Offsets wrap; ofs_ext and ofs_buf have one overflow bit more. *)
IncInt(o) == (o + 1) % BLOCK_WORDS
IncExt(o) == (o + 1) % (2 * BLOCK_WORDS)
Overflow(o) == o >= BLOCK_WORDS
LastWord == ctrl.ofs_int = BLOCK_WORDS - 1

-----------------------------------------------------------------------------
(* Combinational outputs of the control engine. *)

haddr == host.req.addr

hit == ctrl.hit \/ (rd.valid /\ rd.tag = haddr[1])

drt == ~ctrl.cln /\ rd.dirty /\ rd.valid

WriteHit == ctrl.state = "S_CHECK" /\ ~ctrl.pnd_bp /\ hit /\ host.req.rw /\ ~READ_ONLY

(* Ports of the memories. *)
cache_addr_HostDuringUpload ==  \* mutant: upload reads the words with the bus answers
  IF ctrl.state \in {"S_IDLE", "S_CHECK", "S_BYPASS", "S_SYNC_START", "S_READ_START", "S_READ_DONE"}
  THEN haddr ELSE <<ctrl.tag, ctrl.idx, ctrl.ofs_int>>

cache_addr ==
  IF ctrl.state \in {"S_IDLE", "S_CHECK", "S_BYPASS", "S_SYNC_START", "S_READ_START", "S_READ_DONE"}
  THEN haddr
  ELSE IF ctrl.state \in {"S_WRITE_WAIT", "S_WRITE_BURST"}
  THEN <<ctrl.tag, ctrl.idx, ctrl.ofs_ext % BLOCK_WORDS>>
  ELSE <<ctrl.tag, ctrl.idx, ctrl.ofs_int>>

cache_we == (WriteHit /\ host.req.ben) \/ ctrl.state \in {"S_READ_WAIT", "S_READ_BURST"}
cache_data == IF ctrl.state = "S_CHECK" THEN host.data ELSE rsp.data
cache_set ==
  \/ ctrl.state \in {"S_SYNC_NEXT", "S_READ_DONE"}
  \/ ctrl.state = "S_WRITE_DONE" /\ ~ctrl.sync

cache_vld == IF ctrl.state = "S_SYNC_NEXT" THEN ctrl.bus_err ELSE ~ctrl.bus_err

cache_drt == WriteHit \/ (ctrl.state = "S_SYNC_NEXT" /\ ctrl.bus_err)

(* Answer to the host. *)
host_err ==
  \/ ctrl.state = "S_BYPASS" /\ rsp.err
  \/ ctrl.state = "S_READ_DONE" /\ ctrl.bus_err
  \/ ctrl.state = "S_WRITE_DONE" /\ ~ctrl.sync /\ ctrl.bus_err
host_ack ==
  \/ ctrl.state = "S_CHECK" /\ ~ctrl.pnd_bp /\ hit
  \/ ctrl.state = "S_BYPASS" /\ rsp.ack
  \/ ctrl.state # "S_BYPASS" /\ host_err

host_data_Bus == rsp.data  \* mutant: the response lines of the bus are passed on for a hit, too

host_data == IF ctrl.state = "S_BYPASS" THEN rsp.data ELSE rd.data

(* Request to the bus. *)
bus_stb ==
  \/ ctrl.state = "S_BYPASS" /\ ctrl.bp_req
  \/ ctrl.state \in {"S_READ_START", "S_WRITE_REQ"}
  \/ ctrl.state = "S_READ_BURST" /\ ~Overflow(ctrl.ofs_ext)
  \/ ctrl.state = "S_WRITE_BURST" /\ ~Overflow(ctrl.ofs_buf)

bus_req ==
  IF ctrl.state = "S_BYPASS"
  THEN [rw |-> host.req.rw /\ host.req.ben, addr |-> haddr, data |-> host.data]
  ELSE LET ofs == IF ctrl.state = "S_WRITE_BURST" THEN ctrl.ofs_buf ELSE ctrl.ofs_ext
       IN  [rw |-> ctrl.state \in {"S_WRITE_REQ", "S_WRITE_BURST"},
            addr |-> <<ctrl.tag, ctrl.idx, ofs % BLOCK_WORDS>>, data |-> rd.data]

-----------------------------------------------------------------------------
(* Control engine: one action per state.  Keep is the next value of the    *)
(* registers where the state assigns nothing.                              *)

Keep == [ctrl EXCEPT !.pnd_req = @ \/ host.stb, !.pnd_syn = @ \/ host.fence,
                     !.pnd_bp = FALSE, !.bp_req = FALSE, !.hit = FALSE, !.cln = FALSE,
                     !.ofs_buf = ctrl.ofs_ext]

In(s) == ctrl.state = s

S_IDLE ==
  /\ In("S_IDLE")
  /\ LET k == [Keep EXCEPT !.bus_err = FALSE, !.sync = FALSE] IN
     ctrl' = IF ctrl.pnd_syn THEN [k EXCEPT !.state = "S_SYNC_START"]
             ELSE IF host.stb \/ ctrl.pnd_req
             THEN [k EXCEPT !.state = "S_CHECK", !.pnd_bp = host.req.bypass]
             ELSE k

S_CHECK ==
  /\ In("S_CHECK")
  /\ ctrl' = [Keep EXCEPT
       !.tag = haddr[1], !.idx = haddr[2], !.ofs_ext = 0, !.ofs_int = 0,
       !.pnd_req = FALSE, !.bp_req = TRUE,
       !.state = IF ctrl.pnd_bp THEN "S_BYPASS"
                 ELSE IF hit THEN "S_IDLE"
                 ELSE IF drt /\ ~READ_ONLY THEN "S_WRITE_START" ELSE "S_READ_START"]

S_BYPASS ==
  /\ In("S_BYPASS")
  /\ ctrl' = [Keep EXCEPT !.state = IF rsp.ack THEN "S_IDLE" ELSE @]

S_SYNC_START_KeepsPending ==  \* mutant: the request stays pending
  /\ In("S_SYNC_START")
  /\ ctrl' = [Keep EXCEPT !.sync = TRUE, !.idx = 0, !.state = "S_SYNC_DELAY"]

S_SYNC_START ==
  /\ In("S_SYNC_START")
  /\ ctrl' = [Keep EXCEPT !.pnd_syn = FALSE, !.sync = TRUE, !.idx = 0, !.state = "S_SYNC_DELAY"]

S_SYNC_DELAY ==
  /\ In("S_SYNC_DELAY")
  /\ ctrl' = [Keep EXCEPT !.state = "S_SYNC_CHECK"]

S_SYNC_CHECK ==
  /\ In("S_SYNC_CHECK")
  /\ ctrl' = [Keep EXCEPT !.ofs_ext = 0, !.ofs_int = 0, !.bus_err = FALSE,
                          !.state = IF drt /\ ~READ_ONLY THEN "S_WRITE_START" ELSE "S_SYNC_NEXT"]

S_SYNC_NEXT_SkipsLast ==  \* mutant: ends one block early
  /\ In("S_SYNC_NEXT")
  /\ ctrl' = [Keep EXCEPT !.idx = (@ + 1) % NUM_BLOCKS,
                          !.state = IF ctrl.idx + 2 >= NUM_BLOCKS THEN "S_IDLE" ELSE "S_SYNC_DELAY"]

S_SYNC_NEXT ==
  /\ In("S_SYNC_NEXT")
  /\ ctrl' = [Keep EXCEPT !.idx = (@ + 1) % NUM_BLOCKS,
                          !.state = IF ctrl.idx = NUM_BLOCKS - 1 THEN "S_IDLE" ELSE "S_SYNC_DELAY"]

S_READ_START ==
  /\ In("S_READ_START")
  /\ ctrl' = [Keep EXCEPT !.state = "S_READ_WAIT"]

S_READ_WAIT ==
  /\ In("S_READ_WAIT")
  /\ ctrl' = IF ~rsp.ack THEN Keep
             ELSE [Keep EXCEPT !.bus_err = @ \/ rsp.err,
                               !.ofs_int = IncInt(@), !.ofs_ext = IncExt(@),
                               !.state = IF BURSTS_EN THEN "S_READ_BURST"
                                         ELSE IF LastWord THEN "S_READ_DONE" ELSE "S_READ_START"]

(* The receiving half of both burst states. *)
Receive(k, done) ==
  IF ~rsp.ack THEN k
  ELSE [k EXCEPT !.bus_err = @ \/ rsp.err, !.ofs_int = IncInt(@),
                 !.state = IF LastWord THEN done ELSE @]

S_READ_BURST ==
  /\ In("S_READ_BURST")
  /\ ctrl' = Receive([Keep EXCEPT !.ofs_ext = IF Overflow(@) THEN @ ELSE IncExt(@)], "S_READ_DONE")

S_READ_DONE ==
  /\ In("S_READ_DONE")
  /\ ctrl' = [Keep EXCEPT !.hit = TRUE, !.state = IF ctrl.bus_err THEN "S_IDLE" ELSE "S_CHECK"]

S_WRITE_START ==
  /\ In("S_WRITE_START")
  /\ ctrl' = [Keep EXCEPT !.tag = IF ctrl.ofs_int = 0 THEN rd.tag ELSE @, !.state = "S_WRITE_REQ"]

S_WRITE_REQ ==
  /\ In("S_WRITE_REQ")
  /\ ctrl' = [Keep EXCEPT !.state = "S_WRITE_RSP"]

S_WRITE_RSP ==
  /\ In("S_WRITE_RSP")
  /\ ctrl' = IF ~rsp.ack THEN Keep
             ELSE [Keep EXCEPT !.bus_err = @ \/ rsp.err,
                               !.ofs_int = IncInt(@), !.ofs_ext = IncExt(@),
                               !.state = IF BURSTS_EN THEN "S_WRITE_WAIT"
                                         ELSE IF LastWord THEN "S_WRITE_DONE" ELSE "S_WRITE_START"]

S_WRITE_WAIT ==
  /\ In("S_WRITE_WAIT")
  /\ ctrl' = [Keep EXCEPT !.ofs_ext = IncExt(@), !.state = "S_WRITE_BURST"]

S_WRITE_BURST ==
  /\ In("S_WRITE_BURST")
  /\ ctrl' = Receive([Keep EXCEPT !.ofs_ext = IF Overflow(ctrl.ofs_buf) THEN @ ELSE IncExt(@)],
                     "S_WRITE_DONE")

S_WRITE_DONE ==
  /\ In("S_WRITE_DONE")
  /\ ctrl' = [Keep EXCEPT !.cln = TRUE,
                          !.state = IF ctrl.sync THEN "S_SYNC_NEXT"
                                    ELSE IF ctrl.bus_err THEN "S_IDLE" ELSE "S_CHECK"]

ctrl_engine ==
  \/ S_IDLE \/ S_CHECK \/ S_BYPASS
  \/ S_SYNC_START \/ S_SYNC_DELAY \/ S_SYNC_CHECK \/ S_SYNC_NEXT
  \/ S_READ_START \/ S_READ_WAIT \/ S_READ_BURST \/ S_READ_DONE
  \/ S_WRITE_START \/ S_WRITE_REQ \/ S_WRITE_RSP \/ S_WRITE_WAIT \/ S_WRITE_BURST \/ S_WRITE_DONE

-----------------------------------------------------------------------------
(* Memories.  A RAM's read port shows the word before a write in the same  *)
(* cycle, except that a RAM of one entry is a register.                    *)

spram_out(old, we, new, entries) == IF entries = 1 /\ we THEN new ELSE old

index == cache_addr[2]
word == <<cache_addr[2], cache_addr[3]>>
dirty_we == ~READ_ONLY /\ (cache_set \/ cache_drt)

status_valid == valid' = IF cache_set THEN [valid EXCEPT ![index] = cache_vld] ELSE valid
dirty_flag == dirty' = IF dirty_we THEN [dirty EXCEPT ![index] = cache_drt] ELSE dirty
tag_ram == tag' = IF cache_set THEN [tag EXCEPT ![index] = cache_addr[1]] ELSE tag
data_ram == data' = IF cache_we THEN [data EXCEPT ![word] = cache_data] ELSE data

memories ==
  /\ status_valid /\ dirty_flag /\ tag_ram /\ data_ram
  /\ rd' = [valid |-> valid[index],
            dirty |-> ~READ_ONLY /\ spram_out(dirty[index], dirty_we, cache_drt, NUM_BLOCKS),
            tag |-> spram_out(tag[index], cache_set, cache_addr[1], NUM_BLOCKS),
            data |-> spram_out(data[word], cache_we, cache_data, NUM_BLOCKS * BLOCK_WORDS)]

-----------------------------------------------------------------------------
(* Environment. *)

(* The host strobes for one cycle and holds the request until the answer.  *)
(* A fence is a pulse of its own; while an access is outstanding (fetch    *)
(* unit) there is at most one, as the next fence needs the access.         *)
HostStep ==
  LET idle == [host EXCEPT !.stb = FALSE, !.fence = FALSE, !.busy = FALSE, !.fenced = FALSE]
      wait == [host EXCEPT !.stb = FALSE, !.fence = FALSE]
  IN IF host.busy /\ ~host_ack
     THEN host' \in {wait} \cup (IF host.fenced THEN {} ELSE {[wait EXCEPT !.fence = TRUE, !.fenced = TRUE]})
     ELSE \/ host' \in {idle, [idle EXCEPT !.fence = TRUE]}
          \/ \E r \in Requests, v \in Value \cup {Junk} :
               /\ r.rw <=> v \in Value
               /\ host' = [idle EXCEPT !.stb = TRUE, !.busy = TRUE, !.req = r, !.data = v]

(* The bus takes the request of this cycle and may answer the oldest one in *)
(* the next; an access that ends with an error has no effect.  The data     *)
(* lines are meaningless unless a read is answered without error.           *)
BusStep ==
  LET q == IF bus_stb THEN Append(queue, bus_req) ELSE queue IN
  \/ /\ rsp' = [ack |-> FALSE, err |-> FALSE, data |-> Junk]
     /\ queue' = q /\ UNCHANGED mem
  \/ /\ q # <<>>
     /\ queue' = Tail(q)
     /\ \/ rsp' = [ack |-> TRUE, err |-> TRUE, data |-> Junk] /\ UNCHANGED mem
        \/ /\ rsp' = [ack |-> TRUE, err |-> FALSE,
                      data |-> IF Head(q).rw THEN Junk ELSE mem[Head(q).addr]]
           /\ mem' = IF Head(q).rw THEN [mem EXCEPT ![Head(q).addr] = Head(q).data] ELSE mem

(* What the host may be given from now on: its own store; a bypassing      *)
(* store is seen by cached reads at the latest after a fence; a block that *)
(* could not be written back is discarded; a fence ends all staleness.     *)
Block(t, i) == {a \in Addr : a[1] = t /\ a[2] = i}
GhostStep ==
  /\ failed' = IF ~ctrl.sync THEN {} ELSE IF rsp.ack /\ rsp.err THEN failed \cup {ctrl.idx} ELSE failed
  /\ fresh' = [a \in Addr |->
    IF host_ack /\ ~host_err /\ host.req.rw /\ host.req.ben /\ a = haddr
    THEN {host.data} \cup (IF host.req.bypass THEN fresh[a] ELSE {})
    ELSE IF \/ In("S_WRITE_DONE") /\ ~ctrl.sync /\ ctrl.bus_err /\ a \in Block(ctrl.tag, ctrl.idx)
            \/ In("S_SYNC_NEXT") /\ ctrl.idx = NUM_BLOCKS - 1 /\ a \in Shared
    THEN {mem[a]}
    ELSE fresh[a]]

Cycle == ctrl_engine /\ memories /\ HostStep /\ BusStep /\ GhostStep /\ UNCHANGED generic

(* Another bus host stores to an address this host only reads. *)
OtherWrite ==
  \E a \in Shared, v \in Value :
    /\ mem' = [mem EXCEPT ![a] = v]
    /\ fresh' = [fresh EXCEPT ![a] = @ \cup {v}]
    /\ UNCHANGED <<generic, ctrl, ram, host, queue, rsp, failed>>

(* Status, tag and data RAMs have no reset. *)
Init ==
  /\ generic \in Generics
  /\ ctrl = [state |-> "S_IDLE", sync |-> FALSE, bus_err |-> FALSE, pnd_req |-> FALSE,
             pnd_syn |-> FALSE, pnd_bp |-> FALSE, bp_req |-> FALSE, hit |-> FALSE, cln |-> FALSE,
             tag |-> CHOOSE t \in Tag : TRUE, idx |-> 0, ofs_int |-> 0, ofs_ext |-> 0, ofs_buf |-> 0]
  /\ valid = [i \in Idx |-> FALSE]
  /\ dirty \in IF READ_ONLY THEN {[i \in Idx |-> FALSE]} ELSE [Idx -> BOOLEAN]
  /\ tag \in [Idx -> Tag]
  /\ data = [w \in Idx \X Ofs |-> Junk]
  /\ rd = [valid |-> FALSE, dirty |-> FALSE, tag |-> tag[0], data |-> Junk]
  /\ rsp = [ack |-> FALSE, err |-> FALSE, data |-> Junk]
  /\ mem = [a \in Addr |-> CHOOSE v \in Value : TRUE]
  /\ host = [stb |-> FALSE, fence |-> FALSE, busy |-> FALSE, fenced |-> FALSE,
             req |-> CHOOSE r \in Requests : ~r.rw, data |-> Junk]
  /\ queue = <<>>
  /\ fresh = [a \in Addr |-> {mem[a]}]
  /\ failed = {}

Next == Cycle \/ OtherWrite

(* The clock runs, and the bus answers every request: the bus keeper ends  *)
(* an access that no device answers.                                       *)
Fairness == WF_vars(Cycle) /\ WF_vars(Cycle /\ rsp'.ack)

Spec == Init /\ [][Next]_vars /\ Fairness

(* Blocks that the host stores to through the cache hold no address that   *)
(* other bus hosts store to, nor one that the host reads uncached: a       *)
(* write-back would undo foreign stores, an uncached read would miss the   *)
(* store that is still in the cache.                                       *)
Foreign(g) == g.shared \cup {r.addr : r \in {s \in g.requests : s.bypass /\ ~s.rw}}
Separate ==
  \A g \in Generics : \A r \in g.requests :
    r.rw /\ ~r.bypass => \A a \in Foreign(g) : ~(a[1] = r.addr[1] /\ a[2] = r.addr[2])

-----------------------------------------------------------------------------
(* Properties *)

TypeOK ==
  /\ ctrl \in [state : State, sync : BOOLEAN, bus_err : BOOLEAN, pnd_req : BOOLEAN,
               pnd_syn : BOOLEAN, pnd_bp : BOOLEAN, bp_req : BOOLEAN, hit : BOOLEAN,
               cln : BOOLEAN, tag : Tag, idx : Idx, ofs_int : Ofs,
               ofs_ext : 0 .. 2 * BLOCK_WORDS - 1, ofs_buf : 0 .. 2 * BLOCK_WORDS - 1]
  /\ valid \in [Idx -> BOOLEAN] /\ dirty \in [Idx -> BOOLEAN] /\ tag \in [Idx -> Tag]
  /\ data \in [Idx \X Ofs -> Value \cup {Junk}] /\ mem \in [Addr -> Value]
  /\ rsp \in [ack : BOOLEAN, err : BOOLEAN, data : Value \cup {Junk}]

(* A cached or uncached read that ends without error gives the host its    *)
(* own last store, or a value other hosts stored that no fence has made    *)
(* stale (S_CHECK hit, S_READ_DONE to S_CHECK, S_BYPASS).                  *)
ReadCorrect ==
  host_ack /\ ~host_err /\ ~host.req.rw => host_data \in fresh[haddr]

(* Between accesses a word lives in its block if that is cached and in     *)
(* memory otherwise, and a block not marked dirty agrees with memory: no   *)
(* store is forgotten by a write-back, a download or a failed transfer.    *)
Cached(a) == valid[a[2]] /\ tag[a[2]] = a[1]
Coherent ==
  In("S_IDLE") => \A a \in Addr :
    /\ Cached(a) => data[<<a[2], a[3]>>] \in fresh[a]
    /\ ~(Cached(a) /\ dirty[a[2]]) => mem[a] \in fresh[a]

(* When synchronization ends, memory holds every store of the host, and a  *)
(* block is kept, still dirty, exactly if the bus refused one of its words. *)
FenceFlushes ==
  [][In("S_SYNC_NEXT") /\ ctrl'.state = "S_IDLE" =>
       /\ \A i \in Idx : valid'[i] <=> i \in failed
       /\ \A i \in failed : dirty'[i]
       /\ \A a \in Addr : ~Cached(a)' => mem[a] \in fresh[a]]_vars

(* Every access is answered (host_rsp_o.ack), whatever errors the bus      *)
(* reports and although fences go first in S_IDLE.                         *)
RequestAnswered == host.busy ~> host_ack

=============================================================================
