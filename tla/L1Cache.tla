------------------------------ MODULE L1Cache ------------------------------
(***************************************************************************)
(* The two-way write-back, write-allocate L1 cache (l1_cache): its arrays, *)
(* the latched request and the controller.  One action per state of the    *)
(* controller; each is one clock edge, its parameters the values on the    *)
(* input ports at that edge.                                               *)
(*                                                                         *)
(* An address is split as the code splits it, into tag, index and word.    *)
(***************************************************************************)
EXTENDS Integers

CONSTANTS
  Tag, Index, WordSel,
  ByteSel,      \* the bytes of a word, one bit of req_wmask each
  ByteVal,      \* the values of a byte
  ResetAddr,    \* address 0
  PowerUpTag, PowerUpByte   \* what the unreset arrays hold, never observed

ASSUME CacheAssumption ==
  /\ ResetAddr \in [tag : Tag, index : Index, word : WordSel]
  /\ PowerUpTag \in Tag /\ PowerUpByte \in ByteVal

VARIABLES
  state,
  lat,             \* lat_addr, lat_wr, lat_wdata, lat_wmask
  lat_victim_way,
  tag_ram, data_ram, valid_ram, dirty_ram, lru_ram

cache_vars == <<state, lat, lat_victim_way, tag_ram, data_ram, valid_ram,
                dirty_ram, lru_ram>>

Way     == {0, 1}
Other(w) == 1 - w
Entry   == Index \X Way
WordVal == [ByteSel -> ByteVal]
LineVal == [WordSel -> WordVal]
Addr    == [tag : Tag, index : Index, word : WordSel]
Line    == [tag : Tag, index : Index]     \* a line-aligned address

PowerUpLine == [w \in WordSel |-> [b \in ByteSel |-> PowerUpByte]]

LineOf(addr) == [tag |-> addr.tag, index |-> addr.index]

Request == [addr : Addr, wr : BOOLEAN, wdata : WordVal, wmask : SUBSET ByteSel]

States == {"IDLE", "COMPARE_TAG", "WRITEBACK", "WRITEBACK_WAIT", "FILL",
           "FILL_WAIT", "READOUT"}

(* line_write_word: the bytes of one word that the mask selects.           *)
LineWriteWord(line, word, wdata, wmask) ==
  [line EXCEPT ![word] = [b \in ByteSel |-> IF b \in wmask THEN wdata[b] ELSE @[b]]]

CacheTypeOK ==
  /\ state \in States
  /\ lat \in Request
  /\ lat_victim_way \in Way
  /\ tag_ram \in [Entry -> Tag] /\ data_ram \in [Entry -> LineVal]
  /\ valid_ram \in [Entry -> BOOLEAN] /\ dirty_ram \in [Entry -> BOOLEAN]
  /\ lru_ram \in [Index -> Way]

(***************************************************************************)
(* Tag comparison.  It looks at the address on the port, not at lat.       *)
(***************************************************************************)
(* Faulty variants: an invalid way can hit; the last way is never looked at.*)
HitWaysInvalidToo(addr) == {w \in Way : tag_ram[<<addr.index, w>>] = addr.tag}
HitWaysNotTheLast(addr) ==
  {w \in {0} : valid_ram[<<addr.index, w>>] /\ tag_ram[<<addr.index, w>>] = addr.tag}

HitWays(addr) ==
  {w \in Way : valid_ram[<<addr.index, w>>] /\ tag_ram[<<addr.index, w>>] = addr.tag}

cache_hit(addr) == HitWays(addr) # {}

(* onehot2bin: the highest bit set, 0 if none is.                          *)
hit_way_val(addr) == IF 1 \in HitWays(addr) THEN 1 ELSE 0

victim_way   == lru_ram[lat.addr.index]
victim       == <<lat.addr.index, victim_way>>

(* Faulty variant: the dirty bit of the other way decides.                 *)
VictimDirtyOfOther ==
  LET e == <<lat.addr.index, Other(victim_way)>> IN valid_ram[e] /\ dirty_ram[e]

victim_dirty == valid_ram[victim] /\ dirty_ram[victim]

(***************************************************************************)
(* Outputs.                                                                *)
(***************************************************************************)
req_ready(addr) ==
  \/ state \in {"IDLE", "READOUT"}
  \/ state = "COMPARE_TAG" /\ cache_hit(addr)

resp_valid(addr) ==
  state = "READOUT" \/ (state = "COMPARE_TAG" /\ cache_hit(addr))

resp_hit(addr) == state = "COMPARE_TAG" /\ cache_hit(addr)

resp_rdata(addr) ==
  LET way == IF state = "READOUT" THEN lat_victim_way ELSE hit_way_val(addr)
  IN  data_ram[<<lat.addr.index, way>>][lat.addr.word]

mem_req_valid == state \in {"WRITEBACK", "FILL"}
mem_req_wr    == state = "WRITEBACK"
mem_req_wdata == data_ram[victim]

(* Faulty variant: the victim is written to the address of the request.    *)
MemReqAddrOfRequest == LineOf(lat.addr)

mem_req_addr ==
  IF mem_req_wr THEN [tag |-> tag_ram[victim], index |-> lat.addr.index]
  ELSE LineOf(lat.addr)

(***************************************************************************)
(* Reset clears state, lat, valid_ram and dirty_ram; lru_ram keeps what    *)
(* the RAM held.                                                           *)
(***************************************************************************)
CacheInit ==
  /\ state = "IDLE"
  /\ lat = [addr |-> ResetAddr, wr |-> FALSE,
            wdata |-> [b \in ByteSel |-> PowerUpByte], wmask |-> {}]
  /\ lat_victim_way \in Way
  /\ tag_ram = [e \in Entry |-> PowerUpTag]
  /\ data_ram = [e \in Entry |-> PowerUpLine]
  /\ valid_ram = [e \in Entry |-> FALSE] /\ dirty_ram = [e \in Entry |-> FALSE]
  /\ lru_ram \in [Index -> Way]

(* Latch the request that is accepted at this edge, and compare it next.   *)
Accept(req_valid, req) ==
  /\ lat' = IF req_valid THEN req ELSE lat
  /\ state' = IF req_valid THEN "COMPARE_TAG" ELSE "IDLE"

arrays == <<tag_ram, data_ram, valid_ram, dirty_ram, lru_ram>>

Idle(req_valid, req) ==
  /\ state = "IDLE"
  /\ Accept(req_valid, req)
  /\ UNCHANGED <<lat_victim_way, arrays>>

(* Faulty variant: a write hit does not make the line dirty.               *)
WriteHitStaysClean(hit) ==
  /\ data_ram' = [data_ram EXCEPT ![hit] =
                    LineWriteWord(@, lat.addr.word, lat.wdata, lat.wmask)]
  /\ UNCHANGED dirty_ram

WriteHit(hit) ==
  /\ data_ram' = [data_ram EXCEPT ![hit] =
                    LineWriteWord(@, lat.addr.word, lat.wdata, lat.wmask)]
  /\ dirty_ram' = [dirty_ram EXCEPT ![hit] = TRUE]

(* A read hit clears the dirty bit of the way that would be evicted next.  *)
ReadHit ==
  /\ dirty_ram' = [dirty_ram EXCEPT ![victim] = FALSE]
  /\ UNCHANGED data_ram

(* The request latched is served from the way in which the port hits.      *)
CompareHit(req_valid, req) ==
  LET hit == <<lat.addr.index, hit_way_val(req.addr)>> IN
  /\ state = "COMPARE_TAG" /\ cache_hit(req.addr)
  /\ Accept(req_valid, req)
  /\ lru_ram' = [lru_ram EXCEPT ![lat.addr.index] = Other(hit[2])]
  /\ IF lat.wr THEN WriteHit(hit) ELSE ReadHit
  /\ UNCHANGED <<lat_victim_way, tag_ram, valid_ram>>

CompareMiss(req) ==
  /\ state = "COMPARE_TAG" /\ ~cache_hit(req.addr)
  /\ state' = IF victim_dirty THEN "WRITEBACK" ELSE "FILL"
  /\ lat_victim_way' = victim_way
  /\ UNCHANGED <<lat, arrays>>

Wait(from, event, to) ==
  /\ state = from
  /\ state' = IF event THEN to ELSE from
  /\ UNCHANGED <<lat, lat_victim_way, arrays>>

(* Faulty variants: the handshake is not waited for; the fill is forgotten.*)
WritebackUnaccepted(mem_req_ready) == Wait("WRITEBACK", TRUE, "WRITEBACK_WAIT")
WritebackOnly(mem_wr_ack) == Wait("WRITEBACK_WAIT", mem_wr_ack, "IDLE")

Writeback(mem_req_ready)  == Wait("WRITEBACK", mem_req_ready, "WRITEBACK_WAIT")
WritebackWait(mem_wr_ack) == Wait("WRITEBACK_WAIT", mem_wr_ack, "FILL")
Fill(mem_req_ready)       == Wait("FILL", mem_req_ready, "FILL_WAIT")

(* The line arrives; a write is merged into it on the way in.              *)
FillWait(mem_resp_valid, mem_resp_rdata) ==
  LET way == <<lat.addr.index, lat_victim_way>> IN
  \/ ~mem_resp_valid /\ Wait("FILL_WAIT", FALSE, "READOUT")
  \/ /\ mem_resp_valid /\ state = "FILL_WAIT"
     /\ state' = "READOUT"
     /\ data_ram' = [data_ram EXCEPT ![way] =
          IF lat.wr
            THEN LineWriteWord(mem_resp_rdata, lat.addr.word, lat.wdata, lat.wmask)
            ELSE mem_resp_rdata]
     /\ tag_ram' = [tag_ram EXCEPT ![way] = lat.addr.tag]
     /\ valid_ram' = [valid_ram EXCEPT ![way] = TRUE]
     /\ dirty_ram' = [dirty_ram EXCEPT ![way] = lat.wr]
     /\ lru_ram' = [lru_ram EXCEPT ![lat.addr.index] = Other(lat_victim_way)]
     /\ UNCHANGED <<lat, lat_victim_way>>

Readout(req_valid, req) ==
  /\ state = "READOUT"
  /\ Accept(req_valid, req)
  /\ UNCHANGED <<lat_victim_way, arrays>>

=============================================================================
