--------------------------- MODULE L1Bench_proofs ---------------------------
(***************************************************************************)
(* Theorems about the cache in its bench, for any number of sets, tags,    *)
(* words and bytes, any delays and any transactions.                       *)
(***************************************************************************)
EXTENDS L1Bench, TLAPS

(* The driver waits for a response exactly while the cache is not idle,    *)
(* and keeps the request that the cache has latched on the port.           *)
DriverInv ==
  /\ state = "IDLE" <=> drv # "response"
  /\ state # "IDLE" => req = lat

(* The memory request the cache makes in this state.                       *)
Requested == [wr |-> mem_req_wr, addr |-> mem_req_addr, wdata |-> mem_req_wdata]

(* The responder is in step with the controller, and what it captured is   *)
(* still what the cache asks for when it takes it.                         *)
ResponderInv ==
  /\ mem_phase = "busy" => mem_delay >= 1
  /\ state \in {"WRITEBACK", "FILL"} => mem_phase \in {"idle", "ready"}
  /\ state \in {"WRITEBACK_WAIT", "FILL_WAIT"} => mem_phase \in {"busy", "answer"}
  /\ state \in {"IDLE", "COMPARE_TAG", "READOUT"} => mem_phase = "idle"
  /\ mem_phase = "ready" => mem_capt = Requested
  /\ state = "WRITEBACK_WAIT" => mem_capt.wr
  /\ state = "FILL_WAIT" => ~mem_capt.wr /\ mem_capt.addr = LineOf(lat.addr)

Evicting == state \in {"WRITEBACK", "WRITEBACK_WAIT"}
Missing == state \in {"WRITEBACK", "WRITEBACK_WAIT", "FILL", "FILL_WAIT"}

(* While a miss is served the line is in no way, and the way chosen is     *)
(* still the one the LRU bits name.                                        *)
MissInv ==
  Missing => /\ lat_victim_way = victim_way
             /\ Holders(LineOf(lat.addr)) = {}

(* Only what is valid and dirty is written back.                           *)
EvictInv == Evicting => valid_ram[victim]

(* What a valid way holds is in memory unless it is dirty or lost.         *)
SavedIn(e) == data_ram[e] = backing_mem[HeldLine(e)]
CleanInv ==
  \A e \in Entry : valid_ram[e] /\ ~dirty_ram[e] /\ HeldLine(e) \notin lost => SavedIn(e)

(* The victim's write has been committed when its acknowledge is awaited.  *)
SavedInv == state = "WRITEBACK_WAIT" => SavedIn(victim)

(* The edges a request to memory takes from here to its answer, and those  *)
(* the driver takes from here to its response, at most.                    *)
MemoryEdges ==
  CASE mem_phase = "idle" -> LongestDelay + 3
    [] mem_phase = "ready" -> LongestDelay + 2
    [] mem_phase = "busy" -> mem_delay + 1
    [] OTHER -> 1

EdgesLeft ==
  CASE Evicting -> MemoryEdges + LongestDelay + 4
    [] state \in {"FILL", "FILL_WAIT"} -> MemoryEdges + 1
    [] state = "COMPARE_TAG" -> LongestWait
    [] OTHER -> 1

WaitInv ==
  /\ drv # "response" => waited = 0
  /\ drv = "response" => waited + EdgesLeft <= LongestWait

IInv ==
  /\ TypeOK
  /\ DriverInv
  /\ ResponderInv
  /\ WaitInv
  /\ MissInv
  /\ EvictInv
  /\ OneCopy
  /\ CleanInv
  /\ SavedInv
  /\ VictimIsSaved

CacheStep ==
  \/ Idle(req_valid, req) \/ CompareHit(req_valid, req) \/ CompareMiss(req)
  \/ Writeback(mem_req_ready) \/ WritebackWait(mem_wr_ack) \/ Fill(mem_req_ready)
  \/ FillWait(mem_resp_valid, mem_resp_rdata) \/ Readout(req_valid, req)

LEMMA CycleSplits == Next => CacheStep /\ Testbench
  BY DEF Next, CacheStep, CycleIdle, CycleCompareHit, CycleCompareMiss, CycleWriteback,
         CycleWritebackWait, CycleFill, CycleFillWait, CycleReadout

-----------------------------------------------------------------------------
(* Types.                                                                  *)

LEMMA LineWriteWordType ==
  ASSUME NEW line \in LineVal, NEW word \in WordSel, NEW wdata \in WordVal,
         NEW wmask \in SUBSET ByteSel
  PROVE  LineWriteWord(line, word, wdata, wmask) \in LineVal
  BY DEF LineWriteWord, LineVal, WordVal

LEMMA PowerUpLineType == PowerUpLine \in LineVal
  BY CacheAssumption DEF PowerUpLine, LineVal, WordVal

LEMMA OtherWay == ASSUME NEW w \in Way PROVE Other(w) \in Way
  BY DEF Way, Other

(* What is used of a request and of a line.                                *)
LEMMA RequestParts ==
  ASSUME NEW r \in Request
  PROVE  /\ r.addr \in Addr /\ r.addr.tag \in Tag /\ r.addr.index \in Index
         /\ r.addr.word \in WordSel
         /\ r.wr \in BOOLEAN /\ r.wdata \in WordVal /\ r.wmask \in SUBSET ByteSel
         /\ LineOf(r.addr) \in Line
  BY DEF Request, Addr, LineOf, Line

LEMMA HitWayType == ASSUME NEW a PROVE hit_way_val(a) \in Way
  BY DEF hit_way_val, Way

LEMMA EntryType == ASSUME NEW i \in Index, NEW w \in Way PROVE <<i, w>> \in Entry
  BY DEF Entry

LEMMA VictimType ==
  ASSUME CacheTypeOK
  PROVE  victim \in Entry /\ victim_way \in Way /\ HeldLine(victim) \in Line
  <1>1. lat.addr.index \in Index
    BY RequestParts DEF CacheTypeOK
  <1>2. victim_way \in Way
    BY <1>1 DEF victim_way, CacheTypeOK
  <1>3. victim \in Entry /\ victim[1] \in Index
    BY <1>1, <1>2 DEF victim, Entry
  <1>4. tag_ram[victim] \in Tag
    BY <1>3 DEF CacheTypeOK
  <1> QED
    BY <1>2, <1>3, <1>4 DEF HeldLine, Line

LEMMA CacheKeepsTypes ==
  ASSUME CacheTypeOK, req \in Request, mem_resp_rdata \in LineVal, CacheStep
  PROVE  CacheTypeOK'
  <1> USE DEF CacheTypeOK
  <1>0. /\ lat.addr.tag \in Tag /\ lat.addr.index \in Index /\ lat.addr.word \in WordSel
        /\ lat.wr \in BOOLEAN /\ lat.wdata \in WordVal /\ lat.wmask \in SUBSET ByteSel
    BY RequestParts
  <1>1. ASSUME Accept(req_valid, req) PROVE lat' \in Request /\ state' \in States
    BY <1>1 DEF Accept, States
  <1>2. CASE Idle(req_valid, req)
    BY <1>2, <1>1 DEF Idle, arrays
  <1>3. CASE Readout(req_valid, req)
    BY <1>3, <1>1 DEF Readout, arrays
  <1>4. CASE CompareHit(req_valid, req)
    <2> DEFINE hit == <<lat.addr.index, hit_way_val(req.addr)>>
    <2>1. hit \in Entry /\ hit[2] \in Way
      BY <1>0, HitWayType, EntryType
    <2>2. lru_ram' \in [Index -> Way]
      BY <1>4, <2>1, OtherWay, <1>0 DEF CompareHit
    <2>3. data_ram' \in [Entry -> LineVal] /\ dirty_ram' \in [Entry -> BOOLEAN]
      <3>1. CASE lat.wr
        <4>1. LineWriteWord(data_ram[hit], lat.addr.word, lat.wdata, lat.wmask) \in LineVal
          BY <2>1, <1>0, LineWriteWordType
        <4> QED
          BY <3>1, <1>4, <2>1, <4>1 DEF CompareHit, WriteHit
      <3>2. CASE ~lat.wr
        BY <3>2, <1>4, VictimType DEF CompareHit, ReadHit
      <3> QED BY <3>1, <3>2
    <2> QED
      BY <1>4, <1>1, <2>2, <2>3 DEF CompareHit
  <1>5. CASE CompareMiss(req)
    BY <1>5, VictimType DEF CompareMiss, States, arrays
  <1>6. CASE Writeback(mem_req_ready) \/ WritebackWait(mem_wr_ack) \/ Fill(mem_req_ready)
    BY <1>6 DEF Writeback, WritebackWait, Fill, Wait, States, arrays
  <1>7. CASE FillWait(mem_resp_valid, mem_resp_rdata)
    <2> DEFINE way == <<lat.addr.index, lat_victim_way>>
    <2>1. way \in Entry
      BY <1>0, EntryType
    <2>2. CASE ~mem_resp_valid /\ Wait("FILL_WAIT", FALSE, "READOUT")
      BY <2>2 DEF Wait, States, arrays
    <2>3. CASE mem_resp_valid
      <3>1. data_ram' \in [Entry -> LineVal]
        BY <1>7, <2>3, <2>1, <1>0, LineWriteWordType DEF FillWait
      <3>2. lru_ram' \in [Index -> Way]
        BY <1>7, <2>3, <1>0, OtherWay DEF FillWait
      <3> QED
        BY <1>7, <2>3, <2>1, <1>0, <3>1, <3>2 DEF FillWait, States
    <2> QED
      BY <1>7, <2>2, <2>3 DEF FillWait
  <1> QED
    BY <1>2, <1>3, <1>4, <1>5, <1>6, <1>7 DEF CacheStep

LEMMA ResponseType == ASSUME TypeOK PROVE mem_resp_rdata \in LineVal
  BY DEF TypeOK, mem_resp_rdata

LEMMA DriverKeepsTypes ==
  ASSUME TypeOK, Driver
  PROVE  /\ drv' \in {"item", "request", "response"} /\ req' \in Request
         /\ waited' \in 0 .. timeout_cycles - 1
  <1> USE DEF TypeOK, timeout_cycles
  <1>1. GetItem => /\ drv' \in {"item", "request", "response"} /\ req' \in Request
                   /\ waited' \in 0 .. timeout_cycles - 1
    BY BenchAssumption DEF GetItem
  <1>2. NoAnswer => /\ drv' \in {"item", "request", "response"} /\ req' \in Request
                    /\ waited' \in 0 .. timeout_cycles - 1
    BY <1>1 DEF NoAnswer, WaitOn
  <1> QED
    BY <1>1, <1>2 DEF Driver

LEMMA MemRequestType ==
  ASSUME CacheTypeOK PROVE Requested \in [wr : BOOLEAN, addr : Line, wdata : LineVal]
  <1>1. mem_req_addr \in Line
    BY VictimType, RequestParts DEF mem_req_addr, HeldLine, CacheTypeOK, victim
  <1>2. mem_req_wdata \in LineVal
    BY VictimType DEF mem_req_wdata, CacheTypeOK
  <1> QED
    BY <1>1, <1>2 DEF Requested, mem_req_wr

LEMMA ResponderKeepsTypes ==
  ASSUME TypeOK, mem_phase = "busy" => mem_delay >= 1, Responder
  PROVE  /\ mem_phase' \in {"idle", "ready", "busy", "answer"}
         /\ mem_capt' \in [wr : BOOLEAN, addr : Line, wdata : LineVal]
         /\ mem_delay' \in 0 .. 3
         /\ backing_mem' \in [Line -> LineVal]
         /\ mem_phase' = "busy" => mem_delay' >= 1
  <1> USE DEF TypeOK
  <1>1. CASE Capture
    BY <1>1, MemRequestType DEF Capture, Requested
  <1>2. CASE TakeRequest
    <2>1. mem_delay' \in 1 .. 3
      BY <1>2, BenchAssumption DEF TakeRequest
    <2>2. backing_mem' \in [Line -> LineVal]
      BY <1>2 DEF TakeRequest
    <2> QED
      BY <1>2, <2>1, <2>2 DEF TakeRequest
  <1>3. CASE Delay
    BY <1>3 DEF Delay
  <1>4. CASE Answered
    <2>1. NoCapture \in [wr : BOOLEAN, addr : Line, wdata : LineVal]
      BY CacheAssumption, PowerUpLineType DEF NoCapture, LineOf, Line
    <2> QED
      BY <1>4, <2>1 DEF Answered
  <1>5. CASE NoRequest
    BY <1>5 DEF NoRequest, mem_vars
  <1> QED
    BY <1>1, <1>2, <1>3, <1>4, <1>5 DEF Responder

(* The scoreboard's model of a cache.                                      *)
RefWay == [valid : BOOLEAN, dirty : BOOLEAN, tag : Tag, data : LineVal]
RefTypeOK ==
  /\ ref_cache \in [Entry -> RefWay] /\ ref_lru \in [Index -> Way]
  /\ ref_mem \in [Line -> LineVal]

(* The way Check looks into is one that hits.                              *)
RefHitWay ==
  LET hits == RefHits(req.addr.index, req.addr.tag)
  IN  <<req.addr.index, CHOOSE w \in hits : \A v \in hits : w <= v>>

LEMMA RefHitWayHits ==
  ASSUME RefHits(req.addr.index, req.addr.tag) # {}
  PROVE  RefHitWay[1] = req.addr.index
         /\ RefHitWay[2] \in RefHits(req.addr.index, req.addr.tag)
  <1> DEFINE hits == RefHits(req.addr.index, req.addr.tag)
  <1>1. hits \subseteq {0, 1}
    BY DEF RefHits, Way
  <1>2. \E w \in hits : \A v \in hits : w <= v
    BY <1>1
  <1>3. (CHOOSE w \in hits : \A v \in hits : w <= v) \in hits
    BY <1>2
  <1> QED
    BY <1>3 DEF RefHitWay

LEMMA CheckCases ==
  ASSUME Check
  PROVE  \/ RefHits(req.addr.index, req.addr.tag) # {} /\ RefHit(RefHitWay)
         \/ RefHits(req.addr.index, req.addr.tag) = {} /\ RefMiss
  BY DEF Check, RefHitWay

LEMMA ScoreboardKeepsTypes ==
  ASSUME TypeOK, Scoreboard PROVE RefTypeOK'
  <1>1. RefTypeOK
    BY DEF TypeOK, RefTypeOK, RefWay
  <1> DEFINE a == req.addr
             way == <<a.index, ref_lru[a.index]>>
             old == ref_cache[way]
             mem == IF old.valid /\ old.dirty
                      THEN [ref_mem EXCEPT ![[tag |-> old.tag, index |-> a.index]] = old.data]
                      ELSE ref_mem
             fill == mem[LineOf(a)]
  <1>2. /\ a.tag \in Tag /\ a.index \in Index /\ a.word \in WordSel /\ LineOf(a) \in Line
        /\ req.wr \in BOOLEAN /\ req.wdata \in WordVal /\ req.wmask \in SUBSET ByteSel
    BY RequestParts DEF TypeOK
  <1>3. CASE Responded
    <2>1. Check
      BY <1>3 DEF Scoreboard
    <2>2. CASE RefHits(a.index, a.tag) # {} /\ RefHit(RefHitWay)
      <3> DEFINE hit == RefHitWay
      <3>1. hit \in Entry /\ hit = <<a.index, hit[2]>> /\ hit[2] \in Way
        <4>1. hit[2] \in Way
          BY <2>2, RefHitWayHits DEF RefHits
        <4>2. hit = <<a.index, hit[2]>>
          BY DEF RefHitWay
        <4> QED
          BY <4>1, <4>2, <1>2, EntryType
      <3>2. ref_cache[hit] \in RefWay
        BY <3>1, <1>1 DEF RefTypeOK
      <3>3. LineWriteWord(ref_cache[hit].data, a.word, req.wdata, req.wmask) \in LineVal
        BY <3>2, <1>2, LineWriteWordType DEF RefWay
      <3>4. ref_cache' \in [Entry -> RefWay]
        BY <2>2, <3>1, <3>2, <3>3, <1>1 DEF RefHit, RefWay, RefTypeOK
      <3>5. ref_lru' \in [Index -> Way] /\ ref_mem' = ref_mem
        BY <2>2, <3>1, <1>1, <1>2, OtherWay DEF RefHit, RefTypeOK
      <3> QED
        BY <3>4, <3>5, <1>1 DEF RefTypeOK
    <2>3. CASE RefMiss
      <3>1. way \in Entry /\ ref_lru[a.index] \in Way
        BY <1>1, <1>2, EntryType DEF RefTypeOK
      <3>2. old \in RefWay
        BY <3>1, <1>1 DEF RefTypeOK
      <3>3. mem \in [Line -> LineVal]
        BY <3>2, <1>1, <1>2 DEF RefTypeOK, RefWay, Line
      <3>4. fill \in LineVal
        BY <3>3, <1>2
      <3>5. LineWriteWord(fill, a.word, req.wdata, req.wmask) \in LineVal
        BY <3>4, <1>2, LineWriteWordType
      <3> DEFINE new == [valid |-> TRUE, dirty |-> req.wr, tag |-> a.tag,
                         data |-> IF req.wr
                                    THEN LineWriteWord(fill, a.word, req.wdata, req.wmask)
                                    ELSE fill]
      <3>6. new \in RefWay
        BY <3>4, <3>5, <1>2 DEF RefWay
      <3>7. ref_mem' = mem /\ ref_cache' = [ref_cache EXCEPT ![way] = new]
            /\ ref_lru' = [ref_lru EXCEPT ![a.index] = Other(ref_lru[a.index])]
        BY <2>3 DEF RefMiss
      <3> HIDE DEF way, mem, new
      <3> QED
        BY <3>1, <3>3, <3>6, <3>7, <1>1, <1>2, OtherWay DEF RefTypeOK
    <2> QED
      BY <2>1, <2>2, <2>3, CheckCases
  <1>4. CASE ~Responded
    BY <1>4, <1>1 DEF Scoreboard, ref_vars, RefTypeOK
  <1> QED
    BY <1>3, <1>4

LEMMA RememberKeepsTypes ==
  ASSUME TypeOK, Remember PROVE lost' \in SUBSET Line /\ lost \subseteq lost'
  <1>1. [tag |-> tag_ram[victim], index |-> lat.addr.index] = HeldLine(victim)
    BY DEF HeldLine, victim
  <1> QED
    BY <1>1, VictimType DEF Remember, TypeOK

LEMMA KeepsTypes ==
  ASSUME TypeOK, mem_phase = "busy" => mem_delay >= 1, Next
  PROVE  TypeOK' /\ (mem_phase' = "busy" => mem_delay' >= 1)
  <1>1. CacheStep /\ Driver /\ Responder /\ Scoreboard /\ Remember
    BY CycleSplits DEF Testbench
  <1>2. CacheTypeOK'
    BY <1>1, CacheKeepsTypes, ResponseType DEF TypeOK
  <1>3. RefTypeOK' /\ lost' \subseteq Line
    BY <1>1, ScoreboardKeepsTypes, RememberKeepsTypes
  <1> QED
    BY <1>1, <1>2, <1>3, DriverKeepsTypes, ResponderKeepsTypes DEF TypeOK, RefTypeOK, RefWay

-----------------------------------------------------------------------------
(* The kinds of cycle there are: what cache and responder do together.     *)

SameCache == UNCHANGED <<lat, lat_victim_way, arrays>>

Presents ==
  /\ state \in {"WRITEBACK", "FILL"} /\ mem_phase = "idle"
  /\ state' = state /\ SameCache
  /\ mem_phase' = "ready" /\ mem_capt' = Requested /\ backing_mem' = backing_mem

Commits ==
  /\ state \in {"WRITEBACK", "FILL"} /\ mem_phase = "ready"
  /\ state' = (IF state = "WRITEBACK" THEN "WRITEBACK_WAIT" ELSE "FILL_WAIT") /\ SameCache
  /\ mem_phase' = "busy" /\ mem_capt' = mem_capt
  /\ backing_mem' = IF mem_capt.wr
                      THEN [backing_mem EXCEPT ![mem_capt.addr] = mem_capt.wdata]
                      ELSE backing_mem

Waits ==
  /\ state \in {"WRITEBACK_WAIT", "FILL_WAIT"} /\ mem_phase = "busy"
  /\ state' = state /\ SameCache
  /\ mem_phase' \in {"busy", "answer"} /\ mem_capt' = mem_capt /\ backing_mem' = backing_mem

Acknowledged ==
  /\ state = "WRITEBACK_WAIT" /\ mem_phase = "answer"
  /\ state' = "FILL" /\ SameCache
  /\ mem_phase' = "idle" /\ backing_mem' = backing_mem

Filled ==
  /\ state = "FILL_WAIT" /\ mem_phase = "answer"
  /\ FillWait(TRUE, mem_resp_rdata)
  /\ mem_phase' = "idle" /\ backing_mem' = backing_mem

Kinds ==
  \/ /\ Idle(req_valid, req) \/ Readout(req_valid, req)
        \/ CompareHit(req_valid, req) \/ CompareMiss(req)
     /\ UNCHANGED mem_vars
  \/ Presents \/ Commits \/ Waits \/ Acknowledged \/ Filled

LEMMA Cycles ==
  ASSUME ResponderInv, CacheStep, Responder PROVE Kinds
  <1> USE DEF ResponderInv
  <1>1. CASE Idle(req_valid, req) \/ Readout(req_valid, req)
             \/ CompareHit(req_valid, req) \/ CompareMiss(req)
    <2>1. state \in {"IDLE", "COMPARE_TAG", "READOUT"}
      BY <1>1 DEF Idle, Readout, CompareHit, CompareMiss
    <2>2. UNCHANGED mem_vars
      BY <2>1 DEF Responder, Capture, TakeRequest, Delay, Answered, NoRequest, mem_req_valid
    <2> QED
      BY <1>1, <2>2 DEF Kinds
  <1>2. CASE Writeback(mem_req_ready) \/ Fill(mem_req_ready)
    <2>1. state \in {"WRITEBACK", "FILL"} /\ mem_phase \in {"idle", "ready"}
      BY <1>2 DEF Writeback, Fill, Wait
    <2>2. CASE mem_phase = "idle"
      <3>1. Capture
        BY <2>1, <2>2 DEF Responder, TakeRequest, Delay, Answered, NoRequest, mem_req_valid
      <3> QED
        BY <1>2, <2>1, <2>2, <3>1
        DEF Kinds, Presents, Capture, Requested, Writeback, Fill, Wait, mem_req_ready, SameCache
    <2>3. CASE mem_phase = "ready"
      <3>1. TakeRequest
        BY <2>3 DEF Responder, Capture, Delay, Answered, NoRequest
      <3> QED
        BY <1>2, <2>1, <2>3, <3>1
        DEF Kinds, Commits, TakeRequest, Writeback, Fill, Wait, mem_req_ready, SameCache
    <2> QED
      BY <2>1, <2>2, <2>3
  <1>3. CASE WritebackWait(mem_wr_ack) \/ FillWait(mem_resp_valid, mem_resp_rdata)
    <2>1. state \in {"WRITEBACK_WAIT", "FILL_WAIT"} /\ mem_phase \in {"busy", "answer"}
      BY <1>3 DEF WritebackWait, FillWait, Wait
    <2>2. CASE mem_phase = "busy"
      <3>1. Delay
        BY <2>1, <2>2 DEF Responder, Capture, TakeRequest, Answered, NoRequest
      <3>2. SameCache /\ state' = state
        BY <1>3, <2>2 DEF WritebackWait, FillWait, Wait, mem_wr_ack, mem_resp_valid, SameCache
      <3> QED
        BY <2>1, <2>2, <3>1, <3>2 DEF Kinds, Waits, Delay
    <2>3. CASE mem_phase = "answer"
      <3>1. Answered
        BY <2>3 DEF Responder, Capture, TakeRequest, Delay, NoRequest
      <3>2. CASE WritebackWait(mem_wr_ack)
        BY <2>3, <3>1, <3>2
        DEF Kinds, Acknowledged, Answered, WritebackWait, Wait, mem_wr_ack, SameCache
      <3>3. CASE FillWait(mem_resp_valid, mem_resp_rdata)
        <4>1. state = "FILL_WAIT"
          BY <3>3 DEF FillWait, Wait
        <4>2. mem_resp_valid = TRUE
          BY <4>1, <2>3 DEF mem_resp_valid
        <4> QED
          BY <2>3, <3>1, <3>3, <4>1, <4>2 DEF Kinds, Filled, Answered
      <3> QED
        BY <1>3, <3>2, <3>3
    <2> QED
      BY <2>1, <2>2, <2>3
  <1> QED
    BY <1>1, <1>2, <1>3 DEF CacheStep

-----------------------------------------------------------------------------
(* Control: driver, controller and responder in step.                      *)

(* A driver whose waits all end in time.                                   *)
Drives ==
  \/ drv = "item" /\ GetItem
  \/ Ready /\ drv' = "response" /\ waited' = 0 /\ UNCHANGED req
  \/ Responded /\ GetItem
  \/ drv # "item" /\ ~Ready /\ ~Responded /\ WaitOn

LEMMA EdgesLeftType ==
  ASSUME TypeOK, ResponderInv PROVE EdgesLeft \in Nat /\ EdgesLeft >= 1
  <1> USE DEF LongestWait, LongestDelay
  <1>1. MemoryEdges \in Nat /\ MemoryEdges >= 1
    BY DEF MemoryEdges, TypeOK
  <1> QED
    BY <1>1 DEF EdgesLeft, Evicting

(* No wait is given up: a request is accepted at the first edge, and a     *)
(* response comes long before the limit.                                   *)
LEMMA NoneGivenUp ==
  ASSUME TypeOK, ResponderInv, WaitInv, Driver PROVE Drives
  <1>1. drv = "item" \/ waited + 1 < timeout_cycles
    <2>1. EdgesLeft \in Nat /\ EdgesLeft >= 1
      BY EdgesLeftType
    <2>2. drv = "response" => waited + EdgesLeft <= 14
      BY DEF WaitInv, LongestWait, LongestDelay
    <2>3. waited \in Nat /\ drv \in {"item", "request", "response"}
      BY DEF TypeOK
    <2> QED
      BY <2>1, <2>2, <2>3 DEF WaitInv, LongestWait, LongestDelay, timeout_cycles, TypeOK
  <1> QED
    BY <1>1 DEF Driver, Drives, NoAnswer

LEMMA KeepsDriverInv ==
  ASSUME DriverInv, Kinds, Drives PROVE DriverInv'
  <1> USE DEF DriverInv
  <1>1. CASE Idle(req_valid, req)
    BY <1>1 DEF Idle, Accept, Drives, Ready, Responded, WaitOn, GetItem, req_valid, req_ready
  <1>2. CASE Readout(req_valid, req) \/ CompareHit(req_valid, req)
    BY <1>2 DEF Readout, CompareHit, Accept, Drives, Ready, Responded, WaitOn, GetItem, req_valid, resp_valid
  <1>3. CASE CompareMiss(req)
    BY <1>3 DEF CompareMiss, Drives, Ready, Responded, WaitOn, resp_valid
  <1>4. CASE Presents \/ Commits \/ Waits \/ Acknowledged
    BY <1>4 DEF Presents, Commits, Waits, Acknowledged, SameCache, Drives, Ready, Responded, WaitOn, resp_valid
  <1>5. CASE Filled
    BY <1>5 DEF Filled, FillWait, Drives, Ready, Responded, WaitOn, resp_valid
  <1> QED
    BY <1>1, <1>2, <1>3, <1>4, <1>5 DEF Kinds

(* The request on the memory port depends on nothing else.                 *)
LEMMA RequestedSame ==
  ASSUME SameCache, state' = state PROVE Requested' = Requested
  BY DEF SameCache, arrays, Requested, mem_req_wr, mem_req_addr, mem_req_wdata, victim,
         victim_way

LEMMA KeepsResponderInv ==
  ASSUME TypeOK, ResponderInv, Kinds, Next PROVE ResponderInv'
  <1>0. mem_phase' = "busy" => mem_delay' >= 1
    BY KeepsTypes DEF ResponderInv
  <1>1. CASE Idle(req_valid, req) \/ Readout(req_valid, req)
             \/ CompareHit(req_valid, req) \/ CompareMiss(req)
    <2>1. /\ state \in {"IDLE", "COMPARE_TAG", "READOUT"}
          /\ state' \in {"IDLE", "COMPARE_TAG", "WRITEBACK", "FILL"}
      BY <1>1 DEF Idle, Readout, CompareHit, CompareMiss, Accept
    <2>2. mem_phase = "idle" /\ mem_phase' = "idle"
      BY <1>1, <2>1 DEF Kinds, Presents, Commits, Waits, Acknowledged, Filled, mem_vars,
                        ResponderInv
    <2> QED
      BY <2>1, <2>2 DEF ResponderInv
  <1>2. CASE Presents
    BY <1>0, <1>2, RequestedSame DEF Presents, ResponderInv
  <1>3. CASE Commits
    <2>0. mem_capt = Requested /\ mem_capt.wr \in BOOLEAN
      BY <1>3 DEF Commits, ResponderInv, TypeOK
    <2>1. state = "WRITEBACK" => mem_capt.wr
      BY <2>0 DEF Requested, mem_req_wr
    <2>2. state = "FILL" => ~mem_capt.wr /\ mem_capt.addr = LineOf(lat.addr)
      BY <2>0 DEF Requested, mem_req_wr, mem_req_addr
    <2>3. mem_capt' = mem_capt /\ LineOf(lat.addr)' = LineOf(lat.addr)
      BY <1>3 DEF Commits, SameCache, LineOf
    <2>4. mem_phase' = "busy" /\ state' \in {"WRITEBACK_WAIT", "FILL_WAIT"}
          /\ (state' = "WRITEBACK_WAIT" => state = "WRITEBACK")
          /\ (state' = "FILL_WAIT" => state = "FILL")
      BY <1>3 DEF Commits
    <2> QED
      BY <1>0, <2>1, <2>2, <2>3, <2>4 DEF ResponderInv
  <1>4. CASE Waits
    BY <1>0, <1>4 DEF Waits, ResponderInv, SameCache
  <1>5. CASE Acknowledged
    BY <1>5 DEF Acknowledged, ResponderInv
  <1>6. CASE Filled
    BY <1>6 DEF Filled, FillWait, ResponderInv
  <1> QED
    BY <1>1, <1>2, <1>3, <1>4, <1>5, <1>6 DEF Kinds

(* With every edge that the driver waits there is one edge less to come.   *)
LEMMA OneEdgeLess ==
  ASSUME TypeOK, DriverInv, ResponderInv, Kinds, Responder,
         state # "IDLE", ~resp_valid(req.addr), TypeOK'
  PROVE  EdgesLeft' <= EdgesLeft - 1
  <1> USE DEF ResponderInv, EdgesLeft, Evicting, LongestWait, LongestDelay
  <1>1. CASE Idle(req_valid, req) \/ Readout(req_valid, req) \/ CompareHit(req_valid, req)
    BY <1>1 DEF Idle, Readout, CompareHit, resp_valid
  <1>2. CASE CompareMiss(req)
    <2>1. state = "COMPARE_TAG" /\ mem_phase = "idle" /\ state' \in {"WRITEBACK", "FILL"}
      BY <1>2 DEF CompareMiss
    <2>2. mem_phase' = "idle"
      BY <1>2, <2>1 DEF Responder, Capture, TakeRequest, Delay, Answered, NoRequest,
                        mem_vars, mem_req_valid
    <2> QED
      BY <2>1, <2>2 DEF MemoryEdges
  <1>3. ASSUME state' = state, state # "COMPARE_TAG", MemoryEdges \in Int,
               MemoryEdges' \in Int, MemoryEdges' <= MemoryEdges - 1,
               Evicting \/ state \in {"FILL", "FILL_WAIT"}
        PROVE  EdgesLeft' <= EdgesLeft - 1
    BY <1>3
  <1>4. CASE Presents
    BY <1>3, <1>4 DEF Presents, MemoryEdges
  <1>5. CASE Commits
    <2>1. TakeRequest
      BY <1>5 DEF Commits, Responder, Capture, Delay, Answered, NoRequest
    <2>2. mem_delay' \in 1 .. 3 /\ mem_phase = "ready" /\ mem_phase' = "busy"
      BY <2>1, BenchAssumption DEF TakeRequest
    <2>3. MemoryEdges = 5 /\ MemoryEdges' = mem_delay' + 1
      BY <2>2 DEF MemoryEdges
    <2>4. \/ state = "WRITEBACK" /\ state' = "WRITEBACK_WAIT"
          \/ state = "FILL" /\ state' = "FILL_WAIT"
      BY <1>5 DEF Commits
    <2> QED
      BY <2>2, <2>3, <2>4
  <1>6. CASE Waits
    <2>1. Delay
      BY <1>6 DEF Waits, Responder, Capture, TakeRequest, Answered, NoRequest
    <2>2. mem_delay \in 1 .. 3
      BY <1>6 DEF Waits, TypeOK
    <2>3. MemoryEdges = mem_delay + 1
      BY <1>6 DEF Waits, MemoryEdges
    <2>4. MemoryEdges' = mem_delay
      BY <2>1, <2>2 DEF Delay, MemoryEdges
    <2> QED
      BY <1>3, <1>6, <2>2, <2>3, <2>4 DEF Waits
  <1>7. CASE Acknowledged
    BY <1>7 DEF Acknowledged, MemoryEdges
  <1>8. CASE Filled
    BY <1>8 DEF Filled, FillWait, MemoryEdges
  <1> QED
    BY <1>1, <1>2, <1>4, <1>5, <1>6, <1>7, <1>8 DEF Kinds

LEMMA KeepsWaitInv ==
  ASSUME TypeOK, DriverInv, ResponderInv, WaitInv, Kinds, Responder, Drives, TypeOK'
  PROVE  WaitInv'
  <1>1. CASE GetItem
    BY <1>1 DEF GetItem, WaitInv
  <1>2. CASE Ready /\ drv' = "response" /\ waited' = 0
    <2>1. state = "IDLE" /\ drv = "request"
      BY <1>2 DEF Ready, DriverInv
    <2>2. Idle(req_valid, req)
      BY <2>1 DEF Kinds, Readout, CompareHit, CompareMiss, Presents, Commits, Waits,
                  Acknowledged, Filled
    <2>3. state' = "COMPARE_TAG"
      BY <2>1, <2>2 DEF Idle, Accept, req_valid
    <2> QED
      BY <1>2, <2>3 DEF WaitInv, EdgesLeft, Evicting, LongestWait, LongestDelay
  <1>3. CASE drv # "item" /\ ~Ready /\ ~Responded /\ WaitOn
    <2>1. drv = "response"
      BY <1>3 DEF Ready, req_ready, DriverInv, TypeOK
    <2>2. drv' = "response" /\ waited' = waited + 1 /\ waited \in Int
      BY <1>3, <2>1 DEF WaitOn, TypeOK
    <2>3. EdgesLeft' <= EdgesLeft - 1
      BY <1>3, <2>1, OneEdgeLess DEF DriverInv, Responded
    <2>4. EdgesLeft \in Int /\ EdgesLeft' \in Int
      BY DEF EdgesLeft, MemoryEdges, TypeOK, LongestWait, LongestDelay
    <2>5. waited + EdgesLeft <= LongestWait /\ LongestWait \in Int
      BY <2>1 DEF WaitInv, LongestWait, LongestDelay
    <2>6. \A a, b, w, l \in Int : a <= b - 1 /\ w + b <= l => w + 1 + a <= l
      OBVIOUS
    <2>7. waited' + EdgesLeft' <= LongestWait
      BY <2>2, <2>3, <2>4, <2>5, <2>6
    <2> QED
      BY <2>2, <2>7 DEF WaitInv, LongestWait, LongestDelay
  <1> QED
    BY <1>1, <1>2, <1>3 DEF Drives

-----------------------------------------------------------------------------
(* The arrays.                                                             *)

(* The arrays change in two kinds of cycle: a hit, and the end of a fill.  *)
ArraysSame == tag_ram' = tag_ram /\ data_ram' = data_ram /\ valid_ram' = valid_ram
              /\ dirty_ram' = dirty_ram /\ lru_ram' = lru_ram

Quiet ==
  \/ Idle(req_valid, req) \/ Readout(req_valid, req) \/ CompareMiss(req)
  \/ Presents \/ Commits \/ Waits \/ Acknowledged

LEMMA QuietOrNot ==
  ASSUME Kinds
  PROVE  \/ Quiet /\ ArraysSame
         \/ CompareHit(req_valid, req) /\ backing_mem' = backing_mem
         \/ Filled
  <1>1. Quiet => ArraysSame
    BY DEF Quiet, ArraysSame, Idle, Readout, CompareMiss, Presents, Commits, Waits,
           Acknowledged, SameCache, arrays
  <1>2. CompareHit(req_valid, req) /\ UNCHANGED mem_vars => backing_mem' = backing_mem
    BY DEF mem_vars
  <1> QED
    BY <1>1, <1>2 DEF Kinds, Quiet

(* Nothing is held elsewhere when tags and valid bits stay.                *)
LEMMA HoldersSame ==
  ASSUME tag_ram' = tag_ram, valid_ram' = valid_ram, NEW l
  PROVE  Holders(l)' = Holders(l)
  BY DEF Holders, HeldLine

(* A miss on the port: no way of the set holds the line.                   *)
LEMMA MissMeansUnheld ==
  ASSUME TypeOK, NEW a \in Addr, ~cache_hit(a) PROVE Holders(LineOf(a)) = {}
  <1> SUFFICES ASSUME NEW e \in Entry, valid_ram[e], HeldLine(e) = LineOf(a) PROVE FALSE
    BY DEF Holders
  <1>1. e = <<e[1], e[2]>> /\ e[2] \in Way
    BY DEF Entry
  <1>2. tag_ram[e] = a.tag /\ e[1] = a.index
    BY DEF HeldLine, LineOf
  <1>3. valid_ram[<<a.index, e[2]>>] /\ tag_ram[<<a.index, e[2]>>] = a.tag
    BY <1>1, <1>2
  <1> QED
    BY <1>1, <1>3 DEF cache_hit, HitWays

(* A hit on the port: the way named holds the line.                        *)
LEMMA HitMeansHeld ==
  ASSUME NEW a \in Addr, cache_hit(a)
  PROVE  /\ <<a.index, hit_way_val(a)>> \in Entry
         /\ valid_ram[<<a.index, hit_way_val(a)>>]
         /\ HeldLine(<<a.index, hit_way_val(a)>>) = LineOf(a)
  <1>1. hit_way_val(a) \in HitWays(a)
    BY DEF cache_hit, hit_way_val, HitWays, Way
  <1> QED
    BY <1>1 DEF HitWays, Entry, HeldLine, LineOf, Addr

LEMMA KeepsMissInv ==
  ASSUME TypeOK, DriverInv, ResponderInv, MissInv, Kinds PROVE MissInv'
  <1>1. CASE CompareMiss(req)
    <2>1. req = lat /\ lat.addr \in Addr
      BY <1>1, RequestParts DEF CompareMiss, DriverInv, TypeOK, CacheTypeOK
    <2>2. Holders(LineOf(lat.addr)) = {}
      BY <1>1, <2>1, MissMeansUnheld DEF CompareMiss
    <2>3. /\ lat' = lat /\ tag_ram' = tag_ram /\ valid_ram' = valid_ram
          /\ lru_ram' = lru_ram /\ lat_victim_way' = victim_way
      BY <1>1 DEF CompareMiss, arrays
    <2>4. Holders(LineOf(lat.addr))' = {}
      BY <2>2, <2>3 DEF Holders, HeldLine, LineOf
    <2> QED
      BY <2>3, <2>4 DEF MissInv, victim_way
  <1>2. CASE Presents \/ Commits \/ Waits \/ Acknowledged
    <2>1. Missing /\ SameCache
      BY <1>2 DEF Presents, Commits, Waits, Acknowledged, Missing
    <2>2. Holders(LineOf(lat.addr))' = Holders(LineOf(lat.addr))
      BY <2>1 DEF Holders, HeldLine, LineOf, SameCache, arrays
    <2> QED
      BY <2>1, <2>2 DEF MissInv, SameCache, arrays, victim_way
  <1>3. CASE Idle(req_valid, req) \/ Readout(req_valid, req)
             \/ CompareHit(req_valid, req) \/ Filled
    BY <1>3 DEF Idle, Readout, CompareHit, Accept, Filled, FillWait, MissInv, Missing
  <1> QED
    BY <1>1, <1>2, <1>3 DEF Kinds

LEMMA KeepsEvictInv ==
  ASSUME EvictInv, Kinds PROVE EvictInv'
  <1>1. CASE CompareMiss(req)
    <2>1. state' = "WRITEBACK" => valid_ram[victim]
      BY <1>1 DEF CompareMiss, victim_dirty
    <2>2. victim' = victim /\ valid_ram' = valid_ram
      BY <1>1 DEF CompareMiss, arrays, victim, victim_way
    <2> QED
      BY <1>1, <2>1, <2>2 DEF CompareMiss, EvictInv, Evicting
  <1>2. CASE Presents \/ Commits \/ Waits \/ Acknowledged
    <2>1. SameCache /\ (Evicting' => Evicting)
      BY <1>2 DEF Presents, Commits, Waits, Acknowledged, Evicting
    <2>2. victim' = victim /\ valid_ram' = valid_ram
      BY <2>1 DEF SameCache, arrays, victim, victim_way
    <2> QED
      BY <2>1, <2>2 DEF EvictInv
  <1>3. CASE Idle(req_valid, req) \/ Readout(req_valid, req)
             \/ CompareHit(req_valid, req) \/ Filled
    BY <1>3 DEF Idle, Readout, CompareHit, Accept, Filled, FillWait, EvictInv, Evicting
  <1> QED
    BY <1>1, <1>2, <1>3 DEF Kinds

(* What the end of a fill does.                                            *)
FilledWay == <<lat.addr.index, lat_victim_way>>
FilledData ==
  IF lat.wr THEN LineWriteWord(mem_resp_rdata, lat.addr.word, lat.wdata, lat.wmask)
  ELSE mem_resp_rdata

LEMMA FillStores ==
  ASSUME TypeOK, Filled
  PROVE  /\ FilledWay \in Entry /\ FilledWay[1] = lat.addr.index
         /\ tag_ram' = [tag_ram EXCEPT ![FilledWay] = lat.addr.tag]
         /\ valid_ram' = [valid_ram EXCEPT ![FilledWay] = TRUE]
         /\ dirty_ram' = [dirty_ram EXCEPT ![FilledWay] = lat.wr]
         /\ data_ram' = [data_ram EXCEPT ![FilledWay] = FilledData]
         /\ lat' = lat /\ lat_victim_way' = lat_victim_way
         /\ \A e \in Entry : HeldLine(e)' = IF e = FilledWay THEN LineOf(lat.addr)
                                          ELSE HeldLine(e)
  <1>1. FilledWay \in Entry /\ FilledWay[1] = lat.addr.index
    BY RequestParts, EntryType DEF FilledWay, TypeOK, CacheTypeOK
  <1>2. /\ tag_ram' = [tag_ram EXCEPT ![FilledWay] = lat.addr.tag]
        /\ valid_ram' = [valid_ram EXCEPT ![FilledWay] = TRUE]
        /\ dirty_ram' = [dirty_ram EXCEPT ![FilledWay] = lat.wr]
        /\ data_ram' = [data_ram EXCEPT ![FilledWay] = FilledData]
        /\ lat' = lat /\ lat_victim_way' = lat_victim_way
    BY DEF Filled, FillWait, FilledWay, FilledData
  <1>3. tag_ram \in [Entry -> Tag]
    BY DEF TypeOK, CacheTypeOK
  <1> HIDE DEF FilledWay
  <1>4. /\ tag_ram'[FilledWay] = lat.addr.tag
        /\ \A e \in Entry \ {FilledWay} : tag_ram'[e] = tag_ram[e]
    BY <1>1, <1>2, <1>3
  <1> QED
    BY <1>1, <1>2, <1>4 DEF HeldLine, LineOf

LEMMA KeepsOneCopy ==
  ASSUME TypeOK, MissInv, OneCopy, Kinds PROVE OneCopy'
  <1>1. CASE tag_ram' = tag_ram /\ valid_ram' = valid_ram
    BY <1>1 DEF OneCopy, HeldLine
  <1>2. CASE Filled
    <2>1. \A e \in Entry : valid_ram[e] => HeldLine(e) # LineOf(lat.addr)
      BY <1>2 DEF Filled, MissInv, Missing, Holders
    <2>2. \A e \in Entry \ {FilledWay} : valid_ram'[e] = valid_ram[e]
      BY <1>2, FillStores DEF TypeOK, CacheTypeOK
    <2> SUFFICES ASSUME NEW e \in Entry, NEW f \in Entry, valid_ram'[e], valid_ram'[f],
                        HeldLine(e)' = HeldLine(f)', e # f
                 PROVE  FALSE
      BY DEF OneCopy
    <2>3. CASE e = FilledWay \/ f = FilledWay
      BY <1>2, <2>1, <2>2, <2>3, FillStores
    <2>4. CASE e # FilledWay /\ f # FilledWay
      BY <1>2, <2>2, <2>4, FillStores DEF OneCopy
    <2> QED
      BY <2>3, <2>4
  <1>3. Quiet /\ ArraysSame => tag_ram' = tag_ram /\ valid_ram' = valid_ram
    BY DEF ArraysSame
  <1>4. CompareHit(req_valid, req) => tag_ram' = tag_ram /\ valid_ram' = valid_ram
    BY DEF CompareHit
  <1> QED
    BY <1>1, <1>2, <1>3, <1>4, QuietOrNot

-----------------------------------------------------------------------------
(* The data.                                                               *)

(* A write-back stores what its victim holds under the victim's own line.  *)
LEMMA CommitStores ==
  ASSUME TypeOK, ResponderInv, EvictInv, Commits
  PROVE  \/ state = "FILL" /\ state' = "FILL_WAIT" /\ backing_mem' = backing_mem
         \/ /\ state = "WRITEBACK" /\ state' = "WRITEBACK_WAIT" /\ valid_ram[victim]
            /\ backing_mem' =
                 [backing_mem EXCEPT ![HeldLine(victim)] = data_ram[victim]]
  <1>1. mem_capt = Requested /\ mem_capt.wr \in BOOLEAN /\ state \in {"WRITEBACK", "FILL"}
    BY DEF Commits, ResponderInv, TypeOK
  <1>2. CASE state = "FILL"
    <2>1. ~mem_capt.wr
      BY <1>1, <1>2 DEF Requested, mem_req_wr
    <2> QED
      BY <1>2, <2>1 DEF Commits
  <1>3. CASE state = "WRITEBACK"
    <2>1. mem_capt.wr = TRUE /\ mem_capt.wdata = data_ram[victim]
      BY <1>1, <1>3 DEF Requested, mem_req_wr, mem_req_wdata
    <2>2. mem_capt.addr = HeldLine(victim)
      BY <1>1, <1>3 DEF Requested, mem_req_wr, mem_req_addr, HeldLine, victim
    <2>3. valid_ram[victim]
      BY <1>3 DEF EvictInv, Evicting
    <2> QED
      BY <1>3, <2>1, <2>2, <2>3 DEF Commits
  <1> QED
    BY <1>1, <1>2, <1>3

LEMMA KeepsCleanInv ==
  ASSUME TypeOK, DriverInv, ResponderInv, EvictInv, OneCopy, CleanInv, Kinds, Remember
  PROVE  CleanInv'
  <1>1. lost \subseteq lost'
    BY RememberKeepsTypes
  <1>2. CASE Commits
    <2>1. ArraysSame /\ \A e \in Entry : HeldLine(e)' = HeldLine(e)
      BY <1>2 DEF Commits, SameCache, arrays, ArraysSame, HeldLine
    <2>2. CASE backing_mem' = backing_mem
      BY <1>1, <2>1, <2>2 DEF CleanInv, SavedIn, ArraysSame
    <2>3. CASE /\ valid_ram[victim]
               /\ backing_mem' = [backing_mem EXCEPT ![HeldLine(victim)] = data_ram[victim]]
      <3>1. victim \in Entry /\ HeldLine(victim) \in Line /\ backing_mem \in [Line -> LineVal]
        BY VictimType DEF TypeOK
      <3> SUFFICES ASSUME NEW e \in Entry, valid_ram[e], ~dirty_ram[e], HeldLine(e) \notin lost
                   PROVE  data_ram[e] = backing_mem'[HeldLine(e)]
        BY <1>1, <2>1 DEF CleanInv, SavedIn, ArraysSame
      <3>2. CASE HeldLine(e) = HeldLine(victim)
        BY <2>3, <3>1, <3>2 DEF OneCopy
      <3>3. CASE HeldLine(e) # HeldLine(victim)
        <4>1. data_ram[e] = backing_mem[HeldLine(e)]
          BY DEF CleanInv, SavedIn
        <4>2. backing_mem'[HeldLine(e)] = backing_mem[HeldLine(e)]
          <5>1. HeldLine(e) \in Line
            BY DEF HeldLine, Line, Entry, TypeOK, CacheTypeOK
          <5> QED
            BY <2>3, <3>1, <3>3, <5>1
        <4> QED
          BY <4>1, <4>2
      <3> QED
        BY <3>2, <3>3
    <2> QED
      BY <1>2, <2>2, <2>3, CommitStores
  <1>3. CASE CompareHit(req_valid, req) /\ backing_mem' = backing_mem
    <2> DEFINE hit == <<lat.addr.index, hit_way_val(req.addr)>>
    <2>1. tag_ram' = tag_ram /\ valid_ram' = valid_ram
          /\ \A e \in Entry : HeldLine(e)' = HeldLine(e)
      BY <1>3 DEF CompareHit, HeldLine
    <2>2. lat.wr \in BOOLEAN
          /\ dirty_ram \in [Entry -> BOOLEAN] /\ data_ram \in [Entry -> LineVal]
      BY RequestParts DEF TypeOK, CacheTypeOK
    <2> SUFFICES ASSUME NEW e \in Entry, valid_ram[e], ~dirty_ram'[e], HeldLine(e) \notin lost'
                 PROVE  data_ram'[e] = backing_mem[HeldLine(e)]
      BY <1>3, <2>1 DEF CleanInv, SavedIn
    <2>3. CASE lat.wr
      <3>1. WriteHit(hit)
        BY <1>3, <2>3 DEF CompareHit
      <3>2. e # hit /\ ~dirty_ram[e]
        BY <2>2, <3>1 DEF WriteHit
      <3> HIDE DEF hit
      <3>3. data_ram'[e] = data_ram[e]
        BY <2>2, <3>1, <3>2 DEF WriteHit
      <3> QED
        BY <1>1, <3>2, <3>3 DEF CleanInv, SavedIn
    <2>4. CASE ~lat.wr
      <3>1. ReadHit
        BY <1>3, <2>4 DEF CompareHit
      <3>2. CASE dirty_ram[e]
        <4>1. e = victim
          BY <2>2, <3>1, <3>2 DEF ReadHit
        <4>2. resp_hit(req.addr) /\ victim_dirty
          BY <1>3, <3>2, <4>1 DEF CompareHit, resp_hit, victim_dirty
        <4>3. HeldLine(victim) \in lost'
          BY <2>4, <4>2 DEF Remember, HeldLine, victim
        <4> QED
          BY <4>1, <4>3
      <3>3. CASE ~dirty_ram[e]
        BY <1>1, <3>1, <3>3 DEF ReadHit, CleanInv, SavedIn
      <3> QED
        BY <3>2, <3>3
    <2> QED
      BY <2>2, <2>3, <2>4
  <1>4. CASE Filled
    <2>1. mem_resp_rdata = backing_mem[LineOf(lat.addr)] /\ backing_mem' = backing_mem
      BY <1>4 DEF Filled, ResponderInv, mem_resp_rdata
    <2>2. lat.wr \in BOOLEAN /\ valid_ram \in [Entry -> BOOLEAN]
          /\ dirty_ram \in [Entry -> BOOLEAN] /\ data_ram \in [Entry -> LineVal]
      BY RequestParts DEF TypeOK, CacheTypeOK
    <2> SUFFICES ASSUME NEW e \in Entry, valid_ram'[e], ~dirty_ram'[e],
                        HeldLine(e)' \notin lost'
                 PROVE  data_ram'[e] = backing_mem[HeldLine(e)']
      BY <2>1 DEF CleanInv, SavedIn
    <2>3. CASE e = FilledWay
      <3>1. ~lat.wr
        BY <1>4, <2>2, <2>3, FillStores
      <3>2. data_ram'[e] = mem_resp_rdata
        BY <1>4, <2>2, <2>3, <3>1, FillStores DEF FilledData
      <3> QED
        BY <1>4, <2>1, <2>3, <3>2, FillStores
    <2>4. CASE e # FilledWay
      <3>1. valid_ram[e] /\ ~dirty_ram[e] /\ data_ram'[e] = data_ram[e]
            /\ HeldLine(e)' = HeldLine(e)
        BY <1>4, <2>2, <2>4, FillStores
      <3> QED
        BY <1>1, <3>1 DEF CleanInv, SavedIn
    <2> QED
      BY <2>3, <2>4
  <1>5. CASE Quiet /\ ArraysSame /\ ~Commits
    <2>1. backing_mem' = backing_mem
      BY <1>5 DEF Quiet, Kinds, Presents, Waits, Acknowledged, Filled, mem_vars,
                  Idle, Readout, CompareMiss
    <2> QED
      BY <1>1, <1>5, <2>1 DEF CleanInv, SavedIn, ArraysSame, HeldLine
  <1> QED
    BY <1>2, <1>3, <1>4, <1>5, QuietOrNot

LEMMA KeepsSavedInv ==
  ASSUME TypeOK, ResponderInv, EvictInv, SavedInv, Kinds PROVE SavedInv'
  <1>1. CASE Commits
    <2>1. victim' = victim /\ data_ram' = data_ram /\ HeldLine(victim)' = HeldLine(victim)
      BY <1>1 DEF Commits, SameCache, arrays, victim, victim_way, HeldLine
    <2>2. CASE state' = "FILL_WAIT"
      BY <2>2 DEF SavedInv
    <2>3. CASE backing_mem' = [backing_mem EXCEPT ![HeldLine(victim)] = data_ram[victim]]
      <3>1. HeldLine(victim) \in Line /\ backing_mem \in [Line -> LineVal]
        BY VictimType DEF TypeOK
      <3>2. data_ram[victim] = backing_mem'[HeldLine(victim)]
        BY <2>3, <3>1
      <3> QED
        BY <2>1, <3>2 DEF SavedInv, SavedIn
    <2> QED
      BY <1>1, <2>2, <2>3, CommitStores
  <1>2. CASE Waits
    <2>1. victim' = victim /\ data_ram' = data_ram /\ HeldLine(victim)' = HeldLine(victim)
          /\ backing_mem' = backing_mem /\ state' = state
      BY <1>2 DEF Waits, SameCache, arrays, victim, victim_way, HeldLine
    <2> QED
      BY <2>1 DEF SavedInv, SavedIn
  <1>3. state' = "WRITEBACK_WAIT" => Commits \/ Waits
    BY DEF Kinds, Idle, Readout, CompareHit, CompareMiss, Accept, Presents, Acknowledged,
           Filled, FillWait
  <1> QED
    BY <1>1, <1>2, <1>3 DEF SavedInv

LEMMA KeepsVictimIsSaved ==
  ASSUME TypeOK, ResponderInv, MissInv, EvictInv, CleanInv, SavedInv, VictimIsSaved,
         Kinds, Remember
  PROVE  VictimIsSaved'
  <1> DEFINE Saved(e) == valid_ram[e] /\ HeldLine(e) \notin lost => SavedIn(e)
  <1>1. VictimIsSaved <=> (state \in {"FILL", "FILL_WAIT"} => Saved(FilledWay))
    BY DEF VictimIsSaved, FilledWay, SavedIn
  <1>2. VictimIsSaved' <=> (state' \in {"FILL", "FILL_WAIT"} => Saved(FilledWay)')
    BY DEF VictimIsSaved, FilledWay, SavedIn
  <1>3. ASSUME ArraysSame, backing_mem' = backing_mem, FilledWay' = FilledWay, Saved(FilledWay)
        PROVE  Saved(FilledWay)'
    BY <1>3, RememberKeepsTypes DEF ArraysSame, SavedIn, HeldLine
  <1> HIDE DEF Saved
  <1>4. CASE CompareMiss(req)
    <2>1. ArraysSame /\ backing_mem' = backing_mem /\ FilledWay' = victim
      BY <1>4 DEF CompareMiss, arrays, ArraysSame, Kinds, mem_vars, Presents, Commits, Waits,
                  Acknowledged, Filled, FilledWay, victim
    <2>2. state' = "FILL" => ~dirty_ram[victim] \/ ~valid_ram[victim]
      BY <1>4 DEF CompareMiss, victim_dirty
    <2>3. state' = "FILL" => (valid_ram[victim] /\ HeldLine(victim) \notin lost => SavedIn(victim))
      BY <2>2, VictimType DEF CleanInv, TypeOK
    <2>4. HeldLine(FilledWay)' = HeldLine(victim)
      BY <2>1 DEF HeldLine, ArraysSame
    <2>5. state' = "FILL" => Saved(FilledWay)'
      BY <2>1, <2>3, <2>4, RememberKeepsTypes DEF Saved, SavedIn, ArraysSame
    <2> QED
      BY <1>2, <1>4, <2>5 DEF CompareMiss
  <1>5. CASE Acknowledged
    <2>1. ArraysSame /\ backing_mem' = backing_mem /\ FilledWay' = FilledWay
      BY <1>5 DEF Acknowledged, SameCache, arrays, ArraysSame, FilledWay
    <2>2. FilledWay = victim
      BY <1>5 DEF Acknowledged, MissInv, Missing, FilledWay, victim
    <2>3. Saved(FilledWay)
      BY <1>5, <2>2 DEF Acknowledged, SavedInv, Saved
    <2> QED
      BY <1>2, <1>3, <2>1, <2>3
  <1>6. CASE Presents \/ Waits \/ Commits
    <2>1. ArraysSame /\ FilledWay' = FilledWay
      BY <1>6 DEF Presents, Waits, Commits, SameCache, arrays, ArraysSame, FilledWay
    <2>2. state' \in {"FILL", "FILL_WAIT"} =>
            state \in {"FILL", "FILL_WAIT"} /\ backing_mem' = backing_mem
      BY <1>6, CommitStores DEF Presents, Waits
    <2> QED
      BY <1>1, <1>2, <1>3, <2>1, <2>2
  <1>7. CASE Idle(req_valid, req) \/ Readout(req_valid, req)
             \/ CompareHit(req_valid, req) \/ Filled
    BY <1>7 DEF Idle, Readout, CompareHit, Accept, Filled, FillWait, VictimIsSaved
  <1> QED
    BY <1>4, <1>5, <1>6, <1>7 DEF Kinds

-----------------------------------------------------------------------------
(* The theorems.                                                           *)

LEMMA InitTypeOK == Init => TypeOK
  <1> SUFFICES ASSUME Init PROVE TypeOK
    OBVIOUS
  <1>1. lat \in Request
    <2>1. [b \in ByteSel |-> PowerUpByte] \in WordVal /\ {} \in SUBSET ByteSel
      BY CacheAssumption DEF WordVal
    <2> QED
      BY <2>1, CacheAssumption DEF Init, CacheInit, Request, Addr
  <1>2. CacheTypeOK
    BY <1>1, CacheAssumption, PowerUpLineType DEF Init, CacheInit, CacheTypeOK, States, Entry
  <1>3. NoCapture \in [wr : BOOLEAN, addr : Line, wdata : LineVal]
    BY CacheAssumption, PowerUpLineType DEF NoCapture, LineOf, Line
  <1>4. InvalidWay \in [valid : BOOLEAN, dirty : BOOLEAN, tag : Tag, data : LineVal]
    BY CacheAssumption, PowerUpLineType DEF InvalidWay
  <1> QED
    BY <1>1, <1>2, <1>3, <1>4, BenchAssumption DEF Init, TypeOK, Way, timeout_cycles

LEMMA InitIInv == Init => IInv
  <1> SUFFICES ASSUME Init PROVE IInv
    OBVIOUS
  <1>1. state = "IDLE" /\ drv = "item" /\ waited = 0 /\ mem_phase = "idle"
    BY DEF Init, CacheInit
  <1>2. \A e \in Entry : ~valid_ram[e]
    BY DEF Init, CacheInit
  <1> QED
    BY <1>1, <1>2, InitTypeOK DEF IInv, DriverInv, ResponderInv, WaitInv, MissInv, Missing, EvictInv,
         Evicting, OneCopy, CleanInv, SavedInv, VictimIsSaved

LEMMA NextIInv == IInv /\ Next => IInv'
  <1> SUFFICES ASSUME IInv, Next PROVE IInv'
    OBVIOUS
  <1> USE DEF IInv
  <1>1. CacheStep /\ Driver /\ Responder /\ Scoreboard /\ Remember
    BY CycleSplits DEF Testbench
  <1>2. Kinds
    BY <1>1, Cycles
  <1>3. TypeOK'
    BY KeepsTypes DEF ResponderInv
  <1>4. Drives
    BY <1>1, NoneGivenUp
  <1>5. DriverInv' /\ ResponderInv' /\ WaitInv'
    BY <1>1, <1>2, <1>3, <1>4, KeepsDriverInv, KeepsResponderInv, KeepsWaitInv
  <1>6. MissInv' /\ EvictInv' /\ OneCopy'
    BY <1>2, KeepsMissInv, KeepsEvictInv, KeepsOneCopy
  <1>7. CleanInv' /\ SavedInv' /\ VictimIsSaved'
    BY <1>1, <1>2, KeepsCleanInv, KeepsSavedInv, KeepsVictimIsSaved
  <1> QED
    BY <1>3, <1>5, <1>6, <1>7

LEMMA StutterIInv == IInv /\ UNCHANGED vars => IInv'
  <1> SUFFICES ASSUME IInv, UNCHANGED vars PROVE IInv'
    OBVIOUS
  <1> USE DEF vars, cache_vars, mem_vars, ref_vars
  <1>1. TypeOK'
    BY DEF IInv, TypeOK, CacheTypeOK
  <1>2. DriverInv' /\ EvictInv' /\ MissInv'
    BY DEF IInv, DriverInv, EvictInv, Evicting, victim, victim_way, MissInv, Missing, Holders,
           HeldLine, LineOf
  <1>3. Requested' = Requested
    BY DEF Requested, mem_req_wr, mem_req_addr, mem_req_wdata, victim, victim_way
  <1>4. ResponderInv' /\ WaitInv'
    BY <1>3 DEF IInv, ResponderInv, WaitInv, EdgesLeft, MemoryEdges, Evicting
  <1>5. OneCopy' /\ CleanInv' /\ SavedInv' /\ VictimIsSaved'
    BY DEF IInv, OneCopy, CleanInv, SavedInv, SavedIn, VictimIsSaved, HeldLine, victim, victim_way
  <1> QED
    BY <1>1, <1>2, <1>4, <1>5 DEF IInv

(* The strengthening holds of every reachable state.                       *)
THEOREM Inductive == Spec => []IInv
  <1>1. IInv /\ [Next]_vars => IInv'
    BY NextIInv, StutterIInv
  <1> QED
    BY InitIInv, <1>1, PTL DEF Spec

(* Arrays, latches, port and models stay within their ranges: the          *)
(* controller is never in a state that has no case.                        *)
THEOREM TypeCorrect == Spec => []TypeOK
  <1>1. IInv => TypeOK
    BY DEF IInv
  <1> QED
    BY Inductive, <1>1, PTL

(* The port carries the latched request while it is served, so comparing   *)
(* tags with the port is comparing them with the request.                  *)
THEOREM PortHeldAlways == Spec => []PortHeld
  <1>1. IInv => PortHeld
    BY DEF IInv, DriverInv, PortHeld
  <1> QED
    BY Inductive, <1>1, PTL

(* A line is never in two ways at once: the hit vector is one-hot.         *)
THEOREM OneCopyAlways == Spec => []OneCopy
  <1>1. IInv => OneCopy
    BY DEF IInv
  <1> QED
    BY Inductive, <1>1, PTL

(* Nothing that memory does not have is overwritten by a fill, except the  *)
(* lines whose dirty bit a read hit has cleared.                           *)
THEOREM VictimsAreSaved == Spec => []VictimIsSaved
  <1>1. IInv => VictimIsSaved
    BY DEF IInv
  <1> QED
    BY Inductive, <1>1, PTL

(* No wait of the driver outlasts a miss with a write-back, whatever the   *)
(* delays the responder draws: the time-outs of driver and monitor never   *)
(* strike.                                                                 *)
THEOREM WaitsAreShort == Spec => []AnsweredInTime
  <1>1. IInv => AnsweredInTime
    <2>1. TypeOK /\ ResponderInv => EdgesLeft \in Nat /\ EdgesLeft >= 1
      BY EdgesLeftType
    <2> QED
      BY <2>1 DEF IInv, WaitInv, AnsweredInTime, LongestWait, LongestDelay, TypeOK
  <1> QED
    BY Inductive, <1>1, PTL

(* A request on the memory port is held until it is accepted.              *)
THEOREM MemRequestsAreStable == Spec => MemRequestStable
  <1>1. ASSUME IInv, Next, mem_req_valid, ~mem_req_ready
        PROVE  /\ mem_req_valid'
               /\ <<mem_req_wr', mem_req_addr', mem_req_wdata'>> =
                    <<mem_req_wr, mem_req_addr, mem_req_wdata>>
    <2>1. Kinds /\ state \in {"WRITEBACK", "FILL"} /\ mem_phase # "ready"
      BY <1>1, CycleSplits, Cycles DEF IInv, Testbench, mem_req_valid, mem_req_ready
    <2>2. Presents
      BY <2>1 DEF Kinds, Presents, Commits, Waits, Acknowledged, Filled, Idle, Readout,
                  CompareHit, CompareMiss
    <2> QED
      BY <2>2 DEF Presents, SameCache, arrays, mem_req_valid, mem_req_wr, mem_req_addr,
                  mem_req_wdata, victim, victim_way
  <1>2. IInv /\ [Next]_vars =>
          [mem_req_valid /\ ~mem_req_ready =>
             /\ mem_req_valid'
             /\ <<mem_req_wr', mem_req_addr', mem_req_wdata'>> =
                  <<mem_req_wr, mem_req_addr, mem_req_wdata>>]_vars
    BY <1>1
  <1> QED
    BY Inductive, <1>2, PTL DEF Spec, MemRequestStable

-----------------------------------------------------------------------------
(***************************************************************************)
(* The data.  The cache and the scoreboard's model of it agree on every    *)
(* hit and miss and on the data of every line that has not lost its dirty  *)
(* bit.                                                                    *)
(*                                                                         *)
(* The two need not use the same way for the same line: the LRU bits of    *)
(* the cache hold anything at power-up.  But the ways of a set are then    *)
(* either all the same or all swapped, for good, and which of the two can  *)
(* be read off the LRU bits.                                               *)
(***************************************************************************)


(***************************************************************************)
(* On a miss the cache has stored the line one cycle before the scoreboard *)
(* hears of it.  RefCache, RefLru and RefMem are the scoreboard's model    *)
(* with the transaction that is being read out already replayed.           *)
(***************************************************************************)
MissWay == <<lat.addr.index, ref_lru[lat.addr.index]>>
MissOld == ref_cache[MissWay]
MissOldLine == [tag |-> MissOld.tag, index |-> lat.addr.index]
MissMem ==
  IF MissOld.valid /\ MissOld.dirty THEN [ref_mem EXCEPT ![MissOldLine] = MissOld.data]
  ELSE ref_mem
MissFill == MissMem[LineOf(lat.addr)]
MissData ==
  IF lat.wr THEN LineWriteWord(MissFill, lat.addr.word, lat.wdata, lat.wmask) ELSE MissFill
MissEntry == [valid |-> TRUE, dirty |-> lat.wr, tag |-> lat.addr.tag, data |-> MissData]

RefCache ==
  IF state = "READOUT" THEN [ref_cache EXCEPT ![MissWay] = MissEntry] ELSE ref_cache
RefLru ==
  IF state = "READOUT" THEN [ref_lru EXCEPT ![lat.addr.index] = Other(ref_lru[lat.addr.index])]
  ELSE ref_lru
RefMem == IF state = "READOUT" THEN MissMem ELSE ref_mem

(* The way of the model that stands for a way of the cache.                *)
Mate(e) == <<e[1], IF lru_ram[e[1]] = RefLru[e[1]] THEN e[2] ELSE Other(e[2])>>

RefHeldLine(e) == [tag |-> RefCache[e].tag, index |-> e[1]]

PairInv ==
  \A e \in Entry :
    /\ RefCache[Mate(e)].valid = valid_ram[e]
    /\ valid_ram[e] => RefCache[Mate(e)].tag = tag_ram[e]
    /\ valid_ram[e] /\ HeldLine(e) \notin lost => RefCache[Mate(e)].data = data_ram[e]

UnheldInv == \A l \in Line \ lost : Holders(l) = {} => backing_mem[l] = RefMem[l]

RefCleanInv ==
  \A e \in Entry :
    RefCache[e].valid /\ ~RefCache[e].dirty => RefCache[e].data = RefMem[RefHeldLine(e)]

(* What is being read out is a miss for the scoreboard too.                *)
RefMissInv == state = "READOUT" => RefHits(lat.addr.index, lat.addr.tag) = {}

(* What is being read out is the line asked for, in mates.                 *)
ReadoutInv ==
  state = "READOUT" =>
    /\ valid_ram[FilledWay] /\ HeldLine(FilledWay) = LineOf(lat.addr)
    /\ Mate(FilledWay) = MissWay

DataInv ==
  /\ PairInv
  /\ UnheldInv
  /\ RefCleanInv
  /\ RefMissInv
  /\ ReadoutInv
  /\ HitsAgree
  /\ DataAgrees

-----------------------------------------------------------------------------
(* The model with the transaction replayed.                                *)

(* The set, the tag and the word a request names.                          *)
LEMMA LatParts ==
  ASSUME TypeOK
  PROVE  /\ lat.addr.tag \in Tag /\ lat.addr.index \in Index /\ lat.addr.word \in WordSel
         /\ lat.wr \in BOOLEAN /\ lat.wdata \in WordVal /\ lat.wmask \in SUBSET ByteSel
         /\ lat.addr \in Addr /\ LineOf(lat.addr) \in Line
  BY RequestParts DEF TypeOK, CacheTypeOK

LEMMA MissTypes ==
  ASSUME TypeOK
  PROVE  /\ MissWay \in Entry /\ MissOld \in RefWay /\ MissOldLine \in Line
         /\ MissMem \in [Line -> LineVal] /\ MissFill \in LineVal /\ MissEntry \in RefWay
  <1>1. MissWay \in Entry
    BY LatParts, EntryType DEF TypeOK, MissWay
  <1>2. MissOld \in RefWay
    BY <1>1 DEF TypeOK, MissOld, RefWay
  <1>3. MissOldLine \in Line
    BY <1>2, LatParts DEF MissOldLine, Line, RefWay
  <1>4. MissMem \in [Line -> LineVal]
    BY <1>2, <1>3 DEF MissMem, TypeOK, RefWay
  <1>5. MissFill \in LineVal
    BY <1>4, LatParts DEF MissFill
  <1>6. MissData \in LineVal
    BY <1>5, LatParts, LineWriteWordType DEF MissData
  <1> QED
    BY <1>1, <1>2, <1>3, <1>4, <1>5, <1>6, LatParts DEF MissEntry, RefWay

LEMMA RefTypes ==
  ASSUME TypeOK
  PROVE  /\ RefCache \in [Entry -> RefWay] /\ RefLru \in [Index -> Way]
         /\ RefMem \in [Line -> LineVal]
  <1>1. ref_cache \in [Entry -> RefWay] /\ ref_lru \in [Index -> Way]
        /\ ref_mem \in [Line -> LineVal]
    BY DEF TypeOK, RefWay
  <1>2. Other(ref_lru[lat.addr.index]) \in Way
    BY <1>1, LatParts, OtherWay
  <1> QED
    BY <1>1, <1>2, MissTypes DEF RefCache, RefLru, RefMem

LEMMA RefMissReplays ==
  ASSUME RefMiss, req = lat, lat.wr \in BOOLEAN
  PROVE  /\ ref_cache' = [ref_cache EXCEPT ![MissWay] = MissEntry]
         /\ ref_lru' = [ref_lru EXCEPT ![lat.addr.index] = Other(ref_lru[lat.addr.index])]
         /\ ref_mem' = MissMem
         /\ Verdict(FALSE, MissFill[lat.addr.word])
  <1>1. ref_mem' = MissMem
    BY DEF RefMiss, MissWay, MissOld, MissOldLine, MissMem
  <1>2. ref_cache' = [ref_cache EXCEPT ![MissWay] = MissEntry]
    <2> DEFINE old == ref_cache[<<req.addr.index, ref_lru[req.addr.index]>>]
               mem == IF old.valid /\ old.dirty
                        THEN [ref_mem EXCEPT
                               ![[tag |-> old.tag, index |-> req.addr.index]] = old.data]
                        ELSE ref_mem
               new(r, m) ==
                 [valid |-> TRUE, dirty |-> r.wr, tag |-> r.addr.tag,
                  data |-> IF r.wr
                             THEN LineWriteWord(m[LineOf(r.addr)], r.addr.word, r.wdata, r.wmask)
                             ELSE m[LineOf(r.addr)]]
    <2>1. ref_mem' = mem
      BY DEF RefMiss
    <2>2. ref_cache' =
            [ref_cache EXCEPT ![<<req.addr.index, ref_lru[req.addr.index]>>] = new(req, mem)]
      BY DEF RefMiss
    <2>3. new(lat, MissMem) = MissEntry
      BY DEF MissEntry, MissData, MissFill
    <2> HIDE DEF new, mem
    <2> QED
      BY <1>1, <2>1, <2>2, <2>3 DEF MissWay
  <1>3. ref_lru' = [ref_lru EXCEPT ![lat.addr.index] = Other(ref_lru[lat.addr.index])]
    BY DEF RefMiss
  <1>4. Verdict(FALSE, MissFill[lat.addr.word])
    BY DEF RefMiss, MissWay, MissOld, MissOldLine, MissMem, MissFill
  <1> QED
    BY <1>1, <1>2, <1>3, <1>4

(* The scoreboard is called in two kinds of cycle.                         *)
LEMMA ScoreboardCalled ==
  ASSUME DriverInv, Scoreboard
  PROVE  \/ resp_valid(req.addr) /\ req = lat /\ Check
         \/ ~resp_valid(req.addr) /\ verdict' = NoVerdict /\ UNCHANGED ref_vars
  <1>1. resp_valid(req.addr) => state # "IDLE"
    BY DEF resp_valid
  <1> QED
    BY <1>1 DEF Scoreboard, Responded, DriverInv

LEMMA QuietRef ==
  ASSUME TypeOK, DriverInv, RefMissInv, Quiet, Scoreboard
  PROVE  /\ RefCache' = RefCache /\ RefLru' = RefLru /\ RefMem' = RefMem
         /\ state' # "READOUT"
         /\ \/ verdict' = NoVerdict
            \/ /\ state = "READOUT" /\ req = lat
               /\ Verdict(FALSE, MissFill[lat.addr.word])
  <1>1. CASE Readout(req_valid, req)
    <2>1. state = "READOUT" /\ state' # "READOUT" /\ resp_valid(req.addr)
      BY <1>1 DEF Readout, Accept, resp_valid
    <2>2. req = lat /\ Check
      BY <2>1, ScoreboardCalled
    <2>3. RefMiss
      BY <2>1, <2>2, CheckCases DEF RefMissInv
    <2>4. /\ ref_cache' = [ref_cache EXCEPT ![MissWay] = MissEntry]
          /\ ref_lru' = [ref_lru EXCEPT ![lat.addr.index] = Other(ref_lru[lat.addr.index])]
          /\ ref_mem' = MissMem
          /\ Verdict(FALSE, MissFill[lat.addr.word])
      BY <2>2, <2>3, LatParts, RefMissReplays
    <2> QED
      BY <2>1, <2>2, <2>4 DEF RefCache, RefLru, RefMem
  <1>2. CASE ~Readout(req_valid, req)
    <2>1. state # "READOUT" /\ state' # "READOUT" /\ ~resp_valid(req.addr)
      BY <1>2 DEF Quiet, Idle, Accept, CompareMiss, Presents, Commits, Waits, Acknowledged,
                  resp_valid
    <2>2. verdict' = NoVerdict /\ UNCHANGED ref_vars
      BY <2>1, ScoreboardCalled
    <2> QED
      BY <2>1, <2>2 DEF RefCache, RefLru, RefMem, ref_vars
  <1> QED
    BY <1>1, <1>2

LEMMA FilledRef ==
  ASSUME DriverInv, Filled, Scoreboard
  PROVE  /\ RefCache = ref_cache /\ RefLru = ref_lru /\ RefMem = ref_mem
         /\ RefCache' = [ref_cache EXCEPT ![MissWay] = MissEntry]
         /\ RefLru' = [ref_lru EXCEPT ![lat.addr.index] = Other(ref_lru[lat.addr.index])]
         /\ RefMem' = MissMem
         /\ verdict' = NoVerdict /\ UNCHANGED ref_vars
  <1>1. state = "FILL_WAIT" /\ state' = "READOUT" /\ lat' = lat
    BY DEF Filled, FillWait
  <1>2. verdict' = NoVerdict /\ UNCHANGED ref_vars
    BY <1>1, ScoreboardCalled DEF resp_valid
  <1> QED
    BY <1>1, <1>2 DEF RefCache, RefLru, RefMem, ref_vars, MissWay, MissOld, MissOldLine, MissMem,
                      MissFill, MissData, MissEntry

-----------------------------------------------------------------------------
(* Ways and their mates.                                                   *)

LEMMA EntryParts ==
  ASSUME NEW e \in Entry PROVE e = <<e[1], e[2]>> /\ e[1] \in Index /\ e[2] \in Way
  BY DEF Entry

LEMMA OtherOther == \A w \in Way : Other(Other(w)) = w /\ Other(w) # w
  BY DEF Way, Other

LEMMA MateType ==
  ASSUME TypeOK, NEW e \in Entry
  PROVE  /\ Mate(e) \in Entry /\ Mate(e)[1] = e[1]
         /\ Mate(e)[2] = IF lru_ram[e[1]] = RefLru[e[1]] THEN e[2] ELSE Other(e[2])
  BY EntryParts, EntryType, OtherWay DEF Mate

LEMMA MateMate ==
  ASSUME TypeOK, NEW e \in Entry PROVE Mate(Mate(e)) = e
  BY EntryParts, MateType, OtherOther, OtherWay DEF Mate

LEMMA MateInjective ==
  ASSUME TypeOK, NEW e \in Entry, NEW f \in Entry, Mate(e) = Mate(f) PROVE e = f
  BY MateMate

(* The way the scoreboard evicts is the mate of the way the cache evicts.  *)
LEMMA VictimsAreMates ==
  ASSUME TypeOK, state # "READOUT" PROVE Mate(victim) = MissWay
  <1>1. victim \in Entry /\ victim_way \in Way /\ lat.addr.index \in Index
    BY VictimType, LatParts DEF TypeOK
  <1>2. RefLru = ref_lru /\ ref_lru[lat.addr.index] \in Way
    BY <1>1 DEF RefLru, TypeOK
  <1>3. \A v, w \in Way : v # w => Other(v) = w
    BY DEF Way, Other
  <1> QED
    BY <1>1, <1>2, <1>3 DEF Mate, MissWay, victim, victim_way

(* The model's lines are in one way each, too.                             *)
LEMMA RefOneCopy ==
  ASSUME TypeOK, OneCopy, PairInv, NEW e \in Entry, NEW f \in Entry,
         RefCache[e].valid, RefCache[f].valid, RefHeldLine(e) = RefHeldLine(f)
  PROVE  e = f
  <1>1. Mate(e) \in Entry /\ Mate(f) \in Entry /\ Mate(Mate(e)) = e /\ Mate(Mate(f)) = f
        /\ Mate(e)[1] = e[1] /\ Mate(f)[1] = f[1]
    BY MateType, MateMate
  <1>2. /\ valid_ram[Mate(e)] /\ tag_ram[Mate(e)] = RefCache[e].tag
        /\ valid_ram[Mate(f)] /\ tag_ram[Mate(f)] = RefCache[f].tag
    BY <1>1 DEF PairInv
  <1>3. HeldLine(Mate(e)) = HeldLine(Mate(f))
    BY <1>1, <1>2 DEF HeldLine, RefHeldLine
  <1> QED
    BY <1>1, <1>2, <1>3 DEF OneCopy

(* Where the cache hits the scoreboard hits, in the mate of the way.       *)
HitWay == <<lat.addr.index, hit_way_val(req.addr)>>

LEMMA HitsAreMates ==
  ASSUME TypeOK, DriverInv, OneCopy, PairInv, state = "COMPARE_TAG", cache_hit(req.addr)
  PROVE  /\ req = lat
         /\ HitWay \in Entry /\ valid_ram[HitWay] /\ HeldLine(HitWay) = LineOf(lat.addr)
         /\ RefHits(req.addr.index, req.addr.tag) # {}
         /\ RefHitWay = Mate(HitWay)
  <1>1. req = lat
    BY DEF DriverInv
  <1>2. HitWay \in Entry /\ valid_ram[HitWay] /\ HeldLine(HitWay) = LineOf(lat.addr)
    BY <1>1, LatParts, HitMeansHeld DEF HitWay
  <1>3. RefCache = ref_cache
    BY DEF RefCache
  <1>4. tag_ram[HitWay] = lat.addr.tag /\ HitWay[1] = lat.addr.index
    BY <1>2 DEF HeldLine, LineOf, HitWay
  <1>5. Mate(HitWay) \in Entry /\ Mate(HitWay)[1] = lat.addr.index
    BY <1>2, <1>4, MateType
  <1>6. ref_cache[Mate(HitWay)].valid /\ ref_cache[Mate(HitWay)].tag = lat.addr.tag
    BY <1>2, <1>3, <1>4 DEF PairInv
  <1>7. Mate(HitWay)[2] \in RefHits(req.addr.index, req.addr.tag)
    BY <1>1, <1>5, <1>6, EntryParts DEF RefHits
  <1>8. RefHitWay[1] = req.addr.index /\ RefHitWay[2] \in RefHits(req.addr.index, req.addr.tag)
    BY <1>7, RefHitWayHits
  <1>9. RefHitWay = <<req.addr.index, RefHitWay[2]>> /\ RefHitWay[2] \in Way
        /\ ref_cache[RefHitWay].valid /\ ref_cache[RefHitWay].tag = lat.addr.tag
    <2>1. RefHitWay = <<req.addr.index, RefHitWay[2]>>
      BY DEF RefHitWay
    <2> QED
      BY <1>1, <1>8, <2>1 DEF RefHits
  <1>10. RefHitWay \in Entry
    BY <1>1, <1>9, LatParts, EntryType
  <1> HIDE DEF HitWay, RefHitWay
  <1>11. RefHeldLine(RefHitWay) = RefHeldLine(Mate(HitWay))
    BY <1>1, <1>3, <1>5, <1>6, <1>8, <1>9 DEF RefHeldLine
  <1>12. RefHitWay = Mate(HitWay)
    BY <1>3, <1>5, <1>6, <1>9, <1>10, <1>11, RefOneCopy
  <1> QED
    BY <1>1, <1>2, <1>7, <1>12

(* What a hit does to the model.                                           *)
LEMMA HitRef ==
  ASSUME TypeOK, DriverInv, OneCopy, PairInv, CompareHit(req_valid, req), Scoreboard,
         NEW m, m = Mate(HitWay)
  PROVE  /\ RefCache = ref_cache /\ RefLru = ref_lru /\ RefMem = ref_mem
         /\ RefCache' = IF lat.wr
              THEN [ref_cache EXCEPT
                     ![m].data = LineWriteWord(ref_cache[m].data, lat.addr.word, lat.wdata, lat.wmask),
                     ![m].dirty = TRUE]
              ELSE ref_cache
         /\ RefLru' = [ref_lru EXCEPT ![lat.addr.index] = Other(m[2])]
         /\ RefMem' = RefMem
         /\ state' # "READOUT"
         /\ Verdict(TRUE, ref_cache[m].data[lat.addr.word])
  <1>1. state = "COMPARE_TAG" /\ cache_hit(req.addr) /\ state' # "READOUT"
    BY DEF CompareHit, Accept
  <1>2. req = lat /\ RefHits(req.addr.index, req.addr.tag) # {} /\ RefHitWay = m
    BY <1>1, HitsAreMates
  <1>3. RefHit(m)
    BY <1>1, <1>2, ScoreboardCalled, CheckCases DEF resp_valid
  <1>4. /\ ref_cache' = IF lat.wr
              THEN [ref_cache EXCEPT
                     ![m].data = LineWriteWord(ref_cache[m].data, lat.addr.word, lat.wdata, lat.wmask),
                     ![m].dirty = TRUE]
              ELSE ref_cache
        /\ ref_lru' = [ref_lru EXCEPT ![lat.addr.index] = Other(m[2])]
        /\ ref_mem' = ref_mem
        /\ Verdict(TRUE, ref_cache[m].data[lat.addr.word])
    BY <1>2, <1>3 DEF RefHit
  <1> QED
    BY <1>1, <1>4 DEF RefCache, RefLru, RefMem

LEMMA HitRefFields ==
  ASSUME TypeOK, DriverInv, OneCopy, PairInv, CompareHit(req_valid, req), Scoreboard,
         NEW e \in Entry
  PROVE  /\ RefCache'[e].valid = RefCache[e].valid
         /\ RefCache'[e].tag = RefCache[e].tag
         /\ RefCache'[e].data =
              IF lat.wr /\ e = Mate(HitWay)
                THEN LineWriteWord(RefCache[e].data, lat.addr.word, lat.wdata, lat.wmask)
                ELSE RefCache[e].data
         /\ ~RefCache'[e].dirty => ~RefCache[e].dirty /\ RefCache'[e].data = RefCache[e].data
  <1> DEFINE m == Mate(HitWay)
  <1>1. state = "COMPARE_TAG" /\ cache_hit(req.addr)
    BY DEF CompareHit
  <1>2. m \in Entry
    BY <1>1, HitsAreMates, MateType
  <1>3. RefCache \in [Entry -> RefWay]
    BY RefTypes
  <1>4. lat.wr \in BOOLEAN
    BY LatParts
  <1>5. RefCache' = IF lat.wr
              THEN [RefCache EXCEPT
                     ![m].data = LineWriteWord(RefCache[m].data, lat.addr.word, lat.wdata, lat.wmask),
                     ![m].dirty = TRUE]
              ELSE RefCache
    BY HitRef
  <1> HIDE DEF m
  <1>6. CASE lat.wr /\ e = m
    BY <1>2, <1>3, <1>5, <1>6 DEF RefWay, m
  <1>7. CASE ~(lat.wr /\ e = m)
    <2>1. RefCache'[e] = RefCache[e]
      BY <1>2, <1>3, <1>4, <1>5, <1>7
    <2> QED
      BY <1>7, <2>1 DEF m
  <1> QED
    BY <1>6, <1>7

(* Mates stay mates.                                                       *)
LEMMA MatesStay ==
  ASSUME TypeOK, DriverInv, MissInv, OneCopy, PairInv, RefMissInv, Kinds, Scoreboard,
         NEW e \in Entry
  PROVE  Mate(e)' = Mate(e)
  <1>1. lru_ram \in [Index -> Way] /\ RefLru \in [Index -> Way] /\ lat.addr.index \in Index
    BY RefTypes, LatParts DEF TypeOK, CacheTypeOK
  <1> DEFINE i == lat.addr.index
             same == lru_ram[e[1]] = RefLru[e[1]]
  <1> SUFFICES same' <=> same
    BY DEF Mate
  <1>2. \A v, w \in Way : Other(v) = Other(w) <=> v = w
    BY DEF Way, Other
  <1>3. CASE Quiet /\ ArraysSame
    BY <1>3, QuietRef DEF ArraysSame
  <1>4. CASE CompareHit(req_valid, req)
    <2>1. HitWay \in Entry /\ HitWay[1] = i /\ HitWay[2] \in Way
      BY <1>4, HitsAreMates, EntryParts DEF CompareHit, HitWay
    <2>2. lru_ram' = [lru_ram EXCEPT ![i] = Other(HitWay[2])]
      BY <1>4 DEF CompareHit, HitWay
    <2>3. RefLru' = [RefLru EXCEPT ![i] = Other(Mate(HitWay)[2])]
      BY <1>4, HitRef
    <2>4. Mate(HitWay)[2] = IF lru_ram[i] = RefLru[i] THEN HitWay[2] ELSE Other(HitWay[2])
      BY <2>1, MateType
    <2> HIDE DEF i
    <2> QED
      BY <1>1, <2>1, <2>2, <2>3, <2>4, OtherOther, EntryParts DEF i
  <1>5. CASE Filled
    <2>1. lru_ram' = [lru_ram EXCEPT ![i] = Other(lru_ram[i])]
      BY <1>5 DEF Filled, FillWait, MissInv, Missing, victim_way
    <2>2. RefLru' = [RefLru EXCEPT ![i] = Other(RefLru[i])]
      BY <1>5, FilledRef
    <2> HIDE DEF i
    <2> QED
      BY <1>1, <1>2, <2>1, <2>2, EntryParts DEF i
  <1> QED
    BY <1>3, <1>4, <1>5, QuietOrNot

LEMMA KeepsPairInv ==
  ASSUME IInv, DataInv, Kinds, Scoreboard, lost \subseteq lost' PROVE PairInv'
  <1> USE DEF IInv, DataInv
  <1> SUFFICES ASSUME NEW e \in Entry
               PROVE  /\ RefCache'[Mate(e)].valid = valid_ram'[e]
                      /\ valid_ram'[e] => RefCache'[Mate(e)].tag = tag_ram'[e]
                      /\ valid_ram'[e] /\ HeldLine(e)' \notin lost' =>
                           RefCache'[Mate(e)].data = data_ram'[e]
    BY MatesStay DEF PairInv
  <1>1. /\ RefCache[Mate(e)].valid = valid_ram[e]
        /\ valid_ram[e] => RefCache[Mate(e)].tag = tag_ram[e]
        /\ valid_ram[e] /\ HeldLine(e) \notin lost => RefCache[Mate(e)].data = data_ram[e]
        /\ Mate(e) \in Entry
    BY MateType DEF PairInv
  <1>2. CASE Quiet /\ ArraysSame
    <2>1. RefCache' = RefCache /\ HeldLine(e)' = HeldLine(e)
      BY <1>2, QuietRef DEF HeldLine, ArraysSame
    <2> QED
      BY <1>1, <1>2, <2>1 DEF ArraysSame
  <1>3. CASE CompareHit(req_valid, req)
    <2>1. HitWay \in Entry
      BY <1>3, HitsAreMates DEF CompareHit
    <2>2. tag_ram' = tag_ram /\ valid_ram' = valid_ram /\ HeldLine(e)' = HeldLine(e)
          /\ (IF lat.wr THEN WriteHit(HitWay) ELSE ReadHit)
      BY <1>3 DEF CompareHit, HeldLine, HitWay
    <2>3. data_ram'[e] = IF lat.wr /\ e = HitWay
            THEN LineWriteWord(data_ram[e], lat.addr.word, lat.wdata, lat.wmask)
            ELSE data_ram[e]
      <3>1. data_ram \in [Entry -> LineVal] /\ lat.wr \in BOOLEAN
        BY LatParts DEF TypeOK, CacheTypeOK
      <3> HIDE DEF HitWay
      <3> QED
        BY <2>1, <2>2, <3>1 DEF WriteHit, ReadHit
    <2>4. Mate(e) = Mate(HitWay) <=> e = HitWay
      BY <2>1, MateInjective
    <2>5. /\ RefCache'[Mate(e)].valid = RefCache[Mate(e)].valid
          /\ RefCache'[Mate(e)].tag = RefCache[Mate(e)].tag
          /\ RefCache'[Mate(e)].data =
              IF lat.wr /\ Mate(e) = Mate(HitWay)
                THEN LineWriteWord(RefCache[Mate(e)].data, lat.addr.word, lat.wdata, lat.wmask)
                ELSE RefCache[Mate(e)].data
      BY <1>1, <1>3, HitRefFields
    <2> QED
      BY <1>1, <2>2, <2>3, <2>4, <2>5
  <1>4. CASE Filled
    <2>1. RefCache' = [RefCache EXCEPT ![MissWay] = MissEntry] /\ RefMem = ref_mem
          /\ RefCache = ref_cache
      BY <1>4, FilledRef
    <2>2. FilledWay = victim /\ Mate(FilledWay) = MissWay /\ FilledWay \in Entry
      BY <1>4, VictimsAreMates, FillStores DEF Filled, MissInv, Missing, FilledWay, victim
    <2>3. RefCache \in [Entry -> RefWay] /\ MissWay \in Entry
      BY RefTypes, MissTypes
    <2>4. CASE e # FilledWay
      <3>1. valid_ram'[e] = valid_ram[e] /\ tag_ram'[e] = tag_ram[e] /\ data_ram'[e] = data_ram[e]
            /\ HeldLine(e)' = HeldLine(e)
        BY <1>4, <2>4, FillStores DEF TypeOK, CacheTypeOK
      <3>2. RefCache'[Mate(e)] = RefCache[Mate(e)]
        BY <1>1, <2>1, <2>2, <2>3, <2>4, MateInjective
      <3> QED
        BY <1>1, <3>1, <3>2
    <2>5. CASE e = FilledWay
      <3>1. /\ valid_ram'[e] = TRUE /\ tag_ram'[e] = lat.addr.tag /\ data_ram'[e] = FilledData
            /\ HeldLine(e)' = LineOf(lat.addr)
        BY <1>4, <2>5, FillStores DEF TypeOK, CacheTypeOK
      <3>2. RefCache'[Mate(e)] = MissEntry
        BY <2>1, <2>2, <2>3, <2>5
      <3>3. ASSUME LineOf(lat.addr) \notin lost PROVE FilledData = MissData
        <4>1. mem_resp_rdata = backing_mem[LineOf(lat.addr)]
          BY <1>4 DEF Filled, ResponderInv, mem_resp_rdata
        <4>2. Holders(LineOf(lat.addr)) = {}
          BY <1>4 DEF Filled, MissInv, Missing
        <4>3. mem_resp_rdata = ref_mem[LineOf(lat.addr)]
          BY <2>1, <3>3, <4>1, <4>2, LatParts DEF UnheldInv
        <4>4. MissFill = ref_mem[LineOf(lat.addr)]
          <5>1. MissOld.valid => MissOldLine # LineOf(lat.addr)
            <6>1. MissOld.valid => valid_ram[e] /\ HeldLine(e) = MissOldLine
              BY <1>1, <1>4, <2>1, <2>2, <2>5, FillStores DEF MissOld, MissOldLine, HeldLine
            <6> QED
              BY <4>2, <6>1 DEF Holders
          <5> QED
            BY <5>1, LatParts, MissTypes DEF MissFill, MissMem, TypeOK
        <4> QED
          BY <4>3, <4>4 DEF FilledData, MissData
      <3>4. MissEntry.valid = TRUE /\ MissEntry.tag = lat.addr.tag /\ MissEntry.data = MissData
        BY DEF MissEntry
      <3>5. RefCache'[Mate(e)].valid = valid_ram'[e] /\ RefCache'[Mate(e)].tag = tag_ram'[e]
        BY <3>1, <3>2, <3>4
      <3>6. HeldLine(e)' \notin lost' => RefCache'[Mate(e)].data = data_ram'[e]
        BY <3>1, <3>2, <3>3, <3>4
      <3> QED
        BY <3>5, <3>6
    <2> QED
      BY <2>4, <2>5
  <1> QED
    BY <1>2, <1>3, <1>4, QuietOrNot

LEMMA KeepsUnheldInv ==
  ASSUME IInv, DataInv, Kinds, Scoreboard, lost \subseteq lost' PROVE UnheldInv'
  <1> USE DEF IInv, DataInv
  <1> SUFFICES ASSUME NEW l \in Line \ lost, Holders(l)' = {}
               PROVE  backing_mem'[l] = RefMem'[l]
    BY DEF UnheldInv
  <1>1. ASSUME Holders(l) = {}, backing_mem'[l] = backing_mem[l], RefMem'[l] = RefMem[l]
        PROVE  backing_mem'[l] = RefMem'[l]
    BY <1>1 DEF UnheldInv
  <1>2. CASE Quiet /\ ArraysSame
    <2>1. Holders(l) = {}
      BY <1>2, HoldersSame DEF ArraysSame
    <2>2. RefMem' = RefMem
      BY <1>2, QuietRef
    <2>3. backing_mem'[l] = backing_mem[l]
      <3>1. CASE Commits
        <4>1. victim \in Entry /\ HeldLine(victim) \in Line /\ backing_mem \in [Line -> LineVal]
          BY VictimType DEF TypeOK
        <4>2. valid_ram[victim] => HeldLine(victim) # l
          BY <2>1, <4>1 DEF Holders
        <4> QED
          BY <3>1, <4>1, <4>2, CommitStores
      <3>2. CASE ~Commits
        BY <1>2, <3>2 DEF Quiet, Kinds, Presents, Waits, Acknowledged, Filled, mem_vars,
                          Idle, Readout, CompareMiss
      <3> QED
        BY <3>1, <3>2
    <2> QED
      BY <1>1, <2>1, <2>2, <2>3
  <1>3. CASE CompareHit(req_valid, req) /\ backing_mem' = backing_mem
    <2>1. Holders(l) = {}
      BY <1>3, HoldersSame DEF CompareHit
    <2> QED
      BY <1>1, <1>3, <2>1, HitRef
  <1>4. CASE Filled
    <2>1. RefMem' = MissMem /\ RefMem = ref_mem /\ RefCache = ref_cache
          /\ backing_mem' = backing_mem
      BY <1>4, FilledRef DEF Filled
    <2>2. FilledWay = victim /\ Mate(FilledWay) = MissWay /\ FilledWay \in Entry
          /\ FilledWay[1] = lat.addr.index
      BY <1>4, VictimsAreMates, FillStores DEF Filled, MissInv, Missing, FilledWay, victim
    <2>3. MissOld.valid = valid_ram[FilledWay]
      BY <2>1, <2>2 DEF PairInv, MissOld
    <2>4. MissOld.valid => MissOldLine = HeldLine(FilledWay)
      BY <2>1, <2>2 DEF PairInv, MissOld, MissOldLine, HeldLine
    <2>5. CASE valid_ram[FilledWay] /\ HeldLine(FilledWay) = l
      <3>1. backing_mem[l] = data_ram[FilledWay]
        BY <1>4, <2>5 DEF Filled, VictimIsSaved, FilledWay
      <3>2. MissOld.data = data_ram[FilledWay]
        BY <2>1, <2>2, <2>5 DEF PairInv, MissOld
      <3>3. MissOld.valid /\ MissOldLine = l
        BY <2>3, <2>4, <2>5
      <3>4. MissMem[l] = MissOld.data
        <4>1. CASE MissOld.dirty
          BY <3>3, <4>1 DEF MissMem, TypeOK
        <4>2. CASE ~MissOld.dirty
          <5>1. MissWay \in Entry /\ MissWay[1] = lat.addr.index
            BY MissTypes DEF MissWay
          <5>2. ref_mem[l] = MissOld.data
            BY <2>1, <3>3, <4>2, <5>1 DEF RefCleanInv, RefHeldLine, MissOld, MissOldLine
          <5> QED
            BY <4>2, <5>2 DEF MissMem
        <4> QED
          BY <4>1, <4>2
      <3> QED
        BY <2>1, <3>1, <3>2, <3>4
    <2>6. CASE ~(valid_ram[FilledWay] /\ HeldLine(FilledWay) = l)
      <3>1. Holders(l) = {}
        <4> SUFFICES ASSUME NEW e \in Entry, valid_ram[e], HeldLine(e) = l PROVE FALSE
          BY DEF Holders
        <4>1. e # FilledWay
          BY <2>6
        <4>2. valid_ram'[e] /\ HeldLine(e)' = l
          BY <1>4, <4>1, FillStores DEF TypeOK, CacheTypeOK
        <4> QED
          BY <4>2 DEF Holders
      <3>2. MissMem[l] = ref_mem[l]
        BY <2>3, <2>4, <2>6, MissTypes DEF MissMem, TypeOK
      <3> QED
        BY <1>1, <2>1, <3>1, <3>2
    <2> QED
      BY <2>5, <2>6
  <1> QED
    BY <1>2, <1>3, <1>4, QuietOrNot

LEMMA KeepsRefCleanInv ==
  ASSUME IInv, DataInv, Kinds, Scoreboard PROVE RefCleanInv'
  <1> USE DEF IInv, DataInv
  <1>0. RefCache \in [Entry -> RefWay] /\ RefMem \in [Line -> LineVal]
    BY RefTypes
  <1>1. CASE Quiet /\ ArraysSame
    BY <1>1, QuietRef DEF RefCleanInv, RefHeldLine
  <1>2. CASE CompareHit(req_valid, req)
    <2> SUFFICES ASSUME NEW e \in Entry, RefCache'[e].valid, ~RefCache'[e].dirty
                 PROVE  RefCache'[e].data = RefMem'[[tag |-> RefCache'[e].tag, index |-> e[1]]]
      BY DEF RefCleanInv, RefHeldLine
    <2>1. RefCache[e].valid /\ ~RefCache[e].dirty /\ RefCache'[e].data = RefCache[e].data
          /\ RefCache'[e].tag = RefCache[e].tag
      BY <1>2, HitRefFields
    <2>2. RefMem' = RefMem
      BY <1>2, HitRef
    <2> QED
      BY <2>1, <2>2 DEF RefCleanInv, RefHeldLine
  <1>3. CASE Filled
    <2>1. /\ RefCache' = [RefCache EXCEPT ![MissWay] = MissEntry] /\ RefMem' = MissMem
          /\ RefCache = ref_cache /\ RefMem = ref_mem
      BY <1>3, FilledRef
    <2>2. MissWay \in Entry /\ MissWay[1] = lat.addr.index
      BY MissTypes DEF MissWay
    <2> SUFFICES ASSUME NEW e \in Entry, RefCache'[e].valid, ~RefCache'[e].dirty
                 PROVE  RefCache'[e].data = MissMem[[tag |-> RefCache'[e].tag, index |-> e[1]]]
      BY <2>1 DEF RefCleanInv, RefHeldLine
    <2>3. CASE e = MissWay
      <3>1. RefCache'[e] = MissEntry
        BY <1>0, <2>1, <2>3
      <3>2. ~lat.wr /\ MissEntry.data = MissData /\ MissEntry.tag = lat.addr.tag
        BY <3>1 DEF MissEntry
      <3> QED
        BY <2>2, <2>3, <3>1, <3>2 DEF MissData, MissFill, LineOf
    <2>4. CASE e # MissWay
      <3>1. RefCache'[e] = RefCache[e]
        BY <1>0, <2>1, <2>4
      <3>2. RefCache[e].data = ref_mem[RefHeldLine(e)] /\ RefHeldLine(e) \in Line
        BY <1>0, <2>1, <3>1, EntryParts DEF RefCleanInv, RefHeldLine, Line, RefWay
      <3>3. MissOld.valid => MissOldLine # RefHeldLine(e)
        <4>1. RefHeldLine(MissWay) = MissOldLine /\ RefCache[MissWay] = MissOld
          BY <2>1, <2>2 DEF RefHeldLine, MissOld, MissOldLine
        <4> QED
          BY <2>2, <2>4, <3>1, <4>1, RefOneCopy
      <3>4. MissMem[RefHeldLine(e)] = ref_mem[RefHeldLine(e)]
        BY <1>0, <2>1, <3>2, <3>3 DEF MissMem
      <3> QED
        BY <3>1, <3>2, <3>4 DEF RefHeldLine
    <2> QED
      BY <2>3, <2>4
  <1> QED
    BY <1>1, <1>2, <1>3, QuietOrNot

(* What the cache does not hold the model does not hold.                   *)
LEMMA UnheldInModel ==
  ASSUME TypeOK, PairInv, RefCache = ref_cache, NEW a \in Addr, Holders(LineOf(a)) = {}
  PROVE  RefHits(a.index, a.tag) = {}
  <1> SUFFICES ASSUME NEW w \in RefHits(a.index, a.tag) PROVE FALSE
    OBVIOUS
  <1> DEFINE e == <<a.index, w>>
  <1>1. w \in Way /\ ref_cache[e].valid /\ ref_cache[e].tag = a.tag
    BY DEF RefHits
  <1>2. e \in Entry /\ e[1] = a.index
    BY <1>1, EntryType DEF Addr
  <1> HIDE DEF e
  <1>3. Mate(e) \in Entry /\ Mate(e)[1] = a.index /\ Mate(Mate(e)) = e
    BY <1>2, MateType, MateMate
  <1>4. valid_ram[Mate(e)] /\ tag_ram[Mate(e)] = a.tag
    BY <1>1, <1>3 DEF PairInv, e
  <1> QED
    BY <1>3, <1>4 DEF Holders, HeldLine, LineOf

LEMMA KeepsReadoutInvs ==
  ASSUME IInv, DataInv, Kinds, Scoreboard PROVE RefMissInv' /\ ReadoutInv'
  <1> USE DEF IInv, DataInv
  <1>1. CASE Quiet /\ ArraysSame
    BY <1>1, QuietRef DEF RefMissInv, ReadoutInv
  <1>2. CASE CompareHit(req_valid, req)
    BY <1>2, HitRef DEF RefMissInv, ReadoutInv
  <1>3. CASE Filled
    <2>1. RefCache = ref_cache /\ UNCHANGED ref_vars
      BY <1>3, FilledRef
    <2>2. FilledWay = victim /\ Mate(FilledWay) = MissWay /\ FilledWay \in Entry
      BY <1>3, VictimsAreMates, FillStores DEF Filled, MissInv, Missing, FilledWay, victim
    <2>3. lat' = lat /\ lat_victim_way' = lat_victim_way
      BY <1>3, FillStores
    <2>4. RefHits(lat.addr.index, lat.addr.tag) = {}
      <3>1. Holders(LineOf(lat.addr)) = {}
        BY <1>3 DEF Filled, MissInv, Missing
      <3> QED
        BY <2>1, <3>1, LatParts, UnheldInModel
    <2>5. RefMissInv'
      BY <2>1, <2>3, <2>4 DEF RefMissInv, RefHits, ref_vars
    <2>6. FilledWay' = FilledWay /\ MissWay' = MissWay /\ LineOf(lat.addr)' = LineOf(lat.addr)
      BY <2>1, <2>3 DEF FilledWay, MissWay, ref_vars, LineOf
    <2>7. valid_ram'[FilledWay]
      BY <1>3, <2>2, FillStores DEF TypeOK, CacheTypeOK
    <2>8. HeldLine(FilledWay)' = LineOf(lat.addr)'
      <3>1. tag_ram'[FilledWay] = lat.addr.tag /\ FilledWay[1] = lat.addr.index
        BY <1>3, <2>2, FillStores DEF TypeOK, CacheTypeOK
      <3> QED
        BY <2>6, <3>1 DEF HeldLine, LineOf
    <2>9. Mate(FilledWay)' = MissWay'
      <3>1. \A e \in Entry : Mate(e)' = Mate(e)
        BY MatesStay
      <3> HIDE DEF Mate
      <3> QED
        BY <2>2, <2>6, <3>1 DEF Mate
    <2> QED
      BY <2>5, <2>6, <2>7, <2>8, <2>9 DEF ReadoutInv
  <1> QED
    BY <1>1, <1>2, <1>3, QuietOrNot

-----------------------------------------------------------------------------
(* The verdicts.                                                           *)

LEMMA VerdictError ==
  ASSUME NEW hit \in BOOLEAN, NEW rdata, Verdict(hit, rdata)
  PROVE  /\ verdict'.line = LineOf(req.addr)
         /\ verdict'.error = "HIT mismatch" => resp_hit(req.addr) # hit
         /\ verdict'.error = "DATA mismatch" => ~req.wr /\ resp_rdata(req.addr) # rdata
  BY DEF Verdict

LEMMA NoVerdictError ==
  ASSUME verdict' = NoVerdict PROVE HitsAgree' /\ DataAgrees'
  BY DEF NoVerdict, HitsAgree, DataAgrees

(* The data read from a miss is what the model filled in.                  *)
LEMMA ReadoutData ==
  ASSUME TypeOK, PairInv, ReadoutInv, state = "READOUT", ~lat.wr, LineOf(lat.addr) \notin lost,
         NEW a
  PROVE  resp_rdata(a) = MissFill[lat.addr.word]
  <1>1. FilledWay \in Entry
    BY LatParts, EntryType DEF FilledWay, TypeOK, CacheTypeOK
  <1>2. RefCache[Mate(FilledWay)].data = data_ram[FilledWay]
    BY <1>1 DEF ReadoutInv, PairInv
  <1>3. RefCache[MissWay] = MissEntry
    <2>1. MissWay \in Entry /\ ref_cache \in [Entry -> RefWay]
      BY MissTypes DEF TypeOK, RefWay
    <2> QED
      BY <2>1 DEF RefCache
  <1>4. MissEntry.data = MissFill
    BY DEF MissEntry, MissData
  <1>5. data_ram[FilledWay] = MissFill
    BY <1>2, <1>3, <1>4 DEF ReadoutInv
  <1> QED
    BY <1>5 DEF resp_rdata, FilledWay

(* The data read from a hit is what the model has in the mate.             *)
LEMMA HitData ==
  ASSUME TypeOK, DriverInv, OneCopy, PairInv, state = "COMPARE_TAG", cache_hit(req.addr),
         LineOf(lat.addr) \notin lost
  PROVE  resp_rdata(req.addr) = ref_cache[Mate(HitWay)].data[lat.addr.word]
  <1>1. HitWay \in Entry /\ valid_ram[HitWay] /\ HeldLine(HitWay) = LineOf(lat.addr)
    BY HitsAreMates
  <1>2. RefCache[Mate(HitWay)].data = data_ram[HitWay] /\ RefCache = ref_cache
    BY <1>1 DEF PairInv, RefCache
  <1> QED
    BY <1>2 DEF resp_rdata, HitWay

LEMMA KeepsVerdicts ==
  ASSUME IInv, DataInv, Kinds, Scoreboard, lost \subseteq lost'
  PROVE  HitsAgree' /\ DataAgrees'
  <1> USE DEF IInv, DataInv
  <1>1. CASE verdict' = NoVerdict
    BY <1>1, NoVerdictError
  <1>2. CASE /\ state = "READOUT" /\ req = lat /\ Verdict(FALSE, MissFill[lat.addr.word])
    <2>1. resp_hit(req.addr) = FALSE
      BY <1>2 DEF resp_hit
    <2>2. HitsAgree'
      BY <1>2, <2>1, VerdictError DEF HitsAgree
    <2>3. ASSUME verdict'.error = "DATA mismatch" PROVE verdict'.line \in lost'
      <3>1. verdict'.line = LineOf(lat.addr)
        BY <1>2, VerdictError
      <3>2. ~lat.wr /\ resp_rdata(req.addr) # MissFill[lat.addr.word]
        BY <1>2, <2>3, VerdictError
      <3> QED
        BY <1>2, <3>1, <3>2, ReadoutData
    <2> QED
      BY <2>2, <2>3 DEF DataAgrees
  <1>3. CASE CompareHit(req_valid, req)
    <2>1. state = "COMPARE_TAG" /\ cache_hit(req.addr) /\ req = lat
      BY <1>3, HitsAreMates DEF CompareHit
    <2>2. resp_hit(req.addr) = TRUE
      BY <2>1 DEF resp_hit
    <2>3. Verdict(TRUE, ref_cache[Mate(HitWay)].data[lat.addr.word])
      BY <1>3, HitRef
    <2>4. HitsAgree'
      BY <2>2, <2>3, VerdictError DEF HitsAgree
    <2>5. ASSUME verdict'.error = "DATA mismatch" PROVE verdict'.line \in lost'
      <3>1. verdict'.line = LineOf(lat.addr)
        BY <2>1, <2>3, VerdictError
      <3>2. resp_rdata(req.addr) # ref_cache[Mate(HitWay)].data[lat.addr.word]
        BY <2>3, <2>5, VerdictError
      <3> QED
        BY <2>1, <3>1, <3>2, HitData
    <2> QED
      BY <2>4, <2>5 DEF DataAgrees
  <1>4. Quiet => \/ verdict' = NoVerdict
                 \/ state = "READOUT" /\ req = lat /\ Verdict(FALSE, MissFill[lat.addr.word])
    BY QuietRef
  <1>5. Filled => verdict' = NoVerdict
    BY FilledRef
  <1> QED
    BY <1>1, <1>2, <1>3, <1>4, <1>5, QuietOrNot

-----------------------------------------------------------------------------
(* The theorems.                                                           *)

LEMMA InitDataInv == Init => DataInv
  <1> SUFFICES ASSUME Init PROVE DataInv
    OBVIOUS
  <1>1. /\ state = "IDLE" /\ ref_cache = [e \in Entry |-> InvalidWay]
        /\ valid_ram = [e \in Entry |-> FALSE]
        /\ ref_mem = backing_mem /\ verdict = NoVerdict
    BY DEF Init, CacheInit
  <1>2. RefCache = ref_cache /\ RefMem = ref_mem
    BY <1>1 DEF RefCache, RefMem
  <1>3. \A e \in Entry : RefCache[e].valid = FALSE /\ valid_ram[e] = FALSE
    BY <1>1, <1>2 DEF InvalidWay
  <1>4. PairInv
    BY <1>3, InitTypeOK, MateType DEF PairInv
  <1>5. UnheldInv
    BY <1>1, <1>2 DEF UnheldInv
  <1>6. RefCleanInv /\ RefMissInv /\ ReadoutInv
    BY <1>1, <1>3 DEF RefCleanInv, RefMissInv, ReadoutInv
  <1>7. HitsAgree /\ DataAgrees
    BY <1>1 DEF NoVerdict, HitsAgree, DataAgrees
  <1> QED
    BY <1>4, <1>5, <1>6, <1>7 DEF DataInv

LEMMA NextDataInv == IInv /\ DataInv /\ Next => DataInv'
  <1> SUFFICES ASSUME IInv, DataInv, Next PROVE DataInv'
    OBVIOUS
  <1>1. CacheStep /\ Responder /\ Scoreboard /\ Remember
    BY CycleSplits DEF Testbench
  <1>2. Kinds
    BY <1>1, Cycles DEF IInv
  <1>3. lost \subseteq lost'
    BY <1>1, RememberKeepsTypes DEF IInv
  <1> QED
    BY <1>1, <1>2, <1>3, KeepsPairInv, KeepsUnheldInv, KeepsRefCleanInv, KeepsReadoutInvs,
       KeepsVerdicts DEF DataInv

LEMMA StutterDataInv == DataInv /\ UNCHANGED vars => DataInv'
  <1> SUFFICES ASSUME DataInv, UNCHANGED vars PROVE DataInv'
    OBVIOUS
  <1> USE DEF vars, cache_vars, mem_vars, ref_vars
  <1>1. MissWay' = MissWay /\ MissMem' = MissMem /\ MissEntry' = MissEntry
    BY DEF MissWay, MissOld, MissOldLine, MissMem, MissFill, MissData, MissEntry
  <1>2. RefCache' = RefCache /\ RefLru' = RefLru /\ RefMem' = RefMem
    BY <1>1 DEF RefCache, RefLru, RefMem
  <1>3. PairInv'
    BY <1>2 DEF DataInv, PairInv, Mate, HeldLine
  <1>4. UnheldInv' /\ RefCleanInv'
    BY <1>2 DEF DataInv, UnheldInv, Holders, HeldLine, RefCleanInv, RefHeldLine
  <1>5. RefMissInv' /\ ReadoutInv'
    BY <1>1, <1>2 DEF DataInv, RefMissInv, RefHits, ReadoutInv, FilledWay, HeldLine, LineOf, Mate
  <1>6. HitsAgree' /\ DataAgrees'
    BY DEF DataInv, HitsAgree, DataAgrees
  <1> QED
    BY <1>3, <1>4, <1>5, <1>6 DEF DataInv

THEOREM DataInductive == Spec => []DataInv
  <1>1. IInv /\ DataInv /\ [Next]_vars => DataInv'
    BY NextDataInv, StutterDataInv
  <1> QED
    BY InitDataInv, Inductive, <1>1, PTL DEF Spec

(* The cache never hits where the scoreboard expects a miss or misses      *)
(* where it expects a hit, whatever lru_ram holds at power-up.             *)
THEOREM HitsAlwaysAgree == Spec => []HitsAgree
  <1>1. DataInv => HitsAgree
    BY DEF DataInv
  <1> QED
    BY DataInductive, <1>1, PTL

(* Every read of a line that has not lost its dirty bit to a read hit      *)
(* returns what the scoreboard expects.                                    *)
THEOREM DataAlwaysAgrees == Spec => []DataAgrees
  <1>1. DataInv => DataAgrees
    BY DEF DataInv
  <1> QED
    BY DataInductive, <1>1, PTL

LEMMA ValuesAgree == IInv /\ DataInv => NothingElseLost
  <1> SUFFICES ASSUME IInv, DataInv, state = "IDLE", NEW l \in Line \ lost
               PROVE  CacheLine(l) = RefLine(l)
    BY DEF NothingElseLost
  <1> USE DEF IInv, DataInv
  <1>1. RefCache = ref_cache /\ RefMem = ref_mem
    BY DEF RefCache, RefMem
  <1>2. \A e \in Entry : e \in Holders(l) => Mate(e) \in RefHolders(l)
    BY <1>1, MateType DEF PairInv, Holders, HeldLine, RefHolders
  <1>3. \A e \in Entry : e \in RefHolders(l) => Mate(e) \in Holders(l)
    <2> TAKE e \in Entry
    <2>1. Mate(e) \in Entry /\ Mate(e)[1] = e[1] /\ Mate(Mate(e)) = e
      BY MateType, MateMate
    <2>2. /\ ref_cache[e].valid = valid_ram[Mate(e)]
          /\ valid_ram[Mate(e)] => ref_cache[e].tag = tag_ram[Mate(e)]
      BY <1>1, <2>1 DEF PairInv
    <2> QED
      BY <2>1, <2>2 DEF Holders, HeldLine, RefHolders
  <1>4. CASE Holders(l) = {}
    <2>1. RefHolders(l) = {}
      BY <1>3, <1>4 DEF RefHolders
    <2> QED
      BY <1>1, <1>4, <2>1 DEF UnheldInv, CacheLine, RefLine
  <1>5. CASE Holders(l) # {}
    <2> DEFINE e == CHOOSE h \in Holders(l) : TRUE
               f == CHOOSE h \in RefHolders(l) : TRUE
    <2>1. e \in Holders(l) /\ e \in Entry
      BY <1>5 DEF Holders
    <2>2. RefHolders(l) # {} /\ Mate(e) \in RefHolders(l)
      BY <1>2, <2>1
    <2>3. f \in RefHolders(l) /\ f \in Entry
      BY <2>2 DEF RefHolders
    <2> HIDE DEF e, f
    <2>4. f = Mate(e)
      BY <1>1, <2>2, <2>3, RefOneCopy DEF RefHolders, RefHeldLine
    <2>5. ref_cache[f].data = data_ram[e]
      BY <1>1, <2>1, <2>4 DEF PairInv, Holders
    <2> QED
      BY <1>5, <2>2, <2>5 DEF CacheLine, RefLine, e, f
  <1> QED
    BY <1>4, <1>5

(* Between transactions every line that has not lost its dirty bit has the *)
(* value the scoreboard gives it, in the cache or else in memory.          *)
THEOREM NothingElseIsLost == Spec => []NothingElseLost
  BY Inductive, DataInductive, ValuesAgree, PTL

=============================================================================
