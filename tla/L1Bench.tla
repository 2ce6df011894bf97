------------------------------ MODULE L1Bench ------------------------------
(***************************************************************************)
(* The cache in its verification environment (rv_l1c_uvc): the driver and  *)
(* monitor on the CPU side, the memory responder on the other, and the     *)
(* scoreboard with its reference model of a cache.                         *)
(*                                                                         *)
(* A step is a clock cycle: the rising edge, where the cache moves and the *)
(* testbench samples its outputs, and the falling edge, where the          *)
(* testbench drives its inputs for the next rising edge.                   *)
(***************************************************************************)
EXTENDS L1Cache, FiniteSets

CONSTANTS
  WrDelays, RdDelays,  \* rising edges the responder waits before ack or data
  Pattern,             \* gen_line: what the memory holds at first
  Items,               \* the transactions a sequence may contain
  MaxLost              \* bound: no new item once more lines than this are lost

ASSUME BenchAssumption ==
  /\ WrDelays \subseteq 1 .. 3 /\ RdDelays \subseteq 1 .. 3
  /\ Pattern \in [Line -> LineVal]
  /\ Items \subseteq Request

VARIABLES
  drv,            \* what rv_l1c_driver waits for: an item, ready, response
  waited,         \* edges at which that wait has not ended
  req,            \* the request port, which keeps the last item driven
  mem_phase,      \* the responder: idle, ready, busy, answer
  mem_capt,       \* the request it captured
  mem_delay,
  backing_mem,    \* the memory of the responder
  ref_cache, ref_lru, ref_mem,   \* the scoreboard's model
  verdict,        \* what the scoreboard found in this cycle
  lost            \* history: lines whose dirty bit a read hit has cleared

mem_vars == <<mem_phase, mem_capt, mem_delay, backing_mem>>
ref_vars == <<ref_cache, ref_lru, ref_mem>>
vars == <<cache_vars, drv, waited, req, mem_vars, ref_vars, verdict, lost>>

(***************************************************************************)
(* The wires from the testbench to the cache.                              *)
(***************************************************************************)
req_valid      == drv = "request"
mem_req_ready  == mem_phase = "ready"
mem_wr_ack     == mem_phase = "answer" /\ mem_capt.wr
mem_resp_valid == mem_phase = "answer" /\ ~mem_capt.wr
mem_resp_rdata == backing_mem[mem_capt.addr]

(***************************************************************************)
(* The driver: drive_transaction, item after item with any gap between.    *)
(* Either wait is given up after timeout_cycles edges, with an error, and  *)
(* the next item is fetched.                                               *)
(***************************************************************************)
timeout_cycles == 200

GetItem ==
  /\ waited' = 0
  /\ \/ drv' = "item" /\ UNCHANGED req
     \/ drv' = "request" /\ req' \in Items /\ Cardinality(lost) <= MaxLost

Ready     == drv = "request" /\ req_ready(req.addr)
Responded == drv = "response" /\ resp_valid(req.addr)

WaitOn == waited' = waited + 1 /\ UNCHANGED <<drv, req>>
NoAnswer ==
  /\ drv # "item" /\ ~Ready /\ ~Responded
  /\ IF waited + 1 < timeout_cycles THEN WaitOn ELSE GetItem

(* Faulty variant: the next item is driven as soon as one is accepted.     *)
DriverMovesOn ==
  \/ drv = "item" /\ GetItem
  \/ Ready /\ drv' = "response" /\ waited' = 0 /\ req' \in Items
  \/ Responded /\ GetItem
  \/ NoAnswer

Driver ==
  \/ drv = "item" /\ GetItem
  \/ Ready /\ drv' = "response" /\ waited' = 0 /\ UNCHANGED req
  \/ Responded /\ GetItem
  \/ NoAnswer

(***************************************************************************)
(* The memory responder.                                                   *)
(***************************************************************************)
NoCapture == [wr |-> FALSE, addr |-> LineOf(ResetAddr), wdata |-> PowerUpLine]

Capture ==
  /\ mem_phase = "idle" /\ mem_req_valid
  /\ mem_phase' = "ready"
  /\ mem_capt' = [wr |-> mem_req_wr, addr |-> mem_req_addr, wdata |-> mem_req_wdata]
  /\ UNCHANGED <<mem_delay, backing_mem>>

TakeRequest ==
  /\ mem_phase = "ready"
  /\ mem_phase' = "busy"
  /\ mem_delay' \in IF mem_capt.wr THEN WrDelays ELSE RdDelays
  /\ backing_mem' = IF mem_capt.wr
                      THEN [backing_mem EXCEPT ![mem_capt.addr] = mem_capt.wdata]
                      ELSE backing_mem
  /\ UNCHANGED mem_capt

(* Faulty variant: one edge too many is waited for.                        *)
DelayTooLong ==
  /\ mem_phase = "busy"
  /\ mem_delay' = mem_delay - 1
  /\ mem_phase' = IF mem_delay = 0 THEN "answer" ELSE "busy"
  /\ UNCHANGED <<mem_capt, backing_mem>>

Delay ==
  /\ mem_phase = "busy"
  /\ mem_delay' = mem_delay - 1
  /\ mem_phase' = IF mem_delay = 1 THEN "answer" ELSE "busy"
  /\ UNCHANGED <<mem_capt, backing_mem>>

Answered ==
  /\ mem_phase = "answer"
  /\ mem_phase' = "idle" /\ mem_capt' = NoCapture
  /\ UNCHANGED <<mem_delay, backing_mem>>

NoRequest == mem_phase = "idle" /\ ~mem_req_valid /\ UNCHANGED mem_vars

Responder == Capture \/ TakeRequest \/ Delay \/ Answered \/ NoRequest

(***************************************************************************)
(* The scoreboard: the monitor hands over the transaction with the         *)
(* response, and write() replays it on the model.                          *)
(***************************************************************************)
NoVerdict == [line |-> LineOf(ResetAddr), error |-> "none"]

(* The data of a read is compared if hit or miss was as expected.          *)
Verdict(exp_hit, exp_rdata) ==
  verdict' =
    [line |-> LineOf(req.addr),
     error |-> IF resp_hit(req.addr) # exp_hit THEN "HIT mismatch"
               ELSE IF ~req.wr /\ resp_rdata(req.addr) # exp_rdata
                 THEN "DATA mismatch"
               ELSE "none"]

RefHits(i, tag) == {w \in Way : ref_cache[<<i, w>>].valid /\ ref_cache[<<i, w>>].tag = tag}

RefHit(way) ==
  LET line == ref_cache[way].data  a == req.addr IN
  /\ ref_cache' = IF req.wr
       THEN [ref_cache EXCEPT
              ![way].data = LineWriteWord(line, a.word, req.wdata, req.wmask),
              ![way].dirty = TRUE]
       ELSE ref_cache
  /\ ref_lru' = [ref_lru EXCEPT ![a.index] = Other(way[2])]
  /\ UNCHANGED ref_mem
  /\ Verdict(TRUE, line[a.word])

RefMiss ==
  LET a    == req.addr
      way  == <<a.index, ref_lru[a.index]>>
      old  == ref_cache[way]
      mem  == IF old.valid /\ old.dirty
                THEN [ref_mem EXCEPT ![[tag |-> old.tag, index |-> a.index]] = old.data]
                ELSE ref_mem
      fill == mem[LineOf(a)]
  IN
  /\ ref_mem' = mem
  /\ ref_cache' = [ref_cache EXCEPT ![way] =
       [valid |-> TRUE, dirty |-> req.wr, tag |-> a.tag,
        data |-> IF req.wr THEN LineWriteWord(fill, a.word, req.wdata, req.wmask)
                 ELSE fill]]
  /\ ref_lru' = [ref_lru EXCEPT ![a.index] = Other(way[2])]
  /\ Verdict(FALSE, fill[a.word])

Check ==
  LET hits == RefHits(req.addr.index, req.addr.tag) IN
  IF hits # {} THEN RefHit(<<req.addr.index, CHOOSE w \in hits : \A v \in hits : w <= v>>)
  ELSE RefMiss

Scoreboard ==
  IF Responded THEN Check
  ELSE verdict' = NoVerdict /\ UNCHANGED ref_vars

(* History of the dirty bits that read hits clear.                         *)
Remember ==
  lost' = IF resp_hit(req.addr) /\ ~lat.wr /\ victim_dirty
            THEN lost \cup {[tag |-> tag_ram[victim], index |-> lat.addr.index]}
            ELSE lost

(***************************************************************************)
(* The bench.                                                              *)
(***************************************************************************)
InvalidWay == [valid |-> FALSE, dirty |-> FALSE, tag |-> PowerUpTag,
               data |-> PowerUpLine]

Init ==
  /\ CacheInit
  /\ drv = "item" /\ waited = 0 /\ req = lat
  /\ mem_phase = "idle" /\ mem_delay = 0
  /\ mem_capt = NoCapture
  /\ backing_mem = Pattern
  /\ ref_cache = [e \in Entry |-> InvalidWay]
  /\ ref_lru = [i \in Index |-> 0]
  /\ ref_mem = Pattern
  /\ verdict = NoVerdict
  /\ lost = {}

Testbench == Driver /\ Responder /\ Scoreboard /\ Remember

CycleIdle          == Idle(req_valid, req) /\ Testbench
CycleCompareHit    == CompareHit(req_valid, req) /\ Testbench
CycleCompareMiss   == CompareMiss(req) /\ Testbench
CycleWriteback     == Writeback(mem_req_ready) /\ Testbench
CycleWritebackWait == WritebackWait(mem_wr_ack) /\ Testbench
CycleFill          == Fill(mem_req_ready) /\ Testbench
CycleFillWait      == FillWait(mem_resp_valid, mem_resp_rdata) /\ Testbench
CycleReadout       == Readout(req_valid, req) /\ Testbench

Next ==
  \/ CycleIdle \/ CycleCompareHit \/ CycleCompareMiss \/ CycleWriteback
  \/ CycleWritebackWait \/ CycleFill \/ CycleFillWait \/ CycleReadout

Spec == Init /\ [][Next]_vars

(***************************************************************************)
(* Properties.                                                             *)
(***************************************************************************)
TypeOK ==
  /\ CacheTypeOK
  /\ drv \in {"item", "request", "response"}
  /\ waited \in 0 .. timeout_cycles - 1
  /\ req \in Request
  /\ mem_phase \in {"idle", "ready", "busy", "answer"}
  /\ mem_capt \in [wr : BOOLEAN, addr : Line, wdata : LineVal]
  /\ mem_delay \in 0 .. 3
  /\ backing_mem \in [Line -> LineVal] /\ ref_mem \in [Line -> LineVal]
  /\ ref_cache \in [Entry -> [valid : BOOLEAN, dirty : BOOLEAN, tag : Tag, data : LineVal]]
  /\ ref_lru \in [Index -> Way]
  /\ lost \subseteq Line

(* The line an entry of the arrays holds.                                  *)
HeldLine(e) == [tag |-> tag_ram[e], index |-> e[1]]
Holders(l) == {e \in Entry : valid_ram[e] /\ HeldLine(e) = l}
RefHolders(l) ==
  {e \in Entry : ref_cache[e].valid /\ [tag |-> ref_cache[e].tag, index |-> e[1]] = l}

(* The tags are compared with the address on the port, everything else is  *)
(* done with the request latched: the port carries that request for as     *)
(* long as it is served, although req_ready comes early on a hit.          *)
PortHeld == state # "IDLE" => req = lat

(* No line is in two ways, so the hit vector is one-hot as onehot2bin      *)
(* takes for granted, and a line has one copy to be written and evicted.   *)
OneCopy == \A e, f \in Entry :
  valid_ram[e] /\ valid_ram[f] /\ HeldLine(e) = HeldLine(f) => e = f

(* Cache and scoreboard agree on every hit and miss, whatever lru_ram,     *)
(* which no reset reaches, holds at power-up.                              *)
HitsAgree == verdict.error # "HIT mismatch"

(* Reads return what the scoreboard expects, of every line that has not    *)
(* lost its dirty bit to a read hit.                                       *)
DataAgrees == verdict.error = "DATA mismatch" => verdict.line \in lost

(* The testbench finds no error at all (the scoreboard's own claim: its    *)
(* model keeps the dirty bit on a read hit).                               *)
NoScoreboardError == verdict.error = "none"

(* Between transactions every line has the value the scoreboard gives it,  *)
(* in the cache or else in memory: no write is lost, no fill is stale.     *)
CacheLine(l) ==
  IF Holders(l) = {} THEN backing_mem[l] ELSE data_ram[CHOOSE e \in Holders(l) : TRUE]
RefLine(l) ==
  IF RefHolders(l) = {} THEN ref_mem[l] ELSE ref_cache[CHOOSE e \in RefHolders(l) : TRUE].data

NothingElseLost ==
  state = "IDLE" /\ drv # "response" => \A l \in Line \ lost : CacheLine(l) = RefLine(l)

(* From the fill request on, the way to be overwritten holds nothing that  *)
(* memory does not have: the write-back has been committed before.         *)
VictimIsSaved ==
  state \in {"FILL", "FILL_WAIT"} =>
    LET e == <<lat.addr.index, lat_victim_way>> IN
    valid_ram[e] /\ HeldLine(e) \notin lost => data_ram[e] = backing_mem[HeldLine(e)]

(* A memory request stays as it is until it is accepted, although victim   *)
(* tag and data are read from the arrays and not latched.                  *)
MemRequestStable ==
  [][mem_req_valid /\ ~mem_req_ready =>
       /\ mem_req_valid'
       /\ <<mem_req_wr', mem_req_addr', mem_req_wdata'>> =
            <<mem_req_wr, mem_req_addr, mem_req_wdata>>]_vars

(* No wait of the driver, for ready or for the response, outlasts a miss   *)
(* with a write-back: tag comparison, two requests to memory and read-out. *)
(* This is far from the timeout_cycles at which driver and monitor give    *)
(* up, so neither drops a request that may still be answered.              *)
LongestDelay == 3
LongestWait == 2 * (LongestDelay + 3) + 2
AnsweredInTime == waited < LongestWait

=============================================================================
