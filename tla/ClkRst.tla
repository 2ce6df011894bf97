------------------------------- MODULE ClkRst --------------------------------
(***************************************************************************)
(* The clock and reset agent (tb/common/uvc/clk_rst_uvc): the oscillator   *)
(* and the countdown of clk_rst_if, the driver with its queue of deltas,   *)
(* the handler of expired countdowns, and the sequences that wait.         *)
(*                                                                         *)
(* Posedge opens a time step.  The processes the edge wakes (countdown,    *)
(* driver, then handler) run one at a time in any order, each to its next  *)
(* wait, and the sequences they answer go on in the same step; the next    *)
(* edge comes when nothing is left to run.                                 *)
(***************************************************************************)
EXTENDS Integers, Sequences, SequencesExt

CONSTANTS
  Waiters,      \* sequences that only wait (clk_rst_wait_clocks_sequence)
  Main,         \* the sequence that starts, stops and resets, one at a time
  Counts,       \* the numbers of clocks sequences wait for, 1 or more
  ResetDelays,  \* the values of reset_delay
  Modulus,      \* 2^32 in the code: the range of int unsigned
  MainOps,      \* bound: operations Main starts
  HoldCap,      \* bound: edges of reset that are counted
  AllowTies     \* whether a request may expire together with a queued one

Clients == Waiters \cup {Main}

ASSUME ClientsAssumption == Main \notin Waiters
ASSUME ModulusAssumption == Modulus \in Nat \ {0} /\ Modulus % 2 = 0
ASSUME CountsAssumption == Counts \subseteq 1 .. Modulus \div 2 - 1 /\ ResetDelays \subseteq Nat
ASSUME BoundsAssumption ==
  /\ MainOps \in Nat /\ HoldCap \in Nat \ {0}
  /\ \A n \in Counts \cup ResetDelays : n <= HoldCap

VARIABLES
  clk_running, rst_n,
  cycle_countdown,   \* an int: Modulus \div 2 and more are negative
  counter,           \* the countdown process has this edge to run for
  count_reached,     \* clock_cycle_count_reached has been triggered
  driver,            \* what run_phase does, and the edges it waits for
  woken,             \* run_phase waits for an edge, and it has come
  queue,             \* count_clocks_request_queue
  requests,          \* the sequencer's items, first come first served
  seq,               \* what each sequence sends or waits for
  ops,               \* operations Main has started
  hold, held         \* history: edges of reset asked for, and seen

vars == <<clk_running, rst_n, cycle_countdown, counter, count_reached, driver, woken,
          queue, requests, seq, ops, hold, held>>
clock == <<clk_running, counter, count_reached>>
reset == <<rst_n, hold, held>>

Unsigned(x) == x % Modulus
AsInt(x) == IF x < Modulus \div 2 THEN x ELSE x - Modulus

Getting == [op |-> "get", edges |-> 0]

Init ==
  /\ clk_running = FALSE /\ rst_n = FALSE
  /\ cycle_countdown = 0 /\ counter = FALSE /\ count_reached = FALSE
  /\ driver = Getting /\ woken = FALSE
  /\ queue = <<>> /\ requests = <<>>
  /\ seq = [c \in Clients |-> "idle"] /\ ops = 0
  /\ hold = 0 /\ held = 0

-----------------------------------------------------------------------------
(* The sequences.  A sequence goes on as soon as the driver has taken its  *)
(* item; only a count is answered, later.                                  *)

SendCount(c) ==
  /\ c \in Waiters /\ seq[c] = "idle"
  /\ seq' = [seq EXCEPT ![c] = "COUNT_CLOCKS"]
  /\ requests' = Append(requests, c)
  /\ UNCHANGED <<clock, reset, cycle_countdown, driver, woken, queue, ops>>

SendMain ==
  /\ seq[Main] = "idle" /\ ops < MainOps
  /\ \E item \in {"START_CLOCK", "STOP_CLOCK", "ASSERT_RESET"} :
       seq' = [seq EXCEPT ![Main] = item]
  /\ requests' = Append(requests, Main)
  /\ ops' = ops + 1
  /\ UNCHANGED <<clock, reset, cycle_countdown, driver, woken, queue>>

(* A reset pulse counts after it has asserted, and deasserts when the      *)
(* count is answered.                                                      *)
AfterSending(item) ==
  CASE item = "ASSERT_RESET" -> "COUNT_CLOCKS"
    [] item = "COUNT_CLOCKS" -> "counting"
    [] OTHER -> "idle"

Taken ==
  LET c == Head(requests)
      next == AfterSending(seq[c])
  IN  /\ seq' = [seq EXCEPT ![c] = next]
      /\ requests' = IF next = "COUNT_CLOCKS" THEN Append(Tail(requests), c) ELSE Tail(requests)

-----------------------------------------------------------------------------
(* The interface.                                                          *)

Quiet == ~counter /\ ~count_reached /\ ~woken /\ (driver = Getting => requests = <<>>)

(* The design samples rst_n at the edge, before anything in the agent runs. *)
Posedge ==
  /\ clk_running /\ Quiet
  /\ counter' = TRUE
  /\ woken' = (driver # Getting)
  /\ held' = IF ~rst_n /\ held < HoldCap THEN held + 1 ELSE held
  /\ UNCHANGED <<clk_running, rst_n, hold, cycle_countdown, count_reached, driver, queue,
                 requests, seq, ops>>

Counter ==
  /\ counter /\ counter' = FALSE
  /\ cycle_countdown' = IF cycle_countdown > 0 THEN cycle_countdown - 1 ELSE cycle_countdown
  /\ count_reached' = (count_reached \/ cycle_countdown = 1)
  /\ UNCHANGED <<clk_running, reset, driver, woken, queue, requests, seq, ops>>

-----------------------------------------------------------------------------
(* queue_count_clock_request.  Total(q, i) is the time at which the entry  *)
(* before the i-th expires.                                                *)

Total(q, i) ==
  LET sum[j \in 0 .. Len(q)] == IF j = 0 THEN 0 ELSE sum[j - 1] + q[j].count
  IN  sum[i - 1]

StaleSnapshot(q) == q   \* faulty variant: the front keeps the count it was queued with
Snapshot(q) == [q EXCEPT ![1].count = Unsigned(cycle_countdown)]

(* The walk: before the first entry that expires later, else behind the    *)
(* last one; the comparison with the last delta can be met only by a       *)
(* request that equals the time of an entry in between.                    *)
Walk(q, c, n) ==
  LET last == Len(q)
      fits(i) == n > Unsigned(Total(q, i)) /\ n < Unsigned(Total(q, i + 1))
      delta(i) == Unsigned(n - Total(q, i))
      before(i) == InsertAt([q EXCEPT ![i].count = Unsigned(@ - delta(i))], i,
                            [id |-> c, count |-> delta(i)])
  IN  IF \E i \in 1 .. last : fits(i)
      THEN before(CHOOSE i \in 1 .. last : fits(i) /\ \A j \in 1 .. i - 1 : ~fits(j))
      ELSE IF n < q[last].count THEN before(last)
      ELSE Append(q, [id |-> c, count |-> delta(last + 1)])

QueueCountClockRequest(c, n) ==
  LET now == Unsigned(cycle_countdown)
      q == Snapshot(queue)
      item == [id |-> c, count |-> n]
  IN  \/ /\ queue = <<>>
         /\ queue' = <<item>>
         /\ cycle_countdown' = AsInt(n)
      \/ /\ queue # <<>> /\ n < now
         /\ queue' = <<item>> \o [q EXCEPT ![1].count = now - n]
         /\ cycle_countdown' = AsInt(n)
      \/ /\ queue # <<>> /\ n = now
         /\ queue' = <<[item EXCEPT !.count = 0]>> \o q
         /\ UNCHANGED cycle_countdown
      \/ /\ queue # <<>> /\ n > now
         /\ queue' = Walk(q, c, n)
         /\ UNCHANGED cycle_countdown

(* process_count_clocks_responses: the front is answered, then every entry *)
(* that follows with a delta of zero, and the next delta is loaded.  An    *)
(* answered reset pulse sends its DEASSERT_RESET.                          *)
OnlyFront == 1   \* faulty variant: nothing but the front is answered
Expired ==
  CHOOSE k \in 1 .. Len(queue) :
    /\ \A i \in 2 .. k : queue[i].count = 0
    /\ k < Len(queue) => queue[k + 1].count # 0

LoadNothing == UNCHANGED cycle_countdown   \* faulty variant
LoadNext ==
  cycle_countdown' = IF queue' = <<>> THEN cycle_countdown ELSE AsInt(Head(queue').count)

Respond ==
  /\ count_reached /\ queue # <<>>
  /\ count_reached' = FALSE
  /\ LET answered == {queue[i].id : i \in 1 .. Expired} IN
       /\ seq' = [c \in Clients |-> IF c \notin answered THEN seq[c]
                                    ELSE IF c = Main THEN "DEASSERT_RESET" ELSE "idle"]
       /\ requests' = IF Main \in answered THEN Append(requests, Main) ELSE requests
  /\ queue' = SubSeq(queue, Expired + 1, Len(queue))
  /\ LoadNext
  /\ UNCHANGED <<clk_running, counter, reset, driver, woken, ops>>

-----------------------------------------------------------------------------
(* run_phase: the items the driver gets.                                   *)

Gets(item) == driver = Getting /\ requests # <<>> /\ seq[Head(requests)] = item /\ Taken

(* start_clock drives reset until reset_delay edges have come.             *)
StartClock ==
  /\ Gets("START_CLOCK")
  /\ clk_running' = TRUE
  /\ \E delay \in ResetDelays :
       /\ driver' = IF delay > 0 THEN [op |-> "START_CLOCK", edges |-> delay] ELSE Getting
       /\ rst_n' = (delay = 0)
       /\ hold' = delay /\ held' = 0
  /\ UNCHANGED <<counter, count_reached, cycle_countdown, woken, queue, ops>>

StopClock ==
  /\ Gets("STOP_CLOCK")
  /\ clk_running' = FALSE
  /\ UNCHANGED <<counter, count_reached, cycle_countdown, reset, driver, woken, queue, ops>>

(* assert_reset and deassert_reset wait for the next edge (which the faulty *)
(* variant does only for the first).                                       *)
DeassertAtOnce ==
  /\ \/ Gets("ASSERT_RESET") /\ driver' = [op |-> "ASSERT_RESET", edges |-> 1] /\ UNCHANGED rst_n
     \/ Gets("DEASSERT_RESET") /\ rst_n' = TRUE /\ UNCHANGED driver
  /\ UNCHANGED <<clock, cycle_countdown, hold, held, woken, queue, ops>>
ChangeReset ==
  /\ \E op \in {"ASSERT_RESET", "DEASSERT_RESET"} :
       Gets(op) /\ driver' = [op |-> op, edges |-> 1]
  /\ UNCHANGED <<clock, cycle_countdown, reset, woken, queue, ops>>

(* The times of the queued requests: of each entry, and of each client.    *)
DueAt(i) == cycle_countdown + Total(queue, i + 1) - Total(queue, 2)
Due == [c \in {queue[i].id : i \in 1 .. Len(queue)} |->
          DueAt(CHOOSE i \in 1 .. Len(queue) : queue[i].id = c)]

(* A tie that the queue gets wrong: with the front entry, or with any but  *)
(* the last.                                                               *)
BadTie(n) ==
  queue # <<>> /\ (n = DueAt(1) \/ \E i \in 1 .. Len(queue) : n = DueAt(i) /\ n # DueAt(Len(queue)))

CountClocks ==
  /\ Gets("COUNT_CLOCKS")
  /\ \E n \in Counts :
       /\ AllowTies \/ ~BadTie(n)
       /\ QueueCountClockRequest(Head(requests), n)
       /\ hold' = IF Head(requests) = Main THEN n ELSE hold
  /\ UNCHANGED <<clock, rst_n, held, driver, woken, ops>>

(* An edge the driver waited for: at the last one it drives the reset.     *)
WaitsTooLong == driver.edges > 0   \* faulty variant
WaitsOn == driver.edges > 1

DriverWakes ==
  /\ woken /\ woken' = FALSE
  /\ IF WaitsOn
     THEN driver' = [driver EXCEPT !.edges = @ - 1] /\ UNCHANGED reset
     ELSE /\ driver' = Getting
          /\ rst_n' = (driver.op # "ASSERT_RESET")
          /\ held' = IF driver.op = "ASSERT_RESET" THEN 0 ELSE held
          /\ UNCHANGED hold
  /\ UNCHANGED <<clock, cycle_countdown, queue, requests, seq, ops>>

Driver == StartClock \/ StopClock \/ ChangeReset \/ CountClocks \/ DriverWakes

Next == (\E c \in Clients : SendCount(c)) \/ SendMain \/ Posedge \/ Counter \/ Respond \/ Driver

Spec == Init /\ [][Next]_vars

(* Time goes on while the clock runs, and a process that can run does.     *)
Fairness == WF_vars(Posedge) /\ WF_vars(Counter) /\ WF_vars(Respond) /\ WF_vars(Driver)

FairSpec == Spec /\ Fairness

-----------------------------------------------------------------------------
Items == {"START_CLOCK", "STOP_CLOCK", "ASSERT_RESET", "DEASSERT_RESET", "COUNT_CLOCKS"}
TypeOK ==
  /\ {clk_running, rst_n, counter, count_reached, woken} \subseteq BOOLEAN
  /\ cycle_countdown \in -(Modulus \div 2) .. Modulus \div 2 - 1
  /\ driver = Getting \/ (driver.op \in Items /\ driver.edges \in 1 .. HoldCap)
  /\ \A i \in 1 .. Len(queue) : queue[i].id \in Clients /\ queue[i].count \in 0 .. Modulus - 1
  /\ ToSet(requests) \subseteq Clients
  /\ seq \in [Clients -> Items \cup {"idle", "counting"}]
  /\ ops \in 0 .. MainOps /\ hold \in 0 .. HoldCap /\ held \in 0 .. HoldCap

(* The queue holds the sequences that wait, each once, and the countdown   *)
(* runs exactly while there is one whose time has not come: neither a      *)
(* request that joins an expired front nor an answer stops it.             *)
CounterRuns ==
  /\ \A c \in Clients :
       (seq[c] = "counting") <=> \E i \in 1 .. Len(queue) :
          queue[i].id = c /\ \A j \in 1 .. Len(queue) : queue[j].id = c => j = i
  /\ cycle_countdown > 0 <=> queue # <<>> /\ ~count_reached

(* Whatever the order of requests, deltas and races at an edge, each       *)
(* request is answered exactly as many edges after it was taken as it      *)
(* asked for ("a sorted delta-queue so that overlapping delay requests     *)
(* from multiple sequences are served in order", clk_rst_driver.sv:79-80). *)
Promise == INSTANCE ClkCount WITH due <- Due
ServesOnTime == Promise!Spec

(* Reset is released only after as many edges in reset as were asked for:  *)
(* although a count taken at the asserting edge may count that edge, the   *)
(* edge deassert_reset waits for makes up for it.                          *)
ResetHeld == [][~rst_n /\ rst_n' => held' >= hold']_vars

(* While the clock runs every wait ends, and Main gets through its pulses. *)
RequestsAnswered ==
  <>[]clk_running => \A c \in Clients : seq[c] # "idle" ~> seq[c] = "idle"
=============================================================================
