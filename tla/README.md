# u-risc-v in TLA+

A verification project for the RTL and the test environment of u-risc-v: a
five-stage RV32I core, a two-way write-back L1 cache, the benches and agents
around them, the regression runner, and the C side of the UVM library the
benches are linked with.  Modules are model-checked with TLC on small instances;
the safety of the core, of its ALU and immediate generator, of the cache with its
bench, of the clock agent, the runner, and the three services of the DPI library
(HDL backdoor, command line, name matching) is proved with TLAPS for every value of
their constants.  Source paths below are
relative to `src/`.

## Inventory

| Part | Source | State | Operations | Interacts with |
|---|---|---|---|---|
| IFU | `hdl/cpu/datapath/rv_ifu.sv` | PC, previous PC, SRAM output, IF/ID, delayed redirect | fetch, hold, redirect, flush | stall from IDU, redirect from EXU |
| IDU | `rv_idu.sv`, `rv_datapath_ctrl.sv`, `rv_hdu.sv`, `rv_regfile.sv` | register file, ID/EX | decode, bypass, detect load-use, bubble, write back | write data from WBU, flush from EXU |
| EXU | `rv_exu.sv`, `rv_fwdu.sv`, `rv_alu*.sv` | EX/MEM | forward, compute, compare, redirect | operands from ID/EX, EX/MEM, MEM/WB |
| MEMU, WBU | `rv_memu.sv`, `rv_wbu.sv`, `sram.sv` | data memory and its output register, MEM/WB | load, store, select write data | register file, forwarding |
| reset harness | `tb/cpu/*/env/*_base.svh` | `rst_n` | `apply_reset` | every resettable flop |
| directed tests | `tb/cpu/*/tests` | programs, expected values | load, run, assert | the core |
| L1 cache | `hdl/common/l1_cache.sv` | controller, latched request, tag, data, valid, dirty, LRU arrays | compare, write back, fill, read out | CPU port, memory port |
| L1 bench | `tb/common/uvc/rv_l1c_uvc` | driver, memory responder, scoreboard model | drive, answer, replay and compare | both ports of the cache |
| clock and reset agent | `tb/common/uvc/clk_rst_uvc` | clock, reset, queue of countdowns | start, stop, count, assert | sequences of a test |
| regression runner | `scripts/run` | tests, threads, results | build, run, judge, summarise | simulator processes |
| UVM DPI: HDL backdoor | `lib/uvm/.../dpi/uvm_hdl*.c` | value and forces of a design object, the caller's vector, a static flag | check path, read, deposit, force, release, release and read | the simulator's C interfaces |
| UVM DPI: command line | `uvm_svcmd_dpi.c` | argument list, position, count | count, store, hand out one by one | simulator, `uvm_cmdline_processor` |
| UVM DPI: name matching | `uvm_regex.cc`, `uvm_regex.svh` | none that lasts | glob to regular expression, match | the C library |
| the rest | UVM in SystemVerilog (vendored), `models/`, set-up scripts, legacy `tb/uvc`, docs | | | |

The behaviours that are hard to test: instructions at four stages that depend on
each other, with stalls and redirects meeting in the same cycle; a synchronous
instruction SRAM whose output lags the PC; reset at any moment, which clears
some registers at once, some at the clock and some never; a cache that holds a
request across a miss while its port and its LRU bits can change; write-backs
that must be in memory before something else happens; a queue of time
differences that several sequences push into while it counts down; threads that
share run directories and raise in the middle of a list; bit ranges written one
bit after the other until one fails.  `PROJECT.json` lists them
as hazards at their lines.  What makes each component correct:

* core: it computes what one-instruction-at-a-time execution computes;
  operands are the newest values; stalls end; reset forgets everything;
* cache and bench: one copy of a line; what was written is what is read;
  a victim is in memory before its way is refilled; a request is answered long
  before the driver gives up;
* countdown agent: each request is answered exactly when its count is over, none
  is lost, reset lasts as long as asked for;
* runner: exit status 0 only if every test ran to its end and did not fail;
* DPI: a read returns the bits of its path, a write changes those and no others;
  the argument list is the command line's; a glob matches what a glob means.

## Modules

| Module | Models | Correspondence |
|---|---|---|
| `RvTypes` | words, registers, instruction records, address arithmetic | parameters of both the abstract machines and the pipeline; ALU and comparator are CONSTANT operators |
| `RvIfu`, `RvIdu`, `RvExu`, `RvMemu` | the stages | a variable per register or register group; `...Clock` is the block's `always_ff` at one edge, `...ClockInReset` the same with `rst_n` low, `...AssertReset` its asynchronous clear |
| `RvCpu` | `rv_cpu` and the harness | wires are operators; the actions are `Clock`, `ClockInReset`, `AssertReset`, `ReleaseReset` |
| `RvIsa` | abstract: the sequential architecture | one instruction per step, plus reset |
| `RvErrata` | abstract: the same with the two fetch errata | a queue of three fetch slots behind the PC |
| `RvAlu`, `RvImmgen` | `rv_alu`, `rv_alu_ctrl`, branch comparator; `rv_immgen` | functions on words of DW bits, numbers whose bits are quotients by powers of two; instruction words and immediates as functions from bit positions |
| `L1Cache` | `l1_cache.sv`, `onehot2bin.sv` | one action per state of the controller, port values as parameters |
| `L1Bench` | driver, responder, monitor, scoreboard | a step is a clock cycle: rising edge for the cache and the sampling, falling edge for the driving; `waited` counts the edges of the driver's loops, which give up at `timeout_cycles` |
| `ClkRst` | `clk_rst_if`, `clk_rst_driver`, the waiting sequences | `Posedge` opens a time step; then countdown, driver and handler run one at a time, in any order, each to its next wait |
| `ClkCount` | abstract: one private countdown per request | answered n rising edges later, before the next |
| `Regress` | `scripts/run` in regression mode | stages of a test's run as actions of a thread; collection, exception, abort and summary as actions of the main thread |
| `UvmHdlSim` | what the backdoor sees of a simulator (external) | one object, its forces, the words of a vector |
| `UvmHdlQuesta`, `UvmHdlXcelium`, `UvmHdlVcs` | the three vendor files | one operator per C function that changes state, prefixed Q, X, V |
| `UvmHdl` | `uvm_hdl.c`, the Verilator stub, the six imported calls | one action per call, and the design's own driving |
| `UvmCmdline` | `uvm_svcmd_dpi.c` and the processor's constructor | the two walks step by step with the lists they are in; the reference reads a vector by putting the contents of its first file in the file's place until none is left |
| `UvmRegex` | `uvm_regex.cc`, `uvm_regex.svh` | conversion and matching with the DPI as one action each, the loops over a string as recursive functions; the matcher without the DPI turn by turn: an action for each of its three loops; regcomp and regexec (external) as items and the places of the string they can reach |
| `UvmDpi` | `uvm_dpi.cc`: the three services as one library | one service per behaviour |
| `*_proofs` | theorems | see Proofs |
| `MC*` | instances for TLC | |

An instruction word is abstracted to the fields the datapath extracts.  The raw
`rd`, `rs1`, `rs2` fields are kept for every format, because hazard detection and
forwarding look at them whether they mean a register or immediate bits.
Definitions marked "faulty variant" are deliberate mistakes: with one of them in
place of the real definition the property it is listed with must fail
(`PROJECT.json`, `mutants`).

### Abstract specifications

`RvIsa` is what software expects.  `RvCpu` does not refine it for every program:
`RvErrata` is the machine it does refine.  It differs in two events only, both
consequences of `pc_prev` and the SRAM output having neither enable nor reset:

1. out of reset the instruction at address 0 is executed twice;
2. when a load is followed by an instruction with the load's `rd` in a register
   field, the instruction behind that one is lost and the next executed twice.

`ErrataSpec` maps the pipeline to `RvErrata` (registers and memory as they will
be when EX/MEM and MEM/WB have drained; the queue read off whichever front-end
register holds the oldest instruction), `IsaSpec` to `RvIsa`.  `AvoidsErrata`
says which programs cannot tell the two apart.  A store still in EX/MEM when
reset falls is cancelled; both abstract machines say so with `undo`.

`ServesOnTime` maps `ClkRst` to `ClkCount`: what remains of a request is read off
the running countdown plus the deltas up to its entry.  It holds as long as no
request ties with a queued one in a way the queue gets wrong (`AllowTies`).

The scoreboard of the L1 bench is an abstract cache of its own: `HitsAgree`,
`DataAgrees` and `NothingElseLost` relate the RTL to it.

## Runs

| Run | Result | Shows |
|---|---|---|
| `cpu_programs` | pass | all programs of three instructions out of fifteen (3375), reset at any moment, once: inductive invariant, fresh operands, reset, stalls, refinement of `RvErrata` |
| `cpu_clean` | pass | the programs among them that avoid the errata refine `RvIsa`; the pipeline never starves |
| `cpu_loaduse` | violation | the instruction behind a load-use stall is lost |
| `cpu_tests` | pass | eight directed programs reach their asserted values, in all assertions but one, which fails and is left out (see below) |
| `combinational` | pass | ALU and comparator agree with bitwise references; every bit of every immediate is where RV32I has it |
| `l1_coherent` | pass | cache, memory and scoreboard agree, except for lines whose dirty bit a read hit has cleared; no wait of the driver comes near its time-out |
| `l1_dirty` | violation | a read hit clears another line's dirty bit and its data is lost |
| `clkrst` | pass | without ties, every wait is answered at its edge, reset lasts as asked, every request is answered |
| `clkrst_tie` | violation | a tie with the front of the queue delays the request that was there |
| `dpi_library` | pass | HDL backdoor, command line and name matching do what `uvm_hdl.svh` and the SystemVerilog twins say, for the calls listed below |
| `dpi_release` | violation | `release_and_read` of a Verilog object returns 1 without having set the caller's vector to the value that is left |
| `regress` | pass | the exit status tells the truth, nothing is left running, the runner ends |

### Bounds

`cpu_*`: three registers, words of 5 bits, 8 instruction and 2 data
words, so that addresses wrap and registers collide all the time; three
instructions in a row are the longest chain that forwarding, bypass and stall
relate, and the PC wraps so that each program runs in a loop.  The menu has
every opcode class, loads to x0, backward branches and unused fields that equal
a destination.  The harness holds reset for 5 edges; `cpu_programs` uses 2, the
fewest the invariant allows, and `MaxResets` is 1 because a reset leaves
nothing of what preceded it but the memory (`ResetForgets`).  `cpu_tests` uses
words of 7 bits, so expected values are taken modulo 128.  Power-up contents of
unreset registers are one junk value in the runs and arbitrary in the proofs.

`combinational`: 4-bit words with a 3-bit shift field are the code's 32 and 6 in
small; immediates are checked on 32-bit words, all zeros or all ones but for one
bit of the immediate, with the rest of the word both ways.

`l1_*`: one set, one-byte words, three lines for two ways is the least that hits,
misses and evicts; power-up LRU bits are arbitrary.  `MaxLost` stops new items
once more than that many lines have lost their dirty bit: 1 in `l1_coherent`,
so that the loss of one line is seen to leave the others alone; unbounded (3) in
`l1_dirty`.  The responder waits 1 to 3 edges.  The longest wait of the driver
follows from that: tag comparison, write-back, fill and read-out take 14 edges
(`LongestWait`); `timeout_cycles` is the 200 of the code.  Byte masks are all or
nothing.  The proofs lift all of this but the limit on the responder's delays.

`clkrst`: two waiting sequences and the main one, counts of 1 to 4: two entries
in the queue, a third on its way, every order of expiry.  `Modulus` 32 stands for
2^32: deltas are unsigned, the countdown is an int.  `MainOps` 4 is enough for
start, reset, stop and start again; `HoldCap` stops the history counters.
`clkrst_tie` has a third waiter and `MainOps` 2.

`dpi_library`: words of 2 bits and a vector of three, objects of 2 and 3 bits:
one word exactly, and more than one with the last not full.  Paths are the whole
object, an unknown name, an index, a range each way and one that runs off the
object.  A second command line processor follows the first (`MaxProcessors`);
command lines have up to three arguments behind the program's name, among them
files within files, six files at most in one (`MaxFiles`).  Globs and strings are of up to three characters, with the
special forms that need more, and two globs and a string on which the matcher
without the DPI goes back more than once.  Any glob is one whose expression fits the
buffer `uvm_re`, and neither globs nor strings have the alternatives (`|`) and
intervals (`{`) of POSIX, which the model of regcomp does not know
(`GlobsAssumption`).  The run's VIEW leaves out `call`, the history of
the last call, which the properties only look at in the step that makes it.

`regress`: one, three distinct, and twice the same of three tests, 1 to 3
threads, and every nature of each test.

### Fairness and deadlock

`RvCpu!FairSpec`: weak fairness of both kinds of clock edge and of
the release of reset: the benches toggle the clock forever and `apply_reset`
runs to its end.  `ClkRst!FairSpec`: time goes on while the
clock runs, and a process that can run does, as in every simulator; nothing
makes the main sequence start a stopped clock.  `Regress!FairSpec`: threads run,
and every simulation ends, because the harness stops it at its time limit.  The L1
bench needs no fairness: a step of it is a clock cycle, and what must happen is
bounded in cycles (`AnsweredInTime`).

Deadlock is not checked in three places: `combinational` evaluates an instruction
once; in `clkrst*` a stopped clock stops the agent; in `dpi_library` a walk or a
match that has its answer is over.

## What the runs and the reading found

Four disagreements are checked (`findings`): the load-use stall, the dirty bit
cleared by a read hit, the tie in the countdown queue, and the value that
`release_and_read` owes its caller.  Met while modelling, and
stated by the models as the code has it:

* Out of reset the instruction at address 0 is executed twice (`ErrataSpec`).
* One assertion of the repository fails: `ASSERT_EQ(memory[1], 7)`
  (`test_asm_simple.svh:36`).  The program stores the 7 at byte 8, and the SRAM
  (`sram.sv:15-21`) has byte 8 in entry 2, where `test_asm_prog_control.svh:49`
  looks for the word it stores there.  `DirectedTestsPass` leaves this assertion
  out and asks for the 7 in entry 2.
* Register shifts read six bits of rs2 (`rv_alu`), RV32I five; `PlainShift` is
  true of the amounts on which the two agree, and the properties speak of no other.
* `l1_cache` raises `req_ready` early on a hit but compares the tag with the
  address on the port.  A requester that pipelines its next request would be
  compared wrongly; the driver holds the request (`PortHeld`, proved).
* `STOP_CLOCK` followed by `ASSERT_RESET` blocks the driver for good.  A count of
  2^31 or more, or of zero, is never answered: `Counts` excludes them, and
  `RequestsAnswered` asks for a running clock.
* A simulation that ends at its own limit prints `[TIMEOUT]` and has status 0:
  the runner counts it as PASS.  A test that is listed twice shares its run
  directory, and can fail or raise for it, never pass falsely (what one run
  half writes there the other is taken not to pass on).

The HDL backdoor keeps the promises of `uvm_hdl.svh` for the calls that
`Readable`, `Writable` and `ReleaseReadable` admit.  These are all reads and writes
of Verilog objects (with VCS, of names that exist), and on VHDL objects those of
one word, with values 0 and 1 for writes.  The value of `release_and_read` is promised for every
call and kept for fewer: never by VCS, and not for ranges of Verilog objects by
Questa; `ReleaseLands` exempts these, `ReleaseAndReadReturns` (run
`dpi_release`) does not and fails.  What is excluded is what the C code does
differently:

* Questa: words of a VHDL object above the first are scrambled; a character that
  is no digit repeats the previous bit; ranges and bits of VHDL are deposited even
  when forced, a bit taking the vector's position `rhs`; after a range that failed
  the vector is no longer cleared, which `ReadIsTrue` cannot tell, because it
  looks at the bits of the path only; `release_and_read` of a range reads its last
  bit.
* Xcelium: `release_and_read` of a range lifts the forces and returns 0; the conversion to VHDL uses
  `||` and `&&` where bitwise operators are meant, and a read of VHDL takes in
  memory it has not written.
* VCS: `release_and_read` never fills the vector (`uvm_hdl.svh:105-106` says it
  does); reading an unknown name returns no value; a mixed-language read keeps
  stale bits, a write drops leading zeros, X and Z.

Of the other two services: an empty argument on the command line ends the
processor's collection, a string between slashes that is no regular expression
matches nothing, and an empty glob matches everything when there is no DPI.
A backslash, and an anchor that is not at its end of the glob, are passed on to the
regular expression as they are; `IsGlob` excludes the globs that have them from
what a glob promises.  The limit of 2040 characters is checked on the glob and not
on the expression, which can be twice as long; longer globs than fit are not
modelled.

The repository itself builds the Verilator stub (`scripts/run:281-292`), which
answers 0 to every call.

## Proofs

No theorem takes anything on trust but the constants' assumptions.

### The core: `RvCpu_proofs`

They hold for any constants that satisfy the assumptions of `RvTypes`:
word size even and above 8, non-empty register file and memories, reset held for
two edges or more, programs made of decodable instructions, an ALU that returns
words and adds for addresses.

`IInv` is the inductive invariant of `RvCpu`.  The type invariant and
`OperandsFresh` are not inductive: that an operand is fresh depends on the
values in ID/EX being those of the register file (`DecodeInv`, kept by the
bypass), on no load in EX/MEM being read by its follower (`LoadInv`, kept by the
stall) and on bubbles being harmless; that the instruction in ID/EX is the one
at its PC depends on the front end's word and PC staying together (`FetchInv`).
`ResetInv` says what holds during reset, step by step.

* `TypeCorrect`, `Inductive`: `Init`, each of the four actions, then PTL.
* `OperandsAreFresh`, `ResetsForget`: from `IInv` by cases on where the value is.
* `StallsAreShort`: an action property, the bubble clears `memread`.
* `Refinement`: every step of the pipeline is a step of `RvErrata` or a stutter.
  `ClockExecutes` treats an edge with a live instruction in ID/EX (lemmas
  `FetchAdvances`, `FetchRedirected`, `ExComputes`, `Drain`, `Retire`),
  `ClockCommits` one with a bubble, `ResetRefines` the reset actions.
* `IsaRefinement`: programs that satisfy `AvoidsErrata` keep the queue of
  `RvErrata` straight, so each of its steps is one of `RvIsa`.

### The ALU and the immediate generator: `RvAlu_proofs`

For any width `DW` that is a power of two, with a shift amount one bit wider than
RV32I's, which is what `rv_alu` has (`ShiftAssumption`, `WidthsAssumption`).
The results are those of `combinational`, there for 4 bits, here for 32 too.

The model computes with numbers, the reference looks at bits, so the proof is
about the quotients of a number by powers of two.  `Pow2` is a recursive function
because the provers know nothing of exponentiation; that it exists, and that it
doubles, is proved (`PowersExist`, `PowerSteps`), induction being the search for a
least counterexample (`LeastNat`, `UpTo`).  `Halves` splits a bit off a quotient,
`NestedQuotient` composes quotients, `BitsBelow` and `BitsAbove` give the bits of
a number above the low bits of another, and `OfOnesIs` the bits of a word built
from a set of ones.  From these:

* `LessIsBelow`, `BelowIsLess`, `SignedBelowIsLess`: comparing numbers is comparing
  bits from the top, the sign first;
* `ShiftLeft`, `ShiftRight`, `ShiftRightSigned`, `ShamtIs`: a product or a quotient
  by a power of two moves bits, and fills with the sign;
* `AluComputesRv32i`, `BranchesCompare` then follow by the operation `rv_alu_ctrl`
  selects (`Selected`) and the comparison `funct3` selects.

`ImmediateGathered` says of every instruction word, not only the ones a run
presents, that each concatenation of `rv_immgen` gathers its format's immediate
from the right positions and extends its sign: the concatenations are
worked out field by field (`ITypeIs`, ... `JTypeIs`).  `ImmediatesComeOut` follows.

### The cache with its bench: `L1Bench_proofs`

They hold for any sets of indices, tags, words, bytes and items, any delays of
the responder from one to three edges, and any `MaxLost`, however many lines lose their dirty bit.

The first half is about control.  Its `IInv` says in which states of the
controller the driver and the responder can be (neither cache nor bench has a
handshake the other could miss), that the latched request is the driver's
(`PortHeld`), that a missed line is in neither way until it is filled, and that
the victim is in memory from the write-back's commit to the fill.  `OneCopy` is
not inductive without the third, `VictimIsSaved` not without the first.
`WaitsAreShort` rests on `WaitInv`: the edges waited and the most that can still
come (`EdgesLeft`, by the states of controller and responder) stay within
`LongestWait`, because every edge takes one off what can still come
(`OneEdgeLess`).  That no wait is ever given up (`NoneGivenUp`) is needed by all
the others in turn: after a time-out the port would change in mid-miss.

The second half is about data.  The scoreboard replays a transaction only after
the cache has finished with it, so the two are compared through the model as it
will be (`RefCache`, `RefLru`, `RefMem`: the scoreboard with the transaction under
way replayed).  Power-up LRU bits are not the scoreboard's, so the ways of a set
agree either as they are or swapped, for good (`Mate`).  `PairInv` says that each
entry and its mate hold the same line with the same data unless it is lost,
`RefCleanInv` and `UnheldInv` that clean and absent lines are in memory,
`RefMissInv` and `ReadoutInv` connect the states in the middle of a miss and of
the answer.  `HitsAlwaysAgree`, `DataAlwaysAgrees` and `NothingElseIsLost` follow.

### The clock agent: `ClkRst_proofs`

For any set of waiting sequences, any even modulus, and any counts below its half
(`CountsAssumption`: the countdown is an int, so a larger count is never
answered).  `TypeCorrect` needs nothing else.  The other three assume
`~AllowTies`, that no request is made that would expire together with a queued
one: with a tie the code does delay the request that was there (`clkrst_tie`), so
the hypothesis is needed, and `clkrst` runs under it.

The delta queue is read as edges: `DueAt(i)` is the running countdown plus the
deltas up to entry i.  These sums are a recursive function (`Total`), and the
lemmas about them (what inserting, dropping the front and counting down do to
them) are inductions by least counterexample.  `QueueInv` says that the sums
grow strictly, that each waiting sequence has exactly one entry, and that the
countdown runs exactly while an unanswered entry is in front.

* `CountdownRuns`: from `QueueInv`.
* `CountsServed`: a refinement.  A request's entry in `ClkCount` is its `Due`;
  a step of the driver that inserts into the queue makes the promise and moves no
  other `Due`, a step of the countdown takes one off all of them, the handler
  answers exactly the one that is due.
* `ResetHeldLong`: `PulseInv` gives the main sequence the reset to itself from
  assertion to release, `HeldInv` counts the edges seen against those still to come
  in whatever process has them; none is lost when the driver, the countdown
  and the handler run in a different order at an edge.

### The runner: `Regress_proofs`

For any lists of tests and numbers of jobs.  `IInv` ties each test's stage to
what the main thread has collected (`StageInv`, `CollectInv`), the threads in use
to the entries running (`JobsInv`), the turn of the sequential runner to the
entries before it (`TurnInv`), and the exit status to all of them (`ExitInv`).
`VerdictsAreTruthful` needs that a dictionary built from the outcomes keeps the
last of a test listed twice; that there is a last one comes from well-foundedness
of the finite subsets (`FiniteSetTheorems`).

### The HDL backdoor: `UvmHdl_proofs`

For any object widths, word size, paths, vectors and driven values, and with any
vendor file.  The theorems are about `HdlSpec`, the backdoor on its own;
`UvmDpi_proofs` carries them over to the library.  For that each action property
is a lemma about any behaviour in which `HdlInv` holds and every step is one of
`HdlNext` or none of the backdoor's (`ReadSteps`, `WriteSteps`, ...).

`HdlInv` is the types, with the fact that a Verilog object never holds a value
that only VHDL has, and that the library is compiled with one vendor file, for
good.  The rest is properties of single steps: `OnlySelectedBitsChange`,
`FailedDepositsArePrefixes`, `WritesLand`, `ReleasesLand`, `ReadsAreTrue`.  They
rest on lemmas about

* paths: which bits a path selects, in which direction, and that position and
  bit are inverse to one another;
* words: that a vector's position is a word and a place in it, whatever the size
  of a word and however short the last one is;
* conversions: what each vendor's loop leaves in the string, the words or the
  bits it converts to, whole or bit by bit up to the first that fails.

`Readable`, `Writable` and `ReleaseReadable` are hypotheses of the properties
themselves; what they exclude is listed above.

### The command line: `UvmCmdline_proofs`

For any vectors, files in files included, in which reading ends after some number
of files (`FilesAssumption`; the C code would not end otherwise).  The theorems
are about `CmdSpec`, the command line on its own.

What both walks have pushed, followed by what is left in the lists they are in,
innermost first, is always an inlining of the argument vector: entering a file
inlines it, pushing an argument moves it from one part to the other
(`Counting`, `Storing`, `LeadingStay`).  At the end of a walk nothing is left, so
what was pushed is the reading (`WalkEnds`, `ReadWithoutFiles`): the first walk has
counted it, the second stored it, and `ArrayHolds` follows.  `CollectsTheReading`
adds the constructor's loop: the queues are selections of what was handed out
so far, up to the first empty argument.

### Name matching and the library: `UvmDpi_proofs`

For any characters, globs and strings that satisfy `GlobsAssumption`.  The loops
over a string are recursive functions, of which the provers know nothing but
their equation: `Recursion` shows that such a function exists, and every lemma
about one is an induction by least counterexample.

* `MatchingAgrees`: the expression of a glob, without its slashes, compiles to the
  anchors and one item for each of the glob's characters (`WholeCompiled`), whatever
  backslashes the conversion had to put in; the places that those items reach
  (`ReachIs`) are the cuts at which the glob's characters cover the string.  So
  the search is a match, and `DpiAnswers` what `GlobMatches` says.
* `BothMatchersAgree` needs an invariant, because the matcher without the DPI goes
  back to one place only, the last star it has met.  `Running`, in `ReInv`, says that
  before the first star and after the string's end the whole glob matches the string
  exactly if what is left of the one matches what is left of the other, and in
  between, exactly if what follows the last star does from where it is being tried or
  from further on; and that it fits as far as it was compared.  That the earlier
  stars never have to be cut differently is the step at a new star: the first place
  where what precedes it fits leaves the most to it (the lemmas about stretches).
* `TurnsRunOut`: the loops of that matcher cannot go on forever, for any glob.
  With every turn the last star moves on, or the place where what follows it is
  tried, or the place in the string; `TurnInv` bounds all three.  That a turn is
  made at all is fairness, and not part of it.
* `LibraryKeepsItsInvariants`, `LibraryBackdoorLands`: `UvmDpi` lets one service
  run while the others rest, and a step of the library is a step of each service or
  none of it (`StepOfEach`).  `DpiInv` joins the three invariants; a command line
  at rest need not be one of `CommandLines`, so for it the invariant is that it rests.
  What the services keep on their own they keep in the library.

### Only model-checked

* Liveness (`KeepsExecuting`, `DirectedTestsPass`, `RequestsAnswered`,
  `Ends`): out of the prover's reach.

Every safety property and every action property of a passing run is a theorem, and
so are the refinements.

## Not modelled

* X propagation and timing inside a cycle.  Where the RTL races (the release of
  reset) or leaves a register unset (power-up), the model chooses freely; but all
  flops see the release of reset at the same edge, because Verilator, which the
  runner uses, evaluates the clocked blocks of an edge together.
* FENCE, ECALL and undecodable words: programs are made of decodable ones.
* Sub-word access: the code gives LB, LH, SB, SH word access, and so do both
  abstract machines.
* Reset in mid-sequence of the L1 bench (`pulse_reset`, which no sequence calls)
  and overlapping requests to its monitor (which its driver does not make).
* The time-out of the L1 monitor, which waits for the same response as the driver
  and as long, so that `AnsweredInTime` bounds it too.
* Option parsing, command lines of the tools, waves and logs of `scripts/run`.
* Of the DPI library: error reports and the calls that end a simulation, the
  tool's name and version, compiled regular expressions handed to SystemVerilog,
  VCS's builds without mixed language or with fast access, and memory errors (a
  use after free in `uvm_hdl_xcelium.c`) beyond the values they can yield.
* Vendored UVM in SystemVerilog, simulator models, set-up scripts, the legacy
  `tb/uvc/rv_uvc`, `mem.sv`, `dff.sv`, `top.sv`: no behaviour of the system, no
  state, or no users.

## What is left

1. A model of `rv_l1c_driver` that presents its next request in the cycle of the
   answer, if the driver ever does: `PortHeld` would fail.
2. Reset in mid-sequence of the L1 bench, if a sequence ever calls `pulse_reset`:
   the scoreboard's model would then have to forget what the cache does.
