------------------------------- MODULE Regress -------------------------------
(***************************************************************************)
(* The regression runner (scripts/run, lines 382-434): a list of tests, up *)
(* to jobs of them at a time, each prepared, compiled and simulated in a   *)
(* directory named after the test; the verdicts are collected in the order *)
(* of the list and summarised, and the exit status tells CI.               *)
(*                                                                         *)
(* What a test is like (its nature) is given; Verilator and the file       *)
(* system are seen through what they do to the test's run.                 *)
(***************************************************************************)
EXTENDS Naturals, Sequences, FiniteSets, Functions

CONSTANTS
  Lists,     \* the regression lists, sequences of test names
  JobCounts  \* the values of -j

ASSUME RunnerAssumption == Lists \subseteq Seq(STRING) /\ JobCounts \subseteq Nat \ {0}

(* missing: no testbench, no assembly, no filelist (RuntimeError);         *)
(* unreadable: an unknown variable in the filelist, or a file that cannot  *)
(* be opened (SystemExit, OSError); times_out: the simulation stops itself *)
(* with [TIMEOUT] and status 0.                                            *)
Natures == {"missing", "unreadable", "does_not_compile", "crashes", "reports_fail",
            "times_out", "passes"}

VARIABLES
  tests, jobs, nature,   \* fixed when the runner starts
  stage,      \* how far the run of each entry is
  collected,  \* entries whose outcome the main thread has
  main,       \* what the main thread does
  summary,    \* the verdict printed for each entry
  status      \* the exit status

vars == <<tests, jobs, nature, stage, collected, main, summary, status>>
given == <<tests, jobs, nature>>

Entries == 1 .. Len(tests)
Running == {i \in Entries : stage[i] \in {"prepare", "compile", "simulate"}}

Init ==
  /\ tests \in Lists /\ jobs \in JobCounts
  /\ nature \in [Range(tests) -> Natures]
  /\ stage = [i \in Entries |-> "queued"]
  /\ collected = 0 /\ main = "collect"
  /\ summary = <<>> /\ status = 0

-----------------------------------------------------------------------------
(* A run.  run_one catches what is a RuntimeError and makes it FAIL.       *)

GoesTo(i, s) == stage' = [stage EXCEPT ![i] = s] /\ UNCHANGED <<given, collected, main, summary, status>>

(* A free thread takes the next entry; without threads the main thread     *)
(* runs it when it has the outcome of the one before.                      *)
Start(i) ==
  /\ stage[i] = "queued" /\ \A j \in 1 .. i - 1 : stage[j] # "queued"
  /\ IF jobs = 1 THEN main = "collect" /\ collected = i - 1 ELSE Cardinality(Running) < jobs
  /\ GoesTo(i, "prepare")

Prepare(i) ==
  /\ stage[i] = "prepare"
  /\ GoesTo(i, CASE nature[tests[i]] = "missing"    -> "FAIL"
                 [] nature[tests[i]] = "unreadable" -> "raised"
                 [] OTHER                           -> "compile")

(* Two runs of one test share its directory: while one writes the hex      *)
(* file, the wrapper, the file list or the binary there, the other may     *)
(* find them half written or gone, or fail to start the binary (OSError).  *)
(* Both write the same contents, so what is half written can make a test   *)
(* fail, but is taken not to let a failing one pass.  A preparation reads  *)
(* nothing that another run writes.                                        *)
Disturbed(i) ==
  \E j \in Entries \ {i} : tests[j] = tests[i] /\ stage[j] \in {"prepare", "compile"}

Compile(i) ==
  /\ stage[i] = "compile"
  /\ \/ nature[tests[i]] # "does_not_compile" /\ GoesTo(i, "simulate")
     \/ nature[tests[i]] = "does_not_compile" /\ GoesTo(i, "FAIL")
     \/ Disturbed(i) /\ GoesTo(i, "FAIL")

(* FAIL for a status other than 0 or FAIL in the output, else PASS; the    *)
(* faulty variant does not look at the output.                             *)
VerdictByStatus(i) == IF nature[tests[i]] = "crashes" THEN "FAIL" ELSE "PASS"
Verdict(i) == IF nature[tests[i]] \in {"crashes", "reports_fail"} THEN "FAIL" ELSE "PASS"

Simulate(i) ==
  /\ stage[i] = "simulate"
  /\ \/ GoesTo(i, Verdict(i))
     \/ Disturbed(i) /\ (GoesTo(i, "FAIL") \/ GoesTo(i, "raised"))

-----------------------------------------------------------------------------
(* The main thread: list(executor.map(run_one, tests)).                    *)

NotRaised(s) == s # "raised"   \* faulty variant: outcomes are not waited for
Returned(s) == s \in {"PASS", "FAIL"}

Collect ==
  /\ main = "collect" /\ collected < Len(tests)
  /\ Returned(stage[collected + 1])
  /\ collected' = collected + 1
  /\ UNCHANGED <<given, stage, main, summary, status>>

(* An exception of run_one comes out of map, which cancels what has not    *)
(* started; the executor waits for what has, and the runner ends without a *)
(* summary.                                                                *)
Raise ==
  /\ main = "collect" /\ collected < Len(tests) /\ stage[collected + 1] = "raised"
  /\ main' = "shutdown"
  /\ stage' = [i \in Entries |-> IF stage[i] = "queued" THEN "cancelled" ELSE stage[i]]
  /\ UNCHANGED <<given, collected, summary, status>>

(* Faulty variants: nothing is waited for; cancelled runs are, too.        *)
WaitsForNone == TRUE
WaitsForAll == \A i \in Entries : stage[i] \in {"PASS", "FAIL", "raised"}

AllReturned == Running = {}

Abort ==
  /\ main = "shutdown" /\ AllReturned
  /\ main' = "exited" /\ status' = 1
  /\ UNCHANGED <<given, stage, collected, summary>>

(* dict(outcome_list): a test listed twice keeps its last outcome.         *)
Results(t) == stage[CHOOSE i \in Entries :
                tests[i] = t /\ \A j \in Entries : tests[j] = t => j <= i]

Summarise ==
  /\ main = "collect" /\ collected = Len(tests)
  /\ main' = "exited"
  /\ summary' = [i \in Entries |-> Results(tests[i])]
  /\ status' = IF \E i \in Entries : summary'[i] = "FAIL" THEN 1 ELSE 0
  /\ UNCHANGED <<given, stage, collected>>

Done == main = "exited" /\ UNCHANGED vars

Run(i) == Start(i) \/ Prepare(i) \/ Compile(i) \/ Simulate(i)
Next == (\E i \in Entries : Run(i)) \/ Collect \/ Raise \/ Abort \/ Summarise \/ Done

Spec == Init /\ [][Next]_vars

(* Threads run, and every simulation ends: the harness has a time limit.   *)
FairSpec == Spec /\ WF_vars(\E i \in Entries : Run(i))
                 /\ WF_vars(Collect \/ Raise \/ Abort \/ Summarise)

-----------------------------------------------------------------------------
TypeOK ==
  /\ stage \in [Entries -> {"queued", "prepare", "compile", "simulate", "PASS", "FAIL",
                            "raised", "cancelled"}]
  /\ collected \in 0 .. Len(tests)
  /\ main \in {"collect", "shutdown", "exited"} /\ status \in {0, 1}
  /\ summary = <<>> \/ summary \in [Entries -> {"PASS", "FAIL"}]

Plain == \A i, j \in Entries : tests[i] = tests[j] => i = j   \* no test listed twice
Healthy(t) == nature[t] \in {"passes", "times_out"}

(* CI's verdict is the truth about the tests: the runner exits with 0      *)
(* exactly if every test of the list ran to its end and is healthy, and    *)
(* what it prints for each is its own outcome.  A test that is listed      *)
(* twice can fail or raise for sharing its directory, but never passes     *)
(* falsely.                                                                *)
(* A simulation that ends at its own time limit counts as healthy, because *)
(* it finishes with status 0 and [TIMEOUT] is not looked for.              *)
VerdictTruthful ==
  main = "exited" =>
    /\ status = 0 => \A i \in Entries : Healthy(tests[i]) /\ summary[i] = "PASS"
    /\ Plain /\ (\A i \in Entries : Healthy(tests[i])) => status = 0
    /\ Plain /\ summary # <<>> =>
         \A i \in Entries : summary[i] = (IF Healthy(tests[i]) THEN "PASS" ELSE "FAIL")

(* However it ends, no simulation is left behind, at most jobs ran at a    *)
(* time, and a summary is printed only when every listed test has run:     *)
(* one that fails keeps no other from running.                             *)
NothingLeftRunning ==
  /\ Cardinality(Running) <= jobs
  /\ main = "exited" => Running = {}
  /\ summary # <<>> => \A i \in Entries : stage[i] \in {"PASS", "FAIL"}

(* The runner ends, also when a run raises in the middle of the list.      *)
Ends == <>(main = "exited")
=============================================================================
