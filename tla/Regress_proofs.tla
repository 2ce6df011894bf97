--------------------------- MODULE Regress_proofs ---------------------------
(***************************************************************************)
(* Theorems about the regression runner, for regression lists of any       *)
(* length and any number of jobs.                                          *)
(***************************************************************************)
EXTENDS Regress, FiniteSetTheorems, WellFoundedInduction, TLAPS

GivenInv ==
  /\ tests \in Seq(STRING) /\ jobs \in Nat \ {0}
  /\ nature \in [Range(tests) -> Natures]

(* How far a run gets says what its test is like; a healthy test fails or  *)
(* raises only beside another run of itself.                               *)
StageInv ==
  \A i \in Entries :
    /\ stage[i] = "compile" => nature[tests[i]] \notin {"missing", "unreadable"}
    /\ stage[i] = "simulate" =>
         nature[tests[i]] \in {"crashes", "reports_fail", "times_out", "passes"}
    /\ stage[i] = "PASS" => Healthy(tests[i])
    /\ stage[i] = "FAIL" => ~Healthy(tests[i]) \/ ~Plain
    /\ stage[i] = "raised" => ~Healthy(tests[i]) \/ ~Plain

(* What has been collected has returned.                                   *)
CollectInv == \A i \in Entries : i <= collected => stage[i] \in {"PASS", "FAIL"}

(* Without threads no run is begun before its turn.                        *)
TurnInv ==
  jobs = 1 => \A i \in Entries : i > collected + 1 => stage[i] \in {"queued", "cancelled"}

JobsInv == Cardinality(Running) <= jobs

(* How the main thread got where it is.                                    *)
ExitInv ==
  /\ main # "collect" => \A i \in Entries : stage[i] # "queued"
  /\ main = "shutdown" => \E i \in Entries : stage[i] = "raised"
  /\ main # "exited" => summary = <<>> /\ status = 0
  /\ main = "exited" =>
       /\ Running = {}
       /\ \/ status = 1 /\ summary = <<>> /\ \E i \in Entries : stage[i] = "raised"
          \/ /\ \A i \in Entries : stage[i] \in {"PASS", "FAIL"}
             /\ summary = [i \in Entries |-> Results(tests[i])]
             /\ status = IF \E i \in Entries : summary[i] = "FAIL" THEN 1 ELSE 0

IInv == TypeOK /\ GivenInv /\ StageInv /\ CollectInv /\ TurnInv /\ JobsInv /\ ExitInv

-----------------------------------------------------------------------------
LEMMA EntryTests ==
  ASSUME GivenInv
  PROVE  /\ Len(tests) \in Nat /\ IsFiniteSet(Entries)
         /\ \A i \in Entries : tests[i] \in Range(tests) /\ nature[tests[i]] \in Natures
  <1>1. Len(tests) \in Nat /\ Entries = DOMAIN tests
    BY DEF GivenInv, Entries
  <1>2. IsFiniteSet(Entries)
    BY <1>1, FS_Interval DEF Entries
  <1>3. \A i \in Entries : tests[i] \in Range(tests)
    BY <1>1 DEF Range
  <1> QED
    BY <1>1, <1>2, <1>3 DEF GivenInv

LEMMA RunningFinite ==
  ASSUME GivenInv PROVE IsFiniteSet(Running) /\ Running \subseteq Entries
  <1>1. Running \subseteq Entries
    BY DEF Running
  <1> QED
    BY <1>1, EntryTests, FS_Subset

(* A run takes one entry from one stage to the next and nothing else.      *)
RunSteps ==
  [queued   |-> {"prepare"},
   prepare  |-> {"FAIL", "raised", "compile"},
   compile  |-> {"simulate", "FAIL"},
   simulate |-> {"PASS", "FAIL", "raised"}]

LEMMA RunMoves ==
  ASSUME TypeOK, GivenInv, StageInv, NEW i \in Entries, Run(i)
  PROVE  \E s : /\ GoesTo(i, s)
                /\ stage[i] \in {"queued", "prepare", "compile", "simulate"}
                /\ s \in RunSteps[stage[i]]
                /\ stage[i] = "queued" => Start(i)
                /\ s = "compile" => nature[tests[i]] \notin {"missing", "unreadable"}
                /\ s = "simulate" =>
                     nature[tests[i]] \in {"crashes", "reports_fail", "times_out", "passes"}
                /\ s = "PASS" => Healthy(tests[i])
                /\ s = "FAIL" => ~Healthy(tests[i]) \/ ~Plain
                /\ s = "raised" => ~Healthy(tests[i]) \/ ~Plain
  <1> USE DEF RunSteps
  <1>0. nature[tests[i]] \in Natures
    BY EntryTests
  <1>1. CASE Start(i)
    BY <1>1 DEF Start
  <1>2. CASE Prepare(i)
    <2>1. CASE nature[tests[i]] = "missing"
      BY <1>2, <2>1 DEF Prepare, Healthy
    <2>2. CASE nature[tests[i]] = "unreadable"
      BY <1>2, <2>2 DEF Prepare, Healthy
    <2>3. CASE nature[tests[i]] \notin {"missing", "unreadable"}
      BY <1>2, <2>3 DEF Prepare
    <2> QED
      BY <2>1, <2>2, <2>3
  <1>3. ASSUME Disturbed(i) PROVE ~Plain
    BY <1>3 DEF Disturbed, Plain
  <1>4. CASE Compile(i)
    <2>1. CASE nature[tests[i]] # "does_not_compile" /\ GoesTo(i, "simulate")
      BY <1>0, <1>4, <2>1 DEF Compile, StageInv, Natures
    <2>2. CASE (nature[tests[i]] = "does_not_compile" \/ Disturbed(i)) /\ GoesTo(i, "FAIL")
      BY <1>3, <1>4, <2>2 DEF Compile, Healthy
    <2> QED
      BY <1>4, <2>1, <2>2 DEF Compile
  <1>5. CASE Simulate(i)
    <2>1. CASE GoesTo(i, Verdict(i))
      BY <1>5, <2>1 DEF Simulate, Verdict, Healthy, StageInv
    <2>2. CASE Disturbed(i) /\ (GoesTo(i, "FAIL") \/ GoesTo(i, "raised"))
      BY <1>3, <1>5, <2>2 DEF Simulate
    <2> QED
      BY <1>5, <2>1, <2>2 DEF Simulate
  <1> QED
    BY <1>1, <1>2, <1>4, <1>5 DEF Run

(* The last entry of a test, which Results looks up, exists.               *)
LEMMA LastEntry ==
  ASSUME GivenInv, NEW e \in Entries
  PROVE  \E i \in Entries : tests[i] = tests[e] /\ \A j \in Entries : tests[j] = tests[e] => j <= i
  <1> DEFINE Same == {i \in Entries : tests[i] = tests[e]}
             After(i) == {j \in Same : j > i}
             R == StrictSubsetOrdering(Entries)
             T == {After(i) : i \in Same}
  <1>1. IsFiniteSet(Entries) /\ Entries \subseteq Nat
    BY EntryTests DEF Entries
  <1>2. T \subseteq FiniteSubsetsOf(Entries) /\ T # {}
    <2>1. \A U \in SUBSET Entries : IsFiniteSet(U)
      BY <1>1, FS_Subset
    <2>2. \A i \in Same : After(i) \in SUBSET Entries
      OBVIOUS
    <2>3. \A i \in Same : After(i) \in FiniteSubsetsOf(Entries)
      <3> HIDE DEF After, Same
      <3> QED
        BY <2>1, <2>2 DEF FiniteSubsetsOf
    <2>4. After(e) \in T
      OBVIOUS
    <2> HIDE DEF After, Same
    <2> QED
      BY <2>3, <2>4
  <1>3. IsWellFoundedOn(R, FiniteSubsetsOf(Entries))
    BY FS_StrictSubsetOrderingWellFounded
  <1>4. PICK x \in T : \A y \in T : ~(<<y, x>> \in R)
    <2> HIDE DEF R, T
    <2> QED
      BY <1>2, <1>3, WFMin
  <1>5. PICK i \in Same : x = After(i)
    BY <1>4
  <1>6. ASSUME NEW k \in Same, k > i PROVE FALSE
    <2>1. After(k) \in SUBSET Entries /\ After(i) \in SUBSET Entries
      OBVIOUS
    <2>2. After(k) \subseteq After(i)
      <3> SUFFICES ASSUME NEW j \in Same, j > k PROVE j > i
        OBVIOUS
      <3>1. i \in Nat /\ j \in Nat /\ k \in Nat
        BY <1>1
      <3> QED
        BY <1>6, <3>1
    <2>3. k \in After(i) /\ k \notin After(k)
      BY <1>1, <1>6
    <2>4. <<After(k), After(i)>> \in R
      <3> HIDE DEF After
      <3> QED
        BY <2>1, <2>2, <2>3 DEF StrictSubsetOrdering
    <2>5. After(k) \in T
      BY <1>6
    <2> HIDE DEF After, R, T
    <2> QED
      BY <1>4, <1>5, <2>4, <2>5
  <1>7. \A k \in Same : k <= i
    BY <1>1, <1>6
  <1> QED
    BY <1>7

LEMMA ResultsAreOutcomes ==
  ASSUME GivenInv, NEW e \in Entries
  PROVE  /\ \E i \in Entries : tests[i] = tests[e] /\ Results(tests[e]) = stage[i]
         /\ Plain => Results(tests[e]) = stage[e]
  <1> DEFINE last == CHOOSE i \in Entries :
                tests[i] = tests[e] /\ \A j \in Entries : tests[j] = tests[e] => j <= i
  <1>1. last \in Entries /\ tests[last] = tests[e]
    BY LastEntry
  <1>2. Results(tests[e]) = stage[last]
    BY DEF Results
  <1> HIDE DEF last
  <1> QED
    BY <1>1, <1>2 DEF Plain

-----------------------------------------------------------------------------
(* The steps.                                                              *)

(* The set of running entries gains the one that starts, if any.           *)
LEMMA RunKeeps ==
  ASSUME IInv, NEW i \in Entries, Run(i) PROVE IInv'
  <1> USE DEF IInv
  <1>0. PICK s : /\ GoesTo(i, s)
                 /\ stage[i] \in {"queued", "prepare", "compile", "simulate"}
                 /\ s \in RunSteps[stage[i]]
                 /\ stage[i] = "queued" => Start(i)
                 /\ s = "compile" => nature[tests[i]] \notin {"missing", "unreadable"}
                 /\ s = "simulate" =>
                      nature[tests[i]] \in {"crashes", "reports_fail", "times_out", "passes"}
                 /\ s = "PASS" => Healthy(tests[i])
                 /\ s = "FAIL" => ~Healthy(tests[i]) \/ ~Plain
                 /\ s = "raised" => ~Healthy(tests[i]) \/ ~Plain
    BY RunMoves
  <1>1. /\ stage' = [stage EXCEPT ![i] = s]
        /\ tests' = tests /\ jobs' = jobs /\ nature' = nature /\ collected' = collected
        /\ main' = main /\ summary' = summary /\ status' = status
    BY <1>0 DEF GoesTo, given
  <1>2. Entries' = Entries /\ Plain' = Plain /\ \A t : Healthy(t)' = Healthy(t)
    BY <1>1 DEF Entries, Plain, Healthy
  <1>3. s \in {"prepare", "compile", "simulate", "PASS", "FAIL", "raised"}
    BY <1>0 DEF RunSteps
  <1>4. /\ stage'[i] = s
        /\ \A j \in Entries : j # i => stage'[j] = stage[j]
    BY <1>1 DEF TypeOK
  <1>5. TypeOK'
    BY <1>1, <1>2, <1>3 DEF TypeOK
  <1>6. GivenInv'
    BY <1>1 DEF GivenInv
  <1>7. StageInv'
    <2> SUFFICES ASSUME NEW j \in Entries
                 PROVE  /\ stage'[j] = "compile" => nature[tests[j]] \notin {"missing", "unreadable"}
                        /\ stage'[j] = "simulate" =>
                             nature[tests[j]] \in {"crashes", "reports_fail", "times_out", "passes"}
                        /\ stage'[j] = "PASS" => Healthy(tests[j])
                        /\ stage'[j] = "FAIL" => ~Healthy(tests[j]) \/ ~Plain
                        /\ stage'[j] = "raised" => ~Healthy(tests[j]) \/ ~Plain
      BY <1>1, <1>2 DEF StageInv
    <2>1. CASE j = i
      BY <1>0, <1>4, <2>1
    <2>2. CASE j # i
      BY <1>4, <2>2 DEF StageInv
    <2> QED
      BY <2>1, <2>2
  <1>8. CollectInv'
    BY <1>0, <1>1, <1>2, <1>4 DEF CollectInv
  <1>9. main # "exited"
    BY <1>0 DEF ExitInv, Running
  <1>10. ExitInv'
    <2>1. stage[i] = "queued" => main = "collect"
      BY DEF ExitInv
    <2>2. \A j \in Entries : stage'[j] = "queued" => stage[j] = "queued"
      BY <1>3, <1>4
    <2>3. \A j \in Entries : stage[j] = "raised" => stage'[j] = "raised"
      BY <1>0, <1>4
    <2> QED
      BY <1>1, <1>2, <1>9, <2>2, <2>3 DEF ExitInv
  <1>11. TurnInv'
    <2> SUFFICES ASSUME jobs = 1, NEW j \in Entries, j > collected + 1
                 PROVE  stage'[j] \in {"queued", "cancelled"}
      BY <1>1, <1>2 DEF TurnInv
    <2>1. j # i
      <3>1. CASE stage[i] = "queued"
        BY <1>0, <3>1 DEF Start, TypeOK, Entries
      <3>2. CASE stage[i] # "queued"
        BY <1>0, <3>2 DEF TurnInv
      <3> QED
        BY <3>1, <3>2
    <2> QED
      BY <1>4, <2>1 DEF TurnInv
  <1>12. JobsInv'
    <2>1. IsFiniteSet(Running) /\ Running \subseteq Entries /\ jobs \in Nat \ {0}
      BY RunningFinite DEF GivenInv
    <2>2. CASE stage[i] = "queued"
      <3>1. Running' \subseteq Running \cup {i} /\ i \notin Running
        BY <1>2, <1>4, <2>2 DEF Running
      <3>2. Cardinality(Running) < jobs
        <4>1. CASE jobs = 1
          <5>1. collected = i - 1
            BY <1>0, <2>2, <4>1 DEF Start
          <5>2. \A j \in Entries : j < i \/ j = i \/ j > i
            BY DEF Entries
          <5>3. \A j \in Entries : stage[j] \in {"PASS", "FAIL", "queued", "cancelled"}
            BY <2>2, <4>1, <5>1, <5>2 DEF CollectInv, TurnInv, Entries
          <5>4. Running = {}
            BY <5>3 DEF Running
          <5> QED
            BY <4>1, <5>4, FS_EmptySet
        <4>2. CASE jobs # 1
          BY <1>0, <2>2, <4>2 DEF Start
        <4> QED
          BY <4>1, <4>2
      <3>3. IsFiniteSet(Running \cup {i}) /\ Cardinality(Running \cup {i}) = Cardinality(Running) + 1
        BY <2>1, <3>1, FS_AddElement
      <3>4. Cardinality(Running') <= Cardinality(Running) + 1 /\ Cardinality(Running') \in Nat
        BY <3>1, <3>3, FS_Subset, FS_CardinalityType
      <3>5. Cardinality(Running) \in Nat
        BY <2>1, FS_CardinalityType
      <3> QED
        BY <1>1, <2>1, <3>2, <3>4, <3>5 DEF JobsInv
    <2>3. CASE stage[i] # "queued"
      <3>1. Running' \subseteq Running
        BY <1>0, <1>2, <1>4, <2>3 DEF Running
      <3>2. Cardinality(Running') <= Cardinality(Running) /\ Cardinality(Running') \in Nat
            /\ Cardinality(Running) \in Nat
        BY <2>1, <3>1, FS_Subset, FS_CardinalityType
      <3> QED
        BY <1>1, <2>1, <3>2 DEF JobsInv
    <2> QED
      BY <2>2, <2>3
  <1> QED
    BY <1>5, <1>6, <1>7, <1>8, <1>10, <1>11, <1>12

(* What does not depend on main, summary and status.                       *)
LEMMA SameRuns ==
  ASSUME IInv, UNCHANGED given, stage' = stage, collected' = collected
  PROVE  /\ GivenInv' /\ StageInv' /\ CollectInv' /\ TurnInv' /\ JobsInv'
         /\ Entries' = Entries /\ Running' = Running
  BY DEF IInv, given, GivenInv, StageInv, Healthy, Plain, Entries, CollectInv, TurnInv, JobsInv,
         Running

LEMMA CollectKeeps == ASSUME IInv, Collect PROVE IInv'
  <1> USE DEF IInv
  <1>1. /\ UNCHANGED given /\ stage' = stage /\ main' = main /\ summary' = summary
        /\ status' = status /\ collected' = collected + 1 /\ main = "collect"
        /\ stage[collected + 1] \in {"PASS", "FAIL"} /\ collected < Len(tests)
        /\ collected \in Nat /\ Len(tests) \in Nat
    BY EntryTests DEF Collect, Returned, TypeOK
  <1>2. Entries' = Entries /\ Running' = Running
    BY <1>1 DEF Entries, Running, given
  <1>3. TypeOK'
    BY <1>1, <1>2 DEF TypeOK, given
  <1>4. GivenInv' /\ StageInv' /\ JobsInv'
    BY <1>1, <1>2 DEF GivenInv, StageInv, Healthy, Plain, Entries, JobsInv, given
  <1>5. CollectInv' /\ TurnInv'
    BY <1>1, <1>2 DEF CollectInv, TurnInv, given, Entries
  <1>6. ExitInv'
    BY <1>1, <1>2 DEF ExitInv
  <1> QED
    BY <1>3, <1>4, <1>5, <1>6

LEMMA RaiseKeeps == ASSUME IInv, Raise PROVE IInv'
  <1> USE DEF IInv
  <1>1. /\ tests' = tests /\ jobs' = jobs /\ nature' = nature
        /\ collected' = collected /\ summary' = summary /\ status' = status
        /\ main = "collect" /\ main' = "shutdown" /\ stage[collected + 1] = "raised"
        /\ stage' = [i \in Entries |-> IF stage[i] = "queued" THEN "cancelled" ELSE stage[i]]
        /\ collected + 1 \in Entries
    BY EntryTests DEF Raise, given, TypeOK, Entries
  <1>2. Entries' = Entries /\ Plain' = Plain /\ \A t : Healthy(t)' = Healthy(t)
    BY <1>1 DEF Entries, Plain, Healthy
  <1>3. \A i \in Entries : stage'[i] = IF stage[i] = "queued" THEN "cancelled" ELSE stage[i]
    BY <1>1
  <1>4. TypeOK'
    BY <1>1, <1>2 DEF TypeOK
  <1>5. GivenInv'
    BY <1>1 DEF GivenInv
  <1>6. StageInv'
    BY <1>1, <1>2, <1>3 DEF StageInv
  <1>7. CollectInv' /\ TurnInv'
    BY <1>1, <1>2, <1>3 DEF CollectInv, TurnInv
  <1>8. Running' = Running
    BY <1>2, <1>3 DEF Running
  <1>9. ExitInv'
    BY <1>1, <1>2, <1>3 DEF ExitInv
  <1> QED
    BY <1>1, <1>4, <1>5, <1>6, <1>7, <1>8, <1>9 DEF JobsInv

LEMMA AbortKeeps == ASSUME IInv, Abort PROVE IInv'
  <1> USE DEF IInv
  <1>1. /\ UNCHANGED given /\ stage' = stage /\ collected' = collected /\ summary' = summary
        /\ main = "shutdown" /\ main' = "exited" /\ status' = 1 /\ Running = {}
    BY DEF Abort, AllReturned
  <1>2. /\ GivenInv' /\ StageInv' /\ CollectInv' /\ TurnInv' /\ JobsInv'
        /\ Entries' = Entries /\ Running' = Running
    BY <1>1, SameRuns
  <1>3. TypeOK'
    BY <1>1, <1>2 DEF TypeOK, given
  <1>4. ExitInv'
    BY <1>1, <1>2 DEF ExitInv
  <1> QED
    BY <1>2, <1>3, <1>4

LEMMA SummariseKeeps == ASSUME IInv, Summarise PROVE IInv'
  <1> USE DEF IInv
  <1>1. /\ UNCHANGED given /\ stage' = stage /\ collected' = collected
        /\ main = "collect" /\ main' = "exited" /\ collected = Len(tests)
        /\ summary' = [i \in Entries |-> Results(tests[i])]
        /\ status' = IF \E i \in Entries : summary'[i] = "FAIL" THEN 1 ELSE 0
    BY DEF Summarise
  <1>2. /\ GivenInv' /\ StageInv' /\ CollectInv' /\ TurnInv' /\ JobsInv'
        /\ Entries' = Entries /\ Running' = Running
    BY <1>1, SameRuns
  <1>3. \A i \in Entries : stage[i] \in {"PASS", "FAIL"}
    BY <1>1 DEF CollectInv, Entries
  <1>4. \A i \in Entries : Results(tests[i]) \in {"PASS", "FAIL"}
    BY <1>3, ResultsAreOutcomes
  <1>5. TypeOK'
    BY <1>1, <1>2, <1>4 DEF TypeOK, given
  <1>6. \A i \in Entries : Results(tests[i])' = Results(tests[i])
    BY <1>1, <1>2 DEF Results, given
  <1>7. Running = {}
    BY <1>3 DEF Running
  <1>8. summary' = [i \in Entries |-> Results(tests[i])]'
    BY <1>1, <1>2, <1>6
  <1>9. ExitInv'
    BY <1>1, <1>2, <1>3, <1>7, <1>8 DEF ExitInv
  <1> QED
    BY <1>2, <1>5, <1>9

LEMMA StutterKeeps == IInv /\ UNCHANGED vars => IInv'
  BY DEF IInv, vars, TypeOK, GivenInv, StageInv, Healthy, Plain, Entries, CollectInv, TurnInv,
         JobsInv, Running, ExitInv, Results

LEMMA InitIInv == Init => IInv
  <1> SUFFICES ASSUME Init PROVE IInv
    OBVIOUS
  <1>1. GivenInv
    BY RunnerAssumption DEF Init, GivenInv
  <1>2. Running = {} /\ \A i \in Entries : stage[i] = "queued"
    BY DEF Init, Running
  <1>3. Len(tests) \in Nat
    BY <1>1, EntryTests
  <1>4. TypeOK
    BY <1>3 DEF Init, TypeOK
  <1>5. StageInv /\ TurnInv
    BY <1>2 DEF StageInv, TurnInv
  <1>6. CollectInv
    BY <1>3 DEF Init, CollectInv, Entries
  <1>7. JobsInv
    BY <1>1, <1>2, FS_EmptySet DEF JobsInv, GivenInv
  <1>8. ExitInv
    BY <1>2 DEF Init, ExitInv
  <1> QED
    BY <1>1, <1>4, <1>5, <1>6, <1>7, <1>8 DEF IInv

THEOREM RunnerInductive == Spec => []IInv
  <1>1. IInv /\ [Next]_vars => IInv'
    BY RunKeeps, CollectKeeps, RaiseKeeps, AbortKeeps, SummariseKeeps, StutterKeeps DEF Next, Done
  <1> QED
    BY InitIInv, <1>1, PTL DEF Spec

-----------------------------------------------------------------------------
LEMMA VerdictFollows == IInv => VerdictTruthful
  <1> SUFFICES ASSUME IInv, main = "exited" PROVE
        /\ status = 0 => \A i \in Entries : Healthy(tests[i]) /\ summary[i] = "PASS"
        /\ Plain /\ (\A i \in Entries : Healthy(tests[i])) => status = 0
        /\ Plain /\ summary # <<>> =>
             \A i \in Entries : summary[i] = (IF Healthy(tests[i]) THEN "PASS" ELSE "FAIL")
    BY DEF VerdictTruthful
  <1> USE DEF IInv
  <1>1. CASE status = 1 /\ summary = <<>> /\ \E i \in Entries : stage[i] = "raised"
    <2>1. ~Plain \/ \E i \in Entries : ~Healthy(tests[i])
      BY <1>1 DEF StageInv
    <2> QED
      BY <1>1, <2>1
  <1>2. CASE /\ \A i \in Entries : stage[i] \in {"PASS", "FAIL"}
             /\ summary = [i \in Entries |-> Results(tests[i])]
             /\ status = IF \E i \in Entries : summary[i] = "FAIL" THEN 1 ELSE 0
    <2>1. ASSUME NEW i \in Entries
          PROVE  /\ summary[i] = "PASS" => Healthy(tests[i])
                 /\ summary[i] = "FAIL" => ~Healthy(tests[i]) \/ ~Plain
                 /\ summary[i] \in {"PASS", "FAIL"}
      <3>1. PICK k \in Entries : tests[k] = tests[i] /\ Results(tests[i]) = stage[k]
        BY ResultsAreOutcomes
      <3>2. summary[i] = stage[k]
        BY <1>2, <3>1
      <3> QED
        BY <1>2, <3>1, <3>2 DEF StageInv
    <2> QED
      BY <1>2, <2>1
  <1> QED
    BY <1>1, <1>2 DEF ExitInv

(* The result table, the exit status and every test's stage keep their      *)
(* types, for any lists and any number of threads.                         *)
THEOREM TypeCorrect == Spec => []TypeOK
  <1>1. IInv => TypeOK
    BY DEF IInv
  <1> QED
    BY RunnerInductive, <1>1, PTL

(* CI's verdict is the truth about the tests of the list: status 0 only if *)
(* all ran to their end and are healthy, whatever raised, whatever was     *)
(* listed twice and in whichever order the threads finished.               *)
THEOREM VerdictsAreTruthful == Spec => []VerdictTruthful
  BY RunnerInductive, VerdictFollows, PTL

(* No simulation outlives the runner, no more than -j of them run at a     *)
(* time, and a summary is of a list that has run to its end.               *)
THEOREM NothingIsLeftRunning == Spec => []NothingLeftRunning
  <1>1. IInv => NothingLeftRunning
    <2> SUFFICES ASSUME IInv PROVE NothingLeftRunning
      OBVIOUS
    <2>1. summary # <<>> => \A i \in Entries : stage[i] \in {"PASS", "FAIL"}
      BY DEF IInv, ExitInv
    <2> QED
      BY <2>1 DEF IInv, JobsInv, ExitInv, NothingLeftRunning
  <1> QED
    BY RunnerInductive, <1>1, PTL
=============================================================================
