--------------------------- MODULE Program_proofs ---------------------------
(***************************************************************************)
(* Proofs about Program, for any number of workers and shards, any answers *)
(* and, where they are named as hypotheses, any inputs of the types that   *)
(* TypedInputs says and libraries of which Library holds:                  *)
(*   - what was acquired is released, all but an exporter and the          *)
(*     connections of a requester (OnlyPoolsLeft), and the feeder's        *)
(*     records are used in turn (RecordsInTurn);                           *)
(*   - a dashboard's history never goes down (HistoryIsSound), and the     *)
(*     final statistics are those of the attempts made (StatsAreExact);    *)
(*   - exit status 0 means that every request succeeded and that the       *)
(*     thresholds hold (GoodMeansEachSucceeded, GoodExits);                *)
(*   - what Validate accepts is built (AcceptedConfigsAreBuilt);           *)
(*   - the dashboard's schedule is the runner's (SchedulesMatch).          *)
(***************************************************************************)
EXTENDS Program, FiniteSetTheorems, WellFoundedInduction, TLAPS

\* Where Run is before it acquired everything, and where it defers.
Before == {"load", "validate", "har", "tracing", "auth", "feeder", "requester"}
Deferred == {"watch", "start", "run", "final", "stats", "thresholds", "report", "unwind"}

\* What each step finds acquired; from "watch" on a return unwinds.
HeldInv ==
    /\ pc \in Before \cup Deferred \cup {"exit"}
    /\ pc \in {"load", "validate", "har", "tracing"} => held = {}
    /\ pc = "auth" => held \subseteq {"exporter"}
    /\ pc = "feeder" => held \subseteq {"exporter", "auth"}
    /\ pc = "requester" => held \subseteq {"exporter", "auth", "feeder"}
    /\ "pool" \in held => cfg.protocol \in Pooled
    /\ pc = "exit" /\ code # "killed" =>
          held = {} \/ (held = {"exporter"} /\ why = "tracing") \/ held = {"pool"}

\* Requests are made while the runner is there to wait for them.
RunningInv ==
    /\ phase = "returned" => running = {}
    /\ pc # "run" => running = {}

\* Every step of Run and of the others keeps the order of acquisition.
LEMMA HeldStep ==
    ASSUME HeldInv, [Next]_vars
    PROVE  HeldInv'
<1> USE DEF HeldInv, Before, Deferred
<1>1. CASE Main
  <2>1. CASE Help
    BY <2>1 DEF Help
  <2>2. CASE LoadConfig
    BY <2>2 DEF LoadConfig, Go, Fail
  <2>3. CASE ValidateConfig
    BY <2>3 DEF ValidateConfig, Go, Fail
  <2>4. CASE LoadHAR
    BY <2>4 DEF LoadHAR, Go
  <2>5. CASE InitTracing
    <3>1. \/ held' = held \cup {"exporter"}
          \/ held' = held
      BY <2>5 DEF InitTracing, Go, Fail
    <3>2. pc = "tracing" /\ (pc' = "auth" \/ (pc' = "exit" /\ why' = "tracing"))
      BY <2>5 DEF InitTracing, Go, Fail
    <3> QED  BY <3>1, <3>2
  <2>6. CASE BuildAuth
    BY <2>6 DEF BuildAuth, Go, Fail
  <2>7. CASE BuildFeeder
    BY <2>7 DEF BuildFeeder, Go, Fail
  <2>8. CASE BuildRequesterStep
    BY <2>8 DEF BuildRequesterStep, Go, Fail
  <2>9. CASE Watch
    BY <2>9 DEF Watch, Go, Return
  <2>10. CASE StartRun \/ StopTicker
    BY <2>10 DEF StartRun, StopTicker, Go
  <2>11. CASE FinalSnapshot \/ TakeStats \/ EvaluateThresholds \/ Report
    BY <2>11 DEF FinalSnapshot, TakeStats, EvaluateThresholds, Report, Go, Return
  <2>12. CASE Unwind
    BY <2>12 DEF Unwind
  <2> QED
    BY <1>1, <2>1, <2>2, <2>3, <2>4, <2>5, <2>6, <2>7, <2>8, <2>9, <2>10, <2>11, <2>12 DEF Main
<1>2. CASE Signal
  BY <1>2 DEF Signal, Handled
<1>3. CASE UNCHANGED programVars
  BY <1>3 DEF programVars
<1> QED
  BY <1>1, <1>2, <1>3 DEF Next, vars, Tick, Snapshotting, Issue, Close, GraceOver, ReturnRun,
                          Working, programVars

---------------------------------------------------------------------------
\* A step of the runner and its workers leaves Run where it is.
LEMMA RunningStep ==
    ASSUME RunningInv, [Next]_vars
    PROVE  RunningInv'
<1> USE DEF RunningInv
<1>1. CASE Main
  <2>1. running' = running /\ phase' = phase
    BY <1>1 DEF Main, Help, LoadConfig, ValidateConfig, LoadHAR, InitTracing, BuildAuth, BuildFeeder,
       BuildRequesterStep, Watch, StartRun, StopTicker, FinalSnapshot, TakeStats,
       EvaluateThresholds, Report, Unwind, requestsVars, runnerVars, StartSnapshot
  <2>2. pc = "run" /\ pc' # "run" => phase = "returned"
    BY <1>1 DEF Main, Help, LoadConfig, ValidateConfig, LoadHAR, InitTracing, BuildAuth, BuildFeeder,
       BuildRequesterStep, Watch, StartRun, StopTicker, FinalSnapshot, TakeStats,
       EvaluateThresholds, Report, Unwind
  <2> QED  BY <2>1, <2>2
<1>2. CASE Signal
  BY <1>2 DEF Signal, Handled, runnerVars
<1>3. CASE Tick \/ Snapshotting \/ GraceOver
  BY <1>3 DEF Tick, Snapshotting, GraceOver, ReadShard, EndSnapshot, StartSnapshot, runnerVars,
              programVars
<1>4. CASE Issue \/ Close \/ ReturnRun
  BY <1>4 DEF Issue, Close, ReturnRun, Runner!Issue, Runner!Close, Runner!Return, programVars
<1>5. ASSUME NEW w \in Workers, Working(w)
      PROVE  RunningInv'
  BY <1>5 DEF Working, programVars, WorkerStep, Begin, Check, Build, BuildFails, Send, Record,
              RecordEndpoint, Resume, End, runnerVars, Runner!Begin, Runner!End
<1>6. CASE UNCHANGED vars
  BY <1>6 DEF vars, programVars, runnerVars
<1> QED  BY <1>1, <1>2, <1>3, <1>4, <1>5, <1>6 DEF Next

\* Whatever fails and whenever the signal comes, Run leaves no request in flight
\* and nothing behind but the exporter of a tracing section with a bad sample
\* rate and the open connections of a WebSocket, SSE or gRPC requester
\* (BuildRunner's clean-ups, the deferred calls of Run).
THEOREM OnlyPoolsLeft == Spec => []ReleasedAtExit
<1>1. Init => HeldInv /\ RunningInv
  BY DEF Init, RequestsInit, Runner!Init, HeldInv, RunningInv, Before, Deferred
<1>2. HeldInv /\ RunningInv /\ [Next]_vars => HeldInv' /\ RunningInv'
  BY HeldStep, RunningStep
<1>3. HeldInv /\ RunningInv => ReleasedAtExit
  BY DEF HeldInv, RunningInv, ReleasedAtExit
<1> QED  BY <1>1, <1>2, <1>3, PTL DEF Spec

---------------------------------------------------------------------------
\* The records before the cursor were handed out once more than the others.
InTurn ==
    /\ setup.records \in Nat
    /\ cursor \in 1..setup.records \/ (setup.records = 0 /\ cursor = 1)
    /\ \E b \in Nat : used = [i \in 1..setup.records |-> IF i < cursor THEN b + 1 ELSE b]

\* Records are drawn while requests are made, in turn from the start.
FeederInv ==
    /\ pc \in Before => used = << >> /\ cursor = 1
    /\ pc = "requester" => BuildDataFeeder(cfg) # Bad
    /\ pc = "exit" => used = << >> \/ InTurn
    /\ pc \notin Before \cup {"exit"} => InTurn

\* A record that Next hands out keeps the uses even.
LEMMA TakenInTurn ==
    ASSUME InTurn, TakeRecord, setup.records > 0, setup' = setup
    PROVE  InTurn'
<1> DEFINE n == setup.records
<1>1. PICK b \in Nat : used = [i \in 1..n |-> IF i < cursor THEN b + 1 ELSE b]
  BY DEF InTurn
<1>2. n \in Nat /\ cursor \in 1..n /\ used' = [used EXCEPT ![cursor] = @ + 1]
  BY DEF InTurn, TakeRecord
<1>3. used' = [i \in 1..n |-> IF i <= cursor THEN b + 1 ELSE b]
  <2>1. DOMAIN used = 1..n /\ used[cursor] = b
    BY <1>1, <1>2
  <2>2. used' = [i \in 1..n |-> IF i = cursor THEN b + 1 ELSE used[i]]
    BY <1>2, <2>1
  <2>3. \A i \in 1..n : (IF i = cursor THEN b + 1 ELSE used[i]) = IF i <= cursor THEN b + 1 ELSE b
    BY <1>1, <1>2
  <2> HIDE DEF n
  <2> QED  BY <2>2, <2>3
<1>4. CASE cursor = n
  <2>1. cursor' = 1
    BY <1>4 DEF TakeRecord
  <2>2. used' = [i \in 1..n |-> IF i < cursor' THEN (b + 1) + 1 ELSE b + 1]
    <3>1. \A i \in 1..n : (IF i <= cursor THEN b + 1 ELSE b) = IF i < cursor' THEN (b + 1) + 1 ELSE b + 1
      BY <1>2, <1>4, <2>1
    <3> HIDE DEF n
    <3> QED  BY <1>3, <3>1
  <2>3. \E c \in Nat : used' = [i \in 1..n |-> IF i < cursor' THEN c + 1 ELSE c]
    <3>1. b + 1 \in Nat
      OBVIOUS
    <3> HIDE DEF n
    <3> QED  BY <2>2, <3>1
  <2>4. cursor' \in 1..n
    BY <1>2, <2>1
  <2> QED  BY <1>2, <2>3, <2>4 DEF InTurn
<1>5. CASE cursor # n
  <2>1. cursor' = cursor + 1
    BY <1>5 DEF TakeRecord
  <2>2. used' = [i \in 1..n |-> IF i < cursor' THEN b + 1 ELSE b]
    <3>1. \A i \in 1..n : (IF i <= cursor THEN b + 1 ELSE b) = IF i < cursor' THEN b + 1 ELSE b
      BY <1>2, <2>1
    <3> HIDE DEF n
    <3> QED  BY <1>3, <3>1
  <2>3. \E c \in Nat : used' = [i \in 1..n |-> IF i < cursor' THEN c + 1 ELSE c]
    BY <2>2
  <2>4. cursor' \in 1..n
    BY <1>2, <1>5, <2>1
  <2> QED  BY <1>2, <2>3, <2>4 DEF InTurn
<1> QED  BY <1>4, <1>5

LEMMA FeederStep ==
    ASSUME \A path, type : ReadFeeder(path, type) \in Nat \cup {Bad},
           HeldInv, FeederInv, [Next]_vars
    PROVE  FeederInv'
<1> USE DEF FeederInv, HeldInv, Before, Deferred
<1>1. CASE BuildRequesterStep
  <2>1. CASE BuildRequester(cfg) = Bad
    BY <1>1, <2>1 DEF BuildRequesterStep, Fail
  <2>2. CASE BuildRequester(cfg) # Bad
    <3>1. setup' = Assembled(BuildRequester(cfg)) /\ used' = [i \in 1..setup'.records |-> 0]
      BY <1>1, <2>2 DEF BuildRequesterStep
    <3>2. cursor' = 1 /\ pc' = "watch" /\ cfg' = cfg
      BY <1>1, <2>2 DEF BuildRequesterStep, Go
    <3>3. setup'.records = BuildDataFeeder(cfg)
      BY <3>1 DEF Assembled
    <3>4. BuildDataFeeder(cfg) \in Nat
      BY <1>1 DEF BuildRequesterStep, BuildDataFeeder
    <3>5. used' = [i \in 1..setup'.records |-> IF i < cursor' THEN 0 + 1 ELSE 0]
      <4>1. \A i \in 1..setup'.records : 0 = IF i < cursor' THEN 0 + 1 ELSE 0
        BY <3>2, <3>3, <3>4
      <4> QED  BY <3>1, <4>1
    <3>6. setup'.records \in Nat /\ (cursor' \in 1..setup'.records \/ (setup'.records = 0 /\ cursor' = 1))
      BY <3>2, <3>3, <3>4
    <3>7. \E b \in Nat : used' = [i \in 1..setup'.records |-> IF i < cursor' THEN b + 1 ELSE b]
      BY <3>5
    <3>8. InTurn'
      BY <3>6, <3>7 DEF InTurn
    <3> QED  BY <3>2, <3>8
  <2> QED  BY <2>1, <2>2
<1>2. CASE Main /\ ~BuildRequesterStep
  <2>1. UNCHANGED <<setup, feederVars>>
    BY <1>2 DEF Main, Help, LoadConfig, ValidateConfig, LoadHAR, InitTracing, BuildAuth, BuildFeeder,
       Watch, StartRun, StopTicker, FinalSnapshot, TakeStats,
       EvaluateThresholds, Report, Unwind, requestsVars, StartSnapshot, feederVars
  <2>2. InTurn => InTurn'
    BY <2>1 DEF InTurn, feederVars
  <2>3. CASE Help \/ LoadConfig \/ ValidateConfig \/ LoadHAR \/ InitTracing \/ BuildAuth
    BY <2>1, <2>3 DEF feederVars, Help, LoadConfig, ValidateConfig, LoadHAR, InitTracing, BuildAuth,
                      Go, Fail
  <2>4. CASE BuildFeeder
    BY <2>1, <2>4 DEF feederVars, BuildFeeder, Go, Fail
  <2>5. CASE Watch \/ StartRun \/ StopTicker \/ FinalSnapshot \/ TakeStats
    BY <2>2, <2>5 DEF Watch, StartRun, StopTicker, FinalSnapshot, TakeStats, Go, Return
  <2>6. CASE EvaluateThresholds \/ Report \/ Unwind
    BY <2>2, <2>6 DEF EvaluateThresholds, Report, Unwind, Go, Return
  <2> QED  BY <1>2, <2>3, <2>4, <2>5, <2>6 DEF Main
<1>3. CASE Signal
  <2>1. InTurn => InTurn'
    BY <1>3 DEF InTurn, Signal, feederVars
  <2> QED  BY <1>3, <2>1 DEF Signal, Handled, feederVars
<1>4. ASSUME NEW w \in Workers, Working(w)
      PROVE  FeederInv'
  <2>1. pc = "run" /\ pc' = "run" /\ setup' = setup
    BY <1>4 DEF Working, programVars, WorkerStep, Begin, Check, Build, BuildFails, Send, Record,
                RecordEndpoint, Resume, End
  <2>2. UNCHANGED feederVars \/ (setup.records > 0 /\ TakeRecord)
    BY <1>4 DEF Working, WorkerStep, Begin, Check, Build, BuildFails, Send, Record, RecordEndpoint,
                Resume, End, Fed
  <2>3. InTurn
    BY <2>1
  <2>4. CASE UNCHANGED feederVars
    BY <2>1, <2>3, <2>4 DEF InTurn, feederVars
  <2>5. CASE setup.records > 0 /\ TakeRecord
    <3>1. InTurn'
      BY <2>1, <2>3, <2>5, TakenInTurn
    <3> QED  BY <2>1, <3>1
  <2> QED  BY <2>2, <2>4, <2>5
<1>5. CASE Tick \/ Snapshotting \/ GraceOver \/ Issue \/ Close \/ ReturnRun \/ UNCHANGED vars
  <2>1. UNCHANGED <<programVars, setup, feederVars>>
    BY <1>5 DEF Tick, Snapshotting, GraceOver, Issue, Close, ReturnRun, ReadShard, EndSnapshot,
                StartSnapshot, vars
  <2>2. InTurn => InTurn'
    BY <2>1 DEF InTurn, feederVars
  <2> QED  BY <2>1, <2>2 DEF programVars, feederVars
<1> QED  BY <1>1, <1>2, <1>3, <1>4, <1>5 DEF Next

\* Concurrent requests, retries and failed builds included, use every record
\* of the feeder before any is used again (Next of csv.go and json.go).
THEOREM RecordsInTurn ==
    ASSUME \A path, type : ReadFeeder(path, type) \in Nat \cup {Bad}
    PROVE  Spec => []FeederFair
<1>1. Init => HeldInv /\ FeederInv
  BY DEF Init, RequestsInit, HeldInv, FeederInv, Before, Deferred
<1>2. HeldInv /\ FeederInv /\ [Next]_vars => HeldInv' /\ FeederInv'
  BY HeldStep, FeederStep
<1>3. HeldInv /\ FeederInv => FeederFair
  <2>1. InTurn => FeederFair
    BY DEF InTurn, FeederFair
  <2>2. used = << >> => FeederFair
    BY DEF FeederFair
  <2> QED  BY <2>1, <2>2 DEF HeldInv, FeederInv, Deferred
<1> QED  BY <1>1, <1>2, <1>3, PTL DEF Spec
---------------------------------------------------------------------------
\* The workers whose request has succeeded and is not yet counted as executed.
Succeeding == {w \in Workers : step[w] \in {"record", "bucket", "end"} /\ outcome[w] = "ok"}

\* A request that is not in flight has no step to take.
WorkersInv ==
    /\ step \in [Workers -> Steps]
    /\ outcome \in [Workers -> Outcomes]
    /\ \A w \in Workers : step[w] = "idle" <=> w \notin running

\* No request succeeds twice: its first success is its last attempt.
SuccessInv ==
    /\ executed \in Nat /\ failed \in Nat
    /\ made \in [ok : Nat, bad : Nat]
    /\ made.ok + failed = executed + Cardinality(Succeeding)

\* Result counts the requests that were given up, and a good exit saw none.
ResultInv ==
    /\ pc \in {"final", "stats", "thresholds", "report"} => phase = "returned"
    /\ phase = "returned" => result.errors = failed
    /\ code = "good" => phase = "returned" /\ failed = 0

\* What a good exit rests on.
GoodInv == RunningInv /\ WorkersInv /\ SuccessInv /\ ResultInv

\* A worker's step leaves every worker at one of its steps.
LEMMA WorkerTypes ==
    ASSUME WorkersInv, NEW w \in Workers, WorkerStep(w)
    PROVE  WorkersInv'
<1> USE DEF WorkersInv, Steps, Outcomes
<1>1. CASE Begin(w)
  BY <1>1 DEF Begin, Runner!Begin
<1>2. CASE Check(w) \/ Build(w) \/ Resume(w)
  BY <1>2 DEF Check, Build, Resume, runnerVars
<1>3. CASE BuildFails(w) \/ Send(w)
  BY <1>3, RequestsAssumption DEF BuildFails, Send, Finished, runnerVars
<1>4. CASE Record(w) \/ RecordEndpoint(w)
  BY <1>4 DEF Record, RecordEndpoint, AfterAttempt, runnerVars
<1>5. CASE End(w)
  BY <1>5 DEF End, Runner!End
<1> QED  BY <1>1, <1>2, <1>3, <1>4, <1>5 DEF WorkerStep

\* The successes that are not counted yet can be counted.
LEMMA SucceedingFinite == IsFiniteSet(Succeeding) /\ Cardinality(Succeeding) \in Nat
BY RequestsAssumption, FS_Subset, FS_CardinalityType DEF Succeeding

\* A worker's step keeps the successes and the attempts in step.
LEMMA SuccessStep ==
    ASSUME WorkersInv, SuccessInv, NEW w \in Workers, WorkerStep(w)
    PROVE  SuccessInv'
<1> USE DEF SuccessInv
<1>0. WorkersInv' /\ IsFiniteSet(Succeeding) /\ Cardinality(Succeeding) \in Nat
  BY WorkerTypes, SucceedingFinite
<1>1. CASE Begin(w)
  <2>1. step[w] = "idle" /\ outcome' = outcome
    BY <1>1 DEF Begin, Runner!Begin, WorkersInv
  <2>2. Succeeding' = Succeeding
    BY <1>1, <2>1 DEF Begin, Succeeding, WorkersInv
  <2> QED  BY <1>1, <2>2 DEF Begin, Runner!Begin
<1>2. CASE Check(w) \/ Build(w) \/ Resume(w)
  <2>1. Succeeding' = Succeeding
    BY <1>2 DEF Check, Build, Resume, Succeeding, WorkersInv
  <2> QED  BY <1>2, <2>1 DEF Check, Build, Resume, runnerVars
<1>3. CASE BuildFails(w) \/ Send(w)
  <2>1. PICK o \in Outcomes : Finished(w, o)
    BY <1>3, RequestsAssumption DEF BuildFails, Send, Outcomes
  <2>2. executed' = executed /\ failed' = failed /\ w \notin Succeeding
    BY <1>3 DEF BuildFails, Send, runnerVars, Succeeding
  <2>3. CASE o = "ok"
    <3>1. Succeeding' = Succeeding \cup {w}
      BY <2>1, <2>3 DEF Finished, Succeeding, WorkersInv
    <3>2. Cardinality(Succeeding') = Cardinality(Succeeding) + 1
      BY <1>0, <2>2, <3>1, FS_AddElement
    <3>3. made' = [made EXCEPT !.ok = @ + 1]
      BY <2>1, <2>3 DEF Finished, Counted
    <3> QED  BY <1>0, <2>2, <3>2, <3>3
  <2>4. CASE o # "ok"
    <3>1. Succeeding' = Succeeding
      BY <2>1, <2>2, <2>4 DEF Finished, Succeeding, WorkersInv
    <3>2. made' = [made EXCEPT !.bad = @ + 1]
      BY <2>1, <2>4 DEF Finished, Counted
    <3> QED  BY <1>0, <2>2, <3>1, <3>2
  <2> QED  BY <2>3, <2>4
<1>4. CASE Record(w) \/ RecordEndpoint(w)
  <2>1. Succeeding' = Succeeding
    BY <1>4 DEF Record, RecordEndpoint, AfterAttempt, Succeeding, WorkersInv
  <2> QED  BY <1>4, <2>1 DEF Record, RecordEndpoint, runnerVars
<1>5. CASE End(w)
  <2>1. made' = made /\ executed' = executed + 1
    BY <1>5 DEF End, Runner!End
  <2>2. CASE outcome[w] = "ok"
    <3>1. w \in Succeeding /\ Succeeding' = Succeeding \ {w} /\ failed' = failed + 0
      BY <1>5, <2>2 DEF End, Runner!End, Succeeding, WorkersInv
    <3>2. Cardinality(Succeeding') = Cardinality(Succeeding) - 1
      BY <1>0, <3>1, FS_RemoveElement
    <3> QED  BY <1>0, <2>1, <3>1, <3>2
  <2>3. CASE outcome[w] # "ok"
    <3>1. Succeeding' = Succeeding /\ failed' = failed + 1
      BY <1>5, <2>3 DEF End, Runner!End, Succeeding, WorkersInv
    <3> QED  BY <1>0, <2>1, <3>1
  <2> QED  BY <2>2, <2>3
<1> QED  BY <1>1, <1>2, <1>3, <1>4, <1>5 DEF WorkerStep

LEMMA GoodStep ==
    ASSUME GoodInv, [Next]_vars
    PROVE  GoodInv'
<1> USE DEF GoodInv
<1>1. RunningInv'
  BY RunningStep
<1>2. ASSUME UNCHANGED <<step, outcome, running, executed, failed, made>>
      PROVE  WorkersInv' /\ SuccessInv'
  <2>1. Succeeding' = Succeeding
    BY <1>2 DEF Succeeding
  <2> QED  BY <1>2, <2>1 DEF WorkersInv, SuccessInv
<1>3. CASE Main
  <2>1. UNCHANGED <<step, outcome, running, executed, failed, made, phase, result>>
    BY <1>3 DEF Main, Help, LoadConfig, ValidateConfig, LoadHAR, InitTracing, BuildAuth, BuildFeeder,
       BuildRequesterStep, Watch, StartRun, StopTicker, FinalSnapshot, TakeStats,
       EvaluateThresholds, Report, Unwind, requestsVars, runnerVars, requestVars, StartSnapshot
  <2>2. ASSUME Help \/ LoadConfig \/ ValidateConfig \/ LoadHAR \/ InitTracing \/ BuildAuth
        PROVE  ResultInv'
    BY <2>1, <2>2 DEF ResultInv, Help, LoadConfig, ValidateConfig, LoadHAR, InitTracing, BuildAuth,
                      Go, Fail
  <2>3. ASSUME BuildFeeder \/ BuildRequesterStep
        PROVE  ResultInv'
    BY <2>1, <2>3 DEF ResultInv, BuildFeeder, BuildRequesterStep, Go, Fail
  <2>4. ASSUME Watch \/ StartRun \/ StopTicker \/ FinalSnapshot \/ TakeStats
        PROVE  ResultInv'
    BY <2>1, <2>4 DEF ResultInv, Watch, StartRun, StopTicker, FinalSnapshot, TakeStats, Go, Return
  <2>5. ASSUME EvaluateThresholds \/ Report \/ Unwind
        PROVE  ResultInv'
    BY <2>1, <2>5 DEF ResultInv, EvaluateThresholds, Report, Unwind, Go, Return
  <2>6. ResultInv'
    BY <1>3, <2>2, <2>3, <2>4, <2>5 DEF Main
  <2> QED  BY <1>1, <1>2, <2>1, <2>6
<1>4. CASE Signal
  <2>1. UNCHANGED <<step, outcome, running, executed, failed, made, phase, result>>
    BY <1>4 DEF Signal, runnerVars, requestVars
  <2>2. ResultInv'
    BY <1>4, <2>1 DEF Signal, Handled, ResultInv
  <2> QED  BY <1>1, <1>2, <2>1, <2>2
<1>5. ASSUME NEW w \in Workers, Working(w)
      PROVE  GoodInv'
  <2>1. pc = "run" /\ WorkerStep(w) /\ pc' = pc /\ code' = code
    BY <1>5 DEF Working, programVars
  <2>2. WorkersInv' /\ SuccessInv'
    BY <2>1, WorkerTypes, SuccessStep
  <2>3. phase' = phase /\ result' = result /\ (phase = "returned" => failed' = failed)
    BY <2>1 DEF WorkerStep, Begin, Check, Build, BuildFails, Send, Record, RecordEndpoint, Resume,
                End, Runner!Begin, Runner!End, runnerVars, RunningInv
  <2> QED  BY <1>1, <2>1, <2>2, <2>3 DEF ResultInv
<1>6. CASE Tick \/ Snapshotting \/ GraceOver \/ UNCHANGED vars
  <2>1. UNCHANGED <<step, outcome, running, executed, failed, made, phase, result, pc, code>>
    BY <1>6 DEF Tick, Snapshotting, GraceOver, ReadShard, EndSnapshot, StartSnapshot, vars,
                runnerVars, requestVars, programVars
  <2> QED  BY <1>1, <1>2, <2>1 DEF ResultInv
<1>7. CASE Issue \/ Close \/ ReturnRun
  <2>1. UNCHANGED <<step, outcome, running, executed, failed, made, pc, code>>
    BY <1>7 DEF Issue, Close, ReturnRun, Runner!Issue, Runner!Close, Runner!Return, requestVars,
                programVars
  <2>2. pc = "run"
    BY <1>7 DEF Issue, Close, ReturnRun
  <2>3. (phase' = phase /\ result' = result) \/ (phase # "returned" /\ phase' = "closed")
          \/ (phase' = "returned" /\ result' = [total |-> executed, errors |-> failed])
    BY <1>7 DEF Issue, Close, ReturnRun, Runner!Issue, Runner!Close, Runner!Return
  <2> QED  BY <1>1, <1>2, <2>1, <2>2, <2>3 DEF ResultInv
<1> QED  BY <1>3, <1>4, <1>5, <1>6, <1>7 DEF Next

LEMMA GoodInit ==
    ASSUME Init
    PROVE  GoodInv
<1>1. RunningInv /\ WorkersInv /\ ResultInv
  BY DEF Init, RequestsInit, Runner!Init, RunningInv, WorkersInv, ResultInv, Steps, Outcomes
<1>2. Succeeding = {}
  BY DEF Init, RequestsInit, Succeeding
<1>3. SuccessInv
  BY <1>2, FS_EmptySet DEF Init, RequestsInit, Runner!Init, SuccessInv, NoCount
<1> QED  BY <1>1, <1>3 DEF GoodInv

\* At a good exit nothing is in flight and each request succeeded once.
LEMMA GoodCounts ==
    ASSUME GoodInv, code = "good"
    PROVE  running = {} /\ made.ok = executed
<1>1. running = {} /\ failed = 0
  BY DEF GoodInv, RunningInv, ResultInv
<1>2. Succeeding = {}
  BY <1>1 DEF GoodInv, WorkersInv, Succeeding
<1>3. Cardinality(Succeeding) = 0
  BY <1>2, FS_EmptySet
<1> QED  BY <1>1, <1>3 DEF GoodInv, SuccessInv

\* Exit status 0 after requests that were tried again: each has one success
\* and none was given up (WithRetry, the runner's Result, Run's last lines).
THEOREM GoodMeansEachSucceeded ==
    Spec => [](code = "good" => running = {} /\ made.ok = executed)
<1>1. Init => GoodInv
  BY GoodInit
<1>2. GoodInv /\ [Next]_vars => GoodInv'
  BY GoodStep
<1>3. GoodInv => (code = "good" => running = {} /\ made.ok = executed)
  BY GoodCounts
<1> QED  BY <1>1, <1>2, <1>3, PTL DEF Spec

---------------------------------------------------------------------------
\* A set of natural numbers has a least one.
LEMMA LeastNat ==
    ASSUME NEW C, C \subseteq Nat, C # {}
    PROVE  \E n \in C : \A m \in C : n <= m
<1>1. PICK n \in C : \A m \in C : <<m, n>> \notin OpToRel(<, Nat)
  BY WFMin, NatLessThanWellFounded
<1>2. \A m \in C : ~(m < n)
  BY <1>1 DEF OpToRel
<1> QED  BY <1>2

---------------------------------------------------------------------------
(***************************************************************************)
(* Sums of counts.  Total folds a function of counts over its domain; the  *)
(* sums of all parts of the domain are one recursive function.             *)
(***************************************************************************)
Counts == [ok : Nat, bad : Nat]
\* The element that the fold of Total takes from a set first.
Drawn(s) == CHOOSE x \in s : TRUE
\* f gives the sum of every part of c, an element at a time.
SumsOf(f, c) ==
    f = [s \in SUBSET DOMAIN c |->
            IF s = {} THEN NoCount ELSE Plus(c[Drawn(s)], f[s \ {Drawn(s)}])]
PartSum(c, S) == (CHOOSE f : SumsOf(f, c))[S]

\* The least cardinality of a counterexample among the parts of a finite set.
LEMMA LeastPart ==
    ASSUME NEW D, IsFiniteSet(D), NEW C, C \subseteq SUBSET D, C # {}
    PROVE  \E s \in C : \A t \in C : Cardinality(s) <= Cardinality(t)
<1> DEFINE N == {Cardinality(s) : s \in C}
<1>1. N \subseteq Nat /\ N # {}
  <2>1. \A s \in C : Cardinality(s) \in Nat
    BY FS_Subset, FS_CardinalityType
  <2> QED  BY <2>1
<1>2. PICK n \in N : \A m \in N : n <= m
  <2> HIDE DEF N
  <2> QED  BY <1>1, LeastNat
<1> QED  BY <1>2

\* One element fewer.
LEMMA SmallerPart ==
    ASSUME NEW D, IsFiniteSet(D), NEW s \in SUBSET D, NEW y \in s
    PROVE  /\ s \ {y} \in SUBSET D
           /\ Cardinality(s) \in Nat /\ Cardinality(s \ {y}) \in Nat
           /\ Cardinality(s \ {y}) < Cardinality(s)
<1>1. IsFiniteSet(s)
  BY FS_Subset
<1>2. IsFiniteSet(s \ {y}) /\ Cardinality(s \ {y}) = Cardinality(s) - 1
  BY <1>1, FS_RemoveElement
<1> QED  BY <1>1, <1>2, FS_CardinalityType

\* The sums of the parts of a finite c exist: those of n elements make
\* those of n + 1.
LEMMA SumsExist ==
    ASSUME NEW c, IsFiniteSet(DOMAIN c)
    PROVE  \E f : SumsOf(f, c)
<1> DEFINE D == DOMAIN c
           Small(n) == {s \in SUBSET D : Cardinality(s) <= n}
           Upto(f, n) == f = [s \in Small(n) |->
                IF s = {} THEN NoCount ELSE Plus(c[Drawn(s)], f[s \ {Drawn(s)}])]
           C == {n \in Nat : ~ \E f : Upto(f, n)}
<1>1. C = {}
  <2> SUFFICES ASSUME C # {} PROVE FALSE
    OBVIOUS
  <2>1. PICK n \in C : \A m \in C : n <= m
    BY LeastNat
  <2> DEFINE F(f, s) == IF s = {} THEN NoCount ELSE Plus(c[Drawn(s)], f[s \ {Drawn(s)}])
  <2>2. CASE n = 0
    <3> DEFINE g == [s \in Small(0) |-> NoCount]
    <3>1. \A s \in Small(0) : s = {}
      BY FS_Subset, FS_CardinalityType, FS_EmptySet
    <3>2. \A s \in Small(0) : NoCount = F(g, s)
      BY <3>1
    <3>3. Upto(g, 0)
      <4> HIDE DEF F, Small
      <4>1. g = [s \in Small(0) |-> F(g, s)]
        BY <3>2
      <4> QED  BY <4>1 DEF F
    <3> QED  BY <2>1, <2>2, <3>3
  <2>3. CASE n # 0
    <3>1. n - 1 \in Nat /\ n - 1 \notin C
      <4>1. C \subseteq Nat
        OBVIOUS
      <4> HIDE DEF C
      <4> QED  BY <2>1, <2>3, <4>1
    <3>2. PICK f : Upto(f, n - 1)
      BY <3>1
    <3> DEFINE g == [s \in Small(n) |-> F(f, s)]
    <3>3. ASSUME NEW s \in Small(n) PROVE F(f, s) = F(g, s)
      <4>1. CASE s = {}
        BY <4>1
      <4>2. CASE s # {}
        <5>1. Drawn(s) \in s
          BY <4>2 DEF Drawn
        <5> DEFINE t == s \ {Drawn(s)}
        <5>2. t \in SUBSET D /\ Cardinality(t) < Cardinality(s)
                /\ Cardinality(s) \in Nat /\ Cardinality(t) \in Nat
          BY <5>1, SmallerPart
        <5>3. t \in Small(n - 1) /\ t \in Small(n)
          BY <5>2, <3>1
        <5>4. f[t] = F(f, t) /\ g[t] = F(f, t)
          <6> HIDE DEF t, Small
          <6> QED  BY <3>2, <5>3
        <5> QED  BY <4>2, <5>4
      <4> QED  BY <4>1, <4>2
    <3>4. Upto(g, n)
      <4> HIDE DEF F, Small
      <4>1. g = [s \in Small(n) |-> F(g, s)]
        BY <3>3
      <4> QED  BY <4>1 DEF F
    <3> QED  BY <2>1, <3>4
  <2> QED  BY <2>2, <2>3
<1>2. Cardinality(D) \in Nat
  BY FS_CardinalityType
<1>3. PICK f : Upto(f, Cardinality(D))
  BY <1>1, <1>2
<1>4. Small(Cardinality(D)) = SUBSET D
  BY FS_Subset
<1> QED  BY <1>3, <1>4 DEF SumsOf

\* Total is the sum of the whole domain.
LEMMA TotalIsPartSum ==
    ASSUME NEW c
    PROVE  Total(c) = PartSum(c, DOMAIN c)
BY DEF Total, FoldFunction, FoldFunctionOnSet, MapThenFoldSet, PartSum, SumsOf, Drawn

\* A part's sum is any element's count and the sum of the others.
LEMMA PartSums ==
    ASSUME NEW D, IsFiniteSet(D), NEW c \in [D -> Counts]
    PROVE  /\ PartSum(c, {}) = NoCount
           /\ \A s \in SUBSET D : PartSum(c, s) \in Counts
           /\ \A s \in SUBSET D : \A y \in s : PartSum(c, s) = Plus(c[y], PartSum(c, s \ {y}))
<1> DEFINE f == CHOOSE g : SumsOf(g, c)
<1>1. SumsOf(f, c)
  BY SumsExist
<1>2. \A s \in SUBSET D : f[s] = IF s = {} THEN NoCount ELSE Plus(c[Drawn(s)], f[s \ {Drawn(s)}])
  <2> HIDE DEF f
  <2> QED  BY <1>1 DEF SumsOf
<1> DEFINE P(s) == /\ f[s] \in Counts
                   /\ \A y \in s : f[s] = Plus(c[y], f[s \ {y}])
           C == {s \in SUBSET D : ~P(s)}
<1> HIDE DEF f
<1>3. C = {}
  <2> SUFFICES ASSUME C # {} PROVE FALSE
    OBVIOUS
  <2>1. PICK s \in C : \A t \in C : Cardinality(s) <= Cardinality(t)
    <3> HIDE DEF P
    <3> QED  BY LeastPart
  <2>2. s # {}
    <3>1. f[{}] = NoCount /\ NoCount \in Counts
      BY <1>2 DEF NoCount, Counts
    <3>2. P({})
      BY <3>1
    <3> QED  BY <2>1, <3>2
  <2> DEFINE x == Drawn(s)
  <2>3. x \in s
    BY <2>2 DEF Drawn
  <2>4. \A y \in s : s \ {y} \in SUBSET D /\ P(s \ {y})
    <3> SUFFICES ASSUME NEW y \in s PROVE s \ {y} \in SUBSET D /\ P(s \ {y})
      OBVIOUS
    <3>1. s \ {y} \in SUBSET D /\ Cardinality(s) \in Nat /\ Cardinality(s \ {y}) \in Nat
            /\ Cardinality(s \ {y}) < Cardinality(s)
      BY SmallerPart
    <3>2. s \ {y} \notin C
      <4> HIDE DEF C
      <4> QED  BY <2>1, <3>1
    <3> QED  BY <3>1, <3>2
  <2>5. f[s] = Plus(c[x], f[s \ {x}])
    BY <1>2, <2>2
  <2> HIDE DEF x
  <2>6. f[s] \in Counts
    <3>1. c[x] \in Counts /\ f[s \ {x}] \in Counts
      BY <2>3, <2>4
    <3> QED  BY <2>5, <3>1 DEF Plus, Counts
  <2>7. ASSUME NEW y \in s PROVE f[s] = Plus(c[y], f[s \ {y}])
    <3>1. CASE y = x
      BY <2>5, <3>1
    <3>2. CASE y # x
      <4> DEFINE r == (s \ {x}) \ {y}
      <4>1. r = (s \ {y}) \ {x}
        OBVIOUS
      <4>2. f[s \ {x}] = Plus(c[y], f[r])
        BY <2>3, <2>4, <3>2
      <4>3. f[s \ {y}] = Plus(c[x], f[r])
        <5>1. x \in s \ {y} /\ P(s \ {y})
          BY <2>3, <2>4, <3>2
        <5>2. f[s \ {y}] = Plus(c[x], f[(s \ {y}) \ {x}])
          BY <5>1
        <5> QED  BY <4>1, <5>2
      <4>4. f[r] \in Counts
        <5>1. r \in SUBSET D /\ Cardinality(r) < Cardinality(s \ {x})
                /\ Cardinality(s \ {x}) < Cardinality(s) /\ Cardinality(r) \in Nat
                /\ Cardinality(s) \in Nat /\ Cardinality(s \ {x}) \in Nat
          BY <2>3, <2>4, <3>2, SmallerPart
        <5>2. r \notin C
          <6> HIDE DEF C
          <6> QED  BY <2>1, <5>1
        <5> QED  BY <5>1, <5>2
      <4> HIDE DEF r
      <4>5. c[x] \in Counts /\ c[y] \in Counts
        BY <2>3
      <4>6. Plus(c[x], Plus(c[y], f[r])) = Plus(c[y], Plus(c[x], f[r]))
        BY <4>4, <4>5 DEF Plus, Counts
      <4> QED  BY <2>5, <4>2, <4>3, <4>6
    <3> QED  BY <3>1, <3>2
  <2> QED  BY <2>1, <2>6, <2>7
<1>4. f[{}] = NoCount
  BY <1>2
<1>5. \A s : PartSum(c, s) = f[s]
  BY DEF PartSum, f
<1>6. \A s \in SUBSET D : P(s)
  BY <1>3
<1> QED  BY <1>4, <1>5, <1>6

\* Larger counts have a larger sum.
LEMMA SumsGrow ==
    ASSUME NEW D, IsFiniteSet(D), NEW c \in [D -> Counts], NEW d \in [D -> Counts],
           NEW S \in SUBSET D, \A i \in S : AtMost(c[i], d[i])
    PROVE  AtMost(PartSum(c, S), PartSum(d, S))
<1> DEFINE C == {s \in SUBSET S : ~AtMost(PartSum(c, s), PartSum(d, s))}
<1>1. C = {}
  <2> SUFFICES ASSUME C # {} PROVE FALSE
    OBVIOUS
  <2>1. PICK s \in C : \A t \in C : Cardinality(s) <= Cardinality(t)
    BY LeastPart
  <2>2. s \in SUBSET D /\ IsFiniteSet(D)
    OBVIOUS
  <2>3. s # {}
    <3>1. PartSum(c, {}) = NoCount /\ PartSum(d, {}) = NoCount
      BY PartSums
    <3>2. AtMost(NoCount, NoCount)
      BY DEF AtMost, NoCount
    <3> QED  BY <2>1, <3>1, <3>2
  <2>4. PICK y \in s : TRUE
    BY <2>3
  <2>5. s \ {y} \in SUBSET D /\ Cardinality(s \ {y}) < Cardinality(s)
          /\ Cardinality(s \ {y}) \in Nat /\ Cardinality(s) \in Nat
    BY <2>2, SmallerPart
  <2>6. AtMost(PartSum(c, s \ {y}), PartSum(d, s \ {y}))
    BY <2>1, <2>5
  <2>7. /\ PartSum(c, s) = Plus(c[y], PartSum(c, s \ {y}))
        /\ PartSum(d, s) = Plus(d[y], PartSum(d, s \ {y}))
        /\ PartSum(c, s \ {y}) \in Counts /\ PartSum(d, s \ {y}) \in Counts
    BY <2>2, <2>5, PartSums
  <2>8. c[y] \in Counts /\ d[y] \in Counts /\ AtMost(c[y], d[y])
    BY <2>2
  <2>9. AtMost(PartSum(c, s), PartSum(d, s))
    BY <2>6, <2>7, <2>8 DEF AtMost, Plus, Counts
  <2> QED  BY <2>1, <2>9
<1> QED  BY <1>1

\* One attempt more under a key is one attempt more in the total.
LEMMA TotalCounts ==
    ASSUME NEW D, IsFiniteSet(D), NEW c \in [D -> Counts], NEW d \in [D -> Counts], NEW i \in D,
           NEW o, d[i] = Counted(c[i], o), \A j \in D \ {i} : d[j] = c[j]
    PROVE  /\ Total(c) \in Counts
           /\ Total(d) = Counted(Total(c), o)
<1> DEFINE R == D \ {i}
<1>1. Total(c) = PartSum(c, D) /\ Total(d) = PartSum(d, D)
  <2>1. DOMAIN c = D /\ DOMAIN d = D
    OBVIOUS
  <2> QED  BY <2>1, TotalIsPartSum
<1>2. R \in SUBSET D /\ D \in SUBSET D /\ D \ {i} = R
  OBVIOUS
<1> HIDE DEF R
<1>3. /\ PartSum(c, D) = Plus(c[i], PartSum(c, R)) /\ PartSum(c, R) \in Counts
      /\ PartSum(c, D) \in Counts
  BY <1>2, PartSums
<1>4. PartSum(d, D) = Plus(d[i], PartSum(d, R)) /\ PartSum(d, R) \in Counts
  BY <1>2, PartSums
<1>5. AtMost(PartSum(c, R), PartSum(d, R)) /\ AtMost(PartSum(d, R), PartSum(c, R))
  <2>1. \A j \in R : AtMost(c[j], d[j]) /\ AtMost(d[j], c[j])
    BY DEF AtMost, Counts, R
  <2> QED  BY <1>2, <2>1, SumsGrow
<1>6. PartSum(c, R) = PartSum(d, R)
  <2>1. \A x, y \in Counts : AtMost(x, y) /\ AtMost(y, x) => x = y
    BY DEF AtMost, Counts
  <2> QED  BY <1>3, <1>4, <1>5, <2>1
<1>7. \A x, y \in Counts : Plus(Counted(x, o), y) = Counted(Plus(x, y), o)
  BY DEF Plus, Counted, Counts
<1>8. c[i] \in Counts
  OBVIOUS
<1> QED  BY <1>1, <1>3, <1>4, <1>6, <1>7, <1>8

\* One more attempt leaves counts counts.
LEMMA CountedType == \A x \in Counts : \A o : Counted(x, o) \in Counts
BY DEF Counted, Counts

---------------------------------------------------------------------------
\* All of them begin with nothing.
LEMMA NothingSums ==
    ASSUME NEW D, IsFiniteSet(D)
    PROVE  Total([i \in D |-> NoCount]) = NoCount
<1> DEFINE c == [i \in D |-> NoCount]
           C == {s \in SUBSET D : PartSum(c, s) # NoCount}
<1>1. c \in [D -> Counts] /\ \A i \in D : c[i] = NoCount
  BY DEF NoCount, Counts
<1>2. Total(c) = PartSum(c, D)
  <2>1. DOMAIN c = D
    OBVIOUS
  <2> HIDE DEF c
  <2> QED  BY <2>1, TotalIsPartSum
<1> HIDE DEF c
<1>3. C = {}
  <2> SUFFICES ASSUME C # {} PROVE FALSE
    OBVIOUS
  <2>1. PICK s \in C : \A t \in C : Cardinality(s) <= Cardinality(t)
    BY LeastPart
  <2>2. s \in SUBSET D /\ s # {}
    BY <1>1, <2>1, PartSums
  <2>3. PICK y \in s : TRUE
    BY <2>2
  <2>4. s \ {y} \in SUBSET D /\ Cardinality(s \ {y}) < Cardinality(s)
          /\ Cardinality(s \ {y}) \in Nat /\ Cardinality(s) \in Nat
    BY <2>2, SmallerPart
  <2>5. PartSum(c, s \ {y}) = NoCount
    BY <2>1, <2>4
  <2>6. PartSum(c, s) = Plus(c[y], PartSum(c, s \ {y})) /\ c[y] = NoCount
    BY <1>1, <2>2, PartSums
  <2>7. Plus(NoCount, NoCount) = NoCount
    BY DEF Plus, NoCount
  <2> QED  BY <2>1, <2>5, <2>6, <2>7
<1>4. PartSum(c, D) = NoCount
  BY <1>3
<1> QED  BY <1>2, <1>4 DEF c

---------------------------------------------------------------------------
(***************************************************************************)
(* Snapshots of a collector that goes on counting.                         *)
(***************************************************************************)
Below(n) == {i \in Shards : i < n}
From(n)  == {i \in Shards : n <= i}

\* What has been read is no more than those shards hold now; what had been
\* counted at the start is there, read or still to be read.
SnapInv ==
    /\ shard \in [Shards -> Counts]
    /\ history \in Seq(Counts)
    /\ snap \in [at : 0 .. LastShard + 1, sum : Counts, low : Counts]
    /\ history # << >> => AtMost(history[Len(history)], Total(shard))
    /\ snap.at # 0 =>
          /\ AtMost(snap.sum, PartSum(shard, Below(snap.at)))
          /\ AtMost(snap.low, Plus(snap.sum, PartSum(shard, From(snap.at))))
          /\ history # << >> => AtMost(history[Len(history)], snap.low)

\* The shards are numbered from 1, and there is a last one.
LEMMA ShardsFinite ==
    /\ IsFiniteSet(Shards) /\ LastShard \in Nat /\ Shards = 1..LastShard
    /\ \A n \in Nat : Below(n) \in SUBSET Shards /\ From(n) \in SUBSET Shards
BY RequestsAssumption, FS_CardinalityType DEF LastShard, Below, From

\* A snapshot begins above the last point of the history.
LEMMA SnapBegins ==
    ASSUME SnapInv, StartSnapshot
    PROVE  SnapInv'
<1>1. snap' = [at |-> 1, sum |-> NoCount, low |-> Total(shard)] /\ shard' = shard /\ history' = history
  BY DEF StartSnapshot
<1>2. Below(1) = {} /\ From(1) = Shards
  BY ShardsFinite DEF Below, From
<1>3. DOMAIN shard = Shards
  BY DEF SnapInv
<1>4. Total(shard) = PartSum(shard, Shards) /\ PartSum(shard, Shards) \in Counts
        /\ PartSum(shard, {}) = NoCount
  BY <1>3, TotalIsPartSum, PartSums, ShardsFinite DEF SnapInv
<1>5. NoCount \in Counts /\ AtMost(NoCount, NoCount)
        /\ AtMost(Total(shard), Plus(NoCount, Total(shard)))
  BY <1>4 DEF NoCount, Counts, AtMost, Plus
<1>6. snap' \in [at : 0 .. LastShard + 1, sum : Counts, low : Counts]
  BY <1>1, <1>4, <1>5, ShardsFinite
<1> QED  BY <1>1, <1>2, <1>4, <1>5, <1>6 DEF SnapInv

\* A shard read adds to the sum what the shards ahead still owed it.
LEMMA SnapReads ==
    ASSUME SnapInv, ReadShard
    PROVE  SnapInv'
<1> DEFINE k == snap.at
<1>1. /\ k \in Shards /\ snap' = [snap EXCEPT !.at = k + 1, !.sum = Plus(snap.sum, shard[k])]
      /\ shard' = shard /\ history' = history
  BY DEF ReadShard
<1>2. k \in 1..LastShard /\ k + 1 \in 0 .. LastShard + 1 /\ k + 1 # 0
  BY <1>1, ShardsFinite
<1>3. /\ snap'.at = k + 1 /\ snap'.sum = Plus(snap.sum, shard[k]) /\ snap'.low = snap.low
      /\ snap' = [at |-> k + 1, sum |-> Plus(snap.sum, shard[k]), low |-> snap.low]
  BY <1>1 DEF SnapInv
<1>4. /\ k \in Below(k + 1) /\ Below(k + 1) \ {k} = Below(k)
      /\ k \in From(k) /\ From(k) \ {k} = From(k + 1)
      /\ Below(k + 1) \in SUBSET Shards /\ From(k) \in SUBSET Shards
      /\ Below(k) \in SUBSET Shards /\ From(k + 1) \in SUBSET Shards
  BY <1>1, <1>2, ShardsFinite DEF Below, From
<1>5. /\ PartSum(shard, Below(k + 1)) = Plus(shard[k], PartSum(shard, Below(k)))
      /\ PartSum(shard, From(k)) = Plus(shard[k], PartSum(shard, From(k + 1)))
      /\ PartSum(shard, Below(k)) \in Counts /\ PartSum(shard, From(k + 1)) \in Counts
  BY <1>4, PartSums, ShardsFinite DEF SnapInv
<1>6. /\ shard[k] \in Counts /\ snap.sum \in Counts /\ snap.low \in Counts
      /\ AtMost(snap.sum, PartSum(shard, Below(k)))
      /\ AtMost(snap.low, Plus(snap.sum, PartSum(shard, From(k))))
      /\ history # << >> => AtMost(history[Len(history)], snap.low)
  BY <1>1, <1>2 DEF SnapInv
<1> HIDE DEF k
<1>7. Plus(snap.sum, shard[k]) \in Counts
  BY <1>6 DEF Plus, Counts
<1>8. AtMost(Plus(snap.sum, shard[k]), PartSum(shard, Below(k + 1)))
  <2>1. \A a, b, c \in Counts : AtMost(a, b) => AtMost(Plus(a, c), Plus(c, b))
    BY DEF AtMost, Plus, Counts
  <2> QED  BY <1>5, <1>6, <2>1
<1>9. AtMost(snap.low, Plus(Plus(snap.sum, shard[k]), PartSum(shard, From(k + 1))))
  <2>1. \A a, b, c \in Counts : Plus(a, Plus(b, c)) = Plus(Plus(a, b), c)
    BY DEF Plus, Counts
  <2> QED  BY <1>5, <1>6, <2>1
<1>10. snap' \in [at : 0 .. LastShard + 1, sum : Counts, low : Counts]
  BY <1>2, <1>3, <1>6, <1>7
<1> QED  BY <1>1, <1>3, <1>6, <1>8, <1>9, <1>10 DEF SnapInv

\* A snapshot that has read every shard is a point no lower than the last.
LEMMA SnapEnds ==
    ASSUME SnapInv, EndSnapshot
    PROVE  SnapInv'
<1>1. /\ snap.at = LastShard + 1 /\ history' = Append(history, snap.sum) /\ shard' = shard
      /\ snap' = [at |-> 0, sum |-> NoCount, low |-> NoCount]
  BY DEF EndSnapshot
<1>2. Below(LastShard + 1) = Shards /\ DOMAIN shard = Shards /\ snap.at # 0
  BY <1>1, ShardsFinite DEF Below, SnapInv
<1>3. AtMost(snap.sum, Total(shard)) /\ snap.sum \in Counts
  BY <1>1, <1>2, TotalIsPartSum DEF SnapInv
<1>4. history' \in Seq(Counts) /\ history'[Len(history')] = snap.sum
  BY <1>1, <1>3 DEF SnapInv
<1>5. snap' \in [at : 0 .. LastShard + 1, sum : Counts, low : Counts] /\ snap'.at = 0
  BY <1>1, ShardsFinite DEF NoCount, Counts
<1> QED  BY <1>1, <1>3, <1>4, <1>5 DEF SnapInv

\* Counting moves every sum up.
LEMMA SnapCounts ==
    ASSUME SnapInv, NEW i \in Shards, NEW o, shard' = [shard EXCEPT ![i] = Counted(@, o)],
           UNCHANGED <<history, snap>>
    PROVE  SnapInv'
<1>1. shard \in [Shards -> Counts] /\ shard' \in [Shards -> Counts]
  BY CountedType DEF SnapInv
<1>2. \A j \in Shards : AtMost(shard[j], shard'[j])
  <2> SUFFICES ASSUME NEW j \in Shards PROVE AtMost(shard[j], shard'[j])
    OBVIOUS
  <2>1. shard[j] \in Counts /\ shard'[j] = IF j = i THEN Counted(shard[j], o) ELSE shard[j]
    BY <1>1
  <2>2. AtMost(shard[j], shard[j]) /\ AtMost(shard[j], Counted(shard[j], o))
    BY <2>1 DEF AtMost, Counted, Counts
  <2> QED  BY <2>1, <2>2
<1>3. \A S \in SUBSET Shards : /\ AtMost(PartSum(shard, S), PartSum(shard', S))
                               /\ PartSum(shard, S) \in Counts /\ PartSum(shard', S) \in Counts
  BY <1>1, <1>2, SumsGrow, PartSums, ShardsFinite
<1>4. Total(shard) = PartSum(shard, Shards) /\ Total(shard') = PartSum(shard', Shards)
  <2>1. DOMAIN shard = Shards /\ DOMAIN shard' = Shards
    BY <1>1
  <2> QED  BY <2>1, TotalIsPartSum
<1>5. history # << >> => AtMost(history[Len(history)], Total(shard'))
  <2> SUFFICES ASSUME history # << >> PROVE AtMost(history[Len(history)], Total(shard'))
    OBVIOUS
  <2>1. AtMost(history[Len(history)], Total(shard)) /\ history[Len(history)] \in Counts
    BY DEF SnapInv
  <2>2. AtMost(Total(shard), Total(shard')) /\ Total(shard) \in Counts /\ Total(shard') \in Counts
    BY <1>3, <1>4
  <2> QED  BY <2>1, <2>2 DEF AtMost, Counts
<1>6. ASSUME snap.at # 0
      PROVE  /\ AtMost(snap.sum, PartSum(shard', Below(snap.at)))
             /\ AtMost(snap.low, Plus(snap.sum, PartSum(shard', From(snap.at))))
  <2>1. /\ snap.sum \in Counts /\ snap.low \in Counts /\ snap.at \in Nat
        /\ AtMost(snap.sum, PartSum(shard, Below(snap.at)))
        /\ AtMost(snap.low, Plus(snap.sum, PartSum(shard, From(snap.at))))
    BY <1>6, ShardsFinite DEF SnapInv
  <2> DEFINE B == Below(snap.at)
             F == From(snap.at)
  <2>2. B \in SUBSET Shards /\ F \in SUBSET Shards
    BY <2>1, ShardsFinite
  <2>3. /\ AtMost(PartSum(shard, B), PartSum(shard', B)) /\ AtMost(PartSum(shard, F), PartSum(shard', F))
        /\ PartSum(shard, B) \in Counts /\ PartSum(shard', B) \in Counts
        /\ PartSum(shard, F) \in Counts /\ PartSum(shard', F) \in Counts
    BY <1>3, <2>2
  <2> HIDE DEF B, F
  <2>4. AtMost(snap.sum, PartSum(shard', B))
    BY <2>1, <2>3 DEF AtMost, Counts, B
  <2>5. AtMost(snap.low, Plus(snap.sum, PartSum(shard', F)))
    BY <2>1, <2>3 DEF AtMost, Plus, Counts, F
  <2> QED  BY <2>4, <2>5 DEF B, F
<1> QED  BY <1>1, <1>5, <1>6 DEF SnapInv

LEMMA SnapStep ==
    ASSUME SnapInv, [Next]_vars
    PROVE  SnapInv'
<1>1. CASE UNCHANGED <<shard, history, snap>>
  BY <1>1 DEF SnapInv
<1>2. CASE Main
  BY <1>1, <1>2, SnapBegins DEF Main, Help, LoadConfig, ValidateConfig, LoadHAR, InitTracing, BuildAuth, BuildFeeder,
     BuildRequesterStep, Watch, StartRun, StopTicker, FinalSnapshot, TakeStats,
     EvaluateThresholds, Report, Unwind, requestsVars, collectorVars
<1>3. CASE Tick \/ Snapshotting
  BY <1>3, SnapBegins, SnapReads, SnapEnds DEF Tick, Snapshotting
<1>4. ASSUME NEW w \in Workers, Working(w) PROVE SnapInv'
  BY <1>1, <1>4, SnapCounts DEF Working, WorkerStep, Begin, Check, Build, BuildFails, Send, Record,
     RecordEndpoint, Resume, End, collectorVars
<1>5. CASE Signal \/ Issue \/ Close \/ GraceOver \/ ReturnRun \/ UNCHANGED vars
  BY <1>1, <1>5 DEF Signal, Issue, Close, GraceOver, ReturnRun, vars, collectorVars
<1> QED  BY <1>2, <1>3, <1>4, <1>5 DEF Next

\* However the shards are read while workers count into them, a point of the
\* history lies between the totals at its start and at its end, and the points
\* never go down (Collector.Snapshot against record).
THEOREM HistoryIsSound == Spec => []HistorySound
<1>1. Init => SnapInv
  <2> SUFFICES ASSUME Init PROVE SnapInv
    OBVIOUS
  <2>1. /\ shard = [i \in Shards |-> NoCount] /\ history = << >>
        /\ snap = [at |-> 0, sum |-> NoCount, low |-> NoCount]
    BY DEF Init, RequestsInit
  <2> QED  BY <2>1, ShardsFinite DEF SnapInv, NoCount, Counts
<1>2. SnapInv /\ [Next]_vars => SnapInv'
  BY SnapStep
<1>3. SnapInv => HistorySound
  <2> SUFFICES ASSUME SnapInv, snap.at = LastShard + 1
               PROVE  /\ AtMost(snap.low, snap.sum)
                      /\ AtMost(snap.sum, Total(shard))
                      /\ history # << >> => AtMost(history[Len(history)], snap.sum)
    BY DEF HistorySound
  <2>1. Below(snap.at) = Shards /\ From(snap.at) = {} /\ DOMAIN shard = Shards /\ snap.at # 0
    BY ShardsFinite DEF Below, From, SnapInv
  <2>2. PartSum(shard, {}) = NoCount /\ Total(shard) = PartSum(shard, Shards)
    BY <2>1, PartSums, TotalIsPartSum, ShardsFinite DEF SnapInv
  <2>3. AtMost(snap.sum, Total(shard)) /\ AtMost(snap.low, Plus(snap.sum, NoCount))
    BY <2>1, <2>2 DEF SnapInv
  <2>4. snap.sum \in Counts /\ snap.low \in Counts
    BY DEF SnapInv
  <2>5. AtMost(snap.low, snap.sum)
    BY <2>3, <2>4 DEF AtMost, Plus, NoCount, Counts
  <2>6. ASSUME history # << >> PROVE AtMost(history[Len(history)], snap.sum)
    <3>1. AtMost(history[Len(history)], snap.low) /\ history[Len(history)] \in Counts
      BY <2>1, <2>6 DEF SnapInv
    <3> QED  BY <2>4, <2>5, <3>1 DEF AtMost, Counts
  <2> QED  BY <2>3, <2>5, <2>6
<1> QED  BY <1>1, <1>2, <1>3, PTL DEF Spec

---------------------------------------------------------------------------
(***************************************************************************)
(* The statistics and the attempts that were made.                         *)
(***************************************************************************)
\* The workers that have finished an attempt and have yet to count it.
Side(o) == IF o = "ok" THEN "ok" ELSE "bad"
\* The two counts, and the requests under way that miss in one of them.
Sides == {"ok", "bad"}
Uncounted(S, side) == {w \in Workers : step[w] \in S /\ Side(outcome[w]) = side}

\* The attempts that were made are those in a sum and those still to be added.
Tallied(sum, S) ==
    /\ made.ok = sum.ok + Cardinality(Uncounted(S, "ok"))
    /\ made.bad = sum.bad + Cardinality(Uncounted(S, "bad"))

\* The steps whose attempt the total, or the endpoint counts, still miss.
InTotal == {"record"}
InEndpoints == {"record", "bucket"}

\* The shards are behind the attempts by the requests about to record.
TotalInv ==
    /\ shard \in [Shards -> Counts]
    /\ made \in Counts
    /\ Tallied(Total(shard), InTotal)

\* With endpoints, every request under way has a template of the setup, and
\* the endpoints' counts are behind by both steps of RecordRequest.
EndpointsInv ==
    Templates # << >> =>
        /\ \E n \in Nat : DOMAIN setup.templates = 1..n
        /\ bucket \in [{NameOf(t) : t \in DOMAIN setup.templates} -> Counts]
        /\ tmpl \in [Workers -> Nat]
        /\ \A w \in running : tmpl[w] \in DOMAIN setup.templates
        /\ Tallied(Total(bucket), InEndpoints)

\* The requests under way are finitely many.
LEMMA UncountedFinite ==
    ASSUME NEW S, NEW side \in Sides
    PROVE  IsFiniteSet(Uncounted(S, side)) /\ Cardinality(Uncounted(S, side)) \in Nat
BY RequestsAssumption, FS_Subset, FS_CardinalityType DEF Side, Sides, Uncounted

\* So are the names of the endpoints.
LEMMA NamesFinite ==
    ASSUME NEW n \in Nat, DOMAIN setup.templates = 1..n
    PROVE  IsFiniteSet({NameOf(t) : t \in DOMAIN setup.templates})
<1> DEFINE f == [t \in 1..n |-> NameOf(t)]
           T == {NameOf(t) : t \in DOMAIN setup.templates}
<1>1. IsFiniteSet(1..n)
  BY FS_Interval
<1>2. f \in Surjection(1..n, T)
  BY DEF Surjection
<1> QED  BY <1>1, <1>2, FS_Surjection

\* An attempt ends: one more is made and one more waits to be counted.
LEMMA FinishTallies ==
    ASSUME WorkersInv, NEW w \in Workers, NEW o \in Outcomes, Finished(w, o), made \in Counts,
           NEW S, "record" \in S, step[w] \notin S, NEW sum \in Counts, Tallied(sum, S)
    PROVE  Tallied(sum, S)'
<1>1. /\ step' = [step EXCEPT ![w] = "record"] /\ outcome' = [outcome EXCEPT ![w] = o]
      /\ made' = Counted(made, o)
  BY DEF Finished
<1>2. \A g \in Sides : /\ w \notin Uncounted(S, g)
                         /\ Uncounted(S, g)' = IF g = Side(o) THEN Uncounted(S, g) \cup {w}
                                               ELSE Uncounted(S, g)
  BY <1>1 DEF Side, Sides, Uncounted, WorkersInv
<1>3. \A g \in Sides : /\ Cardinality(Uncounted(S, g)) \in Nat
                         /\ Cardinality(Uncounted(S, g) \cup {w}) = Cardinality(Uncounted(S, g)) + 1
  BY <1>2, UncountedFinite, FS_AddElement
<1>4. CASE o = "ok"
  <2>1. Uncounted(S, "ok")' = Uncounted(S, "ok") \cup {w} /\ Uncounted(S, "bad")' = Uncounted(S, "bad")
    BY <1>2, <1>4 DEF Side, Sides
  <2>2. made'.ok = made.ok + 1 /\ made'.bad = made.bad
    BY <1>1, <1>4 DEF Counted, Counts
  <2>3. /\ Cardinality(Uncounted(S, "ok")') = Cardinality(Uncounted(S, "ok")) + 1
        /\ Cardinality(Uncounted(S, "bad")') = Cardinality(Uncounted(S, "bad"))
        /\ Cardinality(Uncounted(S, "ok")) \in Nat
    BY <1>2, <1>3, <1>4, <2>1 DEF Sides
  <2>4. /\ made'.ok = sum.ok + Cardinality(Uncounted(S, "ok")')
        /\ made'.bad = sum.bad + Cardinality(Uncounted(S, "bad")')
    BY <2>2, <2>3 DEF Tallied, Counts
  <2> QED  BY <2>4 DEF Tallied
<1>5. CASE o # "ok"
  <2>1. Uncounted(S, "bad")' = Uncounted(S, "bad") \cup {w} /\ Uncounted(S, "ok")' = Uncounted(S, "ok")
    BY <1>2, <1>5 DEF Side, Sides
  <2>2. made'.bad = made.bad + 1 /\ made'.ok = made.ok
    BY <1>1, <1>5 DEF Counted, Counts
  <2>3. /\ Cardinality(Uncounted(S, "bad")') = Cardinality(Uncounted(S, "bad")) + 1
        /\ Cardinality(Uncounted(S, "ok")') = Cardinality(Uncounted(S, "ok"))
        /\ Cardinality(Uncounted(S, "bad")) \in Nat
    BY <1>2, <1>3, <1>5, <2>1 DEF Sides
  <2>4. /\ made'.ok = sum.ok + Cardinality(Uncounted(S, "ok")')
        /\ made'.bad = sum.bad + Cardinality(Uncounted(S, "bad")')
    BY <2>2, <2>3 DEF Tallied, Counts
  <2> QED  BY <2>4 DEF Tallied
<1> QED  BY <1>4, <1>5

\* An attempt is counted: it is in the sum and no longer waits.
LEMMA CountTallies ==
    ASSUME WorkersInv, NEW w \in Workers, NEW S, step[w] \in S, NEW x \in Steps, x \notin S,
           step' = [step EXCEPT ![w] = x], UNCHANGED <<outcome, made>>, made \in Counts,
           NEW sum \in Counts, Tallied(sum, S)
    PROVE  /\ made.ok = Counted(sum, outcome[w]).ok + Cardinality(Uncounted(S, "ok")')
           /\ made.bad = Counted(sum, outcome[w]).bad + Cardinality(Uncounted(S, "bad")')
<1>1. \A g \in Sides : Uncounted(S, g)' = IF g = Side(outcome[w]) THEN Uncounted(S, g) \ {w}
                                            ELSE Uncounted(S, g)
  BY DEF Side, Sides, Uncounted, WorkersInv
<1>2. \A g \in Sides : w \in Uncounted(S, g) <=> g = Side(outcome[w])
  BY DEF Side, Sides, Uncounted
<1>4. CASE outcome[w] = "ok"
  <2>1. Uncounted(S, "ok")' = Uncounted(S, "ok") \ {w} /\ Uncounted(S, "bad")' = Uncounted(S, "bad")
          /\ w \in Uncounted(S, "ok")
    BY <1>1, <1>2, <1>4 DEF Side, Sides
  <2>2. Counted(sum, outcome[w]).ok = sum.ok + 1 /\ Counted(sum, outcome[w]).bad = sum.bad
    BY <1>4 DEF Counted, Counts
  <2>3. /\ Cardinality(Uncounted(S, "ok")') = Cardinality(Uncounted(S, "ok")) - 1
        /\ Cardinality(Uncounted(S, "bad")') = Cardinality(Uncounted(S, "bad"))
        /\ Cardinality(Uncounted(S, "ok")) \in Nat
    <3>1. IsFiniteSet(Uncounted(S, "ok")) /\ Cardinality(Uncounted(S, "ok")) \in Nat
      BY UncountedFinite DEF Sides
    <3>2. Cardinality(Uncounted(S, "ok") \ {w}) = Cardinality(Uncounted(S, "ok")) - 1
      BY <2>1, <3>1, FS_RemoveElement
    <3> QED  BY <2>1, <3>1, <3>2
  <2> QED  BY <2>2, <2>3 DEF Tallied, Counts
<1>5. CASE outcome[w] # "ok"
  <2>1. Uncounted(S, "bad")' = Uncounted(S, "bad") \ {w} /\ Uncounted(S, "ok")' = Uncounted(S, "ok")
          /\ w \in Uncounted(S, "bad")
    BY <1>1, <1>2, <1>5 DEF Side, Sides
  <2>2. Counted(sum, outcome[w]).bad = sum.bad + 1 /\ Counted(sum, outcome[w]).ok = sum.ok
    BY <1>5 DEF Counted, Counts
  <2>3. /\ Cardinality(Uncounted(S, "bad")') = Cardinality(Uncounted(S, "bad")) - 1
        /\ Cardinality(Uncounted(S, "ok")') = Cardinality(Uncounted(S, "ok"))
        /\ Cardinality(Uncounted(S, "bad")) \in Nat
    <3>1. IsFiniteSet(Uncounted(S, "bad")) /\ Cardinality(Uncounted(S, "bad")) \in Nat
      BY UncountedFinite DEF Sides
    <3>2. Cardinality(Uncounted(S, "bad") \ {w}) = Cardinality(Uncounted(S, "bad")) - 1
      BY <2>1, <3>1, FS_RemoveElement
    <3> QED  BY <2>1, <3>1, <3>2
  <2> QED  BY <2>2, <2>3 DEF Tallied, Counts
<1> QED  BY <1>4, <1>5

\* A step of a worker keeps the total behind by just those requests.
LEMMA TotalStep ==
    ASSUME WorkersInv, TotalInv, NEW w \in Workers, WorkerStep(w)
    PROVE  TotalInv'
<1> USE DEF TotalInv, InTotal
<1>0. Total(shard) \in Counts
  <2>1. DOMAIN shard = Shards
    OBVIOUS
  <2> QED  BY <2>1, PartSums, TotalIsPartSum, ShardsFinite
<1>1. CASE Begin(w) \/ Check(w) \/ Build(w) \/ RecordEndpoint(w) \/ Resume(w) \/ End(w)
  <2>1. shard' = shard /\ made' = made
    BY <1>1 DEF Begin, Check, Build, RecordEndpoint, Resume, End, collectorVars
  <2>2. /\ step[w] # "record"
        /\ \E x \in Steps \ {"record"} : step' = [step EXCEPT ![w] = x]
        /\ outcome' = outcome \/ \E x : outcome' = [outcome EXCEPT ![w] = x]
    <3>1. CASE Begin(w)
      <4>1. w \notin running
        BY <3>1 DEF Begin, Runner!Begin
      <4> QED  BY <3>1, <4>1 DEF Begin, WorkersInv, Steps
    <3>2. CASE ~Begin(w)
      BY <1>1, <3>2 DEF Check, Build, RecordEndpoint, AfterAttempt, Resume, End, Steps
    <3> QED  BY <3>1, <3>2
  <2>3. \A g \in Sides : Uncounted({"record"}, g)' = Uncounted({"record"}, g)
    BY <2>2 DEF Side, Sides, Uncounted, WorkersInv
  <2>4. Tallied(Total(shard), {"record"})'
    BY <2>1, <2>3 DEF Sides, Tallied
  <2> QED  BY <2>1, <2>4
<1>2. CASE BuildFails(w) \/ Send(w)
  <2>1. PICK o \in Outcomes : Finished(w, o)
    BY <1>2, RequestsAssumption DEF BuildFails, Send, Outcomes
  <2>2. shard' = shard /\ step[w] # "record"
    BY <1>2 DEF BuildFails, Send, collectorVars
  <2>3. Tallied(Total(shard), {"record"})'
    <3> DEFINE sum == Total(shard)
    <3>1. sum' = sum
      BY <2>2
    <3>2. /\ made'.ok = sum.ok + Cardinality(Uncounted({"record"}, "ok")')
          /\ made'.bad = sum.bad + Cardinality(Uncounted({"record"}, "bad")')
      <4> SUFFICES ASSUME NEW s, s = Total(shard)
                   PROVE  /\ made'.ok = s.ok + Cardinality(Uncounted({"record"}, "ok")')
                          /\ made'.bad = s.bad + Cardinality(Uncounted({"record"}, "bad")')
        OBVIOUS
      <4> QED  BY <1>0, <2>1, <2>2, FinishTallies DEF Tallied
    <3> QED  BY <3>1, <3>2 DEF Tallied
  <2>4. made' \in Counts
    BY <2>1 DEF Finished, Counted, Counts
  <2> QED  BY <2>2, <2>3, <2>4
<1>3. CASE Record(w)
  <2>1. PICK i \in Shards : shard' = [shard EXCEPT ![i] = Counted(@, outcome[w])]
    BY <1>3 DEF Record
  <2>2. shard' \in [Shards -> Counts] /\ Total(shard') = Counted(Total(shard), outcome[w])
    <3>1. shard' \in [Shards -> Counts]
      BY <2>1, CountedType
    <3>2. shard'[i] = Counted(shard[i], outcome[w]) /\ \A j \in Shards \ {i} : shard'[j] = shard[j]
      BY <2>1
    <3> QED  BY <3>1, <3>2, TotalCounts, ShardsFinite
  <2>3. /\ step[w] = "record" /\ UNCHANGED <<outcome, made>>
        /\ \E x \in Steps \ {"record"} : step' = [step EXCEPT ![w] = x]
    BY <1>3 DEF Record, AfterAttempt, Steps
  <2>4. /\ made.ok = Counted(Total(shard), outcome[w]).ok + Cardinality(Uncounted({"record"}, "ok")')
        /\ made.bad = Counted(Total(shard), outcome[w]).bad + Cardinality(Uncounted({"record"}, "bad")')
    BY <1>0, <2>3, CountTallies
  <2> QED  BY <2>2, <2>3, <2>4 DEF Tallied
<1> QED  BY <1>1, <1>2, <1>3 DEF WorkerStep

\* Likewise the counts under the endpoints' names.
LEMMA EndpointsStep ==
    ASSUME WorkersInv, EndpointsInv, made \in Counts, NEW w \in Workers, WorkerStep(w)
    PROVE  EndpointsInv'
<1>0. setup' = setup /\ Templates' = Templates
  BY DEF WorkerStep, Begin, Check, Build, BuildFails, Send, Record, RecordEndpoint, Resume, End, Templates
<1> SUFFICES ASSUME Templates # << >> PROVE EndpointsInv'
  BY <1>0 DEF EndpointsInv
<1> DEFINE Names == {NameOf(t) : t \in DOMAIN setup.templates}
           sum == Total(bucket)
           S == InEndpoints
<1>1. /\ bucket \in [Names -> Counts] /\ Tallied(Total(bucket), S)
      /\ tmpl \in [Workers -> Nat] /\ \A v \in running : tmpl[v] \in DOMAIN setup.templates
      /\ Templates = setup.templates
  BY DEF EndpointsInv, Templates
<1>2. PICK n \in Nat : DOMAIN setup.templates = 1..n
  BY DEF EndpointsInv
<1>3. IsFiniteSet(Names) /\ Total(bucket) \in Counts
  <2>1. IsFiniteSet(Names)
    BY <1>2, NamesFinite
  <2>2. DOMAIN bucket = Names
    BY <1>1
  <2> HIDE DEF Names
  <2> QED  BY <1>1, <2>1, <2>2, PartSums, TotalIsPartSum
<1>4. Names' = Names
  BY <1>0 DEF NameOf
<1>5. tmpl' \in [Workers -> Nat] /\ \A v \in running' : tmpl'[v] \in DOMAIN setup.templates
  <2>1. CASE Begin(w)
    <3>1. PICK t \in DOMAIN Templates : tmpl' = [tmpl EXCEPT ![w] = t]
      BY <2>1 DEF Begin
    <3>2. running' = running \cup {w}
      BY <2>1 DEF Begin, Runner!Begin
    <3> QED  BY <1>1, <1>2, <3>1, <3>2
  <2>2. CASE End(w)
    <3>1. running' = running \ {w} /\ tmpl' = [tmpl EXCEPT ![w] = 0]
      BY <2>2 DEF End, Runner!End
    <3> QED  BY <1>1, <3>1
  <2>3. CASE ~Begin(w) /\ ~End(w)
    <3>1. tmpl' = tmpl /\ running' = running
      BY <2>3 DEF WorkerStep, Check, Build, BuildFails, Send, Record, RecordEndpoint, Resume, runnerVars
    <3> QED  BY <1>1, <3>1
  <2> QED  BY <2>1, <2>2, <2>3
<1>6. bucket' \in [Names -> Counts] /\ Tallied(Total(bucket), S)'
  <2>1. CASE Begin(w) \/ Check(w) \/ Build(w) \/ Resume(w) \/ End(w)
    <3>1. bucket' = bucket /\ made' = made
      BY <2>1 DEF Begin, Check, Build, Resume, End, collectorVars
    <3>2. /\ step[w] \notin S
          /\ \E x \in Steps \ S : step' = [step EXCEPT ![w] = x]
          /\ outcome' = outcome \/ \E x : outcome' = [outcome EXCEPT ![w] = x]
      <4>1. CASE Begin(w)
        <5>1. w \notin running
          BY <4>1 DEF Begin, Runner!Begin
        <5> QED  BY <4>1, <5>1 DEF Begin, WorkersInv, Steps, InEndpoints
      <4>2. CASE ~Begin(w)
        BY <2>1, <4>2 DEF Check, Build, Resume, End, Steps, InEndpoints
      <4> QED  BY <4>1, <4>2
    <3>3. \A g \in Sides : Uncounted(S, g)' = Uncounted(S, g)
      BY <3>2 DEF Side, Sides, Uncounted, WorkersInv, InEndpoints
    <3> QED  BY <1>1, <3>1, <3>3 DEF Sides, Tallied, InEndpoints
  <2>2. CASE BuildFails(w) \/ Send(w)
    <3>1. PICK o \in Outcomes : Finished(w, o)
      BY <2>2, RequestsAssumption DEF BuildFails, Send, Outcomes
    <3>2. bucket' = bucket /\ step[w] \notin S /\ "record" \in S
      BY <2>2 DEF BuildFails, Send, collectorVars, InEndpoints
    <3>3. /\ made'.ok = sum.ok + Cardinality(Uncounted(S, "ok")')
          /\ made'.bad = sum.bad + Cardinality(Uncounted(S, "bad")')
      <4> SUFFICES ASSUME NEW s, s = Total(bucket)
                   PROVE  /\ made'.ok = s.ok + Cardinality(Uncounted(S, "ok")')
                          /\ made'.bad = s.bad + Cardinality(Uncounted(S, "bad")')
        OBVIOUS
      <4> QED  BY <1>1, <1>3, <3>1, <3>2, FinishTallies DEF Tallied, InEndpoints
    <3> QED  BY <1>1, <3>2, <3>3 DEF Tallied, InEndpoints
  <2>3. CASE Record(w)
    <3>1. bucket' = bucket /\ made' = made /\ outcome' = outcome /\ step[w] = "record"
      BY <2>3 DEF Record
    <3>2. tmpl[w] # 0
      <4>1. w \in running
        BY <3>1 DEF WorkersInv
      <4> QED  BY <1>1, <1>2, <4>1
    <3>3. step' = [step EXCEPT ![w] = "bucket"]
      BY <2>3, <3>2 DEF Record
    <3>4. \A g \in Sides : Uncounted(S, g)' = Uncounted(S, g)
      BY <3>1, <3>3 DEF Side, Sides, Uncounted, WorkersInv, InEndpoints
    <3> QED  BY <1>1, <3>1, <3>4 DEF Sides, Tallied, InEndpoints
  <2>4. CASE RecordEndpoint(w)
    <3> DEFINE name == NameOf(tmpl[w])
    <3>1. /\ bucket' = [bucket EXCEPT ![name] = Counted(@, outcome[w])]
          /\ step[w] = "bucket" /\ UNCHANGED <<outcome, made>>
          /\ step' = [step EXCEPT ![w] = AfterAttempt(w)]
          /\ AfterAttempt(w) \in Steps /\ AfterAttempt(w) \notin S
      BY <2>4 DEF RecordEndpoint, AfterAttempt, Steps, InEndpoints
    <3>2. name \in Names
      <4>1. w \in running
        BY <3>1 DEF WorkersInv
      <4> QED  BY <1>1, <4>1
    <3>3. bucket' \in [Names -> Counts] /\ Total(bucket') = Counted(Total(bucket), outcome[w])
      <4> HIDE DEF name, Names
      <4>1. bucket' \in [Names -> Counts]
        BY <1>1, <3>1, <3>2, CountedType
      <4>2. /\ bucket'[name] = Counted(bucket[name], outcome[w])
            /\ \A j \in Names \ {name} : bucket'[j] = bucket[j]
        BY <1>1, <3>1, <3>2
      <4> QED  BY <1>1, <1>3, <3>2, <4>1, <4>2, TotalCounts
    <3>4. /\ made.ok = Counted(Total(bucket), outcome[w]).ok + Cardinality(Uncounted(S, "ok")')
          /\ made.bad = Counted(Total(bucket), outcome[w]).bad + Cardinality(Uncounted(S, "bad")')
      <4>1. step[w] \in S
        BY <3>1 DEF InEndpoints
      <4> HIDE DEF S
      <4> QED  BY <1>1, <1>3, <3>1, <4>1, CountTallies
    <3> QED  BY <3>1, <3>3, <3>4 DEF Tallied, InEndpoints
  <2> QED  BY <2>1, <2>2, <2>3, <2>4 DEF WorkerStep
<1> QED  BY <1>0, <1>1, <1>2, <1>4, <1>5, <1>6 DEF EndpointsInv

---------------------------------------------------------------------------
(***************************************************************************)
(* Configurations: what Load makes of a document and of flags.             *)
(***************************************************************************)
IsList(s) == \E S : s \in Seq(S)
\* What holds of the libraries' functions, for every text: Bad, the error, is
\* no value of theirs; TrimSpace trims once and for all and leaves "" alone;
\* a HAR file that was read is a list of entries with a URL; the canonical
\* form of a header's name is neither blank nor broken over lines when the
\* name is not; numbers and durations parse to integers.
Library ==
    /\ Bad \notin Int /\ Bad \notin {"none", "oauth2", "static"}
    /\ \A f : f = [x \in DOMAIN f |-> f[x]] => f # Bad
    /\ Trim("") = ""
    /\ \A s : Trim(Trim(s)) = Trim(s)
    /\ \A s : s # Bad => Trim(s) # Bad
    /\ \A s : ReadHAR(s) # Bad =>
          IsList(ReadHAR(s)) /\ \A i \in DOMAIN ReadHAR(s) : ReadHAR(s)[i].url # Bad
    /\ \A s \in {"csv", "json"} : Lower(Trim(s)) = s
    /\ \A s : ~Blank(s) => ~Blank(Canonical(Trim(s)))
    /\ \A s : ~HasNewline(Trim(s)) => ~HasNewline(Trim(Canonical(Trim(s))))
    /\ \A s : Atoi(s) \in Int \cup {Bad} /\ ParseDuration(s) \in Int \cup {Bad}

\* R holds what a document may contain (viper's values): numbers, and lists
\* and maps of values.
RawValues(R) ==
    /\ Nil \in R
    /\ \A r \in R :
          /\ r.t \in {"int", "float"} => r.v \in Int
          /\ r.t = "list" => r.v \in Seq(R)
          /\ r.t = "map" => \A k \in DOMAIN r.v : r.v[k] \in R

\* Documents are made of such values, and the flags that the command line
\* types have their types.
TypedInputs ==
    \E R : RawValues(R) /\
           \A x \in Inputs :
              /\ x.doc # Bad => \A f \in DOMAIN x.doc : x.doc[f] \in R
              /\ x.flags # Bad /\ "total" \in DOMAIN x.flags => x.flags.total \in Int
              /\ x.flags # Bad /\ "target" \in DOMAIN x.flags => x.flags.target # Bad

\* A function on 1..n is a sequence, and conversely.
LEMMA ListOf ==
    ASSUME NEW s, NEW n \in Nat, s = [i \in 1..n |-> s[i]]
    PROVE  IsList(s) /\ Len(s) = n /\ DOMAIN s = 1..n
<1> DEFINE S == {s[i] : i \in 1..n}
<1>1. s \in [1..n -> S] /\ DOMAIN s = 1..n
  OBVIOUS
<1> HIDE DEF S
<1>2. s \in Seq(S)
  BY <1>1
<1>3. Len(s) = n
  BY <1>1, <1>2
<1> QED  BY <1>1, <1>2, <1>3 DEF IsList

LEMMA Listed ==
    ASSUME NEW s, IsList(s)
    PROVE  Len(s) \in Nat /\ DOMAIN s = 1..Len(s) /\ s = [i \in 1..Len(s) |-> s[i]]
BY DEF IsList

---------------------------------------------------------------------------
\* Numbers and durations are read as integers or refused (asInt, asDuration).
LEMMA IntRead ==
    ASSUME Library, NEW R, RawValues(R), NEW r \in R
    PROVE  AsInt(r) \in Int \cup {Bad} /\ AsDuration(r) \in Int \cup {Bad}
<1>1. CASE r.t = "nil"
  BY <1>1 DEF AsInt, AsDuration
<1>2. CASE r.t = "int"
  <2>1. r.v \in Int
    BY <1>2 DEF RawValues
  <2> QED  BY <1>2, <2>1 DEF AsInt, AsDuration
<1>3. CASE r.t = "float"
  <2>1. r.v \in Int
    BY <1>3 DEF RawValues
  <2>2. Whole(r.v) \in Int
    BY <2>1 DEF Whole
  <2>3. AsInt(r) = Whole(r.v)
    BY <1>3 DEF AsInt
  <2> QED  BY <1>3, <2>2, <2>3 DEF AsDuration
<1>4. CASE r.t = "str"
  <2>1. Atoi(Trim(r.v)) \in Int \cup {Bad} /\ ParseDuration(Trim(r.v)) \in Int \cup {Bad}
    BY DEF Library
  <2> QED  BY <1>4, <2>1 DEF AsInt, AsDuration
<1>5. CASE r.t \notin {"nil", "int", "float", "str"}
  BY <1>5 DEF AsInt, AsDuration
<1> QED  BY <1>1, <1>2, <1>3, <1>4, <1>5

\* The fields that a section does not give are numbers too.
LEMMA ZeroNumbers ==
    ASSUME NEW kinds
    PROVE  \A f \in DOMAIN kinds : kinds[f] \in {"int", "duration"} => Zeros(kinds)[f] \in Int
<1>1. Zero("int") = 0 /\ Zero("duration") = 0
  BY DEF Zero
<1> QED  BY <1>1 DEF Zeros

\* Fields of which none is refused are the fields themselves.
LEMMA AllGood ==
    ASSUME NEW c, AllOrBad(c) # Bad
    PROVE  AllOrBad(c) = c /\ \A f \in DOMAIN c : c[f] # Bad
BY DEF AllOrBad

\* A section that was read has a number where one belongs.
LEMMA FieldsRead ==
    ASSUME Library, NEW R, RawValues(R), NEW zero, NEW kinds, NEW m,
           \A f \in DOMAIN m : m[f] \in R,
           \A f \in DOMAIN kinds : kinds[f] \in {"int", "duration"} => zero[f] \in Int,
           Fields(zero, kinds, m) # Bad
    PROVE  LET c == Fields(zero, kinds, m)
           IN /\ c = [f \in DOMAIN kinds |-> c[f]]
              /\ \A f \in DOMAIN kinds :
                    c[f] # Bad /\ (kinds[f] \in {"int", "duration"} => c[f] \in Int)
<1> DEFINE d == [f \in DOMAIN kinds |-> IF f \in DOMAIN m THEN Convert(kinds[f], m[f]) ELSE zero[f]]
<1>1. Fields(zero, kinds, m) = d /\ \A f \in DOMAIN kinds : d[f] # Bad
  BY AllGood DEF Fields
<1>2. ASSUME NEW f \in DOMAIN kinds, kinds[f] \in {"int", "duration"} PROVE d[f] \in Int
  <2>1. CASE f \in DOMAIN m
    <3>1. d[f] = Convert(kinds[f], m[f]) /\ m[f] \in R
      BY <2>1
    <3>2. kinds[f] = "int" => Convert(kinds[f], m[f]) = AsInt(m[f])
      BY DEF Convert
    <3>3. kinds[f] = "duration" => Convert(kinds[f], m[f]) = AsDuration(m[f])
      BY DEF Convert
    <3> QED  BY <1>1, <1>2, <3>1, <3>2, <3>3, IntRead
  <2>2. CASE f \notin DOMAIN m
    BY <1>2, <2>2
  <2> QED  BY <2>1, <2>2
<1> HIDE DEF d
<1>3. d = [f \in DOMAIN kinds |-> d[f]]
  BY DEF d
<1> QED  BY <1>1, <1>2, <1>3

---------------------------------------------------------------------------
\* Patterns and steps of the numbers that their schedules are made of.
IsStep(s) == s.rps \in Int /\ s.duration \in Int
IsPattern(p) ==
    /\ {p.from_rps, p.to_rps, p.rps, p.duration} \subseteq Int
    /\ IsList(p.steps) /\ \A i \in DOMAIN p.steps : IsStep(p.steps[i])

\* The entries of a list are maps of the document's values.
LEMMA EntriesRead ==
    ASSUME NEW R, RawValues(R), NEW r \in R, IsEntries(r)
    PROVE  /\ r.t = "list" /\ Len(r.v) \in Nat /\ DOMAIN r.v = 1..Len(r.v)
           /\ \A i \in DOMAIN r.v : \A f \in DOMAIN r.v[i].v : r.v[i].v[f] \in R
<1>1. r.t = "list" /\ r.v \in Seq(R)
  BY DEF RawValues, IsEntries
<1>2. Len(r.v) \in Nat /\ DOMAIN r.v = 1..Len(r.v) /\ \A i \in DOMAIN r.v : r.v[i] \in R
  BY <1>1
<1>3. \A i \in DOMAIN r.v : r.v[i].t = "map"
  BY DEF IsEntries
<1> QED  BY <1>1, <1>2, <1>3 DEF RawValues

\* What the steps of a load pattern are read as.
LEMMA StepsRead ==
    ASSUME Library, NEW R, RawValues(R), NEW r \in R, ParseLoadSteps(r) # Bad
    PROVE  LET s == ParseLoadSteps(r)
           IN IsList(s) /\ \A i \in DOMAIN s : IsStep(s[i])
<1>1. CASE r.t = "nil"
  <2>1. ParseLoadSteps(r) = << >>
    BY <1>1 DEF ParseLoadSteps, IsEntries
  <2>2. << >> \in Seq({})
    OBVIOUS
  <2> QED  BY <2>1, <2>2 DEF IsList
<1>2. CASE r.t # "nil"
  <2>1. IsEntries(r)
    BY <1>2 DEF ParseLoadSteps
  <2> DEFINE s == [i \in DOMAIN r.v |-> BuildLoadStep(r.v[i].v)]
  <2>2. ParseLoadSteps(r) = s /\ \A i \in DOMAIN s : s[i] # Bad
    <3>1. ParseLoadSteps(r) = AllOrBad(s)
      BY <1>2, <2>1 DEF ParseLoadSteps
    <3> HIDE DEF s
    <3> QED  BY <3>1, AllGood
  <2>3. /\ Len(r.v) \in Nat /\ DOMAIN r.v = 1..Len(r.v)
        /\ \A i \in DOMAIN r.v : \A f \in DOMAIN r.v[i].v : r.v[i].v[f] \in R
    BY <2>1, EntriesRead
  <2>4. ASSUME NEW i \in DOMAIN r.v PROVE IsStep(s[i])
    <3> DEFINE kinds == [rps |-> "int", duration |-> "duration"]
    <3>1. s[i] = Fields(Zeros(kinds), kinds, r.v[i].v) /\ s[i] # Bad
      BY <2>2 DEF BuildLoadStep
    <3>2. \A f \in DOMAIN kinds : kinds[f] \in {"int", "duration"} => Zeros(kinds)[f] \in Int
      BY ZeroNumbers
    <3>3. "rps" \in DOMAIN kinds /\ "duration" \in DOMAIN kinds
             /\ kinds["rps"] = "int" /\ kinds["duration"] = "duration"
      OBVIOUS
    <3> HIDE DEF kinds, s
    <3>4. s[i]["rps"] \in Int /\ s[i]["duration"] \in Int
      BY <2>3, <3>1, <3>2, <3>3, FieldsRead
    <3> QED  BY <3>4 DEF IsStep
  <2>5. IsList(s) /\ DOMAIN s = DOMAIN r.v
    BY <2>3, ListOf
  <2> HIDE DEF s
  <2> QED  BY <2>2, <2>4, <2>5
<1> QED  BY <1>1, <1>2

\* What load_patterns is read as.
LEMMA PatternsRead ==
    ASSUME Library, NEW R, RawValues(R), NEW r \in R, ParseLoadPatterns(r) # Bad
    PROVE  LET s == ParseLoadPatterns(r)
           IN IsList(s) /\ \A i \in DOMAIN s : IsPattern(s[i])
<1>1. CASE r.t = "nil"
  <2>1. ParseLoadPatterns(r) = << >>
    BY <1>1 DEF ParseLoadPatterns, IsEntries
  <2>2. << >> \in Seq({})
    OBVIOUS
  <2> QED  BY <2>1, <2>2 DEF IsList
<1>2. CASE r.t # "nil"
  <2>1. IsEntries(r)
    BY <1>2 DEF ParseLoadPatterns
  <2> DEFINE s == [i \in DOMAIN r.v |-> BuildLoadPattern(r.v[i].v)]
  <2>2. ParseLoadPatterns(r) = s /\ \A i \in DOMAIN s : s[i] # Bad
    <3>1. ParseLoadPatterns(r) = AllOrBad(s)
      BY <1>2, <2>1 DEF ParseLoadPatterns
    <3> HIDE DEF s
    <3> QED  BY <3>1, AllGood
  <2>3. /\ Len(r.v) \in Nat /\ DOMAIN r.v = 1..Len(r.v)
        /\ \A i \in DOMAIN r.v : \A f \in DOMAIN r.v[i].v : r.v[i].v[f] \in R
    BY <2>1, EntriesRead
  <2>4. ASSUME NEW i \in DOMAIN r.v PROVE IsPattern(s[i])
    <3> DEFINE kinds == [name |-> "trimmed", type |-> "lower", from_rps |-> "int",
                         to_rps |-> "int", duration |-> "duration", rps |-> "int"]
               p == Fields(Zeros(kinds), kinds, r.v[i].v)
               steps == ParseLoadSteps(Setting(r.v[i].v, "steps"))
    <3>1. /\ s[i] = [name |-> p.name, type |-> p.type, from_rps |-> p.from_rps,
                     to_rps |-> p.to_rps, duration |-> p.duration, rps |-> p.rps,
                     steps |-> steps]
          /\ p # Bad /\ steps # Bad
      BY <2>2 DEF BuildLoadPattern
    <3>2. \A f \in DOMAIN kinds : kinds[f] \in {"int", "duration"} => Zeros(kinds)[f] \in Int
      BY ZeroNumbers
    <3>3. \A f \in {"from_rps", "to_rps", "rps", "duration"} :
             f \in DOMAIN kinds /\ kinds[f] \in {"int", "duration"}
      OBVIOUS
    <3>4. Setting(r.v[i].v, "steps") \in R
      BY <2>3 DEF Setting, RawValues
    <3>5. IsList(steps) /\ \A j \in DOMAIN steps : IsStep(steps[j])
      <4> HIDE DEF p
      <4> QED  BY <3>1, <3>4, StepsRead
    <3> HIDE DEF kinds, steps, s
    <3>6. \A f \in {"from_rps", "to_rps", "rps", "duration"} : p[f] \in Int
      BY <2>3, <3>1, <3>2, <3>3, FieldsRead
    <3> HIDE DEF p
    <3> QED  BY <3>1, <3>5, <3>6 DEF IsPattern
  <2>5. IsList(s) /\ DOMAIN s = DOMAIN r.v
    BY <2>3, ListOf
  <2> HIDE DEF s
  <2> QED  BY <2>2, <2>4, <2>5
<1> QED  BY <1>1, <1>2

\* What endpoints is read as.
LEMMA EndpointsRead ==
    ASSUME Library, NEW R, RawValues(R), NEW r \in R, ParseEndpoints(r) # Bad
    PROVE  LET s == ParseEndpoints(r)
           IN IsList(s) /\ \A i \in DOMAIN s : s[i].url # Bad
<1>1. CASE r.t = "nil"
  <2>1. ParseEndpoints(r) = << >>
    BY <1>1 DEF ParseEndpoints, IsEntries
  <2>2. << >> \in Seq({})
    OBVIOUS
  <2> QED  BY <2>1, <2>2 DEF IsList
<1>2. CASE r.t # "nil"
  <2>1. IsEntries(r)
    BY <1>2 DEF ParseEndpoints
  <2> DEFINE s == [i \in DOMAIN r.v |-> BuildEndpoint(r.v[i].v)]
  <2>2. ParseEndpoints(r) = s /\ \A i \in DOMAIN s : s[i] # Bad
    <3>1. ParseEndpoints(r) = AllOrBad(s)
      BY <1>2, <2>1 DEF ParseEndpoints
    <3> HIDE DEF s
    <3> QED  BY <3>1, AllGood
  <2>3. Len(r.v) \in Nat /\ DOMAIN r.v = 1..Len(r.v)
    BY <2>1, EntriesRead
  <2>4. ASSUME NEW i \in DOMAIN r.v PROVE s[i].url # Bad
    <3> DEFINE kinds == [name |-> "trimmed", weight |-> "int", method |-> "upper",
                         url |-> "trimmed", path |-> "trimmed", body |-> "text",
                         body_file |-> "text"]
               zero == [Zeros(kinds) EXCEPT !.weight = 1]
               ep == Fields(zero, kinds, r.v[i].v)
    <3>1. /\ s[i].url = ep.url /\ ep # Bad
      BY <2>2 DEF BuildEndpoint
    <3>2. ep["url"] # Bad
      <4> DEFINE f == [x \in DOMAIN kinds |->
                    IF x \in DOMAIN r.v[i].v THEN Convert(kinds[x], r.v[i].v[x]) ELSE zero[x]]
      <4>1. ep = AllOrBad(f) /\ "url" \in DOMAIN f
        BY DEF Fields
      <4> HIDE DEF f, ep
      <4> QED  BY <3>1, <4>1, AllGood
    <3> QED  BY <3>1, <3>2
  <2>5. IsList(s) /\ DOMAIN s = DOMAIN r.v
    BY <2>3, ListOf
  <2> HIDE DEF s
  <2> QED  BY <2>2, <2>4, <2>5
<1> QED  BY <1>1, <1>2

---------------------------------------------------------------------------
\* What is known of a configuration that was loaded.
SectionNames == {"load_patterns", "arrival", "endpoints", "auth", "feeder", "websocket", "sse",
                 "grpc", "tracing"}
\* The fields of a configuration, and what its sections hold.
Settings == DOMAIN PlainSettings \cup SectionNames

IsEndpoints(s) == IsList(s) /\ \A i \in DOMAIN s : s[i].url # Bad
IsPatterns(s) == IsList(s) /\ \A i \in DOMAIN s : IsPattern(s[i])

IsSettings(c) ==
    /\ c = [f \in Settings |-> c[f]]
    /\ c.total \in Int /\ c.target # Bad
    /\ IsEndpoints(c.endpoints)
    /\ IsPatterns(c.load_patterns)

\* A setting is one of the document's values, or nil.
LEMMA SettingRead ==
    ASSUME NEW R, RawValues(R), NEW m, \A f \in DOMAIN m : m[f] \in R, NEW f
    PROVE  Setting(m, f) \in R
BY DEF Setting, RawValues

\* What a document is read as (applyConfigSettings).
LEMMA ApplyRead ==
    ASSUME Library, NEW R, RawValues(R), NEW m, \A f \in DOMAIN m : m[f] \in R,
           ApplyConfigSettings(m) # Bad
    PROVE  IsSettings(ApplyConfigSettings(m))
<1> DEFINE plain == Fields(Defaults, PlainSettings, m)
           parts == Parts(m)
           rest == [plain EXCEPT
                      !.method  = IF @ = "" THEN Defaults.method ELSE @,
                      !.headers = [k \in {Canonical(h) : h \in DOMAIN @} |->
                                     @[CHOOSE h \in DOMAIN @ : Canonical(h) = k]]]
<1>1. ApplyConfigSettings(m) = Over(parts, rest) /\ plain # Bad /\ parts # Bad
  BY DEF ApplyConfigSettings
<1>2. /\ DOMAIN rest = DOMAIN PlainSettings
      /\ rest["total"] \in Int /\ rest["target"] # Bad
  <2>1. \A f \in DOMAIN PlainSettings : PlainSettings[f] \in {"int", "duration"} => Defaults[f] \in Int
    <3>1. \A f \in DOMAIN PlainSettings :
             PlainSettings[f] \in {"int", "duration"} => Zeros(PlainSettings)[f] \in Int
      BY ZeroNumbers
    <3> DEFINE z == Zeros(PlainSettings)
    <3>2. PlainSettings["method"] = "text"
      BY DEF PlainSettings
    <3>3. DOMAIN z = DOMAIN PlainSettings
      BY DEF Zeros
    <3> HIDE DEF z
    <3>4. \A f \in DOMAIN PlainSettings :
             Defaults[f] = IF f = "method" THEN "GET" ELSE IF f = "concurrency" THEN 1
                           ELSE IF f = "timeout" THEN 300 ELSE IF f = "graceful_shutdown" THEN 50
                           ELSE z[f]
      <4>1. Defaults = [z EXCEPT !.method = "GET", !.concurrency = 1, !.timeout = 300,
                                 !.graceful_shutdown = 50]
        BY DEF Defaults, z
      <4> QED  BY <3>3, <4>1
    <3>5. \A f \in DOMAIN PlainSettings : PlainSettings[f] \in {"int", "duration"} => z[f] \in Int
      BY <3>1 DEF z
    <3> QED  BY <3>2, <3>4, <3>5
  <2>2. /\ "total" \in DOMAIN PlainSettings /\ PlainSettings["total"] = "int"
        /\ "target" \in DOMAIN PlainSettings
    BY DEF PlainSettings
  <2>3. DOMAIN plain = DOMAIN PlainSettings /\ plain["total"] \in Int /\ plain["target"] # Bad
    BY <1>1, <2>1, <2>2, FieldsRead
  <2> HIDE DEF plain
  <2> QED  BY <2>2, <2>3
<1>3. /\ DOMAIN parts = SectionNames
      /\ parts.load_patterns = ParseLoadPatterns(Setting(m, "load_patterns"))
      /\ parts.endpoints = ParseEndpoints(Setting(m, "endpoints"))
      /\ parts.load_patterns # Bad /\ parts.endpoints # Bad
  <2> DEFINE all == [load_patterns |-> ParseLoadPatterns(Setting(m, "load_patterns")),
              arrival       |-> Arrival(m),
              endpoints     |-> ParseEndpoints(Setting(m, "endpoints")),
              auth          |-> BuildAuthConfig(Setting(m, "auth")),
              feeder        |-> BuildFeederConfig(Setting(m, "feeder")),
              websocket     |-> BuildWebSocketConfig(Setting(m, "websocket")),
              sse           |-> BuildSSEConfig(Setting(m, "sse")),
              grpc          |-> BuildGRPCConfig(Setting(m, "grpc")),
              tracing       |-> BuildTracingConfig(Setting(m, "tracing"))]
  <2>1. DOMAIN all = SectionNames
    BY DEF SectionNames
  <2>2. /\ all.load_patterns = ParseLoadPatterns(Setting(m, "load_patterns"))
        /\ all.endpoints = ParseEndpoints(Setting(m, "endpoints"))
    OBVIOUS
  <2>3. parts = AllOrBad(all)
    BY DEF Parts
  <2> HIDE DEF all, parts
  <2>4. parts = all /\ \A f \in DOMAIN all : all[f] # Bad
    BY <1>1, <2>3, AllGood
  <2>5. "load_patterns" \in SectionNames /\ "endpoints" \in SectionNames
    BY DEF SectionNames
  <2> QED  BY <2>1, <2>2, <2>4, <2>5
<1> HIDE DEF parts, rest, plain
<1>4. IsPatterns(parts.load_patterns) /\ IsEndpoints(parts.endpoints)
  BY <1>3, PatternsRead, EndpointsRead, SettingRead DEF IsPatterns, IsEndpoints
<1> DEFINE c == Over(parts, rest)
<1>5. /\ c = [f \in Settings |-> c[f]]
      /\ \A f \in SectionNames : c[f] = parts[f]
      /\ \A f \in DOMAIN PlainSettings \ SectionNames : c[f] = rest[f]
  BY <1>2, <1>3 DEF Over, Settings
<1>6. /\ "load_patterns" \in SectionNames /\ "endpoints" \in SectionNames
      /\ {"total", "target"} \subseteq DOMAIN PlainSettings \ SectionNames
  BY DEF SectionNames, PlainSettings
<1> HIDE DEF c
<1>7. IsSettings(c)
  BY <1>2, <1>4, <1>5, <1>6 DEF IsSettings
<1> QED  BY <1>1, <1>7 DEF c

\* Flags replace the fields that they name and no other.
LEMMA OverriddenRead ==
    ASSUME NEW c, NEW kinds, NEW flags
    PROVE  LET d == Overridden(c, kinds, flags)
           IN /\ d = [f \in DOMAIN c |-> d[f]]
              /\ \A f \in DOMAIN c :
                    f \notin DOMAIN kinds \cap DOMAIN flags => d[f] = c[f]
              /\ \A f \in DOMAIN c :
                    f \in DOMAIN kinds \cap DOMAIN flags => d[f] = Normal(kinds[f], flags[f])
BY DEF Overridden

\* What flags leave of a configuration (applyFlagOverrides).
LEMMA FlagsRead ==
    ASSUME Library, NEW c, IsSettings(c), NEW flags,
           "total" \in DOMAIN flags => flags.total \in Int,
           "target" \in DOMAIN flags => flags.target # Bad,
           ApplyFlagOverrides(c, flags) # Bad
    PROVE  IsSettings(ApplyFlagOverrides(c, flags))
<1> DEFINE plain == Overridden(c, PlainFlags, flags)
           all   == [f \in DOMAIN c |->
                       IF f \in DOMAIN SectionFlags \cap DOMAIN flags
                       THEN Overridden(c[f], SectionFlags[f], flags[f]) ELSE plain[f]]
           hdrs  == IF "headers" \in DOMAIN flags THEN WithHeaders(c.headers, flags.headers)
                    ELSE c.headers
<1>1. ApplyFlagOverrides(c, flags) = [BodyFlags(all, flags) EXCEPT !.headers = hdrs]
  <2>1. hdrs # Bad
    BY DEF ApplyFlagOverrides
  <2> QED  BY <2>1 DEF ApplyFlagOverrides
<1>2. /\ DOMAIN c = Settings
      /\ c["total"] \in Int /\ c["target"] # Bad /\ IsEndpoints(c["endpoints"]) /\ IsPatterns(c["load_patterns"])
  BY DEF IsSettings
<1>3. /\ {"total", "target", "endpoints", "load_patterns"} \subseteq Settings
      /\ {"total", "target", "endpoints", "load_patterns"} \cap DOMAIN SectionFlags = {}
      /\ {"endpoints", "load_patterns"} \cap DOMAIN PlainFlags = {}
      /\ PlainFlags["total"] = "int" /\ PlainFlags["target"] = "trimmed"
  BY DEF Settings, SectionNames, PlainSettings, SectionFlags, PlainFlags
<1>4. /\ plain["endpoints"] = c["endpoints"] /\ plain["load_patterns"] = c["load_patterns"]
      /\ plain["total"] \in Int /\ plain["target"] # Bad
  <2>1. plain["endpoints"] = c["endpoints"] /\ plain["load_patterns"] = c["load_patterns"]
    BY <1>2, <1>3, OverriddenRead
  <2>2. plain["total"] \in Int
    <3>1. CASE "total" \in DOMAIN PlainFlags \cap DOMAIN flags
      <4>1. plain["total"] = Normal("int", flags["total"])
        BY <1>2, <1>3, <3>1, OverriddenRead
      <4>2. Normal("int", flags["total"]) = flags["total"]
        BY DEF Normal
      <4> QED  BY <3>1, <4>1, <4>2
    <3>2. CASE "total" \notin DOMAIN PlainFlags \cap DOMAIN flags
      <4>1. plain["total"] = c["total"]
        BY <1>2, <1>3, <3>2, OverriddenRead
      <4> QED  BY <1>2, <4>1
    <3> QED  BY <3>1, <3>2
  <2>3. plain["target"] # Bad
    <3>1. CASE "target" \in DOMAIN PlainFlags \cap DOMAIN flags
      <4>1. plain["target"] = Normal("trimmed", flags["target"])
        BY <1>2, <1>3, <3>1, OverriddenRead
      <4>2. Normal("trimmed", flags["target"]) = Trim(flags["target"])
        BY DEF Normal
      <4>3. Trim(flags["target"]) # Bad
        BY <3>1 DEF Library
      <4> QED  BY <4>1, <4>2, <4>3
    <3>2. CASE "target" \notin DOMAIN PlainFlags \cap DOMAIN flags
      <4>1. plain["target"] = c["target"]
        BY <1>2, <1>3, <3>2, OverriddenRead
      <4> QED  BY <1>2, <4>1
    <3> QED  BY <3>1, <3>2
  <2> QED  BY <2>1, <2>2, <2>3
<1> HIDE DEF plain, hdrs
<1>5. /\ all = [f \in Settings |-> all[f]]
      /\ \A f \in {"total", "target", "endpoints", "load_patterns"} : all[f] = plain[f]
  BY <1>2, <1>3
<1> HIDE DEF all
<1> DEFINE b == BodyFlags(all, flags)
           e == [b EXCEPT !.headers = hdrs]
<1>6. /\ b = [f \in Settings |-> b[f]]
      /\ \A f \in {"total", "target", "endpoints", "load_patterns"} : b[f] = all[f]
  <2>1. \/ b = [all EXCEPT !.body = "", !.body_file = flags.body_file]
        \/ b = [all EXCEPT !.body = flags.body, !.body_file = ""]
        \/ b = all
    BY DEF BodyFlags
  <2> HIDE DEF b
  <2> QED  BY <1>3, <1>5, <2>1
<1> HIDE DEF b
<1>7. /\ e = [f \in Settings |-> e[f]]
      /\ \A f \in {"total", "target", "endpoints", "load_patterns"} : e[f] = b[f]
  BY <1>3, <1>6
<1> HIDE DEF e
<1>8. IsSettings(e)
  <2>1. e.total = plain["total"] /\ e.target = plain["target"] /\ e.endpoints = plain["endpoints"]
          /\ e.load_patterns = plain["load_patterns"]
    BY <1>5, <1>6, <1>7
  <2> QED  BY <1>2, <1>4, <1>7, <2>1 DEF IsSettings
<1> QED  BY <1>1, <1>8 DEF e, b

\* A loaded configuration: trimmed, and its HAR file was read.
IsConfig(c) ==
    /\ IsSettings(c)
    /\ Trim(c.target) = c.target
    /\ c.har_file # "" => ReadHAR(c.har_file) # Bad

\* The last lines of Load trim the target and read the HAR file.
LEMMA FinishRead ==
    ASSUME Library, NEW c, c # Bad => IsSettings(c), FinishLoad(c) # Bad
    PROVE  IsConfig(FinishLoad(c))
<1> DEFINE d == [c EXCEPT !.method = Upper(@), !.target = Trim(@), !.body_file = Trim(@)]
<1>1. /\ FinishLoad(c) = d /\ c # Bad
      /\ c.har_file # "" => ReadHAR(c.har_file) # Bad
  BY DEF FinishLoad
<1>2. /\ {"total", "endpoints", "load_patterns", "target", "method", "body_file", "har_file"} \subseteq Settings
  BY DEF Settings, SectionNames, PlainSettings
<1>3. c = [f \in Settings |-> c[f]]
  BY <1>1 DEF IsSettings
<1>4. /\ d = [f \in Settings |-> d[f]]
      /\ d["target"] = Trim(c["target"])
      /\ \A f \in {"total", "endpoints", "load_patterns", "har_file"} : d[f] = c[f]
  BY <1>2, <1>3
<1> HIDE DEF d
<1>5. IsSettings(d)
  <2>1. d.total = c.total /\ d.endpoints = c.endpoints /\ d.load_patterns = c.load_patterns
    BY <1>4
  <2>2. c.target # Bad
    BY <1>1 DEF IsSettings
  <2>3. d.target # Bad
    BY <1>4, <2>2 DEF Library
  <2> QED  BY <1>1, <1>4, <2>1, <2>3 DEF IsSettings
<1>6. Trim(d.target) = d.target
  BY <1>4 DEF Library
<1>7. d.har_file = c.har_file
  BY <1>4
<1> QED  BY <1>1, <1>5, <1>6, <1>7 DEF IsConfig

\* Load makes a configuration of every typed input that it does not refuse.
LEMMA LoadRead ==
    ASSUME Library, TypedInputs, NEW x \in Inputs, Load(x.doc, x.flags) # Bad
    PROVE  IsConfig(Load(x.doc, x.flags))
<1>1. PICK R : /\ RawValues(R)
               /\ x.doc # Bad => \A f \in DOMAIN x.doc : x.doc[f] \in R
               /\ x.flags # Bad /\ "total" \in DOMAIN x.flags => x.flags.total \in Int
               /\ x.flags # Bad /\ "target" \in DOMAIN x.flags => x.flags.target # Bad
  BY DEF TypedInputs
<1> DEFINE c == ApplyConfigSettings(x.doc)
<1>2. /\ Load(x.doc, x.flags) = FinishLoad(ApplyFlagOverrides(c, x.flags))
      /\ x.doc # Bad /\ x.flags # Bad /\ c # Bad
  BY DEF Load
<1>3. IsSettings(c)
  BY <1>1, <1>2, ApplyRead
<1> HIDE DEF c
<1>4. ApplyFlagOverrides(c, x.flags) # Bad => IsSettings(ApplyFlagOverrides(c, x.flags))
  BY <1>1, <1>2, <1>3, FlagsRead
<1> QED  BY <1>2, <1>4, FinishRead

---------------------------------------------------------------------------
(***************************************************************************)
(* FlattenSeq: the concatenations of the first sequences are one recursive *)
(* function.                                                               *)
(***************************************************************************)
FlatsOf(f, q) == f = [i \in 1..Len(q) |-> IF i = 1 THEN q[i] ELSE f[i - 1] \o q[i]]

\* The concatenations of the first sequences of q, one after the other.
LEMMA FlatsExist ==
    ASSUME NEW q, Len(q) \in Nat
    PROVE  \E f : FlatsOf(f, q)
<1> DEFINE F(f, i) == IF i = 1 THEN q[i] ELSE f[i - 1] \o q[i]
           Upto(f, n) == f = [i \in 1..n |-> F(f, i)]
           C == {n \in Nat : ~ \E f : Upto(f, n)}
<1>1. C = {}
  <2> SUFFICES ASSUME C # {} PROVE FALSE
    OBVIOUS
  <2>1. PICK n \in C : \A m \in C : n <= m
    BY LeastNat
  <2>2. CASE n = 0
    <3> DEFINE g == [i \in 1..0 |-> 0]
    <3>1. \A i \in 1..0 : FALSE
      OBVIOUS
    <3>2. Upto(g, 0)
      <4> HIDE DEF F
      <4>1. g = [i \in 1..0 |-> F(g, i)]
        BY <3>1
      <4> QED  BY <4>1
    <3> QED  BY <2>1, <2>2, <3>2
  <2>3. CASE n # 0
    <3>1. n \in Nat /\ n - 1 \in Nat /\ n - 1 \notin C
      <4>1. C \subseteq Nat
        OBVIOUS
      <4> HIDE DEF C
      <4> QED  BY <2>1, <2>3, <4>1
    <3>2. PICK f : Upto(f, n - 1)
      BY <3>1
    <3> DEFINE g == [i \in 1..n |-> F(f, i)]
    <3>3. ASSUME NEW i \in 1..n PROVE F(f, i) = F(g, i)
      <4>1. CASE i = 1
        BY <4>1
      <4>2. CASE i # 1
        <5>1. i - 1 \in 1..(n - 1) /\ i - 1 \in 1..n
          BY <3>1, <4>2
        <5>2. f[i - 1] = F(f, i - 1) /\ g[i - 1] = F(f, i - 1)
          <6> HIDE DEF F
          <6> QED  BY <3>2, <5>1
        <5> QED  BY <4>2, <5>2
      <4> QED  BY <4>1, <4>2
    <3>4. Upto(g, n)
      <4> HIDE DEF F
      <4>1. g = [i \in 1..n |-> F(g, i)]
        BY <3>3
      <4> QED  BY <4>1
    <3> QED  BY <2>1, <3>4
  <2> QED  BY <2>2, <2>3
<1>2. PICK f : Upto(f, Len(q))
  BY <1>1
<1> QED  BY <1>2 DEF FlatsOf

\* FlattenSeq joins them from the left.
LEMMA FlatSteps ==
    ASSUME NEW S, NEW q \in Seq(Seq(S)), q # << >>
    PROVE  \E f : /\ FlattenSeq(q) = f[Len(q)]
                  /\ f[1] = q[1]
                  /\ \A i \in 1..Len(q) : i # 1 => f[i] = f[i - 1] \o q[i]
<1> DEFINE f == CHOOSE g : FlatsOf(g, q)
<1>1. Len(q) \in Nat /\ Len(q) # 0
  OBVIOUS
<1>2. FlatsOf(f, q)
  BY <1>1, FlatsExist
<1>3. FlattenSeq(q) = f[Len(q)]
  BY <1>1 DEF FlattenSeq, FlatsOf
<1> HIDE DEF f
<1>4. \A i \in 1..Len(q) : f[i] = IF i = 1 THEN q[i] ELSE f[i - 1] \o q[i]
  BY <1>2 DEF FlatsOf
<1>5. 1 \in 1..Len(q)
  BY <1>1
<1> QED  BY <1>3, <1>4, <1>5

\* The concatenation of sequences over S is one over S.
LEMMA FlatTyped ==
    ASSUME NEW S, NEW q \in Seq(Seq(S))
    PROVE  FlattenSeq(q) \in Seq(S)
<1>1. CASE q = << >>
  BY <1>1 DEF FlattenSeq
<1>2. CASE q # << >>
  <2>1. PICK f : /\ FlattenSeq(q) = f[Len(q)]
                 /\ f[1] = q[1]
                 /\ \A i \in 1..Len(q) : i # 1 => f[i] = f[i - 1] \o q[i]
    BY <1>2, FlatSteps
  <2> DEFINE C == {i \in 1..Len(q) : f[i] \notin Seq(S)}
  <2>2. Len(q) \in Nat /\ Len(q) # 0 /\ \A i \in 1..Len(q) : q[i] \in Seq(S)
    BY <1>2
  <2>3. C = {}
    <3> SUFFICES ASSUME C # {} PROVE FALSE
      OBVIOUS
    <3>1. PICK n \in C : \A m \in C : n <= m
      <4>1. C \subseteq Nat
        OBVIOUS
      <4> HIDE DEF C
      <4> QED  BY <4>1, LeastNat
    <3>2. n # 1
      BY <2>1, <2>2
    <3>3. n - 1 \in 1..Len(q) /\ n - 1 \notin C
      BY <2>2, <3>1, <3>2
    <3>4. f[n - 1] \in Seq(S) /\ q[n] \in Seq(S) /\ f[n] = f[n - 1] \o q[n]
      BY <2>1, <2>2, <3>2, <3>3
    <3>5. f[n] \in Seq(S)
      <4>1. \A a, b \in Seq(S) : a \o b \in Seq(S)
        OBVIOUS
      <4> QED  BY <3>4, <4>1
    <3>6. f[n] \notin Seq(S)
      BY <3>1
    <3> QED  BY <3>5, <3>6
  <2>4. Len(q) \in 1..Len(q)
    BY <2>2
  <2> QED  BY <2>1, <2>3, <2>4
<1> QED  BY <1>1, <1>2

\* Flattened side by side, what agrees part by part agrees.
Agree(segments, lengths) ==
    /\ Len(segments) = Len(lengths)
    /\ \A j \in 1..Len(lengths) : segments[j].duration = lengths[j]

\* Agreement passes to concatenations,
LEMMA AgreeConcat ==
    ASSUME NEW S, NEW T, NEW s1 \in Seq(S), NEW s2 \in Seq(S), NEW t1 \in Seq(T), NEW t2 \in Seq(T),
           Agree(s1, t1), Agree(s2, t2)
    PROVE  Agree(s1 \o s2, t1 \o t2)
<1>1. Len(s1 \o s2) = Len(t1 \o t2) /\ Len(t1 \o t2) = Len(t1) + Len(t2)
  <2>1. Len(s1 \o s2) = Len(s1) + Len(s2)
    OBVIOUS
  <2>2. Len(t1 \o t2) = Len(t1) + Len(t2)
    OBVIOUS
  <2> QED  BY <2>1, <2>2 DEF Agree
<1>2. ASSUME NEW j \in 1..Len(t1 \o t2) PROVE (s1 \o s2)[j].duration = (t1 \o t2)[j]
  <2>1. CASE j <= Len(t1)
    <3>1. (s1 \o s2)[j] = s1[j] /\ (t1 \o t2)[j] = t1[j] /\ j \in 1..Len(t1)
      BY <1>1, <2>1 DEF Agree
    <3> QED  BY <3>1 DEF Agree
  <2>2. CASE j > Len(t1)
    <3> DEFINE i == j - Len(t1)
    <3>1. (s1 \o s2)[j] = s2[i] /\ (t1 \o t2)[j] = t2[i] /\ i \in 1..Len(t2)
      BY <1>1, <2>2 DEF Agree
    <3> QED  BY <3>1 DEF Agree
  <2> QED  BY <1>1, <2>1, <2>2
<1> QED  BY <1>1, <1>2 DEF Agree

\* of two sequences and of any number of them.
LEMMA FlatAgrees ==
    ASSUME NEW S, NEW T, NEW q \in Seq(Seq(S)), NEW r \in Seq(Seq(T)), Len(q) = Len(r),
           \A i \in 1..Len(q) : Agree(q[i], r[i])
    PROVE  Agree(FlattenSeq(q), FlattenSeq(r))
<1>1. CASE q = << >>
  <2>1. r = << >>
    BY <1>1
  <2>2. FlattenSeq(q) = << >> /\ FlattenSeq(r) = << >>
    BY <1>1, <2>1 DEF FlattenSeq
  <2> QED  BY <2>2 DEF Agree
<1>2. CASE q # << >>
  <2>0. r # << >>
    BY <1>2
  <2>1. PICK f : /\ FlattenSeq(q) = f[Len(q)]
                 /\ f[1] = q[1]
                 /\ \A i \in 1..Len(q) : i # 1 => f[i] = f[i - 1] \o q[i]
    BY <1>2, FlatSteps
  <2>2. PICK g : /\ FlattenSeq(r) = g[Len(r)]
                 /\ g[1] = r[1]
                 /\ \A i \in 1..Len(r) : i # 1 => g[i] = g[i - 1] \o r[i]
    BY <2>0, FlatSteps
  <2> DEFINE P(i) == f[i] \in Seq(S) /\ g[i] \in Seq(T) /\ Agree(f[i], g[i])
             C == {i \in 1..Len(q) : ~P(i)}
  <2>3. Len(q) \in Nat /\ Len(q) # 0
    BY <1>2
  <2>4. \A i \in 1..Len(q) : q[i] \in Seq(S) /\ r[i] \in Seq(T)
    OBVIOUS
  <2>5. C = {}
    <3> SUFFICES ASSUME C # {} PROVE FALSE
      OBVIOUS
    <3>1. PICK n \in C : \A m \in C : n <= m
      <4>1. C \subseteq Nat
        OBVIOUS
      <4> HIDE DEF C
      <4> QED  BY <4>1, LeastNat
    <3>2. n \in 1..Len(q) /\ ~P(n)
      <4> HIDE DEF P
      <4> QED  BY <3>1
    <3>3. n # 1
      <4>1. P(1)
        <5>1. 1 \in 1..Len(q)
          BY <2>3
        <5> QED  BY <2>1, <2>2, <2>4, <5>1
      <4> HIDE DEF P
      <4> QED  BY <3>2, <4>1
    <3>4. n - 1 \in 1..Len(q) /\ n - 1 \notin C
      <4> HIDE DEF P
      <4> QED  BY <2>3, <3>1, <3>2, <3>3
    <3>5. P(n - 1)
      BY <3>4
    <3>6. f[n] = f[n - 1] \o q[n] /\ g[n] = g[n - 1] \o r[n]
      BY <2>1, <2>2, <3>2, <3>3
    <3>7. Agree(f[n - 1] \o q[n], g[n - 1] \o r[n])
      BY <2>4, <3>2, <3>5, AgreeConcat
    <3>8. P(n)
      BY <2>4, <3>2, <3>5, <3>6, <3>7
    <3> QED  BY <3>2, <3>8
  <2>6. Len(q) \in 1..Len(q)
    BY <2>3
  <2>7. P(Len(q))
    <3> HIDE DEF P
    <3> QED  BY <2>5, <2>6
  <2> QED  BY <2>1, <2>2, <2>7
<1> QED  BY <1>1, <1>2

\* A HAR file adds endpoints to a configuration and changes nothing else.
LEMMA HARRead ==
    ASSUME Library, NEW c, IsConfig(c)
    PROVE  LET d == LoadHAREndpoints(c)
           IN /\ IsConfig(d)
              /\ \A f \in Settings \ {"endpoints"} : d[f] = c[f]
              /\ Blank(c.har_file) => d = c
<1> DEFINE d == LoadHAREndpoints(c)
<1>1. CASE Blank(c.har_file)
  BY <1>1 DEF LoadHAREndpoints
<1>2. CASE ~Blank(c.har_file)
  <2> DEFINE entries == ReadHAR(c.har_file)
             kept == [i \in DOMAIN entries |->
                        IF ShouldIncludeEntry(entries[i], c.har_filter)
                        THEN <<EntryToEndpoint(entries[i])>> ELSE << >>]
             E == {EntryToEndpoint(entries[i]) : i \in DOMAIN entries}
  <2>1. d = [c EXCEPT !.endpoints = @ \o FlattenSeq(kept)]
    BY <1>2 DEF LoadHAREndpoints
  <2>2. IsList(entries) /\ \A i \in DOMAIN entries : entries[i].url # Bad
    <3>1. c.har_file # ""
      BY <1>2 DEF Library, Blank
    <3>2. entries # Bad
      BY <3>1 DEF IsConfig
    <3> QED  BY <3>2 DEF Library
  <2>3. Len(entries) \in Nat /\ DOMAIN entries = 1..Len(entries)
    BY <2>2, Listed
  <2>4. kept \in Seq(Seq(E))
    <3> DEFINE e(i) == EntryToEndpoint(entries[i])
    <3>1. \A i \in DOMAIN entries : e(i) \in E
      OBVIOUS
    <3> HIDE DEF e, E, entries
    <3>2. \A i \in DOMAIN entries : <<e(i)>> \in Seq(E) /\ << >> \in Seq(E)
      BY <3>1
    <3> USE DEF e
    <3>3. \A i \in DOMAIN entries : kept[i] \in Seq(E)
      BY <3>2
    <3>4. kept = [i \in 1..Len(entries) |-> kept[i]]
      BY <2>3
    <3> HIDE DEF kept
    <3>5. kept \in [1..Len(entries) -> Seq(E)]
      BY <2>3, <3>3, <3>4
    <3> QED  BY <2>3, <3>5
  <2> DEFINE more == FlattenSeq(kept)
  <2>5. more \in Seq(E)
    <3> HIDE DEF kept, E
    <3> QED  BY <2>4, FlatTyped
  <2>6. \A e \in E : e.url # Bad
    <3>1. ASSUME NEW i \in DOMAIN entries PROVE EntryToEndpoint(entries[i]).url # Bad
      <4>1. EntryToEndpoint(entries[i]).url = entries[i].url
        BY DEF EntryToEndpoint
      <4> QED  BY <2>2, <4>1
    <3> HIDE DEF entries
    <3> QED  BY <3>1
  <2>7. PICK S : c.endpoints \in Seq(S)
    BY DEF IsConfig, IsSettings, IsEndpoints, IsList
  <2>8. \A i \in DOMAIN c.endpoints : c.endpoints[i].url # Bad
    BY DEF IsConfig, IsSettings, IsEndpoints
  <2> DEFINE all == c.endpoints \o more
  <2> HIDE DEF more, E, kept
  <2>9. IsEndpoints(all)
    <3>1. all \in Seq(S \cup E)
      <4>1. c.endpoints \in Seq(S \cup E) /\ more \in Seq(S \cup E)
        BY <2>5, <2>7
      <4> QED  BY <4>1
    <3>2. /\ Len(all) = Len(c.endpoints) + Len(more) /\ DOMAIN all = 1..Len(all)
          /\ Len(c.endpoints) \in Nat /\ Len(more) \in Nat
      BY <2>5, <2>7
    <3>3. ASSUME NEW i \in DOMAIN all PROVE all[i].url # Bad
      <4>1. CASE i <= Len(c.endpoints)
        <5>1. all[i] = c.endpoints[i] /\ i \in DOMAIN c.endpoints
          BY <2>5, <2>7, <3>2, <4>1
        <5> QED  BY <2>8, <5>1
      <4>2. CASE i > Len(c.endpoints)
        <5>1. all[i] = more[i - Len(c.endpoints)] /\ i - Len(c.endpoints) \in 1..Len(more)
          BY <2>5, <2>7, <3>2, <4>2
        <5>2. all[i] \in E
          BY <2>5, <5>1
        <5> QED  BY <2>6, <5>2
      <4> QED  BY <3>2, <4>1, <4>2
    <3> QED  BY <3>1, <3>3 DEF IsEndpoints, IsList
  <2>10. c = [f \in Settings |-> c[f]]
    BY DEF IsConfig, IsSettings
  <2>11. {"total", "endpoints", "load_patterns", "target", "har_file"} \subseteq Settings
    BY DEF Settings, SectionNames, PlainSettings
  <2>12. /\ d = [f \in Settings |-> d[f]]
         /\ d["endpoints"] = all
         /\ \A f \in Settings \ {"endpoints"} : d[f] = c[f]
    <3>1. d = [c EXCEPT !.endpoints = all]
      BY <2>1 DEF more
    <3> HIDE DEF d, all
    <3> QED  BY <2>10, <2>11, <3>1
  <2> HIDE DEF d, all
  <2>13. /\ d.total = c.total /\ d.load_patterns = c.load_patterns /\ d.target = c.target
         /\ d.har_file = c.har_file /\ d.endpoints = all
    BY <2>11, <2>12
  <2>14. IsSettings(d)
    BY <2>9, <2>12, <2>13 DEF IsConfig, IsSettings
  <2> QED  BY <1>2, <2>12, <2>13, <2>14 DEF IsConfig, d
<1> QED  BY <1>1, <1>2

\* What validateAuthConfig accepts, buildAuthProvider builds.
LEMMA AuthBuilt ==
    ASSUME Library, NEW c, ValidAuth(c)
    PROVE  BuildAuthProvider(c) # Bad
<1>1. CASE c.auth.type = ""
  <2>1. Blank(c.auth.type)
    BY <1>1 DEF Library, Blank
  <2>2. BuildAuthProvider(c) = "none"
    BY <1>1, <2>1 DEF BuildAuthProvider
  <2> QED  BY <2>2 DEF Library
<1>2. CASE c.auth.type # ""
  <2>1. SecretsOf(c.auth.type) # {} /\ \A f \in SecretsOf(c.auth.type) : ~Blank(c.auth[f])
    BY <1>2 DEF ValidAuth
  <2>2. c.auth.type \in {"oauth2_client_credentials", "oauth2_resource_owner",
                         "oidc_implicit", "oidc_auth_code"}
    BY <2>1 DEF SecretsOf
  <2>3. c.auth.type \in {"oidc_implicit", "oidc_auth_code"} => ~Blank(c.auth.static_token)
    BY <2>1 DEF SecretsOf
  <2>4. BuildAuthProvider(c) \in {"none", "oauth2", "static"}
    BY <2>2, <2>3 DEF BuildAuthProvider
  <2> QED  BY <2>4 DEF Library
<1> QED  BY <1>1, <1>2

\* What validateFeederConfig accepts fails to open only if it cannot be read.
LEMMA FeederBuilt ==
    ASSUME Library, NEW c, ValidFeeder(c), BuildDataFeeder(c) = Bad
    PROVE  ReadFeeder(Trim(c.feeder.path), c.feeder.type) = Bad
<1>0. Bad # 0
  <2>1. Bad \notin Int
    BY DEF Library
  <2> QED  BY <2>1
<1>1. ~Blank(c.feeder.path)
  BY <1>0 DEF BuildDataFeeder
<1>2. c.feeder.type \in {"csv", "json"}
  BY <1>1 DEF ValidFeeder
<1>3. Lower(Trim(c.feeder.type)) = c.feeder.type
  BY <1>2 DEF Library
<1> QED  BY <1>1, <1>2, <1>3 DEF BuildDataFeeder

\* An accepted endpoint's template fails only for a reason of Unbuildable.
LEMMA EndpointBuilt ==
    ASSUME Library, NEW c, IsConfig(c), Validate(c), cfg = LoadHAREndpoints(c),
           NEW i \in DOMAIN cfg.endpoints, BuildEndpointTemplate(cfg, cfg.endpoints[i]) = Bad
    PROVE  Unbuildable
<1> DEFINE ep == cfg.endpoints[i]
           target == ResolveEndpointURL(Trim(cfg.target), ep)
           file   == IF ~Blank(ep.body_file) THEN ep.body_file
                     ELSE IF ~Blank(ep.body) THEN "" ELSE cfg.body_file
           body   == IF ~Blank(ep.body_file) THEN ""
                     ELSE IF ~Blank(ep.body) THEN ep.body ELSE cfg.body
           hdrs   == MergeHeaders(cfg.headers, ep.headers)
<1>0. /\ IsConfig(cfg)
      /\ Blank(c.har_file) => cfg = c
      /\ cfg.har_file = c.har_file /\ cfg.target = c.target
      /\ cfg.body = c.body /\ cfg.body_file = c.body_file
  <2>1. {"har_file", "target", "body", "body_file"} \subseteq Settings \ {"endpoints"}
    BY DEF Settings, SectionNames, PlainSettings
  <2> QED  BY <2>1, HARRead
<1>1. ep \in Bodies /\ cfg \in Bodies /\ ep \in ToSet(cfg.endpoints)
  BY DEF Bodies, ToSet
<1>2. ep.url # Bad /\ Trim(cfg.target) = cfg.target
  BY <1>0 DEF IsConfig, IsSettings, IsEndpoints
<1>3. Trim("") = ""
  BY DEF Library
<1>4. target = Bad \/ ~BuilderOK(target, hdrs, body, file)
  <2> DEFINE r == [name |-> IF Blank(ep.name) THEN target ELSE ep.name,
                   extractors |-> {e.on_error : e \in ToSet(ep.extractors)}]
  <2>1. r # Bad
    <3>1. r = [x \in DOMAIN r |-> r[x]]
      OBVIOUS
    <3> HIDE DEF r
    <3> QED  BY <3>1 DEF Library
  <2>2. BuildEndpointTemplate(cfg, ep) =
          IF target = Bad THEN Bad ELSE IF ~BuilderOK(target, hdrs, body, file) THEN Bad ELSE r
    BY DEF BuildEndpointTemplate
  <2> HIDE DEF r, target, hdrs, body, file
  <2> QED  BY <2>1, <2>2
<1>5. CASE target = Bad
  <2>1. Blank(ep.url)
    <3> SUFFICES ASSUME ~Blank(ep.url) PROVE FALSE
      OBVIOUS
    <3>1. target = Trim(ep.url)
      BY DEF ResolveEndpointURL
    <3> QED  BY <1>2, <1>5, <3>1 DEF Library
  <2>2. CASE Trim(cfg.target) = ""
    <3>1. Blank(cfg.target)
      BY <2>2 DEF Blank
    <3>2. ValidTarget(c)
      BY DEF Validate
    <3>3. ~Blank(cfg.har_file)
      <4> SUFFICES ASSUME Blank(cfg.har_file) PROVE FALSE
        OBVIOUS
      <4>1. cfg = c
        BY <1>0
      <4> QED  BY <2>1, <3>1, <3>2, <4>1 DEF ValidTarget
    <3> QED  BY <3>1, <3>3 DEF Unbuildable
  <2>3. CASE Trim(cfg.target) # ""
    <3>1. target = IF Blank(ep.path) THEN cfg.target ELSE Resolve(cfg.target, Trim(ep.path))
      BY <1>2, <2>1, <2>3 DEF ResolveEndpointURL
    <3>2. cfg.target # Bad
      BY <1>0 DEF IsConfig, IsSettings
    <3>3. ~Blank(ep.path) /\ Resolve(cfg.target, Trim(ep.path)) = Bad
      <4> HIDE DEF target
      <4> QED  BY <1>5, <3>1, <3>2
    <3> QED  BY <1>1, <2>1, <3>3 DEF Unbuildable
  <2> QED  BY <2>2, <2>3
<1>6. CASE target # Bad /\ ~BuilderOK(target, hdrs, body, file)
  <2>1. ~Blank(target) \/ Unbuildable
    <3>1. CASE ~Blank(ep.url)
      <4>1. target = Trim(ep.url)
        BY <3>1 DEF ResolveEndpointURL
      <4> QED  BY <3>1, <4>1 DEF Library, Blank
    <3>2. CASE Blank(ep.url)
      <4>1. cfg.target # ""
        BY <1>2, <1>6, <3>2 DEF ResolveEndpointURL
      <4>2. target = IF Blank(ep.path) THEN cfg.target ELSE Resolve(cfg.target, Trim(ep.path))
        BY <1>2, <3>2, <4>1 DEF ResolveEndpointURL
      <4>3. ~Blank(cfg.target)
        BY <1>2, <4>1 DEF Blank
      <4>4. target # cfg.target /\ Blank(target) => Unbuildable
        BY <1>1, <3>2, <4>2 DEF Unbuildable
      <4> HIDE DEF target
      <4> QED  BY <4>3, <4>4
    <3> QED  BY <3>1, <3>2
  <2>2. CASE ~HeadersOK(hdrs)
    <3> SUFFICES ASSUME HeadersOK(cfg.headers), HeadersOK(ep.headers) PROVE FALSE
      BY <1>1 DEF Unbuildable
    <3> DEFINE keys == {k \in DOMAIN ep.headers : Canonical(Trim(k)) # ""}
               own == [h \in {Canonical(Trim(k)) : k \in keys} |->
                         ep.headers[CHOOSE k \in keys : Canonical(Trim(k)) = h]]
    <3>1. hdrs = Over(own, cfg.headers)
      BY DEF MergeHeaders
    <3>2. PICK h \in DOMAIN hdrs : Blank(h) \/ HasNewline(Trim(h)) \/ HasNewline(hdrs[h])
      BY <2>2 DEF HeadersOK
    <3>3. CASE h \in DOMAIN own
      <4> DEFINE k == CHOOSE k \in keys : Canonical(Trim(k)) = h
      <4>1. \E x \in keys : Canonical(Trim(x)) = h
        BY <3>3
      <4>2. k \in keys /\ Canonical(Trim(k)) = h
        <5> HIDE DEF keys
        <5> QED  BY <4>1
      <4>3. hdrs[h] = ep.headers[k]
        <5>1. hdrs[h] = own[h]
          <6> HIDE DEF own, hdrs
          <6> QED  BY <3>1, <3>2, <3>3 DEF Over
        <5>2. own[h] = ep.headers[k]
          BY <3>3
        <5> QED  BY <5>1, <5>2
      <4>4. k \in DOMAIN ep.headers
        BY <4>2
      <4> HIDE DEF k, hdrs
      <4>5. ~Blank(k) /\ ~HasNewline(Trim(k)) /\ ~HasNewline(ep.headers[k])
        BY <4>4 DEF HeadersOK
      <4>6. ~Blank(Canonical(Trim(k))) /\ ~HasNewline(Trim(Canonical(Trim(k))))
        BY <4>5 DEF Library
      <4> QED  BY <3>2, <4>2, <4>3, <4>5, <4>6
    <3>4. CASE h \notin DOMAIN own
      <4> HIDE DEF own, hdrs
      <4>1. h \in DOMAIN cfg.headers /\ hdrs[h] = cfg.headers[h]
        BY <3>1, <3>2, <3>4 DEF Over
      <4> QED  BY <3>2, <4>1 DEF HeadersOK
    <3> QED  BY <3>3, <3>4
  <2>3. CASE ~BodySourceOK(body, file)
    <3>1. CASE ~Blank(ep.body_file)
      <4>1. body = "" /\ file = ep.body_file
        BY <3>1
      <4>2. ~IsFile(Trim(ep.body_file))
        BY <2>3, <4>1 DEF BodySourceOK
      <4> QED  BY <1>1, <3>1, <4>2 DEF Unbuildable
    <3>2. CASE Blank(ep.body_file) /\ ~Blank(ep.body)
      <4>1. body = ep.body /\ file = ""
        BY <3>2
      <4>2. Blank("")
        BY <1>3 DEF Blank
      <4> QED  BY <2>3, <4>1, <4>2 DEF BodySourceOK
    <3>3. CASE Blank(ep.body_file) /\ Blank(ep.body)
      <4>1. body = cfg.body /\ file = cfg.body_file
        BY <3>3
      <4>2. ~BodySourceOK(cfg.body, cfg.body_file)
        <5> HIDE DEF body, file
        <5> QED  BY <2>3, <4>1
      <4>3. Blank(cfg.body) \/ Blank(cfg.body_file)
        BY <1>0 DEF Validate, Exclusive
      <4> QED  BY <1>1, <4>2, <4>3 DEF BodySourceOK, Unbuildable
    <3> QED  BY <3>1, <3>2, <3>3
  <2> QED  BY <1>6, <2>1, <2>2, <2>3 DEF BuilderOK
<1> QED  BY <1>4, <1>5, <1>6

\* So does the requester of an accepted configuration.
LEMMA RequesterBuilt ==
    ASSUME Library, NEW c, IsConfig(c), Validate(c), cfg = LoadHAREndpoints(c),
           BuildRequester(cfg) = Bad
    PROVE  Unbuildable
<1> DEFINE builder == cfg.target # ""
           f == [i \in DOMAIN cfg.endpoints |-> BuildEndpointTemplate(cfg, cfg.endpoints[i])]
<1>0. /\ IsConfig(cfg)
      /\ Blank(c.har_file) => cfg = c
      /\ cfg.har_file = c.har_file /\ cfg.target = c.target
      /\ cfg.body = c.body /\ cfg.body_file = c.body_file
  <2>1. {"har_file", "target", "body", "body_file"} \subseteq Settings \ {"endpoints"}
    BY DEF Settings, SectionNames, PlainSettings
  <2> QED  BY <2>1, HARRead
<1>1. \A g : g = [x \in DOMAIN g |-> g[x]] => g # Bad
  BY DEF Library
<1>2. f = [x \in DOMAIN f |-> f[x]]
  OBVIOUS
<1>3. \/ builder /\ ~BuilderOK(cfg.target, cfg.headers, cfg.body, cfg.body_file)
      \/ AllOrBad(f) = Bad
      \/ ~builder /\ AllOrBad(f) = << >>
  <2> DEFINE r == [protocol |-> cfg.protocol, builder |-> TRUE, templates |-> << >>]
             s == [protocol |-> "http", builder |-> builder, templates |-> AllOrBad(f)]
             wrong == \/ builder /\ ~BuilderOK(cfg.target, cfg.headers, cfg.body, cfg.body_file)
                      \/ AllOrBad(f) = Bad
                      \/ ~builder /\ AllOrBad(f) = << >>
  <2>1. r = [x \in DOMAIN r |-> r[x]] /\ s = [x \in DOMAIN s |-> s[x]]
    OBVIOUS
  <2>2. r # Bad /\ s # Bad
    <3> HIDE DEF r, s
    <3> QED  BY <1>1, <2>1
  <2>3. BuildRequester(cfg) = IF cfg.protocol \in {"websocket", "sse", "grpc"} THEN r
                              ELSE IF wrong THEN Bad ELSE s
    BY DEF BuildRequester, EndpointTemplates
  <2> HIDE DEF r, s, wrong
  <2>4. wrong
    BY <2>2, <2>3
  <2> QED  BY <2>4 DEF wrong
<1>4. CASE builder /\ ~BuilderOK(cfg.target, cfg.headers, cfg.body, cfg.body_file)
  <2>1. ~Blank(cfg.target)
    BY <1>0, <1>4 DEF IsConfig, Blank
  <2>2. cfg \in Bodies
    BY DEF Bodies
  <2>3. Blank(cfg.body) \/ Blank(cfg.body_file)
    BY <1>0 DEF Validate, Exclusive
  <2>4. CASE ~HeadersOK(cfg.headers)
    BY <2>2, <2>4 DEF Unbuildable
  <2>5. CASE ~BodySourceOK(cfg.body, cfg.body_file)
    BY <2>2, <2>3, <2>5 DEF BodySourceOK, Unbuildable
  <2> QED  BY <1>4, <2>1, <2>4, <2>5 DEF BuilderOK
<1>5. CASE AllOrBad(f) = Bad
  <2>1. f # Bad
    <3> HIDE DEF f
    <3> QED  BY <1>1, <1>2
  <2>2. PICK i \in DOMAIN f : f[i] = Bad
    <3> HIDE DEF f
    <3> QED  BY <1>5, <2>1 DEF AllOrBad
  <2>3. i \in DOMAIN cfg.endpoints /\ BuildEndpointTemplate(cfg, cfg.endpoints[i]) = Bad
    BY <2>2
  <2> QED  BY <2>3, EndpointBuilt
<1>6. CASE ~builder /\ AllOrBad(f) = << >>
  <2>1. << >> # Bad
    <3>1. << >> = [x \in DOMAIN << >> |-> << >>[x]]
      OBVIOUS
    <3> QED  BY <1>1, <3>1
  <2>2. f = << >>
    <3> HIDE DEF f
    <3> QED  BY <1>6, <2>1, AllGood
  <2>3. cfg.endpoints = << >>
    <3>1. DOMAIN cfg.endpoints = {}
      <4>1. DOMAIN f = {}
        <5> HIDE DEF f
        <5> QED  BY <2>2
      <4> QED  BY <4>1
    <3>2. IsList(cfg.endpoints)
      BY <1>0 DEF IsConfig, IsSettings, IsEndpoints
    <3>3. PICK S : cfg.endpoints \in Seq(S)
      BY <3>2 DEF IsList
    <3> DEFINE e == cfg.endpoints
    <3> HIDE DEF e
    <3>4. e \in Seq(S) /\ DOMAIN e = {}
      BY <3>1, <3>3 DEF e
    <3>5. Len(e) \in Nat /\ DOMAIN e = 1..Len(e)
      BY <3>4
    <3>6. Len(e) = 0
      <4>1. Len(e) # 0 => 1 \in 1..Len(e)
        BY <3>5
      <4> QED  BY <3>4, <3>5, <4>1
    <3>7. e = << >>
      BY <3>4, <3>6
    <3> QED  BY <3>7 DEF e
  <2>4. Blank(cfg.target)
    BY <1>6 DEF Blank, Library
  <2>5. ~Blank(cfg.har_file)
    <3> SUFFICES ASSUME Blank(cfg.har_file) PROVE FALSE
      OBVIOUS
    <3>1. cfg = c /\ ValidTarget(c)
      BY <1>0 DEF Validate
    <3> QED  BY <2>3, <2>4, <3>1 DEF ValidTarget
  <2> QED  BY <2>4, <2>5 DEF Unbuildable
<1> QED  BY <1>3, <1>4, <1>5, <1>6

---------------------------------------------------------------------------
(***************************************************************************)
(* FoldLeft(+, 0, s): the sums of the first elements.                      *)
(***************************************************************************)
LeftsOf(f, s) ==
    f = [p \in SUBSET DOMAIN s |-> IF p = {} THEN 0 ELSE f[p \ {Max(p)}] + s[Max(p)]]
\* The sum of the first k elements.
SumTo(s, k) == (CHOOSE f : LeftsOf(f, s))[1..k]

\* The fold over a sequence, which takes the last element first, is its sum.
LEMMA FoldIsSum ==
    ASSUME NEW s, DOMAIN s = 1..Len(s)
    PROVE  FoldLeft(+, 0, s) = SumTo(s, Len(s))
BY DEF FoldLeft, MapThenFoldSet, SumTo, LeftsOf

\* A part of 1..n that is not empty has a greatest element,
LEMMA MaxOfPart ==
    ASSUME NEW n \in Nat, NEW p \in SUBSET (1..n), p # {}
    PROVE  Max(p) \in p /\ \A x \in p : Max(p) >= x
<1> DEFINE C == {n - x : x \in p}
<1>0. \A x \in p : x \in 1..n /\ n - x \in Nat
  OBVIOUS
<1>1. C \subseteq Nat /\ C # {}
  BY <1>0
<1>2. PICK m \in C : \A c \in C : m <= c
  <2> HIDE DEF C
  <2> QED  BY <1>1, LeastNat
<1>3. PICK x \in p : m = n - x
  BY <1>2
<1>4. ASSUME NEW y \in p PROVE x >= y
  <2>1. n - y \in C
    OBVIOUS
  <2>2. n - x <= n - y
    BY <1>2, <1>3, <2>1
  <2> QED  BY <1>0, <2>2
<1> QED  BY <1>4 DEF Max

\* and 1..k has k.
LEMMA MaxOfFirst ==
    ASSUME NEW k \in Nat, k # 0
    PROVE  Max(1..k) = k /\ (1..k) \ {k} = 1..(k - 1)
<1>1. 1..k \in SUBSET (1..k) /\ 1..k # {} /\ k \in 1..k
  OBVIOUS
<1>2. Max(1..k) \in 1..k /\ \A x \in 1..k : Max(1..k) >= x
  BY <1>1, MaxOfPart
<1> QED  BY <1>1, <1>2

\* The sums of the parts of a sequence exist.
LEMMA LeftsExist ==
    ASSUME NEW c, NEW k \in Nat, DOMAIN c = 1..k
    PROVE  \E f : LeftsOf(f, c)
<1> DEFINE D == DOMAIN c
           Small(n) == {s \in SUBSET D : Cardinality(s) <= n}
           F(f, s) == IF s = {} THEN 0 ELSE f[s \ {Max(s)}] + c[Max(s)]
           Upto(f, n) == f = [s \in Small(n) |-> F(f, s)]
           C == {n \in Nat : ~ \E f : Upto(f, n)}
<1>0. IsFiniteSet(D)
  BY FS_Interval
<1>1. C = {}
  <2> SUFFICES ASSUME C # {} PROVE FALSE
    OBVIOUS
  <2>1. PICK n \in C : \A m \in C : n <= m
    BY LeastNat
  <2>2. CASE n = 0
    <3> DEFINE g == [s \in Small(0) |-> 0]
    <3>1. \A s \in Small(0) : s = {}
      BY <1>0, FS_Subset, FS_CardinalityType, FS_EmptySet
    <3>2. \A s \in Small(0) : 0 = F(g, s)
      BY <3>1
    <3>3. Upto(g, 0)
      <4> HIDE DEF F, Small
      <4>1. g = [s \in Small(0) |-> F(g, s)]
        BY <3>2
      <4> QED  BY <4>1
    <3> QED  BY <2>1, <2>2, <3>3
  <2>3. CASE n # 0
    <3>1. n - 1 \in Nat /\ n - 1 \notin C
      <4>1. C \subseteq Nat
        OBVIOUS
      <4> HIDE DEF C
      <4> QED  BY <2>1, <2>3, <4>1
    <3>2. PICK f : Upto(f, n - 1)
      BY <3>1
    <3> DEFINE g == [s \in Small(n) |-> F(f, s)]
    <3>3. ASSUME NEW s \in Small(n) PROVE F(f, s) = F(g, s)
      <4>1. CASE s = {}
        BY <4>1
      <4>2. CASE s # {}
        <5>1. Max(s) \in s
          BY <4>2, MaxOfPart
        <5> DEFINE t == s \ {Max(s)}
        <5>2. t \in SUBSET D /\ Cardinality(t) < Cardinality(s)
                /\ Cardinality(s) \in Nat /\ Cardinality(t) \in Nat
          BY <1>0, <5>1, SmallerPart
        <5>3. t \in Small(n - 1) /\ t \in Small(n)
          BY <5>2, <3>1
        <5>4. f[t] = F(f, t) /\ g[t] = F(f, t)
          <6> HIDE DEF t, Small, F
          <6> QED  BY <3>2, <5>3
        <5> QED  BY <4>2, <5>4
      <4> QED  BY <4>1, <4>2
    <3>4. Upto(g, n)
      <4> HIDE DEF F, Small
      <4>1. g = [s \in Small(n) |-> F(g, s)]
        BY <3>3
      <4> QED  BY <4>1
    <3> QED  BY <2>1, <3>4
  <2> QED  BY <2>2, <2>3
<1>2. Cardinality(D) \in Nat
  BY <1>0, FS_CardinalityType
<1>3. PICK f : Upto(f, Cardinality(D))
  BY <1>1, <1>2
<1>4. Small(Cardinality(D)) = SUBSET D
  BY <1>0, FS_Subset
<1> QED  BY <1>3, <1>4 DEF LeftsOf

\* Each element adds itself to the sum of those before it,
LEMMA SumSteps ==
    ASSUME NEW s \in Seq(Nat)
    PROVE  /\ SumTo(s, 0) = 0
           /\ \A k \in 1..Len(s) : SumTo(s, k) = SumTo(s, k - 1) + s[k]
<1> DEFINE f == CHOOSE g : LeftsOf(g, s)
<1>1. LeftsOf(f, s)
  BY LeftsExist
<1> HIDE DEF f
<1>0. DOMAIN s = 1..Len(s)
  OBVIOUS
<1>2. \A p \in SUBSET (1..Len(s)) : f[p] = IF p = {} THEN 0 ELSE f[p \ {Max(p)}] + s[Max(p)]
  BY <1>0, <1>1 DEF LeftsOf
<1>3. f[1..0] = 0
  <2>1. 1..0 = {} /\ {} \in SUBSET (1..Len(s))
    OBVIOUS
  <2> QED  BY <1>2, <2>1
<1>4. ASSUME NEW k \in 1..Len(s) PROVE f[1..k] = f[1..(k - 1)] + s[k]
  <2>0. k \in Nat /\ k # 0 /\ k \in 1..k /\ Len(s) \in Nat /\ k <= Len(s)
    OBVIOUS
  <2>1. k \in Nat /\ k # 0 /\ 1..k \in SUBSET (1..Len(s)) /\ 1..k # {}
    BY <2>0
  <2>2. f[1..k] = f[(1..k) \ {Max(1..k)}] + s[Max(1..k)]
    BY <1>2, <2>1
  <2> QED  BY <2>1, <2>2, MaxOfFirst
<1> QED  BY <1>3, <1>4 DEF SumTo, f

\* and the sums of natural numbers never go down.
LEMMA SumsRise ==
    ASSUME NEW s \in Seq(Nat)
    PROVE  /\ \A k \in 0..Len(s) : SumTo(s, k) \in Nat
           /\ \A j, k \in 0..Len(s) : j <= k => SumTo(s, j) <= SumTo(s, k)
<1> DEFINE P(k) == SumTo(s, k) \in Nat /\ \A j \in 0..k : SumTo(s, j) <= SumTo(s, k)
           C == {k \in 0..Len(s) : ~P(k)}
<1>1. C = {}
  <2> SUFFICES ASSUME C # {} PROVE FALSE
    OBVIOUS
  <2>1. PICK n \in C : \A m \in C : n <= m
    <3>1. C \subseteq Nat
      OBVIOUS
    <3> HIDE DEF C
    <3> QED  BY <3>1, LeastNat
  <2>2. n \in 0..Len(s) /\ ~P(n)
    <3> HIDE DEF P
    <3> QED  BY <2>1
  <2>3. n # 0
    <3>1. P(0)
      <4>1. SumTo(s, 0) = 0
        BY SumSteps
      <4>2. \A j \in 0..0 : j = 0
        OBVIOUS
      <4> QED  BY <4>1, <4>2
    <3> HIDE DEF P
    <3> QED  BY <2>2, <3>1
  <2>4. n - 1 \in 0..Len(s) /\ n \in 1..Len(s)
    BY <2>2, <2>3
  <2>5. P(n - 1)
    <3> HIDE DEF P
    <3> QED  BY <2>1, <2>2, <2>4
  <2>6. SumTo(s, n) = SumTo(s, n - 1) + s[n] /\ s[n] \in Nat
    BY <2>4, SumSteps
  <2>7. \A j \in 0..n : j = n \/ j \in 0..(n - 1)
    BY <2>2
  <2>8. SumTo(s, n) \in Nat /\ SumTo(s, n - 1) <= SumTo(s, n)
    BY <2>5, <2>6
  <2>9. ASSUME NEW j \in 0..n PROVE SumTo(s, j) <= SumTo(s, n)
    <3>1. CASE j = n
      BY <2>8, <3>1
    <3>2. CASE j \in 0..(n - 1)
      <4>1. SumTo(s, j) <= SumTo(s, n - 1)
        BY <2>5, <3>2
      <4>2. SumTo(s, j) \in Nat
        <5>1. j \in 0..Len(s) /\ j \notin C
          <6> HIDE DEF P
          <6> QED  BY <2>1, <2>2, <3>2
        <5> QED  BY <5>1
      <4> QED  BY <2>5, <2>8, <4>1, <4>2
    <3> QED  BY <2>7, <3>1, <3>2
  <2> QED  BY <2>2, <2>8, <2>9
<1>2. \A k \in 0..Len(s) : P(k)
  <2> HIDE DEF P
  <2> QED  BY <1>1
<1> QED  BY <1>2

\* A part's sum does not depend on what follows it.
LEMMA SumOfFirst ==
    ASSUME NEW s \in Seq(Nat), NEW k \in 0..Len(s)
    PROVE  FoldLeft(+, 0, SubSeq(s, 1, k)) = SumTo(s, k)
<1> DEFINE t == SubSeq(s, 1, k)
<1>1. t \in Seq(Nat) /\ Len(t) = k /\ DOMAIN t = 1..k /\ \A i \in 1..k : t[i] = s[i]
  OBVIOUS
<1>2. FoldLeft(+, 0, SubSeq(s, 1, k)) = SumTo(t, k)
  <2>1. FoldLeft(+, 0, SubSeq(s, 1, k)) = SumTo(SubSeq(s, 1, k), Len(SubSeq(s, 1, k)))
    BY <1>1, FoldIsSum
  <2> QED  BY <1>1, <2>1
<1> HIDE DEF t
<1> DEFINE C == {j \in 0..k : SumTo(t, j) # SumTo(s, j)}
<1>3. C = {}
  <2> SUFFICES ASSUME C # {} PROVE FALSE
    OBVIOUS
  <2>1. PICK n \in C : \A m \in C : n <= m
    <3>1. C \subseteq Nat
      OBVIOUS
    <3> HIDE DEF C
    <3> QED  BY <3>1, LeastNat
  <2>2. SumTo(t, 0) = 0 /\ SumTo(s, 0) = 0
    BY <1>1, SumSteps
  <2>3. n \in 1..k /\ n - 1 \in 0..k /\ n - 1 \notin C
    BY <2>1, <2>2
  <2>4. SumTo(t, n) = SumTo(t, n - 1) + t[n]
    BY <1>1, <2>3, SumSteps
  <2>5. n \in 1..Len(s)
    BY <2>3
  <2>6. SumTo(s, n) = SumTo(s, n - 1) + s[n]
    BY <2>5, SumSteps
  <2> QED  BY <1>1, <2>1, <2>3, <2>4, <2>6
<1>4. SumTo(t, k) = SumTo(s, k)
  <2>1. k \in 0..k
    OBVIOUS
  <2> QED  BY <1>3, <2>1
<1> QED  BY <1>2, <1>4

---------------------------------------------------------------------------
\* A rate on the way from one end to the other lies between them.
LEMMA Floor ==
    ASSUME NEW m \in Int, NEW d \in Nat, d > 0
    PROVE  m \div d \in Int /\ d * (m \div d) <= m /\ m < d * (m \div d) + d
OBVIOUS

\* A value interpolated within a segment lies between its ends.
LEMMA Between ==
    ASSUME NEW a \in Int, NEW b \in Int, NEW d \in Nat, NEW x \in Nat, x < d
    PROVE  LET r == a + ((b - a) * x) \div d
           IN (a <= r \/ b <= r) /\ (r <= a \/ r <= b)
<1> DEFINE h == b - a
           m == h * x
           q == m \div d
<1>1. /\ m \in Int /\ q \in Int /\ h \in Int
      /\ d * q <= m /\ m < d * q + d
  BY Floor
<1>2. CASE h >= 0
  <2>1. 0 <= m /\ m <= h * d
    BY <1>2
  <2>2. 0 <= q
    <3> SUFFICES ASSUME q <= -1 PROVE FALSE
      BY <1>1
    <3>1. d * q <= d * (-1)
      BY <1>1
    <3> QED  BY <1>1, <2>1, <3>1
  <2>3. q <= h
    <3> SUFFICES ASSUME h + 1 <= q PROVE FALSE
      BY <1>1
    <3>1. d * (h + 1) <= d * q
      BY <1>1
    <3>2. d * (h + 1) = h * d + d
      BY <1>1
    <3> QED  BY <1>1, <2>1, <3>1, <3>2
  <2> HIDE DEF q
  <2> QED  BY <1>1, <2>2, <2>3
<1>3. CASE h < 0
  <2>1. m <= 0 /\ h * d <= m
    BY <1>3
  <2>2. q <= 0
    <3> SUFFICES ASSUME 1 <= q PROVE FALSE
      BY <1>1
    <3>1. d <= d * q
      BY <1>1
    <3> QED  BY <1>1, <2>1, <3>1
  <2>3. h <= q
    <3> SUFFICES ASSUME q <= h - 1 PROVE FALSE
      BY <1>1
    <3>1. d * q <= d * (h - 1)
      BY <1>1
    <3>2. d * (h - 1) = h * d - d
      BY <1>1
    <3> QED  BY <1>1, <2>1, <3>1, <3>2
  <2> HIDE DEF q
  <2> QED  BY <1>1, <2>2, <2>3
<1> QED  BY <1>1, <1>2, <1>3

---------------------------------------------------------------------------
\* The two schedules agree, pattern by pattern.
Positive == Nat \ {0}
Segments == [from : Int, to : Int, duration : Positive]

\* One segment agrees with its length.
LEMMA OneAgrees ==
    ASSUME NEW a \in Int, NEW b \in Int, NEW d \in Positive
    PROVE  LET s == [from |-> a, to |-> b, duration |-> d]
           IN <<s>> \in Seq(Segments) /\ <<d>> \in Seq(Positive) /\ Agree(<<s>>, <<d>>)
<1> DEFINE s == [from |-> a, to |-> b, duration |-> d]
<1>1. s \in Segments /\ s.duration = d
  BY DEF Segments
<1> HIDE DEF s
<1>2. <<s>> \in Seq(Segments) /\ <<d>> \in Seq(Positive)
  BY <1>1
<1>3. Len(<<s>>) = 1 /\ Len(<<d>>) = 1 /\ <<s>>[1] = s /\ <<d>>[1] = d
  OBVIOUS
<1>4. Agree(<<s>>, <<d>>)
  BY <1>1, <1>3 DEF Agree
<1> QED  BY <1>2, <1>4 DEF s

\* A pattern that Validate accepts has the same segments in both schedules,
LEMMA PatternAgrees ==
    ASSUME NEW p, IsPattern(p), ValidLoadPattern(p), p.type # "constant"
    PROVE  /\ PatternSegments(p) \in Seq(Segments)
           /\ TimelineSteps(p) \in Seq(Positive)
           /\ Agree(PatternSegments(p), TimelineSteps(p))
<1>0. {p.from_rps, p.to_rps, p.rps, p.duration} \subseteq Int
  BY DEF IsPattern
<1>1. CASE p.type = "ramp"
  <2>1. p.duration > 0
    BY <1>1 DEF ValidLoadPattern
  <2>2. p.duration \in Positive
    BY <1>0, <2>1 DEF Positive
  <2>3. /\ PatternSegments(p) =
             <<[from |-> p.from_rps, to |-> p.to_rps, duration |-> p.duration]>>
        /\ TimelineSteps(p) = <<p.duration>>
    BY <1>1, <2>1 DEF PatternSegments, TimelineSteps
  <2> QED  BY <1>0, <2>2, <2>3, OneAgrees
<1>2. CASE p.type = "spike"
  <2>1. p.duration > 0
    BY <1>2 DEF ValidLoadPattern
  <2>2. p.duration \in Positive
    BY <1>0, <2>1 DEF Positive
  <2>3. /\ PatternSegments(p) = <<[from |-> p.rps, to |-> p.rps, duration |-> p.duration]>>
        /\ TimelineSteps(p) = <<p.duration>>
    BY <1>2, <2>1 DEF PatternSegments, TimelineSteps
  <2> QED  BY <1>0, <2>2, <2>3, OneAgrees
<1>3. CASE p.type = "step"
  <2> DEFINE n == Len(p.steps)
             seg(s) == [from |-> s.rps, to |-> s.rps, duration |-> s.duration]
             q == [i \in DOMAIN p.steps |->
                     LET s == p.steps[i]
                     IN IF s.duration > 0
                        THEN <<[from |-> s.rps, to |-> s.rps, duration |-> s.duration]>> ELSE << >>]
             r == [i \in DOMAIN p.steps |->
                     IF p.steps[i].duration > 0 THEN <<p.steps[i].duration>> ELSE << >>]
  <2>1. PatternSegments(p) = FlattenSeq(q) /\ TimelineSteps(p) = FlattenSeq(r)
    BY <1>3 DEF PatternSegments, TimelineSteps
  <2>2. n \in Nat /\ DOMAIN p.steps = 1..n
    BY Listed DEF IsPattern
  <2>3. \A i \in 1..n : p.steps[i].rps \in Int /\ p.steps[i].duration \in Positive
                          /\ p.steps[i].duration > 0
    <3>1. \A i \in DOMAIN p.steps : p.steps[i].duration > 0
      BY <1>3 DEF ValidLoadPattern
    <3>2. \A i \in DOMAIN p.steps : p.steps[i].rps \in Int /\ p.steps[i].duration \in Int
      BY DEF IsPattern, IsStep
    <3> QED  BY <2>2, <3>1, <3>2 DEF Positive
  <2>4. ASSUME NEW i \in 1..n
        PROVE  q[i] \in Seq(Segments) /\ r[i] \in Seq(Positive) /\ Agree(q[i], r[i])
    <3>1. q[i] = <<seg(p.steps[i])>> /\ r[i] = <<p.steps[i].duration>>
      BY <2>2, <2>3
    <3> QED  BY <2>3, <3>1, OneAgrees
  <2>5. q \in Seq(Seq(Segments)) /\ r \in Seq(Seq(Positive)) /\ Len(q) = n /\ Len(r) = n
    <3>1. q = [i \in 1..n |-> q[i]] /\ r = [i \in 1..n |-> r[i]]
      BY <2>2
    <3> HIDE DEF q, r, n
    <3>2. q \in [1..n -> Seq(Segments)] /\ r \in [1..n -> Seq(Positive)]
      BY <2>4, <3>1
    <3>3. q \in Seq(Seq(Segments)) /\ Len(q) = n
      BY <2>2, <3>2
    <3>4. r \in Seq(Seq(Positive)) /\ Len(r) = n
      BY <2>2, <3>2
    <3> QED  BY <3>3, <3>4
  <2> HIDE DEF q, r, n
  <2> QED  BY <2>1, <2>4, <2>5, FlatTyped, FlatAgrees
<1> QED  BY <1>1, <1>2, <1>3 DEF ValidLoadPattern

\* and so has any sequence of them.
LEMMA SchedulesAgree ==
    ASSUME NEW ps, IsPatterns(ps),
           \A i \in DOMAIN ps : ValidLoadPattern(ps[i]) /\ ps[i].type # "constant"
    PROVE  /\ CompilePatternPlan(ps) \in Seq(Segments)
           /\ Timeline(ps) \in Seq(Positive)
           /\ Agree(CompilePatternPlan(ps), Timeline(ps))
<1> DEFINE n == Len(ps)
           q == [i \in DOMAIN ps |-> PatternSegments(ps[i])]
           r == [i \in DOMAIN ps |-> TimelineSteps(ps[i])]
<1>1. CompilePatternPlan(ps) = FlattenSeq(q) /\ Timeline(ps) = FlattenSeq(r)
  BY DEF CompilePatternPlan, Timeline
<1>2. n \in Nat /\ DOMAIN ps = 1..n
  BY Listed DEF IsPatterns
<1>3. ASSUME NEW i \in 1..n
      PROVE  q[i] \in Seq(Segments) /\ r[i] \in Seq(Positive) /\ Agree(q[i], r[i])
  <2>1. IsPattern(ps[i])
    BY <1>2 DEF IsPatterns
  <2>2. q[i] = PatternSegments(ps[i]) /\ r[i] = TimelineSteps(ps[i])
    BY <1>2
  <2> QED  BY <1>2, <2>1, <2>2, PatternAgrees
<1>4. q \in Seq(Seq(Segments)) /\ r \in Seq(Seq(Positive)) /\ Len(q) = n /\ Len(r) = n
  <2>1. q = [i \in 1..n |-> q[i]] /\ r = [i \in 1..n |-> r[i]]
    BY <1>2
  <2> HIDE DEF q, r, n
  <2>2. q \in [1..n -> Seq(Segments)] /\ r \in [1..n -> Seq(Positive)]
    BY <1>3, <2>1
  <2> QED  BY <1>2, <2>2
<1> HIDE DEF q, r, n
<1> QED  BY <1>1, <1>3, <1>4, FlatTyped, FlatAgrees

---------------------------------------------------------------------------
\* Where the dashboard shows a step, the plan drives its segment.
LEMMA ScheduleDriven ==
    ASSUME NEW segments \in Seq(Segments), NEW lengths \in Seq(Positive), Agree(segments, lengths)
    PROVE  LET starts == Sums(lengths)
           IN /\ FoldLeft(+, 0, lengths) = TotalDuration(segments)
              /\ \A i \in DOMAIN lengths : \A t \in starts[i] .. (starts[i] + lengths[i] - 1) :
                    LET rate == RateAt(segments, t)
                        ends == {segments[i].from, segments[i].to}
                    IN rate # << >> /\ (\E e \in ends : e <= rate[1]) /\ (\E e \in ends : rate[1] <= e)
              /\ RateAt(segments, TotalDuration(segments)) = << >>
<1> DEFINE n == Len(lengths)
           durations == [i \in DOMAIN segments |-> segments[i].duration]
           starts == Sums(durations)
           At(k) == SumTo(lengths, k)
<1>1. /\ n \in Nat /\ DOMAIN segments = 1..n /\ DOMAIN lengths = 1..n
      /\ \A i \in 1..n : segments[i] \in Segments /\ segments[i].duration = lengths[i]
                           /\ lengths[i] \in Nat /\ lengths[i] > 0
  BY DEF Agree, Positive
<1>2. durations = lengths
  <2>1. lengths = [i \in 1..n |-> lengths[i]]
    OBVIOUS
  <2>2. durations = [i \in 1..n |-> lengths[i]]
    BY <1>1
  <2> QED  BY <2>1, <2>2
<1>3. lengths \in Seq(Nat)
  BY DEF Positive
<1>4. /\ DOMAIN starts = 1..n
      /\ \A i \in 1..n : starts[i] = At(i - 1)
  <2>1. ASSUME NEW i \in 1..n PROVE starts[i] = At(i - 1)
    <3>1. durations \in Seq(Nat) /\ i - 1 \in 0..Len(durations)
      BY <1>1, <1>2, <1>3
    <3>2. FoldLeft(+, 0, SubSeq(durations, 1, i - 1)) = SumTo(durations, i - 1)
      BY <3>1, SumOfFirst
    <3>3. starts[i] = FoldLeft(+, 0, SubSeq(durations, 1, i - 1))
      BY <1>1 DEF Sums
    <3>4. SumTo(durations, i - 1) = At(i - 1)
      BY <1>2
    <3> QED  BY <3>2, <3>3, <3>4
  <2> QED  BY <1>1, <2>1 DEF Sums
<1>5. /\ \A k \in 0..n : At(k) \in Nat
      /\ \A j, k \in 0..n : j <= k => At(j) <= At(k)
  BY <1>3, SumsRise
<1>6. \A k \in 1..n : At(k) = At(k - 1) + lengths[k]
  BY <1>3, SumSteps
<1>7. FoldLeft(+, 0, lengths) = At(n)
  BY <1>1, FoldIsSum
<1>8. TotalDuration(segments) = At(n)
  <2>1. DOMAIN durations = 1..Len(durations)
    BY <1>1, <1>2
  <2>2. FoldLeft(+, 0, durations) = SumTo(durations, Len(durations))
    BY <2>1, FoldIsSum
  <2>3. SumTo(durations, Len(durations)) = At(n)
    BY <1>2
  <2>4. TotalDuration(segments) = FoldLeft(+, 0, durations)
    BY DEF TotalDuration
  <2> QED  BY <2>2, <2>3, <2>4
<1> DEFINE here(t) == {i \in DOMAIN segments :
                          starts[i] <= t /\ t < starts[i] + segments[i].duration}
           rate(i, t) == segments[i].from
                           + ((segments[i].to - segments[i].from) * (t - starts[i]))
                                \div segments[i].duration
<1>9. ASSUME NEW t
      PROVE  RateAt(segments, t) = IF here(t) = {} THEN << >>
                                   ELSE <<rate(CHOOSE i \in here(t) : TRUE, t)>>
  BY DEF RateAt
<1>10. ASSUME NEW i \in 1..n PROVE starts[i] \in Nat /\ starts[i] + segments[i].duration = At(i)
  <2>1. i - 1 \in 0..n
    BY <1>1
  <2>2. starts[i] = At(i - 1) /\ At(i - 1) \in Nat
    BY <1>4, <1>5, <2>1
  <2>3. At(i) = At(i - 1) + segments[i].duration
    BY <1>1, <1>6
  <2> HIDE DEF starts
  <2> QED  BY <2>2, <2>3
<1>15. Sums(lengths) = starts
  BY <1>2
<1> HIDE DEF starts, n
<1>11. RateAt(segments, TotalDuration(segments)) = << >>
  <2>1. \A i \in 1..n : At(i) <= At(n)
    BY <1>1, <1>5
  <2>2. here(At(n)) = {}
    BY <1>1, <1>5, <1>10, <2>1
  <2> HIDE DEF here, rate
  <2> QED  BY <1>8, <1>9, <2>2
<1>12. ASSUME NEW i \in 1..n, NEW t \in starts[i] .. (starts[i] + lengths[i] - 1)
       PROVE  LET r == RateAt(segments, t)
                  ends == {segments[i].from, segments[i].to}
              IN r # << >> /\ (\E e \in ends : e <= r[1]) /\ (\E e \in ends : r[1] <= e)
  <2>1. t \in Nat /\ starts[i] <= t /\ t < At(i) /\ i \in here(t)
    BY <1>1, <1>10
  <2>2. ASSUME NEW j \in here(t) PROVE j = i
    <3>0. j \in 1..n /\ starts[j] <= t /\ t < At(j)
      BY <1>1, <1>10
    <3>1. CASE j < i
      <4>0. j \in 0..n /\ i - 1 \in 0..n /\ j <= i - 1
        BY <1>1, <3>0, <3>1
      <4>1. At(j) <= At(i - 1) /\ At(i - 1) = starts[i]
        BY <1>4, <1>5, <4>0
      <4> QED  BY <1>1, <1>5, <2>1, <3>0, <4>1
    <3>2. CASE j > i
      <4>0. i \in 0..n /\ j - 1 \in 0..n /\ i <= j - 1
        BY <1>1, <3>0, <3>2
      <4>1. At(i) <= At(j - 1) /\ At(j - 1) = starts[j]
        BY <1>4, <1>5, <3>0, <4>0
      <4> QED  BY <1>1, <1>5, <2>1, <3>0, <4>1
    <3> QED  BY <1>1, <3>0, <3>1, <3>2
  <2>3. RateAt(segments, t) = <<rate(i, t)>>
    <3>1. here(t) # {} /\ (CHOOSE j \in here(t) : TRUE) = i
      <4> HIDE DEF here
      <4> QED  BY <2>1, <2>2
    <3> HIDE DEF here, rate
    <3> QED  BY <1>9, <3>1
  <2> DEFINE a == segments[i].from
             b == segments[i].to
             d == segments[i].duration
             x == t - starts[i]
  <2>4. a \in Int /\ b \in Int /\ d \in Nat /\ x \in Nat /\ x < d
    <3>1. a \in Int /\ b \in Int /\ d \in Positive
      BY <1>1, <2>1 DEF Segments
    <3>2. starts[i] \in Nat /\ t >= starts[i] /\ t < starts[i] + d
      BY <1>10, <2>1
    <3> HIDE DEF a, b, d
    <3> QED  BY <1>1, <1>10, <2>1, <3>1, <3>2 DEF Positive
  <2>5. (a <= rate(i, t) \/ b <= rate(i, t)) /\ (rate(i, t) <= a \/ rate(i, t) <= b)
    <3>1. rate(i, t) = a + ((b - a) * x) \div d
      OBVIOUS
    <3> HIDE DEF a, b, d, x, rate
    <3> QED  BY <2>4, <3>1, Between
  <2> HIDE DEF rate
  <2> QED  BY <2>3, <2>5
<1>13. DOMAIN lengths = 1..n
  BY <1>1
<1> HIDE DEF here, rate
<1>14. FoldLeft(+, 0, lengths) = TotalDuration(segments)
  BY <1>7, <1>8
<1> QED  BY <1>11, <1>12, <1>13, <1>14, <1>15

---------------------------------------------------------------------------
\* From "validate" on there is a loaded configuration.
ConfigInv ==
    /\ input \in Inputs
    /\ pc \notin {"load", "exit"} => IsConfig(cfg)

\* LoadConfig makes one, LoadHAR leaves it one, and no other step changes it.
LEMMA ConfigStep ==
    ASSUME Library, TypedInputs, HeldInv, ConfigInv, [Next]_vars
    PROVE  ConfigInv'
<1> USE DEF ConfigInv, HeldInv, Before, Deferred
<1>1. CASE Help \/ ValidateConfig
  BY <1>1 DEF Help, ValidateConfig, Go, Fail
<1>2. CASE LoadConfig
  <2>1. cfg' = Load(input.doc, input.flags) /\ input' = input
    BY <1>2 DEF LoadConfig, Loaded
  <2>2. cfg' # Bad => IsConfig(cfg')
    BY <2>1, LoadRead
  <2> QED  BY <1>2, <2>1, <2>2 DEF LoadConfig, Go, Fail
<1>8. CASE LoadHAR
  BY <1>8, HARRead DEF LoadHAR, Go
<1>3. CASE InitTracing \/ BuildAuth \/ BuildFeeder \/ BuildRequesterStep
  BY <1>3 DEF InitTracing, BuildAuth, BuildFeeder, BuildRequesterStep, Go, Fail
<1>4. CASE Watch \/ StartRun \/ StopTicker \/ FinalSnapshot \/ TakeStats
  BY <1>4 DEF Watch, StartRun, StopTicker, FinalSnapshot, TakeStats, Go, Return
<1>5. CASE EvaluateThresholds \/ Report \/ Unwind
  BY <1>5 DEF EvaluateThresholds, Report, Unwind, Go, Return
<1>6. CASE Signal
  BY <1>6 DEF Signal, Handled
<1>7. CASE UNCHANGED programVars
  BY <1>7 DEF programVars
<1> QED
  BY <1>1, <1>2, <1>3, <1>4, <1>5, <1>6, <1>7, <1>8
     DEF Next, Main, vars, Tick, Snapshotting, Issue, Close, GraceOver, ReturnRun, Working, programVars

---------------------------------------------------------------------------
\* The statistics as they were taken, when every attempt had been counted.
Final ==
    /\ \E timing \in Timings :
          stats = [ok |-> made.ok, bad |-> made.bad, endpoints |-> bucket,
                   latency |-> timing.latency, seconds |-> timing.seconds]
    /\ Templates # << >> => Total(bucket) = made

\* What is known of the counts at each stage of Run.
StatsInv ==
    /\ tmpl \in [Workers -> Nat]
    /\ pc \in Before => made = NoCount
    /\ pc \in Before \cup {"watch", "start", "run", "final", "stats"} =>
          stats = NoStats /\ verdict = "none"
    /\ pc \in Deferred => EndpointsInv
    /\ stats # NoStats \/ verdict # "none" \/ pc \in {"thresholds", "report"} => Final

CountInv == GoodInv /\ TotalInv /\ StatsInv

\* With no request under way there is nothing left to count.
LEMMA AllCounted ==
    ASSUME WorkersInv, made \in Counts, running = {}, NEW sum \in Counts,
           NEW S, S \subseteq InEndpoints
    PROVE  Tallied(sum, S) <=> made = sum
<1>1. Uncounted(S, "ok") = {} /\ Uncounted(S, "bad") = {}
  BY DEF Uncounted, WorkersInv, InEndpoints
<1>2. Cardinality(Uncounted(S, "ok")) = 0 /\ Cardinality(Uncounted(S, "bad")) = 0
  BY <1>1, FS_EmptySet
<1>3. Tallied(sum, S) <=> made.ok = sum.ok /\ made.bad = sum.bad
  BY <1>1, <1>2 DEF Sides, Tallied, Counts
<1> QED  BY <1>3 DEF Counts

\* A setup begins with no counts at all.
LEMMA SetupEmpty ==
    ASSUME IsConfig(cfg), RunningInv, WorkersInv, tmpl \in [Workers -> Nat], made = NoCount,
           BuildRequesterStep, BuildRequester(cfg) # Bad
    PROVE  EndpointsInv'
<1> DEFINE r == BuildRequester(cfg)
<1>1. /\ setup' = Assembled(r) /\ made' = made /\ running' = running /\ step' = step
      /\ outcome' = outcome /\ tmpl' = tmpl /\ pc = "requester"
      /\ bucket' = [n \in {t.name : t \in ToSet(r.templates)} |-> NoCount]
  BY DEF BuildRequesterStep, runnerVars, requestVars
<1>2. setup'.templates = r.templates
  BY <1>1 DEF Assembled
<1> SUFFICES ASSUME Templates' # << >> PROVE EndpointsInv'
  BY DEF EndpointsInv
<1>3. r.templates # << >>
  BY <1>2 DEF Templates
<1>4. r.templates = [i \in DOMAIN cfg.endpoints |-> BuildEndpointTemplate(cfg, cfg.endpoints[i])]
  BY <1>3 DEF BuildRequester, EndpointTemplates, AllOrBad
<1>5. PICK n \in Nat : DOMAIN cfg.endpoints = 1..n
  <2>1. IsList(cfg.endpoints)
    BY DEF IsConfig, IsSettings, IsEndpoints
  <2> QED  BY <2>1, Listed
<1>6. DOMAIN setup'.templates = 1..n
  BY <1>2, <1>4, <1>5
<1> DEFINE Names == {NameOf(t) : t \in DOMAIN setup.templates}
<1>7. Names' = {t.name : t \in ToSet(r.templates)}
  BY <1>2 DEF NameOf, ToSet
<1>8. IsFiniteSet(Names')
  <2> DEFINE f == [i \in 1..n |-> r.templates[i].name]
  <2>1. IsFiniteSet(1..n)
    BY FS_Interval
  <2>2. Names' = {f[i] : i \in 1..n}
    BY <1>2, <1>6 DEF NameOf
  <2>3. f \in Surjection(1..n, Names')
    <3> HIDE DEF Names, r
    <3> QED  BY <2>2 DEF Surjection
  <2> HIDE DEF Names, f
  <2> QED  BY <2>1, <2>3, FS_Surjection
<1>9. bucket' = [k \in Names' |-> NoCount]
  BY <1>1, <1>7
<1>10. bucket' \in [Names' -> Counts] /\ Total(bucket') = NoCount
  <2>1. NoCount \in Counts
    BY DEF NoCount, Counts
  <2> HIDE DEF Names
  <2> QED  BY <1>8, <1>9, <2>1, NothingSums
<1>11. running = {}
  BY <1>1 DEF RunningInv
<1>12. Tallied(Total(bucket), InEndpoints)'
  <2>1. Uncounted(InEndpoints, "ok")' = {} /\ Uncounted(InEndpoints, "bad")' = {}
    BY <1>1, <1>11 DEF Uncounted, WorkersInv, InEndpoints
  <2>2. Cardinality(Uncounted(InEndpoints, "ok")') = 0 /\ Cardinality(Uncounted(InEndpoints, "bad")') = 0
    BY <2>1, FS_EmptySet
  <2>3. made' = NoCount /\ Total(bucket') = NoCount
    BY <1>1, <1>10
  <2> HIDE DEF r, Names
  <2>4. /\ made'.ok = Total(bucket').ok + Cardinality(Uncounted(InEndpoints, "ok")')
        /\ made'.bad = Total(bucket').bad + Cardinality(Uncounted(InEndpoints, "bad")')
    BY <2>1, <2>2, <2>3 DEF Sides, NoCount
  <2> QED  BY <2>4 DEF Tallied
<1> QED  BY <1>1, <1>6, <1>10, <1>11, <1>12 DEF EndpointsInv

\* A step that neither counts nor begins a setup.
LEMMA StatsKept ==
    ASSUME HeldInv, CountInv, [Next]_vars, ~(BuildRequesterStep /\ BuildRequester(cfg) # Bad),
           UNCHANGED <<bucket, step, outcome, tmpl, running, made, setup, shard>>
    PROVE  TotalInv' /\ StatsInv'
<1> USE DEF HeldInv, Before, Deferred
<1>1. /\ TotalInv' /\ tmpl' \in [Workers -> Nat] /\ made' = made
      /\ EndpointsInv => EndpointsInv'
      /\ Final /\ stats' = stats => Final'
  <2>1. TotalInv' /\ tmpl' \in [Workers -> Nat]
    BY DEF CountInv, StatsInv, TotalInv, Tallied, Uncounted
  <2>2. EndpointsInv => EndpointsInv'
    BY DEF EndpointsInv, Tallied, Uncounted, Templates, NameOf
  <2>3. Final /\ stats' = stats => Final'
    BY DEF Final, Templates
  <2> QED  BY <2>1, <2>2, <2>3
<1>2. ASSUME Help \/ LoadConfig \/ ValidateConfig \/ LoadHAR PROVE StatsInv'
  BY <1>1, <1>2 DEF CountInv, StatsInv, Help, LoadConfig, ValidateConfig, LoadHAR, Go, Fail
<1>3. ASSUME InitTracing \/ BuildAuth \/ BuildFeeder PROVE StatsInv'
  BY <1>1, <1>3 DEF CountInv, StatsInv, InitTracing, BuildAuth, BuildFeeder, Go, Fail
<1>4. ASSUME BuildRequesterStep, BuildRequester(cfg) = Bad PROVE StatsInv'
  BY <1>1, <1>4 DEF CountInv, StatsInv, BuildRequesterStep, Fail
<1>5. ASSUME Watch \/ StartRun \/ StopTicker \/ FinalSnapshot PROVE StatsInv'
  BY <1>1, <1>5 DEF CountInv, StatsInv, Watch, StartRun, StopTicker, FinalSnapshot, Go, Return
<1>6. ASSUME EvaluateThresholds \/ Report \/ Unwind PROVE StatsInv'
  BY <1>1, <1>6 DEF CountInv, StatsInv, EvaluateThresholds, Report, Unwind, Go, Return
<1>7. ASSUME Signal PROVE StatsInv'
  BY <1>1, <1>7 DEF CountInv, StatsInv, Signal, Handled
<1>8. ASSUME UNCHANGED programVars PROVE StatsInv'
  BY <1>1, <1>8 DEF CountInv, StatsInv, programVars
<1>9. ASSUME TakeStats PROVE StatsInv'
  <2>1. running = {} /\ pc = "stats" /\ pc' = "thresholds" /\ verdict' = verdict
    BY <1>9 DEF CountInv, GoodInv, RunningInv, TakeStats, Go
  <2>2. Total(shard) = made
    <3>1. Total(shard) \in Counts
      <4>1. DOMAIN shard = Shards
        BY DEF CountInv, TotalInv
      <4> QED  BY <4>1, PartSums, TotalIsPartSum, ShardsFinite DEF CountInv, TotalInv
    <3>2. WorkersInv /\ made \in Counts /\ Tallied(Total(shard), InTotal)
      BY DEF CountInv, GoodInv, TotalInv
    <3>3. InTotal \subseteq InEndpoints
      BY DEF InTotal, InEndpoints
    <3> QED  BY <2>1, <3>1, <3>2, <3>3, AllCounted
  <2>3. Templates # << >> => Total(bucket) = made
    <3> SUFFICES ASSUME Templates # << >> PROVE Total(bucket) = made
      OBVIOUS
    <3> DEFINE Names == {NameOf(t) : t \in DOMAIN setup.templates}
    <3>1. /\ \E n \in Nat : DOMAIN setup.templates = 1..n
          /\ bucket \in [Names -> Counts] /\ Tallied(Total(bucket), InEndpoints)
      BY <2>1 DEF CountInv, StatsInv, EndpointsInv
    <3>2. IsFiniteSet(Names)
      BY <3>1, NamesFinite
    <3>3. Total(bucket) \in Counts
      <4>1. DOMAIN bucket = Names
        BY <3>1
      <4> HIDE DEF Names
      <4> QED  BY <3>1, <3>2, <4>1, PartSums, TotalIsPartSum
    <3>4. WorkersInv /\ made \in Counts
      BY DEF CountInv, GoodInv, TotalInv
    <3> QED  BY <2>1, <3>1, <3>3, <3>4, AllCounted
  <2>4. \E timing \in Timings :
           stats' = [ok |-> made.ok, bad |-> made.bad, endpoints |-> bucket,
                     latency |-> timing.latency, seconds |-> timing.seconds]
    BY <1>9, <2>2 DEF TakeStats
  <2>5. Final'
    BY <2>3, <2>4 DEF Final, Templates
  <2>6. EndpointsInv
    BY <2>1 DEF CountInv, StatsInv
  <2> QED  BY <1>1, <2>1, <2>5, <2>6 DEF StatsInv
<1>10. ASSUME Main PROVE StatsInv'
  BY <1>2, <1>3, <1>4, <1>5, <1>6, <1>9, <1>10 DEF Main
<1>11. ASSUME ~Main, ~Signal PROVE StatsInv'
  <2>1. UNCHANGED programVars
    BY <1>11 DEF Next, vars, Tick, Snapshotting, Issue, Close, GraceOver, ReturnRun, Working
  <2> QED  BY <1>8, <2>1
<1> QED  BY <1>1, <1>7, <1>10, <1>11

\* The counts stay in step with the attempts.
LEMMA CountStep ==
    ASSUME HeldInv, ConfigInv, CountInv, [Next]_vars
    PROVE  CountInv'
<1>1. GoodInv'
  BY GoodStep DEF CountInv
<1> USE DEF HeldInv, Before, Deferred
<1>2. ASSUME BuildRequesterStep, BuildRequester(cfg) # Bad
      PROVE  CountInv'
  <2>1. /\ pc = "requester" /\ pc' = "watch"
        /\ UNCHANGED <<stats, verdict, shard, step, outcome, tmpl, running, made>>
    BY <1>2 DEF BuildRequesterStep, Go, runnerVars, requestVars
  <2>2. TotalInv' /\ tmpl' \in [Workers -> Nat]
    BY <2>1 DEF CountInv, StatsInv, TotalInv, Tallied, Uncounted
  <2>3. EndpointsInv'
    BY <1>2, <2>1, SetupEmpty DEF CountInv, GoodInv, ConfigInv, StatsInv
  <2>4. StatsInv'
    BY <2>1, <2>2, <2>3 DEF CountInv, StatsInv
  <2> QED  BY <1>1, <2>2, <2>4 DEF CountInv
<1>3. ASSUME NEW w \in Workers, Working(w)
      PROVE  CountInv'
  <2>1. /\ pc = "run" /\ pc' = pc /\ WorkerStep(w) /\ UNCHANGED <<stats, verdict>>
    BY <1>3 DEF Working, programVars
  <2>2. TotalInv' /\ EndpointsInv'
    BY <2>1, TotalStep, EndpointsStep DEF CountInv, GoodInv, TotalInv, StatsInv
  <2>3. tmpl' \in [Workers -> Nat]
    <3>1. CASE Begin(w)
      <4>1. CASE Templates = << >>
        <5>1. tmpl' = [tmpl EXCEPT ![w] = 0]
          BY <3>1, <4>1 DEF Begin
        <5> QED  BY <5>1 DEF CountInv, StatsInv
      <4>2. CASE Templates # << >>
        <5>1. Templates' = Templates
          BY <3>1 DEF Begin, Templates
        <5> QED  BY <2>2, <4>2, <5>1 DEF EndpointsInv
      <4> QED  BY <4>1, <4>2
    <3>2. CASE End(w)
      <4>1. tmpl' = [tmpl EXCEPT ![w] = 0]
        BY <3>2 DEF End
      <4> QED  BY <4>1 DEF CountInv, StatsInv
    <3>3. CASE ~Begin(w) /\ ~End(w)
      <4>1. tmpl' = tmpl
        BY <2>1, <3>3 DEF WorkerStep, Check, Build, BuildFails, Send, Record, RecordEndpoint, Resume
      <4> QED  BY <4>1 DEF CountInv, StatsInv
    <3> QED  BY <3>1, <3>2, <3>3
  <2>4. stats = NoStats /\ verdict = "none"
    BY <2>1 DEF CountInv, StatsInv
  <2>5. StatsInv'
    BY <2>1, <2>2, <2>3, <2>4 DEF StatsInv
  <2> QED  BY <1>1, <2>2, <2>5 DEF CountInv
<1>4. ASSUME ~(BuildRequesterStep /\ BuildRequester(cfg) # Bad), ~ \E w \in Workers : Working(w)
      PROVE  CountInv'
  <2>1. CASE Main
    <3>1. UNCHANGED <<bucket, step, outcome, tmpl, running, made, setup, shard>>
      BY <1>4, <2>1 DEF Main, Help, LoadConfig, ValidateConfig, LoadHAR, InitTracing, BuildAuth,
         BuildFeeder, BuildRequesterStep, Watch, StartRun, StopTicker, FinalSnapshot, TakeStats,
         EvaluateThresholds, Report, Unwind, requestsVars, runnerVars, requestVars, collectorVars,
         StartSnapshot
    <3> QED  BY <1>1, <1>4, <3>1, StatsKept DEF CountInv
  <2>2. CASE ~Main
    <3>1. UNCHANGED <<bucket, step, outcome, tmpl, running, made, setup, shard>>
      BY <1>4, <2>2 DEF Next, Signal, Tick, Snapshotting, Issue, Close, GraceOver, ReturnRun, vars,
         runnerVars, requestVars, collectorVars, StartSnapshot, ReadShard, EndSnapshot,
         Runner!Issue, Runner!Close, Runner!Return
    <3> QED  BY <1>1, <1>4, <3>1, StatsKept DEF CountInv
  <2> QED  BY <2>1, <2>2
<1> QED  BY <1>2, <1>3, <1>4

\* The invariants of the statistics hold from the start.
LEMMA CountInit ==
    ASSUME Init
    PROVE  HeldInv /\ ConfigInv /\ CountInv
<1>1. HeldInv /\ ConfigInv
  BY DEF Init, HeldInv, ConfigInv, Before, Deferred
<1>2. GoodInv
  BY GoodInit
<1>3. /\ shard = [i \in Shards |-> NoCount] /\ made = NoCount /\ tmpl = [w \in Workers |-> 0]
      /\ pc = "load" /\ stats = NoStats /\ verdict = "none" /\ step = [w \in Workers |-> "idle"]
  BY DEF Init, RequestsInit
<1>4. Total(shard) = NoCount /\ NoCount \in Counts
  BY <1>3, NothingSums, ShardsFinite DEF NoCount, Counts
<1>5. Uncounted(InTotal, "ok") = {} /\ Uncounted(InTotal, "bad") = {}
  BY <1>3 DEF Uncounted, InTotal
<1>6. Cardinality(Uncounted(InTotal, "ok")) = 0 /\ Cardinality(Uncounted(InTotal, "bad")) = 0
  BY <1>5, FS_EmptySet
<1>7. Tallied(Total(shard), InTotal)
  BY <1>3, <1>4, <1>6 DEF Tallied, Counts
<1>8. TotalInv
  BY <1>3, <1>4, <1>7 DEF TotalInv
<1>9. StatsInv
  BY <1>3 DEF StatsInv, Before, Deferred
<1> QED  BY <1>1, <1>2, <1>8, <1>9 DEF CountInv

\* The final statistics are those of the attempts that were made, however the
\* workers, the ticker and the signal interleave (Stats against RecordRequest
\* and the endpoints' buckets).
THEOREM StatsAreExact == Library /\ TypedInputs => (Spec => []StatsExact)
<1> SUFFICES ASSUME Library, TypedInputs PROVE Spec => []StatsExact
  OBVIOUS
<1>1. Init => HeldInv /\ ConfigInv /\ CountInv
  BY CountInit
<1>2. HeldInv /\ ConfigInv /\ CountInv /\ [Next]_vars => HeldInv' /\ ConfigInv' /\ CountInv'
  BY HeldStep, ConfigStep, CountStep
<1>3. CountInv => StatsExact
  <2> SUFFICES ASSUME CountInv, stats # NoStats
               PROVE  /\ stats.ok = made.ok /\ stats.bad = made.bad
                      /\ Templates # << >> => Total(stats.endpoints) = made
    BY DEF StatsExact
  <2>1. Final
    BY DEF CountInv, StatsInv
  <2>2. stats.ok = made.ok /\ stats.bad = made.bad /\ stats.endpoints = bucket
    BY <2>1 DEF Final
  <2> QED  BY <2>1, <2>2 DEF Final
<1> QED  BY <1>1, <1>2, <1>3, PTL DEF Spec

---------------------------------------------------------------------------
(***************************************************************************)
(* What exit status 0 says.                                                *)
(***************************************************************************)
Capped == cfg.total > 0 => executed <= cfg.total

\* The run issues no more slots than it may, and the thresholds passed.
ExitInv ==
    /\ running \in SUBSET Workers
    /\ pc \in Before \cup {"watch", "start"} => waiting = 0 /\ executed = 0
    /\ pc \in {"run", "final", "stats", "thresholds", "report"} =>
          /\ cap \in Nat /\ waiting \in Nat
          /\ cfg.total > 0 => cap = cfg.total
          /\ waiting + Cardinality(running) + executed <= cap
    /\ pc \in {"unwind", "exit"} \/ code # "good"
    /\ code = "good" => Capped /\ verdict = "pass"
    /\ verdict = "pass" =>
          \A i \in DOMAIN cfg.thresholds :
             LET t == ParseThreshold(cfg.thresholds[i]) IN t # Malformed /\ Passes(t, stats)

\* The requests in flight are finitely many.
LEMMA RunningFinite ==
    ASSUME running \in SUBSET Workers
    PROVE  IsFiniteSet(running) /\ Cardinality(running) \in Nat
BY RequestsAssumption, FS_Subset, FS_CardinalityType

\* A pass is a pass of each threshold.
LEMMA PassMeansEach ==
    ASSUME EvaluateThresholds, verdict' = "pass", verdict # "pass"
    PROVE  \A i \in DOMAIN cfg'.thresholds :
              LET t == ParseThreshold(cfg'.thresholds[i]) IN t # Malformed /\ Passes(t, stats')
<1> DEFINE parsed == [i \in DOMAIN cfg.thresholds |-> ParseThreshold(cfg.thresholds[i])]
<1>1. UNCHANGED <<cfg, stats>>
  BY DEF EvaluateThresholds
<1>2. ParseMultiple(cfg.thresholds) # Malformed /\ AllPass(ParseMultiple(cfg.thresholds), stats)
  BY DEF EvaluateThresholds, Return
<1>3. ParseMultiple(cfg.thresholds) = parsed /\ \A i \in DOMAIN parsed : parsed[i] # Malformed
  BY <1>2 DEF ParseMultiple
<1>4. \A i \in DOMAIN cfg.thresholds :
         ParseThreshold(cfg.thresholds[i]) # Malformed /\ Passes(ParseThreshold(cfg.thresholds[i]), stats)
  BY <1>2, <1>3 DEF AllPass
<1> QED  BY <1>1, <1>4

\* The runner's Cardinality is that of this module.
LEMMA RunnerCardinality == \A S : Runner!Cardinality(S) = Cardinality(S)
BY DEF Runner!Cardinality, Cardinality

\* Each step keeps what a good exit will rest on.
LEMMA ExitStep ==
    ASSUME HeldInv, ConfigInv, CountInv, ExitInv, [Next]_vars
    PROVE  ExitInv'
<1> USE DEF HeldInv, Before, Deferred
<1> DEFINE Passed == \A i \in DOMAIN cfg.thresholds :
                        LET t == ParseThreshold(cfg.thresholds[i]) IN t # Malformed /\ Passes(t, stats)
<1>1. executed \in Nat /\ (pc \in Before \cup {"watch", "start", "run", "final", "stats"} => verdict = "none")
  BY DEF CountInv, GoodInv, SuccessInv, StatsInv
<1>2. ASSUME UNCHANGED <<cap, waiting, running, executed>>
      PROVE  running' \in SUBSET Workers
  BY <1>2 DEF ExitInv
<1>3. CASE Help \/ LoadConfig \/ ValidateConfig \/ LoadHAR
  BY <1>1, <1>3 DEF ExitInv, Capped, Help, LoadConfig, ValidateConfig, LoadHAR, Go, Fail, requestsVars,
                    runnerVars
<1>4. CASE InitTracing \/ BuildAuth \/ BuildFeeder
  BY <1>1, <1>4 DEF ExitInv, Capped, InitTracing, BuildAuth, BuildFeeder, Go, Fail, requestsVars, runnerVars
<1>5. CASE BuildRequesterStep
  BY <1>1, <1>5 DEF ExitInv, Capped, BuildRequesterStep, Go, Fail, runnerVars
<1>6. CASE Watch
  BY <1>1, <1>6 DEF ExitInv, Capped, Watch, Go, Return, requestsVars, runnerVars
<1>7. CASE StartRun
  <2>1. /\ pc = "start" /\ pc' = "run" /\ cap' = IF cfg.total > 0 THEN cfg.total ELSE MaxSlots
        /\ UNCHANGED <<cfg, waiting, running, executed, code, verdict, stats>>
    BY <1>7 DEF StartRun, Go
  <2>2. running = {} /\ cfg.total \in Int /\ MaxSlots \in Nat /\ waiting = 0 /\ executed = 0
    BY <2>1, ProgramAssumption DEF CountInv, GoodInv, RunningInv, ConfigInv, IsConfig, IsSettings, ExitInv
  <2>3. Cardinality(running) = 0
    BY <2>2, FS_EmptySet
  <2>4. cap' \in Nat /\ (cfg.total > 0 => cap' = cfg.total) /\ waiting + Cardinality(running) + executed <= cap'
    BY <2>1, <2>2, <2>3
  <2> QED  BY <1>1, <2>1, <2>2, <2>4 DEF ExitInv
<1>8. CASE StopTicker \/ FinalSnapshot \/ TakeStats
  BY <1>1, <1>8 DEF ExitInv, Capped, StopTicker, FinalSnapshot, TakeStats, Go, requestsVars, runnerVars,
                    StartSnapshot
<1>9. CASE EvaluateThresholds
  <2>1. /\ pc = "thresholds" /\ pc' \in {"unwind", "report"} /\ code' # "good"
        /\ UNCHANGED <<cfg, cap, waiting, running, executed, stats>>
    BY <1>9 DEF ExitInv, EvaluateThresholds, Go, Return, requestsVars, runnerVars
  <2>2. verdict' = "pass" => Passed'
    <3>1. CASE verdict = "pass"
      BY <2>1, <3>1 DEF ExitInv
    <3>2. CASE verdict # "pass"
      BY <1>9, <3>2, PassMeansEach
    <3> QED  BY <3>1, <3>2
  <2> QED  BY <2>1, <2>2 DEF ExitInv
<1>10. CASE Report
  <2>1. /\ pc = "report" /\ pc' = "unwind" /\ (code' = "good" => verdict = "pass")
        /\ UNCHANGED <<cfg, cap, waiting, running, executed, stats, verdict>>
    BY <1>10 DEF Report, Return, requestsVars, runnerVars
  <2>2. Capped
    <3>1. running \in SUBSET Workers /\ waiting \in Nat /\ waiting + Cardinality(running) + executed <= cap
            /\ (cfg.total > 0 => cap = cfg.total) /\ cfg.total \in Int
      BY <2>1 DEF ExitInv, ConfigInv, IsConfig, IsSettings
    <3>2. Cardinality(running) \in Nat
      BY <3>1, RunningFinite
    <3> QED  BY <1>1, <3>1, <3>2 DEF Capped
  <2> QED  BY <2>1, <2>2 DEF ExitInv, Capped
<1>11. CASE Unwind
  BY <1>11 DEF ExitInv, Capped, Unwind, requestsVars, runnerVars
<1>12. CASE Signal
  BY <1>12 DEF ExitInv, Capped, Signal, Handled, runnerVars
<1>13. ASSUME NEW w \in Workers, Working(w)
       PROVE  ExitInv'
  <2>1. /\ pc = "run" /\ WorkerStep(w)
        /\ UNCHANGED <<pc, cfg, code, verdict, stats>>
    BY <1>13 DEF Working, programVars
  <2>2. /\ cap \in Nat /\ waiting \in Nat /\ running \in SUBSET Workers
        /\ waiting + Cardinality(running) + executed <= cap
        /\ IsFiniteSet(running) /\ Cardinality(running) \in Nat
    BY <2>1, RunningFinite DEF ExitInv
  <2>3. /\ cap' = cap /\ waiting' \in Nat /\ running' \in SUBSET Workers
        /\ waiting' + Cardinality(running') + executed' <= cap
    <3>1. CASE Begin(w)
      <4>1. /\ waiting > 0 /\ waiting' = waiting - 1 /\ w \notin running /\ running' = running \cup {w}
            /\ UNCHANGED <<cap, executed>>
        BY <3>1 DEF Begin, Runner!Begin
      <4>2. Cardinality(running') = Cardinality(running) + 1
        BY <2>2, <4>1, FS_AddElement
      <4> QED  BY <1>1, <2>2, <4>1, <4>2
    <3>2. CASE End(w)
      <4>1. /\ w \in running /\ running' = running \ {w} /\ executed' = executed + 1
            /\ UNCHANGED <<cap, waiting>>
        BY <3>2 DEF End, Runner!End
      <4>2. Cardinality(running') = Cardinality(running) - 1
        BY <2>2, <4>1, FS_RemoveElement
      <4> QED  BY <1>1, <2>2, <4>1, <4>2
    <3>3. CASE ~Begin(w) /\ ~End(w)
      <4>1. UNCHANGED <<cap, waiting, running, executed>>
        BY <2>1, <3>3 DEF WorkerStep, Check, Build, BuildFails, Send, Record, RecordEndpoint, Resume, runnerVars
      <4> QED  BY <2>2, <4>1
    <3> QED  BY <3>1, <3>2, <3>3
  <2> QED  BY <2>1, <2>2, <2>3 DEF ExitInv
<1>14. CASE Issue
  <2>0. pc = "run" /\ UNCHANGED <<pc, cfg, code, verdict, stats>>
    BY <1>14 DEF Issue, programVars
  <2>1. /\ waiting + Cardinality(running) + executed < cap /\ waiting' = waiting + 1
        /\ UNCHANGED <<cap, running, executed>>
    BY <1>14, RunnerCardinality DEF Issue, Runner!Issue
  <2>2. /\ cap \in Nat /\ waiting \in Nat /\ running \in SUBSET Workers /\ Cardinality(running) \in Nat
    BY <2>0, RunningFinite DEF ExitInv
  <2>3. waiting' \in Nat /\ waiting' + Cardinality(running) + executed <= cap
    BY <1>1, <2>1, <2>2
  <2> QED  BY <2>0, <2>1, <2>2, <2>3 DEF ExitInv
<1>15. CASE Tick \/ Snapshotting \/ Close \/ GraceOver \/ ReturnRun \/ UNCHANGED vars
  <2>1. UNCHANGED <<pc, cfg, code, verdict, stats, cap, waiting, running, executed>>
    BY <1>15 DEF Tick, Snapshotting, Close, GraceOver, ReturnRun, ReadShard, EndSnapshot, StartSnapshot,
                 Runner!Close, Runner!Return, vars, programVars, runnerVars
  <2> QED  BY <2>1 DEF ExitInv, Capped
<1> QED
  BY <1>3, <1>4, <1>5, <1>6, <1>7, <1>8, <1>9, <1>10, <1>11, <1>12, <1>13, <1>14, <1>15 DEF Next, Main

\* Exit status 0 means what it says: every request that was begun succeeded in
\* the end, no more were begun than --total allows, and the attempts satisfy
\* every threshold (Run, AfterAttempt, Check).
THEOREM GoodExits == Library /\ TypedInputs => (Spec => []ExitMeansGood)
<1> SUFFICES ASSUME Library, TypedInputs PROVE Spec => []ExitMeansGood
  OBVIOUS
<1> DEFINE Inv == HeldInv /\ ConfigInv /\ CountInv /\ ExitInv
<1>1. Init => Inv
  <2> SUFFICES ASSUME Init PROVE ExitInv
    BY CountInit
  <2> QED  BY DEF Init, RequestsInit, Runner!Init, ExitInv, Before
<1>2. Inv /\ [Next]_vars => Inv'
  BY HeldStep, ConfigStep, CountStep, ExitStep
<1>3. Inv => ExitMeansGood
  <2> SUFFICES ASSUME Inv, code = "good" PROVE ExitMeansGood
    BY DEF ExitMeansGood
  <2>1. made.ok = executed
    BY GoodCounts DEF CountInv
  <2>2. Capped /\ verdict = "pass"
    BY DEF ExitInv
  <2>3. [stats EXCEPT !.ok = made.ok, !.bad = made.bad] = stats
    <3>1. PICK timing \in Timings :
             stats = [ok |-> made.ok, bad |-> made.bad, endpoints |-> bucket,
                      latency |-> timing.latency, seconds |-> timing.seconds]
      BY <2>2 DEF CountInv, StatsInv, Final
    <3>2. stats = [x \in DOMAIN stats |-> stats[x]] /\ stats.ok = made.ok /\ stats.bad = made.bad
      BY <3>1
    <3>3. \A D : stats = [x \in D |-> stats[x]] => [stats EXCEPT !.ok = stats.ok, !.bad = stats.bad] = stats
      OBVIOUS
    <3> QED  BY <3>2, <3>3
  <2>4. \A i \in DOMAIN cfg.thresholds :
           LET t == ParseThreshold(cfg.thresholds[i]) IN t # Malformed /\ Passes(t, stats)
    BY <2>2 DEF ExitInv
  <2> QED  BY <2>1, <2>2, <2>3, <2>4 DEF ExitMeansGood, Capped
<1> QED  BY <1>1, <1>2, <1>3, PTL DEF Spec

---------------------------------------------------------------------------
(***************************************************************************)
(* What Validate accepted is built.                                        *)
(***************************************************************************)
BuiltInv ==
    /\ pc = "har" => Validate(cfg)
    /\ pc \in {"tracing", "auth", "feeder", "requester"} =>
          \E c : IsConfig(c) /\ Validate(c) /\ cfg = LoadHAREndpoints(c)
    /\ pc \in Before => why = ""
    /\ AcceptedIsBuilt

\* Each step of Run keeps it.
LEMMA BuiltStep ==
    ASSUME Library, HeldInv, ConfigInv, BuiltInv, [Next]_vars
    PROVE  BuiltInv'
<1> USE DEF Before
<1>1. ASSUME UNCHANGED <<cfg, why>> PROVE AcceptedIsBuilt'
  BY <1>1 DEF BuiltInv, AcceptedIsBuilt, Unbuildable, Bodies
<1>2. ASSUME why' \notin {"auth", "feeder", "tracing", "requester"} PROVE AcceptedIsBuilt'
  BY <1>2 DEF AcceptedIsBuilt
<1>3. ASSUME UNCHANGED <<pc, cfg, why>> PROVE BuiltInv'
  BY <1>1, <1>3 DEF BuiltInv
<1>4. ASSUME pc' \in Deferred \cup {"exit"}, UNCHANGED <<cfg, why>> PROVE BuiltInv'
  BY <1>1, <1>4 DEF BuiltInv, Deferred
<1>5. ASSUME pc' \in Deferred \cup {"exit"}, why' \notin {"auth", "feeder", "tracing", "requester"}
      PROVE  BuiltInv'
  BY <1>2, <1>5 DEF BuiltInv, Deferred
<1>6. ASSUME pc \in {"tracing", "auth", "feeder"}, pc' \in {"auth", "feeder", "requester"},
             UNCHANGED <<cfg, why>>
      PROVE  BuiltInv'
  BY <1>1, <1>6 DEF BuiltInv
<1>7. ASSUME pc \in {"tracing", "auth", "feeder", "requester"}
      PROVE  \E c : IsConfig(c) /\ Validate(c) /\ cfg = LoadHAREndpoints(c)
                      /\ \A f \in {"auth", "feeder"} : cfg[f] = c[f]
  <2>1. PICK c : IsConfig(c) /\ Validate(c) /\ cfg = LoadHAREndpoints(c)
    BY <1>7 DEF BuiltInv
  <2>2. {"auth", "feeder"} \subseteq Settings \ {"endpoints"}
    BY DEF Settings, SectionNames
  <2>3. \A f \in {"auth", "feeder"} : cfg[f] = c[f]
    BY <2>1, <2>2, HARRead
  <2> QED  BY <2>1, <2>3
<1>8. CASE Help
  BY <1>4, <1>8 DEF Help
<1>9. CASE LoadConfig
  <2>1. \/ pc' = "exit" /\ why' = "load"
        \/ pc' = "validate" /\ why' = why
    BY <1>9 DEF LoadConfig, Fail, Go
  <2>2. why = ""
    BY <1>9 DEF LoadConfig, BuiltInv
  <2> QED  BY <1>2, <1>5, <2>1, <2>2 DEF BuiltInv
<1>10. CASE ValidateConfig
  <2>1. \/ pc' = "exit" /\ why' = "validate"
        \/ pc' = "har" /\ why' = why /\ Validate(cfg)
    BY <1>10 DEF ValidateConfig, Fail, Go
  <2>2. why = "" /\ cfg' = cfg
    BY <1>10 DEF ValidateConfig, BuiltInv
  <2> QED  BY <1>1, <1>5, <2>1, <2>2 DEF BuiltInv
<1>11. CASE LoadHAR
  <2>1. pc = "har" /\ pc' = "tracing" /\ why' = why /\ cfg' = LoadHAREndpoints(cfg)
    BY <1>11 DEF LoadHAR, Go
  <2>2. why = "" /\ Validate(cfg) /\ IsConfig(cfg)
    BY <2>1 DEF BuiltInv, ConfigInv
  <2> QED  BY <1>2, <2>1, <2>2 DEF BuiltInv
<1>12. CASE InitTracing
  <2>1. cfg' = cfg /\ pc = "tracing"
    BY <1>12 DEF InitTracing
  <2>2. CASE TracingOK(cfg.tracing)
    <3>1. pc' = "auth" /\ why' = why
      BY <1>12, <2>2 DEF InitTracing, Go
    <3> QED  BY <1>6, <2>1, <3>1
  <2>3. CASE ~TracingOK(cfg.tracing)
    <3>1. pc' = "exit" /\ why' = "tracing"
      BY <1>12, <2>3 DEF InitTracing, Fail
    <3>2. cfg.tracing.protocol \notin {"", "grpc", "http"} \/ cfg.tracing.sample_rate \notin 0..10
      BY <2>3 DEF TracingOK
    <3> QED  BY <2>1, <3>1, <3>2 DEF BuiltInv, AcceptedIsBuilt
  <2> QED  BY <2>2, <2>3
<1>13. CASE BuildAuth
  <2>1. cfg' = cfg /\ pc = "auth"
    BY <1>13 DEF BuildAuth
  <2>2. PICK c : Validate(c) /\ cfg.auth = c.auth
    BY <1>7, <2>1
  <2>3. BuildAuthProvider(cfg) # Bad
    <3>1. BuildAuthProvider(c) # Bad
      BY <2>2, AuthBuilt DEF Validate
    <3> QED  BY <2>2, <3>1 DEF BuildAuthProvider
  <2>4. pc' = "feeder" /\ why' = why
    BY <1>13, <2>3 DEF BuildAuth, Go
  <2> QED  BY <1>6, <2>1, <2>4
<1>14. CASE BuildFeeder
  <2>1. cfg' = cfg /\ pc = "feeder"
    BY <1>14 DEF BuildFeeder
  <2>2. CASE BuildDataFeeder(cfg) # Bad
    <3>1. pc' = "requester" /\ why' = why
      BY <1>14, <2>2 DEF BuildFeeder, Go
    <3> QED  BY <1>6, <2>1, <3>1
  <2>3. CASE BuildDataFeeder(cfg) = Bad
    <3>1. pc' = "exit" /\ why' = "feeder"
      BY <1>14, <2>3 DEF BuildFeeder, Fail
    <3>2. PICK c : Validate(c) /\ cfg.feeder = c.feeder
      BY <1>7, <2>1
    <3>3. ValidFeeder(cfg)
      BY <3>2 DEF Validate, ValidFeeder
    <3>4. ReadFeeder(Trim(cfg.feeder.path), cfg.feeder.type) = Bad
      BY <2>3, <3>3, FeederBuilt
    <3> QED  BY <2>1, <3>1, <3>4 DEF BuiltInv, AcceptedIsBuilt
  <2> QED  BY <2>2, <2>3
<1>15. CASE BuildRequesterStep
  <2>1. cfg' = cfg /\ pc = "requester"
    BY <1>15 DEF BuildRequesterStep
  <2>2. CASE BuildRequester(cfg) # Bad
    <3>1. pc' = "watch" /\ why' = why
      BY <1>15, <2>2 DEF BuildRequesterStep, Go
    <3> QED  BY <1>4, <2>1, <3>1 DEF Deferred
  <2>3. CASE BuildRequester(cfg) = Bad
    <3>1. pc' = "exit" /\ why' = "requester"
      BY <1>15, <2>3 DEF BuildRequesterStep, Fail
    <3>2. Unbuildable
      BY <1>7, <2>1, <2>3, RequesterBuilt
    <3>3. Unbuildable'
      BY <2>1, <3>2 DEF Unbuildable, Bodies
    <3> QED  BY <3>1, <3>3 DEF BuiltInv, AcceptedIsBuilt
  <2> QED  BY <2>2, <2>3
<1>16. CASE Watch \/ EvaluateThresholds \/ Report
  <2>1. pc \in Deferred /\ pc' \in Deferred /\ cfg' = cfg
          /\ (why' = why \/ why' \in {"dashboard", "thresholds", "report", "verdict", "errors", ""})
    BY <1>16 DEF Watch, EvaluateThresholds, Report, Go, Return, Deferred
  <2> QED  BY <1>4, <1>5, <2>1
<1>17. CASE StartRun \/ StopTicker \/ FinalSnapshot \/ TakeStats \/ Unwind
  <2>1. pc' \in Deferred \cup {"exit"} /\ UNCHANGED <<cfg, why>>
    BY <1>17 DEF StartRun, StopTicker, FinalSnapshot, TakeStats, Unwind, Go, Deferred
  <2> QED  BY <1>4, <2>1
<1>18. CASE Signal
  <2>1. (pc' = pc \/ pc' = "exit") /\ UNCHANGED <<cfg, why>>
    BY <1>18 DEF Signal
  <2> QED  BY <1>3, <1>4, <2>1
<1>19. CASE UNCHANGED programVars
  BY <1>3, <1>19 DEF programVars
<1> QED
  BY <1>8, <1>9, <1>10, <1>11, <1>12, <1>13, <1>14, <1>15, <1>16, <1>17, <1>18, <1>19
     DEF Next, Main, vars, Tick, Snapshotting, Issue, Close, GraceOver, ReturnRun, Working, programVars

\* Nothing has failed at first.
LEMMA BuiltInit ==
    ASSUME Init
    PROVE  HeldInv /\ ConfigInv /\ BuiltInv
BY DEF Init, HeldInv, ConfigInv, BuiltInv, AcceptedIsBuilt, Before, Deferred

\* What Validate accepts fails to be built only for the reasons that Validate
\* cannot see (BuildRunner in build.go against config.go), for whatever input
\* Load makes a configuration of.
THEOREM AcceptedConfigsAreBuilt == Library /\ TypedInputs => (Spec => []AcceptedIsBuilt)
<1> SUFFICES ASSUME Library, TypedInputs PROVE Spec => []AcceptedIsBuilt
  OBVIOUS
<1>1. Init => HeldInv /\ ConfigInv /\ BuiltInv
  BY BuiltInit
<1>2. HeldInv /\ ConfigInv /\ BuiltInv /\ [Next]_vars => HeldInv' /\ ConfigInv' /\ BuiltInv'
  BY HeldStep, ConfigStep, BuiltStep
<1>3. BuiltInv => AcceptedIsBuilt
  BY DEF BuiltInv
<1> QED  BY <1>1, <1>2, <1>3, PTL DEF Spec

\* The dashboard and the runner have the same schedule, of any patterns that
\* Validate accepts, and a segment's rate stays between its ends
\* (compilePatternPlan and rateAt against buildLoadPattern).
THEOREM SchedulesMatch == Library /\ TypedInputs => (Spec => []DashboardAgrees)
<1> SUFFICES ASSUME Library, TypedInputs PROVE Spec => []DashboardAgrees
  OBVIOUS
<1>1. Init => HeldInv /\ ConfigInv /\ BuiltInv
  BY BuiltInit
<1>2. HeldInv /\ ConfigInv /\ BuiltInv /\ [Next]_vars => HeldInv' /\ ConfigInv' /\ BuiltInv'
  BY HeldStep, ConfigStep, BuiltStep
<1>3. ConfigInv /\ BuiltInv => DashboardAgrees
  <2> SUFFICES ASSUME ConfigInv, BuiltInv, pc = "har",
                      ~(\E p \in ToSet(cfg.load_patterns) : Constant(p))
               PROVE  DashboardAgrees
    BY DEF DashboardAgrees
  <2> DEFINE ps == cfg.load_patterns
  <2>1. IsPatterns(ps)
    BY DEF ConfigInv, IsConfig, IsSettings
  <2>2. \A i \in DOMAIN ps : ValidLoadPattern(ps[i]) /\ ps[i].type # "constant"
    <3>1. \A i \in DOMAIN ps : ValidLoadPattern(ps[i])
      BY DEF BuiltInv, Validate
    <3>2. \A i \in DOMAIN ps : ~Constant(ps[i])
      BY DEF ToSet
    <3> QED  BY <3>1, <3>2 DEF Constant
  <2>3. /\ Plan \in Seq(Segments) /\ Timeline(ps) \in Seq(Positive)
        /\ Agree(Plan, Timeline(ps))
    <3> HIDE DEF ps
    <3>1. Plan = CompilePatternPlan(ps)
      BY DEF Plan, ps
    <3> QED  BY <2>1, <2>2, <3>1, SchedulesAgree
  <2> QED  BY <2>3, ScheduleDriven DEF DashboardAgrees
<1> QED  BY <1>1, <1>2, <1>3, PTL DEF Spec
=============================================================================
