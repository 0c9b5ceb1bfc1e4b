----------------------------- MODULE SetRunner -----------------------------
(***************************************************************************)
(* setrunner.Run in the process Main: read the set, create the run record, *)
(* run the stages, judge the thresholds, finalise the record.  The items   *)
(* of a stage are goroutines of their own; each reads its session, builds  *)
(* its run, executes it and merges its result under the stage's mutex.     *)
(*                                                                         *)
(* The builder is cliBuilderAdapter, the only one the program has: once    *)
(* built, an item's run reports no error, whatever became of its requests, *)
(* and also when the context was cancelled.                                *)
(***************************************************************************)
EXTENDS Store, Integers, FiniteSets, Sequences, FiniteSetsExt

CONSTANTS
    Main,        \* the process
    SetFile,     \* the set's path
    Record,      \* the run record's path
    SessionFile, \* session id -> path
    Slots,       \* 1..n, the places of a stage's items
    Summaries,   \* what the run of an item can end with
    Env,         \* the environment: reference -> value
    NoSet,       \* no set has been read
    NoConfig     \* no configuration has been computed

VARIABLES
    pc,          \* where Run is
    set,         \* the set it read
    stageNo,     \* index of the stage under way, 0 before the first
    itemPc,      \* where each item of the stage is
    config,      \* runItem's cfg
    result,      \* runItem's res
    perItem,     \* item name -> snapshot
    anyFail,     \* an item of the stage failed
    stages,      \* run.Stages: the results of the stages that ended
    judged,      \* run.Thresholds
    cancelled,   \* the caller has cancelled ctx
    status       \* overallStatus, and in the end what Run returned

runVars == <<pc, set, stageNo, itemPc, config, result, perItem, anyFail, stages,
             judged, cancelled, status>>

EmptySet == [stages |-> << >>, thresholds |-> << >>]

\* An empty file unmarshals into the zero value.
DocOr(path, zero) == IF file[path] = Empty THEN zero ELSE file[path]
ZeroConfig == [fields |-> << >>, headers |-> << >>]

---------------------------------------------------------------------------
\* ApplyOverrides: fields that are set replace, headers are merged, and the
\* token's references are expanded; an unknown one becomes empty.
Merge(f, g) == [x \in DOMAIN f \cup DOMAIN g |-> IF x \in DOMAIN g THEN g[x] ELSE f[x]]
Expand(v) == IF v \in DOMAIN Env THEN Env[v] ELSE v
ApplyOverrides(base, o) ==
    [fields |-> Merge(base.fields, [f \in DOMAIN o.fields |->
                    IF f = "auth_token" THEN Expand(o.fields[f]) ELSE o.fields[f]]),
     headers |-> Merge(base.headers, o.headers)]

\* The runner of a configuration stops by itself: there is a total, a duration
\* or a plan.  The builder does not ask for one (it does not call Validate).
Positive(c, f) == f \in DOMAIN c.fields /\ c.fields[f] > 0
Limited(c) == \E f \in {"total", "duration", "load_patterns"} : Positive(c, f)

\* It does so even when the target never answers: the time is over, and then
\* the grace period; or each request of the total has a timeout.
Bounded(c) ==
    \/ Positive(c, "duration") \/ Positive(c, "load_patterns")
    \/ Positive(c, "total") /\ Positive(c, "timeout")

\* snapshotFromSummary, with rates in whole percent and per second.
NoSummary == [total |-> 0, errors |-> 0, seconds |-> 0, p50 |-> 0, p95 |-> 0, p99 |-> 0]
Snapshot(s) ==
    [p50 |-> s.p50, p95 |-> s.p95, p99 |-> s.p99,
     error_rate |-> IF s.total > 0 THEN (100 * s.errors) \div s.total ELSE 0,
     rps |-> IF s.seconds > 0 THEN s.total \div s.seconds ELSE 0,
     total_errors |-> s.errors]

Summed == {"rps", "total_errors"}
Metrics == {"p50", "p95", "p99", "error_rate"} \cup Summed

\* aggregate: the worst of the latencies and error rates, the sum of the rest.
Aggregate(per) ==
    [m \in Metrics |->
        IF m \in Summed THEN MapThenSumSet(LAMBDA n : per[n][m], DOMAIN per)
        ELSE Max({0} \cup {per[n][m] : n \in DOMAIN per})]

Compare(actual, want, op) ==
    CASE op = "lt" -> actual < want
      [] op = "le" -> actual <= want
      [] op = "gt" -> actual > want
      [] op = "ge" -> actual >= want
      [] op = "eq" -> actual = want
      [] OTHER -> FALSE

\* evalOne: a metric that does not exist fails.
Holds(t, snap) == t.metric \in Metrics /\ Compare(snap[t.metric], t.value, t.op)

\* EvaluateThresholds: per_item gives one result per name in the map, in the
\* map's order; a name that is not there fails.
Evaluate(t, agg, per) ==
    IF t.scope \in {"", "aggregate"}
    THEN {[scope |-> t.scope, passed |-> Holds(t, agg)]}
    ELSE IF t.scope = "per_item"
    THEN {[scope |-> n, passed |-> Holds(t, per[n])] : n \in DOMAIN per}
    ELSE {[scope |-> t.scope, passed |-> t.scope \in DOMAIN per /\ Holds(t, per[t.scope])]}

EvaluateThresholds(ts, agg, per) == [k \in DOMAIN ts |-> Evaluate(ts[k], agg, per)]

AllPassed(rs) == \A k \in DOMAIN rs : \A r \in rs[k] : r.passed

---------------------------------------------------------------------------
Items(k) == set.stages[k].items
Busy(i) == itemPc[i] \in {"build", "merge"}
NoResult == [name |-> "", status |-> "none", summary |-> NoSummary]

RunInit ==
    /\ pc = "idle"
    /\ set = NoSet
    /\ stageNo = 0
    /\ itemPc = [i \in Slots |-> "none"]
    /\ config = [i \in Slots |-> NoConfig]
    /\ result = [i \in Slots |-> NoResult]
    /\ perItem = << >>
    /\ anyFail = FALSE
    /\ stages = << >>
    /\ judged = << >>
    /\ cancelled = FALSE
    /\ status = "none"

Fail ==
    /\ pc' = "returned"
    /\ status' = "error"

\* r.store.GetSet
ReadSet ==
    /\ pc = "get"
    /\ IF Readable(SetFile)
       THEN /\ set' = DocOr(SetFile, EmptySet)
            /\ pc' = "create"
            /\ UNCHANGED status
       ELSE Fail /\ UNCHANGED set
    /\ UNCHANGED <<stageNo, itemPc, config, result, perItem, anyFail, stages, judged, cancelled>>
    /\ UNCHANGED storeVars

RunDoc(s) == [status |-> s]

\* CreateSetRun: a directory of its own, and in it the record "running".
CreateSetRun ==
    /\ pc = "create"
    /\ BeginRecord(Main, Record, RunDoc("running"))
    /\ pc' = "creating"
    /\ UNCHANGED <<set, stageNo, itemPc, config, result, perItem, anyFail, stages, judged, cancelled, status>>

SetRunCreated ==
    /\ pc = "creating"
    /\ \/ step[Main] = "ok" /\ pc' = "stage" /\ UNCHANGED status
       \/ step[Main] = "err" /\ Fail
    /\ UNCHANGED <<set, stageNo, itemPc, config, result, perItem, anyFail, stages, judged, cancelled>>
    /\ UNCHANGED storeVars

\* runStage starts a goroutine per item.
StartStage ==
    /\ pc = "stage"
    /\ stageNo < Len(set.stages)
    /\ pc' = "items"
    /\ stageNo' = stageNo + 1
    /\ itemPc' = [i \in Slots |-> IF i \in DOMAIN Items(stageNo + 1) THEN "ready" ELSE "none"]
    /\ config' = [i \in Slots |-> NoConfig]
    /\ result' = [i \in Slots |-> NoResult]
    /\ anyFail' = FALSE
    /\ UNCHANGED <<set, perItem, stages, judged, cancelled, status>>
    /\ UNCHANGED storeVars

Ended(i, s, summary) ==
    /\ itemPc' = [itemPc EXCEPT ![i] = "merge"]
    /\ config' = [config EXCEPT ![i] = NoConfig]
    /\ result' = [result EXCEPT ![i] =
                    [name |-> Items(stageNo)[i].name, status |-> s, summary |-> summary]]

\* A bug that could be: the goroutine returns early, before the merge and Done.
MutGetSession(i) ==
    /\ itemPc[i] = "ready"
    /\ LET item == Items(stageNo)[i]
           path == SessionFile[item.session]
       IN /\ Readable(path)
          /\ config' = [config EXCEPT ![i] =
                            ApplyOverrides(DocOr(path, ZeroConfig), item.overrides)]
          /\ itemPc' = [itemPc EXCEPT ![i] = "build"]
    /\ UNCHANGED <<pc, set, stageNo, result, perItem, anyFail, stages, judged, cancelled, status>>
    /\ UNCHANGED storeVars

\* The item's goroutine begins: GetSession and ApplyOverrides.
GetSession(i) ==
    /\ itemPc[i] = "ready"
    /\ LET item == Items(stageNo)[i]
           path == SessionFile[item.session]
       IN IF Readable(path)
          THEN /\ config' = [config EXCEPT ![i] =
                                ApplyOverrides(DocOr(path, ZeroConfig), item.overrides)]
               /\ itemPc' = [itemPc EXCEPT ![i] = "build"]
               /\ UNCHANGED result
          ELSE Ended(i, "failed", NoSummary)
    /\ UNCHANGED <<pc, set, stageNo, perItem, anyFail, stages, judged, cancelled, status>>
    /\ UNCHANGED storeVars

\* One of the parts of the run cannot be built.
BuildFails(i) ==
    /\ itemPc[i] = "build"
    /\ Ended(i, "failed", NoSummary)
    /\ UNCHANGED <<pc, set, stageNo, perItem, anyFail, stages, judged, cancelled, status>>
    /\ UNCHANGED storeVars

\* Built, the run ends by itself or because it is cancelled; then Cleanup.
ItemRuns(i) ==
    /\ itemPc[i] = "build"
    /\ Limited(config[i]) \/ cancelled
    /\ \E s \in Summaries : Ended(i, "completed", s)
    /\ UNCHANGED <<pc, set, stageNo, perItem, anyFail, stages, judged, cancelled, status>>
    /\ UNCHANGED storeVars

\* A bug that could be: the failure of one item is forgotten by the next.
MutMergeItem(i) ==
    /\ itemPc[i] = "merge"
    /\ itemPc' = [itemPc EXCEPT ![i] = "done"]
    /\ perItem' = Merge(perItem, [n \in {result[i].name} |-> Snapshot(result[i].summary)])
    /\ anyFail' = (result[i].status # "completed")
    /\ UNCHANGED <<pc, set, stageNo, config, result, stages, judged, cancelled, status>>
    /\ UNCHANGED storeVars

\* Under mu: the result, the snapshot under the item's name, and the failure.
MergeItem(i) ==
    /\ itemPc[i] = "merge"
    /\ itemPc' = [itemPc EXCEPT ![i] = "done"]
    /\ perItem' = Merge(perItem, [n \in {result[i].name} |-> Snapshot(result[i].summary)])
    /\ anyFail' = (anyFail \/ result[i].status # "completed")
    /\ UNCHANGED <<pc, set, stageNo, config, result, stages, judged, cancelled, status>>
    /\ UNCHANGED storeVars

Aborts(stage) == stage.onFailure \in {"", "abort"}

\* A bug that could be: the failed stage aborts before all its items have ended.
MutEndStage ==
    /\ pc = "items"
    /\ \A i \in DOMAIN Items(stageNo) : itemPc[i] = "done" \/ (anyFail /\ itemPc[i] = "ready")
    /\ stages' = Append(stages, [i \in DOMAIN Items(stageNo) |-> result[i]])
    /\ itemPc' = [i \in Slots |-> "none"]
    /\ result' = [i \in Slots |-> NoResult]
    /\ IF cancelled THEN pc' = "judge" /\ status' = "cancelled"
       ELSE IF anyFail /\ Aborts(set.stages[stageNo]) THEN pc' = "judge" /\ status' = "failed"
       ELSE pc' = "stage" /\ UNCHANGED status
    /\ UNCHANGED <<set, stageNo, config, perItem, anyFail, judged, cancelled>>
    /\ UNCHANGED storeVars

\* wg.Wait, and the end of the stage.  A cancelled run says so whatever its
\* items did; the context is looked at here and nowhere else.
EndStage ==
    /\ pc = "items"
    /\ \A i \in DOMAIN Items(stageNo) : itemPc[i] = "done"
    /\ stages' = Append(stages, [i \in DOMAIN Items(stageNo) |-> result[i]])
    /\ itemPc' = [i \in Slots |-> "none"]
    /\ result' = [i \in Slots |-> NoResult]
    /\ IF cancelled THEN pc' = "judge" /\ status' = "cancelled"
       ELSE IF anyFail /\ Aborts(set.stages[stageNo]) THEN pc' = "judge" /\ status' = "failed"
       ELSE pc' = "stage" /\ UNCHANGED status
    /\ UNCHANGED <<set, stageNo, config, perItem, anyFail, judged, cancelled>>
    /\ UNCHANGED storeVars

LastStage ==
    /\ pc = "stage"
    /\ stageNo = Len(set.stages)
    /\ pc' = "judge"
    /\ status' = "completed"
    /\ UNCHANGED <<set, stageNo, itemPc, config, result, perItem, anyFail, stages, judged, cancelled>>
    /\ UNCHANGED storeVars

\* The verdict, and FinalizeSetRun.
Judge ==
    /\ pc = "judge"
    /\ judged' = EvaluateThresholds(set.thresholds, Aggregate(perItem), perItem)
    /\ status' = IF status = "completed" /\ ~AllPassed(judged') THEN "failed" ELSE status
    /\ BeginRecord(Main, Record, RunDoc(status'))
    /\ pc' = "finalizing"
    /\ UNCHANGED <<set, stageNo, itemPc, config, result, perItem, anyFail, stages, cancelled>>

Finalized ==
    /\ pc = "finalizing"
    /\ \/ step[Main] = "ok" /\ pc' = "returned" /\ UNCHANGED status
       \/ step[Main] = "err" /\ Fail
    /\ UNCHANGED <<set, stageNo, itemPc, config, result, perItem, anyFail, stages, judged, cancelled>>
    /\ UNCHANGED storeVars

Cancel ==
    /\ pc \notin {"idle", "returned", "dead"}
    /\ cancelled' = TRUE
    /\ UNCHANGED <<pc, set, stageNo, itemPc, config, result, perItem, anyFail, stages, judged, status>>
    /\ UNCHANGED storeVars

\* Killed, or Ctrl-C at a command that installs no handler: what was in
\* memory is gone.
Crash ==
    /\ pc \notin {"returned", "dead"}
    /\ pc' = "dead"
    /\ Die(Main)
    /\ set' = NoSet
    /\ stageNo' = 0
    /\ itemPc' = [i \in Slots |-> "none"]
    /\ config' = [i \in Slots |-> NoConfig]
    /\ result' = [i \in Slots |-> NoResult]
    /\ perItem' = << >>
    /\ anyFail' = FALSE
    /\ stages' = << >>
    /\ judged' = << >>
    /\ cancelled' = FALSE
    /\ status' = "none"

RunStep ==
    \/ ReadSet
    \/ CreateSetRun
    \/ SetRunCreated
    \/ StartStage
    \/ EndStage
    \/ LastStage
    \/ Judge
    \/ Finalized

ItemStep(i) ==
    /\ pc = "items"
    /\ \/ GetSession(i)
       \/ BuildFails(i)
       \/ ItemRuns(i)
       \/ MergeItem(i)

\* An item under way that nothing makes an end of.
Endless(i) == itemPc[i] = "build" /\ ~Bounded(config[i]) /\ ~cancelled

---------------------------------------------------------------------------
Positions(s) == {x \in (DOMAIN s.stages) \X Slots : x[2] \in DOMAIN s.stages[x[1]].items}
NameAt(s, x) == s.stages[x[1]].items[x[2]].name
DistinctNames(s) ==
    /\ \A x, y \in Positions(s) : NameAt(s, x) = NameAt(s, y) => x = y
    /\ \A x \in Positions(s) : NameAt(s, x) \notin {"", "aggregate", "per_item"}

\* The thresholds that speak of every single item, and of the item named n.
SpeaksOf(t, n) ==
    \/ t.scope \in {"per_item", n}
    \/ t.scope \in {"", "aggregate"} /\ t.metric \notin Summed /\ t.op \in {"lt", "le"}

Satisfied(s, rs) ==
    \A k \in DOMAIN s.thresholds, x \in Positions(s) :
        LET t == s.thresholds[k] IN
        SpeaksOf(t, NameAt(s, x)) => Holds(t, Snapshot(rs[x[1]][x[2]].summary))

\* A run that is reported completed has gone through all its stages, nothing
\* failed in a stage that aborts, and, when no two items of the set share a
\* name, every item by itself satisfies the thresholds that speak of it:
\* what the items did side by side is all in the verdict (Run, runStage).
VerdictSound ==
    pc = "returned" /\ status = "completed" =>
        /\ Len(stages) = Len(set.stages)
        /\ \A k \in DOMAIN stages : Aborts(set.stages[k]) =>
              \A i \in DOMAIN stages[k] : stages[k][i].status = "completed"
        /\ DistinctNames(set) => Satisfied(set, stages)
=============================================================================
