------------------------------ MODULE Program ------------------------------
(***************************************************************************)
(* cli.Run: one invocation of crankfire from its arguments to its exit     *)
(* code.  The configuration is loaded (Config), the runner is assembled    *)
(* from it (Assembly, BuildRunner), requests are made and counted while    *)
(* the ticker of the report takes snapshots (Requests), and the final      *)
(* statistics are held against the thresholds (Thresholds).  A signal may  *)
(* arrive at any moment.                                                   *)
(***************************************************************************)
EXTENDS Assembly, Requests, Thresholds

CONSTANTS
    Inputs,     \* [doc, flags] the program may be started with
    MaxSlots,   \* bound: slots of a run without a total
    MaxPoints,  \* bound: snapshots that the ticker takes
    Timings,    \* [latency, seconds] that the final statistics may hold
    NoConfig, NoStats

ASSUME ProgramAssumption ==
    /\ MaxSlots \in Nat
    /\ MaxPoints \in Nat

VARIABLES
    input,    \* what it was started with
    cfg,      \* the configuration
    pc,       \* where Run is
    held,     \* what has been acquired and not yet released
    asked,    \* the signal context is done: a signal, or q on the dashboard
    stats,    \* the final statistics
    verdict,  \* the thresholds' result: "none", "pass" or "fail"
    code,     \* how the program ended: "", "good", "bad", "help" or "killed"
    why       \* the step that failed

programVars  == <<input, cfg, pc, held, asked, stats, verdict, code, why>>
vars == <<programVars, runnerVars, setup, cancelled, requestVars, feederVars,
          collectorVars, made>>
requestsVars == <<runnerVars, setup, cancelled, requestVars, feederVars, collectorVars, made>>

Init ==
    /\ input \in Inputs
    /\ cfg = NoConfig
    /\ pc = "load"
    /\ held = {}
    /\ asked = FALSE
    /\ stats = NoStats
    /\ verdict = "none"
    /\ code = ""
    /\ why = ""
    /\ RequestsInit

Fail(step_, keep) ==
    /\ pc' = "exit"
    /\ code' = "bad"
    /\ why' = step_
    /\ held' = keep

Go(next) == pc' = next /\ UNCHANGED <<code, why>>

---------------------------------------------------------------------------
\* Without arguments the usage is shown.
Help ==
    /\ pc = "load"
    /\ input.doc = <<>> /\ input.flags = <<>>
    /\ pc' = "exit"
    /\ code' = "help"
    /\ UNCHANGED <<input, cfg, held, asked, stats, verdict, why, requestsVars>>

\* What the program makes of each input.
Loaded == [x \in Inputs |-> Load(x.doc, x.flags)]

LoadConfig ==
    /\ pc = "load"
    /\ ~(input.doc = <<>> /\ input.flags = <<>>)
    /\ cfg' = Loaded[input]
    /\ IF cfg' = Bad THEN Fail("load", held) ELSE Go("validate") /\ UNCHANGED held
    /\ UNCHANGED <<input, asked, stats, verdict, requestsVars>>

ValidateConfig ==
    /\ pc = "validate"
    /\ IF Validate(cfg) THEN Go("har") /\ UNCHANGED held ELSE Fail("validate", held)
    /\ UNCHANGED <<input, cfg, asked, stats, verdict, requestsVars>>

LoadHAR ==
    /\ pc = "har"
    /\ cfg' = LoadHAREndpoints(cfg)
    /\ Go("tracing")
    /\ UNCHANGED <<input, held, asked, stats, verdict, requestsVars>>

---------------------------------------------------------------------------
\* BuildRunner: each step that fails releases what the ones before acquired.
\* tracing.Init creates the exporter before it looks at the sample rate.
InitTracing ==
    /\ pc = "tracing"
    /\ LET exporter == TracingEnabled(cfg.tracing)
                         /\ cfg.tracing.protocol \in {"", "grpc", "http"}
           got == IF exporter THEN held \cup {"exporter"} ELSE held
       IN IF TracingOK(cfg.tracing) THEN Go("auth") /\ held' = got ELSE Fail("tracing", got)
    /\ UNCHANGED <<input, cfg, asked, stats, verdict, requestsVars>>

BuildAuth ==
    /\ pc = "auth"
    /\ LET auth == BuildAuthProvider(cfg)
       IN IF auth = Bad THEN Fail("auth", held \ {"exporter"})
          ELSE /\ Go("feeder")
               /\ held' = IF auth = "none" THEN held ELSE held \cup {"auth"}
    /\ UNCHANGED <<input, cfg, asked, stats, verdict, requestsVars>>

\* A bug that could be: the feeder's failure forgets the auth provider.
MutBuildFeeder ==
    /\ pc = "feeder"
    /\ LET records == BuildDataFeeder(cfg)
       IN IF records = Bad THEN Fail("feeder", held \ {"exporter"})
          ELSE /\ Go("requester")
               /\ held' = IF records = 0 THEN held ELSE held \cup {"feeder"}
    /\ UNCHANGED <<input, cfg, asked, stats, verdict, requestsVars>>

BuildFeeder ==
    /\ pc = "feeder"
    /\ LET records == BuildDataFeeder(cfg)
       IN IF records = Bad THEN Fail("feeder", held \ {"auth", "exporter"})
          ELSE /\ Go("requester")
               /\ held' = IF records = 0 THEN held ELSE held \cup {"feeder"}
    /\ UNCHANGED <<input, cfg, asked, stats, verdict, requestsVars>>

Assembled(requester) ==
    [protocol |-> requester.protocol, builder |-> requester.builder,
     templates |-> requester.templates, records |-> BuildDataFeeder(cfg),
     retries |-> cfg.retries]

\* The requesters that keep connections between requests, and a Close for them.
Pooled == {"websocket", "sse", "grpc"}

BuildRequesterStep ==
    /\ pc = "requester"
    /\ LET requester == BuildRequester(cfg)
       IN IF requester = Bad
          THEN /\ Fail("requester", held \ {"feeder", "auth", "exporter"})
               /\ UNCHANGED <<setup, used, bucket>>
          ELSE /\ Go("watch")
               /\ setup' = Assembled(requester)
               /\ used' = [i \in 1..setup'.records |-> 0]
               /\ bucket' = [n \in {t.name : t \in ToSet(requester.templates)} |-> NoCount]
               /\ held' = IF cfg.protocol \in Pooled THEN held \cup {"pool"} ELSE held
    /\ UNCHANGED <<input, cfg, asked, stats, verdict, runnerVars, cancelled, requestVars,
                   cursor, shard, history, snap, made>>

---------------------------------------------------------------------------
\* From here on a return unwinds, by the deferred calls.
Return(code_, why_) ==
    /\ pc' = "unwind"
    /\ code' = code_
    /\ why' = why_

\* The dashboard or the progress line; the dashboard needs a terminal.
Watch ==
    /\ pc = "watch"
    /\ \/ /\ cfg.dashboard
          /\ Return("bad", "dashboard")
          /\ UNCHANGED held
       \/ /\ Go("start")
          /\ held' = IF cfg.dashboard THEN held \cup {"dashboard"}
                     ELSE IF cfg.json_output THEN held ELSE held \cup {"progress"}
    /\ UNCHANGED <<input, cfg, asked, stats, verdict, requestsVars>>

Reported == cfg.html_output # ""

StartRun ==
    /\ pc = "start"
    /\ Go("run")
    /\ cap' = IF cfg.total > 0 THEN cfg.total ELSE MaxSlots
    /\ held' = IF Reported THEN held \cup {"ticker"} ELSE held
    /\ UNCHANGED <<input, cfg, asked, stats, verdict, phase, waiting, running, executed, failed,
                   result, setup, cancelled, requestVars, feederVars, collectorVars, made>>

\* One second after another, until the run is over.
Tick ==
    /\ pc = "run"
    /\ Reported
    /\ Len(history) < MaxPoints
    /\ StartSnapshot
    /\ UNCHANGED programVars

\* ticker.Stop, close(snapshotStop), <-snapshotDone, and one more snapshot.
StopTicker ==
    /\ pc = "run"
    /\ phase = "returned"
    /\ IF Reported
       THEN Idle /\ StartSnapshot /\ Go("final") /\ held' = held \ {"ticker"}
       ELSE Go("stats") /\ UNCHANGED <<held, requestsVars>>
    /\ UNCHANGED <<input, cfg, asked, stats, verdict>>

FinalSnapshot ==
    /\ pc = "final"
    /\ Idle
    /\ Go("stats")
    /\ UNCHANGED <<input, cfg, held, asked, stats, verdict, requestsVars>>

TakeStats ==
    /\ pc = "stats"
    /\ \E timing \in Timings :
          stats' = [ok |-> Total(shard).ok, bad |-> Total(shard).bad, endpoints |-> bucket,
                    latency |-> timing.latency, seconds |-> timing.seconds]
    /\ Go("thresholds")
    /\ UNCHANGED <<input, cfg, held, asked, verdict, requestsVars>>

EvaluateThresholds ==
    /\ pc = "thresholds"
    /\ LET parsed == ParseMultiple(cfg.thresholds)
       IN IF parsed = Malformed THEN Return("bad", "thresholds") /\ UNCHANGED verdict
          ELSE Go("report") /\ verdict' = IF AllPass(parsed, stats) THEN "pass" ELSE "fail"
    /\ UNCHANGED <<input, cfg, held, asked, stats, requestsVars>>

\* Printing may fail, and so may creating and writing the report's file.
Report ==
    /\ pc = "report"
    /\ \/ (cfg.json_output \/ Reported) /\ Return("bad", "report")
       \/ verdict = "fail" /\ Return("bad", "verdict")
       \/ verdict = "pass" /\ result.errors > 0 /\ Return("bad", "errors")
       \/ verdict = "pass" /\ result.errors = 0 /\ Return("good", "")
    /\ UNCHANGED <<input, cfg, held, asked, stats, verdict, requestsVars>>

\* progress.Stop or dash.Stop, cancel, and BuildRunner's cleanup, which closes
\* the feeder, the auth provider and the exporter, and not the requester.
Unwind ==
    /\ pc = "unwind"
    /\ pc' = "exit"
    /\ held' = held \cap {"pool"}
    /\ UNCHANGED <<input, cfg, asked, stats, verdict, code, why, requestsVars>>

Main ==
    \/ Help
    \/ LoadConfig
    \/ ValidateConfig
    \/ LoadHAR
    \/ InitTracing
    \/ BuildAuth
    \/ BuildFeeder
    \/ BuildRequesterStep
    \/ Watch
    \/ StartRun
    \/ StopTicker
    \/ FinalSnapshot
    \/ TakeStats
    \/ EvaluateThresholds
    \/ Report
    \/ Unwind

---------------------------------------------------------------------------
\* Until NotifyContext a signal ends the process; from then on it ends the
\* context of the run, once.
Handled == pc \notin {"load", "validate", "har", "tracing", "auth", "feeder", "requester"}

Signal ==
    /\ pc # "exit"
    /\ IF Handled
       THEN /\ ~asked
            /\ asked' = TRUE
            /\ cancelled' = TRUE
            /\ UNCHANGED <<pc, held, code>>
       ELSE /\ pc' = "exit"
            /\ held' = {}
            /\ code' = "killed"
            /\ UNCHANGED <<asked, cancelled>>
    /\ UNCHANGED <<input, cfg, stats, verdict, why, runnerVars, setup, requestVars, feederVars,
                   collectorVars, made>>

\* The runner: it issues slots, stops when it was asked to, when it has issued
\* its total or when its time is over, and gives up on requests that are slow
\* to end.
Plan == CompilePatternPlan(cfg.load_patterns)
Timed == cfg.duration > 0 \/ Plan # <<>>
Issued == waiting + Cardinality(running) + executed

Issue ==
    /\ pc = "run"
    /\ ~cancelled
    /\ Runner!Issue
    /\ UNCHANGED <<programVars, setup, cancelled, requestVars, feederVars, collectorVars, made>>

\* A bug that could be: a scheduler that waits for its limit does not look at
\* the context.
MutClose ==
    /\ pc = "run"
    /\ Timed \/ (cfg.total > 0 /\ Issued = cap)
    /\ Runner!Close
    /\ UNCHANGED <<programVars, setup, cancelled, requestVars, feederVars, collectorVars, made>>

Close ==
    /\ pc = "run"
    /\ cancelled \/ Timed \/ (cfg.total > 0 /\ Issued = cap)
    /\ Runner!Close
    /\ UNCHANGED <<programVars, setup, cancelled, requestVars, feederVars, collectorVars, made>>

GraceOver ==
    /\ pc = "run"
    /\ phase = "closed"
    /\ ~cancelled
    /\ waiting + Cardinality(running) > 0
    /\ cancelled' = TRUE
    /\ UNCHANGED <<programVars, runnerVars, setup, requestVars, feederVars, collectorVars, made>>

ReturnRun ==
    /\ pc = "run"
    /\ Runner!Return
    /\ UNCHANGED <<programVars, setup, cancelled, requestVars, feederVars, collectorVars, made>>

Snapshotting == (ReadShard \/ EndSnapshot) /\ UNCHANGED programVars
Working(w) == pc = "run" /\ WorkerStep(w) /\ UNCHANGED programVars

Next ==
    \/ Main
    \/ Signal
    \/ Tick
    \/ Snapshotting
    \/ Issue
    \/ Close
    \/ GraceOver
    \/ ReturnRun
    \/ \E w \in Workers : Working(w)

\* Every goroutine goes on as long as it can.  A signal need not come; a
\* response that does not is waited for no longer than the client's timeout.
Fairness ==
    /\ WF_vars(Main)
    /\ WF_vars(Snapshotting)
    /\ WF_vars(Issue)
    /\ WF_vars(Close)
    /\ WF_vars(ReturnRun)
    /\ \A w \in Workers : WF_vars(Working(w))

Spec == Init /\ [][Next]_vars /\ Fairness

---------------------------------------------------------------------------
\* What may keep an accepted configuration from becoming a requester: a path
\* or a header that only the builder reads, a body file that is not there, a
\* blank body beside a body file, which Validate trims away and the builder
\* does not, or a HAR file that lets a configuration without a target pass.
Bodies == {cfg} \cup ToSet(cfg.endpoints)
Unbuildable ==
    \/ \E b \in Bodies : ~Blank(b.body_file) /\ ~IsFile(Trim(b.body_file))
    \/ cfg.body # "" /\ Blank(cfg.body) /\ ~Blank(cfg.body_file)
    \/ \E b \in Bodies : ~HeadersOK(b.headers)
    \/ \E ep \in ToSet(cfg.endpoints) :
          Blank(ep.url) /\ ~Blank(ep.path)
            /\ LET url == Resolve(cfg.target, Trim(ep.path)) IN url = Bad \/ Blank(url)
    \/ Blank(cfg.target) /\ ~Blank(cfg.har_file)

\* Validate (config.go) is as strict as BuildRunner (build.go): what it accepts
\* always gets an auth provider, a feeder unless the file is bad, an exporter
\* unless the tracing section, which Validate never reads, is wrong, and a
\* requester unless it is unbuildable.
AcceptedIsBuilt ==
    /\ why # "auth"
    /\ why = "feeder" => ReadFeeder(Trim(cfg.feeder.path), cfg.feeder.type) = Bad
    /\ why = "tracing" => cfg.tracing.protocol \notin {"", "grpc", "http"}
                            \/ cfg.tracing.sample_rate \notin 0..10
    /\ why = "requester" => Unbuildable

\* However Run ends, no request is in flight and what was acquired has been
\* released, but for two things.  tracing.Init leaves the exporter of a section
\* with a bad sample rate, for it returns no provider to shut down.  And a
\* requester of WebSockets, SSE or gRPC keeps its connections until the process
\* ends: no return calls its Close (build.go:72-84, websocket_requester.go:221).
ReleasedAtExit ==
    pc = "exit" /\ code # "killed" =>
        /\ running = {}
        /\ \/ held = {}
           \/ held = {"exporter"} /\ why = "tracing"
           \/ held = {"pool"} /\ cfg.protocol \in Pooled

\* The final statistics count every attempt that was made, once in the total
\* and, when endpoints are selected, once under an endpoint's name (Stats
\* after r.Run against the workers' RecordRequest).
StatsExact ==
    stats # NoStats =>
        /\ stats.ok = made.ok /\ stats.bad = made.bad
        /\ Templates # <<>> => Total(stats.endpoints) = made

\* Exit status 0 says that every request that was begun succeeded in the end,
\* that no more were begun than --total allows, and that the attempts as they
\* were made satisfy every threshold (Run's last lines, AfterAttempt, Check).
ExitMeansGood ==
    code = "good" =>
        /\ made.ok = executed
        /\ cfg.total > 0 => executed <= cfg.total
        /\ \A i \in DOMAIN cfg.thresholds :
              LET t == ParseThreshold(cfg.thresholds[i])
              IN t # Malformed /\ Passes(t, [stats EXCEPT !.ok = made.ok, !.bad = made.bad])

\* Of every accepted set of load patterns, constant ones aside, the dashboard
\* (buildLoadPattern) and the runner (compilePatternPlan) have the same
\* schedule, and the rate driven in a step lies between the step's ends.
Constant(p) == p.type = "constant"
DashboardAgrees ==
    pc = "har" /\ ~(\E p \in ToSet(cfg.load_patterns) : Constant(p)) =>
        LET lengths == Timeline(cfg.load_patterns)
            starts  == Sums(lengths)
        IN /\ FoldLeft(+, 0, lengths) = TotalDuration(Plan)
           /\ \A i \in DOMAIN lengths : \A t \in starts[i] .. (starts[i] + lengths[i] - 1) :
                 LET rate == RateAt(Plan, t)
                     ends == {Plan[i].from, Plan[i].to}
                 IN rate # <<>> /\ (\E e \in ends : e <= rate[1]) /\ (\E e \in ends : rate[1] <= e)
           /\ RateAt(Plan, TotalDuration(Plan)) = <<>>

\* Every pattern that Validate accepts is driven for its time: the package
\* documentation of runner lists "Constant: Fixed RPS for a duration" beside
\* the other three.
PatternsHonoured ==
    pc = "har" =>
        TotalDuration(Plan) = FoldLeft(+, 0, Timeline(cfg.load_patterns))

\* A run that has an end of its own, and any run that is asked to stop, exits:
\* retries, the ticker and the feeder keep no worker back.
Bounded == pc = "run" /\ (cfg.total > 0 \/ Timed)
RunsExit == (asked \/ Bounded) ~> pc = "exit"
=============================================================================
