------------------------------ MODULE Requests ------------------------------
(***************************************************************************)
(* What the workers of a run do with their slots: the requester that       *)
(* BuildRunner assembled (selection of an endpoint around retries around   *)
(* one HTTP request; internal/cli, internal/runner/retry.go), the feeder   *)
(* they share, and the sharded collector that counts their attempts while  *)
(* a ticker takes snapshots of it (internal/metrics).                      *)
(*                                                                         *)
(* The runner is LoadRun, the abstract specification that LoadRunner       *)
(* implements: slots are issued, begun and ended by its actions.           *)
(***************************************************************************)
EXTENDS Integers, Sequences, FiniteSets, Functions

CONSTANTS
    Workers,     \* the worker goroutines
    Shards,      \* the shards of the collector, 1..n
    Responses,   \* how an exchange may end: see Outcomes
    NoSetup      \* before BuildRunner

\* "refused" is a status from 400 to 499, "broken" one from 500 or 429, "lost"
\* an error without a response, "timeout" the client's deadline.
Outcomes == {"ok", "refused", "broken", "lost", "timeout", "cancelled"}

ASSUME RequestsAssumption ==
    /\ IsFiniteSet(Workers)
    /\ IsFiniteSet(Shards) /\ Shards # {} /\ Shards = 1..Cardinality(Shards)
    /\ Responses \subseteq Outcomes \ {"cancelled"}

VARIABLES
    cap, phase, waiting, running, executed, failed, result,  \* the runner
    setup,       \* [protocol, builder, templates, auth, records, retries]
    cancelled,   \* the context of the requests is done
    step,        \* each worker: see Steps
    tmpl,        \* the endpoint template of its request, 0 for none
    attempt,     \* the number of its attempt
    outcome,     \* how its last attempt ended
    vals,        \* its variable store: "none", "empty" or "filled"
    cursor,      \* the next record of the feeder
    used,        \* how often each record was handed out
    shard,       \* what each shard of the collector's total counts
    bucket,      \* the same of each endpoint, by template
    history,     \* the data points taken
    snap,        \* the snapshot being taken: shard reached, sum so far, sum at its start
    made         \* history: the attempts that ended well and badly

runnerVars    == <<cap, phase, waiting, running, executed, failed, result>>
requestVars   == <<step, tmpl, attempt, outcome, vals>>
feederVars    == <<cursor, used>>
collectorVars == <<shard, bucket, history, snap>>

Runner == INSTANCE LoadRun

Steps == {"idle", "check", "build", "send", "record", "bucket", "delay", "end"}

NoCount == [ok |-> 0, bad |-> 0]
Plus(x, y) == [ok |-> x.ok + y.ok, bad |-> x.bad + y.bad]
AtMost(x, y) == x.ok <= y.ok /\ x.bad <= y.bad
Total(counts) == FoldFunction(Plus, NoCount, counts)

\* Only the HTTP requester is wrapped in retries and in the selector.
Retrying == setup.protocol = "http" /\ setup.retries > 0
Templates == IF setup.protocol = "http" THEN setup.templates ELSE <<>>
NameOf(t) == setup.templates[t].name

RequestsInit ==
    /\ cap = 0
    /\ Runner!Init
    /\ setup = NoSetup
    /\ cancelled = FALSE
    /\ step = [w \in Workers |-> "idle"]
    /\ tmpl = [w \in Workers |-> 0]
    /\ attempt = [w \in Workers |-> 0]
    /\ outcome = [w \in Workers |-> "ok"]
    /\ vals = [w \in Workers |-> "none"]
    /\ cursor = 1
    /\ used = <<>>
    /\ shard = [i \in Shards |-> NoCount]
    /\ bucket = <<>>
    /\ history = <<>>
    /\ snap = [at |-> 0, sum |-> NoCount, low |-> NoCount]
    /\ made = NoCount

---------------------------------------------------------------------------
\* A worker takes a slot: the selector draws a template and gives the request
\* a variable store of its own, whatever requests came before.
Begin(w) ==
    /\ Runner!Begin(w)
    /\ \/ /\ Templates = <<>>
          /\ tmpl' = [tmpl EXCEPT ![w] = 0]
          /\ vals' = [vals EXCEPT ![w] = "none"]
       \/ /\ \E t \in DOMAIN Templates : tmpl' = [tmpl EXCEPT ![w] = t]
          /\ vals' = [vals EXCEPT ![w] = "empty"]
    /\ attempt' = [attempt EXCEPT ![w] = 1]
    /\ step' = [step EXCEPT ![w] = IF Retrying THEN "check" ELSE "build"]
    /\ UNCHANGED <<setup, cancelled, outcome, feederVars, collectorVars, made>>

\* A bug that could be: a request given up before its first attempt is no error.
MutCheck(w) ==
    /\ step[w] = "check"
    /\ step' = [step EXCEPT ![w] = IF cancelled THEN "end" ELSE "build"]
    /\ UNCHANGED <<runnerVars, setup, cancelled, tmpl, attempt, outcome, vals, feederVars,
                   collectorVars, made>>

\* The retry loop looks at the context before each attempt; a request that
\* ends here leaves nothing in the statistics.
Check(w) ==
    /\ step[w] = "check"
    /\ step' = [step EXCEPT ![w] = IF cancelled THEN "end" ELSE "build"]
    /\ outcome' = [outcome EXCEPT ![w] = IF cancelled THEN "cancelled" ELSE @]
    /\ UNCHANGED <<runnerVars, setup, cancelled, tmpl, attempt, vals, feederVars,
                   collectorVars, made>>

\* A bug that could be: without the mutex a request takes the record that
\* another has just taken.
MutTakeRecord ==
    /\ cursor' \in {cursor, IF cursor = setup.records THEN 1 ELSE cursor + 1}
    /\ used' = [used EXCEPT ![cursor] = @ + 1]

\* Next of either feeder: the records in turn, then from the first again.
TakeRecord ==
    /\ cursor' = IF cursor = setup.records THEN 1 ELSE cursor + 1
    /\ used' = [used EXCEPT ![cursor] = @ + 1]

\* Only the default builder has the feeder and the credentials; a template's
\* builder has neither.
Fed(w) == tmpl[w] = 0 /\ setup.records > 0

Build(w) ==
    /\ step[w] = "build"
    /\ Fed(w) => ~cancelled
    /\ IF Fed(w) THEN TakeRecord ELSE UNCHANGED feederVars
    /\ step' = [step EXCEPT ![w] = "send"]
    /\ UNCHANGED <<runnerVars, setup, cancelled, tmpl, attempt, outcome, vals,
                   collectorVars, made>>

Counted(count, o) ==
    IF o = "ok" THEN [count EXCEPT !.ok = @ + 1] ELSE [count EXCEPT !.bad = @ + 1]

Finished(w, o) ==
    /\ outcome' = [outcome EXCEPT ![w] = o]
    /\ made' = Counted(made, o)
    /\ step' = [step EXCEPT ![w] = "record"]

\* The feeder refuses a context that is done; no token, or a URL that does not
\* parse, costs a record all the same.
BuildFails(w) ==
    /\ step[w] = "build"
    /\ \/ /\ cancelled
          /\ UNCHANGED feederVars
          /\ Finished(w, "cancelled")
       \/ /\ Fed(w) => ~cancelled
          /\ IF Fed(w) THEN TakeRecord ELSE UNCHANGED feederVars
          /\ Finished(w, "lost")
    /\ UNCHANGED <<runnerVars, setup, cancelled, tmpl, attempt, vals, collectorVars>>

\* The extractors that apply to a response with this outcome.
Extracts(t, o) ==
    /\ t # 0
    /\ \/ o = "ok" /\ setup.templates[t].extractors # {}
       \/ o \in {"refused", "broken"} /\ TRUE \in setup.templates[t].extractors

Send(w) ==
    /\ step[w] = "send"
    /\ \E o \in Responses \cup (IF cancelled THEN {"cancelled"} ELSE {}) :
          /\ Finished(w, o)
          /\ vals' = [vals EXCEPT ![w] = IF Extracts(tmpl[w], o) THEN "filled" ELSE @]
    /\ UNCHANGED <<runnerVars, setup, cancelled, tmpl, attempt, feederVars, collectorVars>>

---------------------------------------------------------------------------
\* newRetryPolicy: what is tried again.
ShouldRetry(o) == o \in {"broken", "lost"}

AfterAttempt(w) ==
    IF Retrying /\ outcome[w] # "ok" /\ attempt[w] <= setup.retries /\ ShouldRetry(outcome[w])
    THEN "delay" ELSE "end"

\* A bug that could be: an endpoint counts only the attempt that is the last.
MutRecord(w) ==
    /\ step[w] = "record"
    /\ \E i \in Shards : shard' = [shard EXCEPT ![i] = Counted(@, outcome[w])]
    /\ step' = [step EXCEPT ![w] = IF tmpl[w] # 0 /\ AfterAttempt(w) = "end" THEN "bucket"
                                  ELSE AfterAttempt(w)]
    /\ UNCHANGED <<runnerVars, setup, cancelled, tmpl, attempt, outcome, vals, feederVars,
                   bucket, history, snap, made>>

\* RecordRequest: first a shard of the total, drawn at random, then the
\* endpoint's.
Record(w) ==
    /\ step[w] = "record"
    /\ \E i \in Shards : shard' = [shard EXCEPT ![i] = Counted(@, outcome[w])]
    /\ step' = [step EXCEPT ![w] = IF tmpl[w] # 0 THEN "bucket" ELSE AfterAttempt(w)]
    /\ UNCHANGED <<runnerVars, setup, cancelled, tmpl, attempt, outcome, vals, feederVars,
                   bucket, history, snap, made>>

RecordEndpoint(w) ==
    /\ step[w] = "bucket"
    /\ bucket' = [bucket EXCEPT ![NameOf(tmpl[w])] = Counted(@, outcome[w])]
    /\ step' = [step EXCEPT ![w] = AfterAttempt(w)]
    /\ UNCHANGED <<runnerVars, setup, cancelled, tmpl, attempt, outcome, vals, feederVars,
                   shard, history, snap, made>>

\* The delay ends when its time is over or the context is done.
Resume(w) ==
    /\ step[w] = "delay"
    /\ step' = [step EXCEPT ![w] = "check"]
    /\ attempt' = [attempt EXCEPT ![w] = @ + 1]
    /\ UNCHANGED <<runnerVars, setup, cancelled, tmpl, outcome, vals, feederVars,
                   collectorVars, made>>

End(w) ==
    /\ step[w] = "end"
    /\ Runner!End(w, IF outcome[w] = "ok" THEN 0 ELSE 1)
    /\ step' = [step EXCEPT ![w] = "idle"]
    /\ tmpl' = [tmpl EXCEPT ![w] = 0]
    /\ attempt' = [attempt EXCEPT ![w] = 0]
    /\ outcome' = [outcome EXCEPT ![w] = "ok"]
    /\ vals' = [vals EXCEPT ![w] = "none"]
    /\ UNCHANGED <<setup, cancelled, feederVars, collectorVars, made>>

WorkerStep(w) ==
    \/ Begin(w)
    \/ Check(w)
    \/ Build(w)
    \/ BuildFails(w)
    \/ Send(w)
    \/ Record(w)
    \/ RecordEndpoint(w)
    \/ Resume(w)
    \/ End(w)

---------------------------------------------------------------------------
\* Snapshot, under historyMu: the shards are read one by one while workers
\* go on counting.
Idle == snap.at = 0
LastShard == Cardinality(Shards)

\* A bug that could be: the merged counts of the snapshot before are kept.
MutStartSnapshot ==
    /\ Idle
    /\ snap' = [at |-> 1, sum |-> IF history = <<>> THEN NoCount ELSE history[Len(history)],
                low |-> Total(shard)]
    /\ UNCHANGED <<runnerVars, setup, cancelled, requestVars, feederVars, shard, bucket,
                   history, made>>

StartSnapshot ==
    /\ Idle
    /\ snap' = [at |-> 1, sum |-> NoCount, low |-> Total(shard)]
    /\ UNCHANGED <<runnerVars, setup, cancelled, requestVars, feederVars, shard, bucket,
                   history, made>>

ReadShard ==
    /\ snap.at \in Shards
    /\ snap' = [snap EXCEPT !.at = @ + 1, !.sum = Plus(@, shard[snap.at])]
    /\ UNCHANGED <<runnerVars, setup, cancelled, requestVars, feederVars, shard, bucket,
                   history, made>>

EndSnapshot ==
    /\ snap.at = LastShard + 1
    /\ history' = Append(history, snap.sum)
    /\ snap' = [at |-> 0, sum |-> NoCount, low |-> NoCount]
    /\ UNCHANGED <<runnerVars, setup, cancelled, requestVars, feederVars, shard, bucket, made>>

---------------------------------------------------------------------------
\* A point of the report's history lies between what was counted when its
\* snapshot began and when it ended, and never below the point before it
\* (Collector.Snapshot against record).
HistorySound ==
    snap.at = LastShard + 1 =>
        /\ AtMost(snap.low, snap.sum)
        /\ AtMost(snap.sum, Total(shard))
        /\ history # <<>> => AtMost(history[Len(history)], snap.sum)

\* No record is handed out twice more often than another: under the feeder's
\* mutex the records are taken in turn (feeder/csv.go and json.go, Next).
FeederFair == \A i, j \in DOMAIN used : used[i] <= used[j] + 1
=============================================================================
