# crankfire in TLA+

crankfire is a load-testing tool in Go: it drives HTTP, WebSocket, SSE and gRPC
targets with a number of workers, at a rate that may follow a pattern, collects
metrics, and judges them against thresholds. Sessions and sets (stages of
sessions) live in a file store and are run from the command line, from a
terminal UI, or by a daemon on a cron schedule.

This directory holds specifications of what it does from the arguments to the
exit code, in its daemon and in its terminal UI, the TLC configurations that
check them, and TLAPS proofs. Run from here:

    tlc -workers 2 -config MCLoadRunner.cfg MCLoadRunner
    tlapm LoadRunner_proofs.tla      (and every other *_proofs)

## The system

| Component (under `src/`) | State it keeps | Operations | Talks to | What makes it hard |
|---|---|---|---|---|
| Load runner, `internal/runner/runner.go` | slot and error counters, permits channel, four contexts | `New`, `Run`, `runPatternController` | arrival controller, Requester | scheduler, workers, controller, timers and caller run concurrently; the end must be exact |
| Arrival controllers, `arrival.go` | limit and burst of a `rate.Limiter`, or a rate | `Wait`, `SetRate` | scheduler waits, controller retunes | the retuning is two calls under the waiter's feet |
| Pattern plan, `pattern_plan.go` | segments | `compilePatternPlan`, `rateAt` | runner | boundaries between segments, rate 0 |
| Retry, logging, `retry.go`, `cli/run.go` | none | `Do` | requesters | a delay races the end of the run; overflow of the backoff |
| Requesters, `cli/*_requester.go`, `endpoints.go` | weighted templates, pool, builders | `Do` | pool, auth, feeder, collector | every error path must give back or close |
| Connection pool, `pool/pool.go` | a channel of idle clients per key | `Get`, `Put`, `RetryStaleConnection`, `Close` | WebSocket and SSE requesters | sharing, loss, overflow, stale connections |
| OAuth2 providers, `auth/oauth2.go` | cached token, expiry, fetch flag, condition variable | `Token`, `InjectHeader` | all requesters | concurrent refresh, lost wake-ups, expiry |
| Feeders, `feeder/` | position in a file | `Next`, `Close` | requesters | concurrent readers, end of file |
| Variables, extractors, placeholders | a store of values per context | `Set`, `ExtractAll`, `Apply` | HTTP requester | scope of a store |
| Metrics, `metrics/collector.go` | 32 sharded buckets, endpoints, history | `RecordRequest`, `Stats`, `Snapshot` | all requesters, reports, UI | recording against snapshots |
| Thresholds, `threshold/`, `setrunner/threshold.go` | none | parse, evaluate | reports, set runner | boundaries, missing metrics |
| Set runner, `setrunner/runner.go` | results of a set run | `Run`, `runStage`, `runItem` | store, builder, events | concurrent items, failure policy, cancel, crash |
| Scheduler, `scheduler/manager.go` | table of cron entries, sets in flight | `AddOrReplace`, `Remove`, `Reload`, `Run`, `fire` | cron, store, daemon | reloads against firings, single flight |
| Daemon, `cli/daemon.go` | signals, root context, drain | `RunDaemon` | scheduler, set runner | signals in any order, stop with runs in flight |
| Store, `store/` | YAML and JSON files, lock files | save, list, create and finalise runs | everything above | several processes, crashes between writes |
| Terminal UI, `tui/` | stack of screens, a run screen's state | `Update` on messages | runner, store | messages that arrive after their screen is gone |
| Configuration, `config/` | none | `Load`, `Validate` | everything | spellings, precedence of flags, what `Validate` lets through |
| Assembly of a run, `cli/build.go`, `cli/run.go` | what has been acquired | `BuildRunner`, `Run` | all of the above | a failing step in the middle, a signal, the exit code |
| Set and session commands, `cli/set.go` | none | `set run`, `diff`, `list`, ... | store, set runner | flags reach the runner through the store |
| HAR import, reports, tag filter, templates, tracing | none or constant | parse, convert, print | | sequential |

### What correctness means, component by component

- **Load runner.** Every slot is executed exactly once and counted; the total is
  never exceeded; after a stop at most one more request is handed to
  the workers (what they were handed before is still executed); the end of the
  schedule does not cancel requests in flight; `Run` returns, with an exact
  result, even if a target hangs; it stops for no other reason than the ones
  the code names.
- **OAuth2 cache.** One fetch at a time; nobody waits for a wake-up that does not
  come; no expired token is handed out; tokens never go back in time.
- **Pool.** A connection is in one hand; none is lost; none is closed for want
  of room; a request reports its own messages.
- **Scheduler and daemon.** One run per set at a time; the table and the cron
  agree; a reload leaves what it read, and the rest alone; a SIGTERM ends the
  daemon with nothing running.
- **Store.** A reader never meets half a document, or two; a path has one writer.
- **Set runner and its commands.** The stages run in order and their items side by
  side, each once; nothing runs after a stage that ends the run; a record says
  running, and then once how the run ended; a verdict takes every item into
  account; exit code 0 means that the thresholds were applied and held; overrides reach
  the items.
- **A run from its arguments.** What `Validate` accepts can be built; on every way out
  what was acquired is released, save the connections of a WebSocket, SSE or gRPC requester and the
  exporter of a bad sample rate; exit status 0 tells the truth.
- **Requests and metrics.** Every attempt is counted once, in the total and under its
  endpoint, and never vanishes from the history; feeder records are used evenly.
- **Terminal UI.** A record tells what happened to its own run, unless a key came before the run
  or a message met another screen; the record of a run
  that ended, or was cancelled, does not stay "running".

## Modules

| Module | Models | Checked by |
|---|---|---|
| `LoadRun` | what one `Run` promises: slots issued, executed once, an exact result | `ImplementsLoadRun` in `MCLoadRunner.cfg` |
| `LoadRunner` | `runner.go`, `arrival.go`, the options | `MCLoadRunner.cfg`, `MCLoadRunnerRate.cfg` |
| `MCLoadRunner` | small instances of it | |
| `LoadRunner_proofs` | theorems about `LoadRunner` | tlapm |
| `TokenCache` | `oauth2.go` | `TokenCache.cfg` |
| `TokenCache_proofs` | theorems about `TokenCache` | tlapm |
| `ConnPool` | `pool.go` and the life of a client in the `Do` of the WebSocket and SSE requesters | `MCConnPool.cfg`, `MCConnPoolDelta.cfg` |
| `MCConnPool` | small instance, symmetry | |
| `ConnPool_proofs` | theorems about `ConnPool` | tlapm |
| `SetDaemon` | `manager.go`, `daemon.go`, with cron and the store as environment | `SetDaemon.cfg`, `SetDaemonDrain.cfg`, `SetDaemonCancelled.cfg` |
| `SetDaemon_proofs` | theorems about `SetDaemon` | tlapm |
| `Store` | `writeAtomic`, locks, deletion, unlocked records; processes that die | through `SetCommands` |
| `SetRun` | what one execution of a set promises | `ImplementsSetRun` in `MCSetCommands.cfg` |
| `SetRunner` | `setrunner.Run`, on `Store` | through `SetCommands` |
| `SetCommands` | `set run` and a firing of the daemon beside other users of the store | `MCSetCommands.cfg` |
| `MCSetCommands` | small instance of it | |
| `SetCommands_proofs` | theorems about `Store` and `SetCommands` | tlapm |
| `SetReports` | comparison, diff, tag filter, as operators | parsed only |
| `Config` | `internal/config`: `Load` and `Validate`, as operators | through `Program` |
| `Assembly` | HAR conversion, requester, pattern plan and dashboard timeline, as operators | through `Program` |
| `Thresholds` | `internal/threshold`, as operators | through `Program` |
| `Requests` | workers, retries, feeder, collector and its ticker, over `LoadRun` | through `Program` |
| `Program` | `cli.Run` with `BuildRunner` | `MCProgram.cfg`, `MCProgramPatterns.cfg` |
| `Program_proofs` | theorems about `Program` | tlapm |
| `MCProgram` | the invocations; what the proofs suppose of inputs and libraries, evaluated for them | |
| `Tui` | the stack of screens, the Run screen and its record | `Tui.cfg` |
| `Tui_proofs` | theorem about `Tui` | tlapm |
| `Screens` | the other screens | `Screens_proofs` |
| `Screens_proofs` | theorems about `Screens` | tlapm |

How they are put together: `Program` extends `Assembly` (over `Config`), `Requests` and
`Thresholds`; `Requests` instantiates `LoadRun`, the abstract specification that
`LoadRunner` is shown to implement, so the runner's own interleavings are checked
once. `SetCommands` extends `SetRunner`, which extends `Store`. `SetDaemon` sees of a
set's run that it begins and ends; `SetCommands` is what happens in between.

A definition named `Mut...` is a deliberately wrong variant of the definition
that follows it. It is used nowhere: put in place of that definition it makes a
property fail, which shows that the property watches that code.

### LoadRunner

One program counter per goroutine: `schedPc`, `wpc[w]`, `ctlPc`, and `mainPc` for
`Run` itself. The four contexts are four flags, and `RunDone` and `SchedDone` are
the derived contexts, done as soon as a parent is. The permits channel is a
number with capacity `Concurrency`; it is closed once `schedPc` is past "stop",
and a worker leaves only when it is closed and empty. The select of send and
context is two actions (`SchedSend`, `SchedGiveUp`), both enabled when both cases
are ready; so is the select of the grace window (`MainWorkersDone`, `MainRunDone`,
`MainGraceElapsed`). The atomic increment of the total and the send are separate
steps, as are a failure and its count.

Rates are 0 ("no limit" in both controllers) and 1 (some limit); a plan is the
sequence of its segments' rates, and time is the segment reached. `SetRate` is
the two steps of the code, `SetLimit` and `CtlSetBurst`. `Wait` may fail as
`rate.Limiter.Wait` does: context done, next token behind the deadline, or
a finite limit with burst 0. `Requester.Do` is the environment.

`LoadRun` knows no permits and no contexts. The mapping: `waiting` is the number
of permits, `running` the workers inside `Do`, `phase` comes from `mainPc` and
`schedPc`, `cap` from the options. The slot that the scheduler has counted and
not yet handed over is not visible there, so a slot that is given up is a stutter.

### TokenCache

What happens under the mutex is one action. `Enter` is `Token` up to its first
release of the mutex, `Recheck` the rest of the loop after a wake-up; both
choose between returning the cached token, joining the waiters and fetching.
`ServerIssues` and `FetchFails` are the fetch; `Finish` stores the answer with the
clock of that moment and wakes everybody. The clock is counted in ticks, `Timeout`
bounds the time an answer may be on its way, a token is its time of issue and its
lifetime. The two providers have the same method text; the module stands for both.

### ConnPool

A worker's `Do` is a path through "connect", "first" (no message exchanged yet),
"more", and then "done", "failed" or, for a pooled client whose first exchange
fails, "stale". A message is one sent (WebSocket) or one event received (SSE). The
pool is a queue of clients per key; its capacity is the number of workers, as in
`newWebSocketRequester`. Client objects that nobody refers to are used again, to
keep the instance finite. `mine` and `replaced` are history: the messages of
this request, and whether its client was replaced.

### SetDaemon

Main goes through "reload", "run", "serve", "stop", "drain" and "exited"; the
signal goroutine through "none", "select", "reload", "done"; a job through
"start", "claimed", "running", "ran". `Reload` runs in either of the first two, never
in both, and is four kinds of steps: the list of the store, the diff against a
snapshot, one update or removal at a time in any order, the return. Other
processes edit the store at any time, also with a schedule that does not parse
(`SaveSet` refuses those, a text editor does not). The cron is external: while
it ticks it may start a job for any of its entries at any time; `Stop` ends that,
and its context is done when no job is left. `signal.Notify` drops what does not
fit into the channel. The daemon's lock, a second daemon, and its crash are left out.

### Store, SetRunner, SetCommands

`Store` keeps for each path what a reader finds (`file`), what `<path>.tmp` holds
(`temp`), and how often its lock file was removed (`gen`): a `flock` belongs to an
inode, so processes that opened the lock file before and after a deletion
hold locks that do not exclude each other. A process is somewhere between "open"
and "ok" or "err" of one operation; `fd` is where its open descriptor leads, which
a rename or a removal by others changes. A write can fail, a process can die, at
every step. Run records are written in the same way without a lock. `Mixed` is
a document written over another. A file is torn when it is `Empty` or `Mixed`.

`SetRunner` is `Run` with a program counter `pc`, one `itemPc` per goroutine of the stage
under way, `perItem` (the snapshots by item name), and the record through `Store`.
`NameAt` may be empty or occur twice, as the code allows. A builder's failure and
a run with errors are outcomes; `cliBuilderAdapter` never reports the latter.

`SetCommands` puts before it what the two callers do: the daemon calls `Run` at once
(`FireRun`), `set run` reads the set, merges its flags, saves it, and has `Run` read it
again (`GetAndMerge`, `SaveMine`, `MineSaved`, `Report`). Editors save and delete sets
and sessions, and die. `foreign` is history: another process has changed the set
since the command saved it. `SetRun`'s mapping: `plan` from the set that was read,
`waiting` and `busy` from `itemPc`, `record` from the file.

### Config, Assembly, Thresholds

Operators. A settings document is a function from settings to raw typed
values, `Load` what defaults, document and flags make of it, field by field
(`Convert` has a case per kind of setting, with the code's truncations), `Validate`
the set of accepted configurations. `Assembly` has one operator per builder: HAR
filter and conversion, endpoint templates, `CompilePatternPlan`, `RateAt`, and the
dashboard's `Timeline`. What the standard library does to a text (trimming, numbers,
URLs) is a constant operator, given for the texts of the instance.

### Requests

The workers of one run over `LoadRun`: a worker's `step` leads through the check of the
context, the building of the request with its feeder record (one cursor, under a mutex, that
starts again at the end), sending, `RecordRequest` (a shard, then the endpoint's
bucket, as two critical sections), and the delay of a retry. The ticker takes a
snapshot shard by shard (`StartSnapshot`, `ReadShard`, `EndSnapshot`). `made` counts the
attempts as they end, independently of the collector. `vals` is the request's
variable store.

### Program

`cli.Run`: `pc` leads through load, validate, HAR, tracing, auth, feeder, requester, run,
the stop of the ticker, the last snapshot, the statistics, the thresholds, the report and
the clean-up; `held` is what has been acquired ("pool" stands for the connections of a requester that
pools them, which the clean-up does not know). `Signal` may come at any moment: before the
handler is there it kills the process, after that it cancels the context.

### Tui and Screens

Bubble Tea runs every command in a goroutine and delivers its message when it is
done, so `Tui` has bags of messages under way: pushes (in any order), pops, ticks,
`runStartedMsg`s; all but pushes and pops go to whichever screen is on top. A Run screen has
its status, the record it knows, whether it has been finalised; `rec`, `owner`,
`runner` are the records and the runs behind them. Three history variables name the
ways in which the code is known to go astray, which the properties except: `muddled`,
a message has met a screen that is not the one it was for; `hasty`, the cancel key came before the run had
started, or after its end; `early`, on which screens it came before they knew their record. `Finalize`
assumes that the record can be written: the code ignores the error.

`Screens` has every other screen by what its keys make of the stack, of the stored
sessions with their tags (`saved`), of what the list shows of them (`shown`, from its last load), of its
filter and of its cursor. `Elsewhere` is what other processes do to the store, unreadable files
included; `AloneSpec` is the specification without it. No TLC run includes the module; its
properties `NeverLoaded`, `OnlyLoadsStrand` and `OnlyEditsStrand` are proved.

## Runs

| Run | What it asks | Instance | States |
|---|---|---|---|
| `load_runner` | accounting, late hand-outs, spared requests, refinement, termination | 2 workers; five kinds of options, with total, duration, negative grace, poisson, plans `<<0,1>>` and `<<1,0>>`; at most 3 slots if there is no total | 103 thousand |
| `load_runner_rate` | does a run stop only for the reasons named in the code? No | plan `<<0,1>>` alone | violation |
| `token_cache` | single fetch, wake-ups, expiry, order, termination | 3 callers, 2 calls each, lifetimes 1 and 3, window 1, answer time 1, 3 ticks | 408 thousand |
| `conn_pool` | exclusive use, no leak, room, exact deltas | 2 workers, 2 keys, 5 clients, 2 messages per client | 57 thousand |
| `conn_pool_delta` | are the deltas exact across a replaced client? No | the same | violation |
| `set_daemon` | single flight, table against cron, reloads, stop | 2 sets, 2 schedules and a bad one, 2 jobs, 1 edit, 1 SIGHUP, any number of SIGTERMs, 2 places for signals | 251 thousand |
| `set_daemon_drain` | is the wait for runs bounded? No | 1 set, 1 schedule, 1 job | violation |
| `set_daemon_cancelled` | is a fire skipped once the context is cancelled? No | the same | violation |
| `set_commands` | whole files, sound verdicts, exit codes, overrides, refinement of `SetRun`, termination | 2 sessions, 2 sets with 2 stages, 2 choices of flags, 2 summaries of an item's run; a set run or a daemon's job beside one editor with one operation, or nobody and two editors with 1 and 2 operations; a session's total is 1 or 0 | 1.01 million |
| `program` | `Validate` against the builders, release, statistics, history, exit status, dashboard, feeder, termination | 42 invocations, of which 9 make requests and 33 are refused or fail in assembly; 2 workers, 2 shards, responses ok, refused and broken, 2 slots, 1 snapshot by the ticker | 124 thousand |
| `program_patterns` | is every accepted load pattern driven? No | 3 invocations with load patterns | violation |
| `tui` | do records tell the truth, and do they become final? | 2 Run screens, a stack of 3, 1 push or pop on its way when a key is pressed | 1.2 million |

**Bounds, and why they are enough.** Two workers make every pair of concurrent
steps possible, and a third would repeat the roles of the second; with two
permits and three slots the channel is empty, partly filled and full with a slot
waiting outside. The options contain each way to end a run, alone and together.
Three callers of `Token` are a fetcher, a waiter, and one that comes in between; two
calls each let a token expire and be replaced. One lifetime is not above the
refresh window, so the case of a token that is never valid occurs. Five clients
are one more than two workers with two keys can have in hand and in the pool
while one is replaced. Two places for signals let the channel be full. One edit
of the store suffices for what a reload can meet, because the initial
store takes every value and the table is filled by the first reload. Of the two sets one
stops at a failure and has distinct names, one goes on and has a name twice and an
empty one. One operation of an editor beside a run is a save or a deletion that falls
between any two steps of the command; a lock that is lost needs a save that meets a
deletion and another save, which is why two editors get three operations when
nobody runs the set. Each invocation of `program` is there for a step that only it reaches, and
those that run have a retry, two endpoints, a feeder of two records, a pattern, thresholds,
or no total. Two shards are enough for a snapshot between two recordings. Two Run screens
are needed for one to get the other's messages, and a stack of three lets one cover
the other. `MaxSlots`, `MaxSent`, `MaxTime`, `MaxCalls`, `MaxEdits`, `MaxHups`, `MaxPoints`,
`EditsBeside`, `EditsAlone`, `MaxRuns`, `MaxDepth` and `MaxWaiting` bound what the code
does not bound.

**Fairness.** Weak fairness for each goroutine: Go's scheduler runs what can
run, and timers fire. A request is assumed to return only once its context is
done; until then a target may hang for ever. A token fetch ends because the HTTP client has a
timeout. A set's run is assumed to end once it is cancelled (`FairSpec` of
`SetDaemon`): `setrunner.Run` hands its context to every load test, and
`StopLeadsToReturn` of `LoadRunner` is why those return. `SlowSpec` drops this
last assumption and asks what the timeout of the drain is for: whether the
daemon exits however long a run takes. Nothing is assumed
of cron, of signals, of other processes or of the parent's cancel. `SetCommands`: the command,
its store operations, its runner and each item go on, and an editor that works on the
store goes on or dies (a lock it holds would otherwise stay); that an editor begins
anything, that a job is cancelled or a process dies is never required. An item goes on only if its
run has an end (`Endless`): a duration, a plan, or a total of requests that time out, or a cancelled
context. The builder does not ask for any of them, so `CommandEnds` excepts the command that
meets an item without. `Program`: weak
fairness for the main goroutine, the ticker's snapshot, each worker, and the
runner's `Issue`, `Close` and return, for which `StopLeadsToReturn` of `LoadRunner`
stands. That an attempt ends is the client's timeout: no invocation of the instance sets it to 0, with
which a target that never answers could hold up a run with a total until a signal. `Tui`: messages are delivered, commands executed, and a runner that was
cancelled returns; no key need be pressed.

## Findings

1. `load_runner_rate`: a ramp or step from rate 0 can end the run. `SetRate` sets
   the limit and then the burst; between the two the limiter has a finite limit
   and burst 0, its `Wait` returns an error, and the scheduler returns
   (`arrival.go:71-76`, `runner.go:78-81`, against the comment at `runner.go:43`).
2. `conn_pool_delta`: after a stale connection is replaced, `messages_sent` and
   the other deltas are taken against the old client's counters and come out too
   small or negative (`websocket_requester.go:105`, `135`, `198`; the SSE
   requester does the same at lines 100 and 129; against `docs/USAGE.md:735`).
3. `set_daemon_drain`: `Manager.Run` itself waits for all jobs, without a bound;
   the 30 seconds of the drain begin when nothing is left to drain
   (`manager.go:138-139`, `daemon.go:97-110`, against `docs/sets.md:152`).
4. `set_daemon_cancelled`: `fire` does not skip when the context is cancelled
   (`manager.go:144-156`, against the comment at `manager.go:22-23`).
5. `program_patterns`: a load pattern of type constant is accepted by `Validate` and shown on the
   dashboard, but `compilePatternPlan` has no case for it; alone, it leaves a run
   without pace or end (`pattern_plan.go:29`, against `runner/doc.go:43`).

Met while modelling, without a run of their own:

- Terminal UI: when the list is loaded with fewer rows its cursor stays where it
  was and the next key panics (`list.go:52-54`, `83`). That happens after the deletion of the last row,
  after a save of it without the tag that the list is filtered for, and when other
  processes or unreadable files take rows away (`OnlyLoadsLose`, `OnlyEditsLose`: nothing else leads there).
- Terminal UI: a cancel key (`q`, `Esc`, `Ctrl+C`; the `c` of `docs/tui.md:162` is none) before the run has started
  makes the record "cancelled" once the run is there, but there was no context to cancel yet, and the run goes on to its end (`run.go:240-247`, `180-195`,
  `277-306`, against the same line's "Cancel the running test"; `RecordTruthful` excepts it as `early`).
- Terminal UI: screens that an update returns in place of itself are never
  initialised (`sets_detail.go:56`, against `docs/sets.md:75`, `130`, `170`;
  `SetScreensNeverLoad`). Import pops the editor it has just pushed (`import.go:91-95`). `r`
  twice starts two runs, and a Run screen that is uncovered starts another.
- The default of the tracing sample rate is 0, not 1.0 (`config.go:47`,
  `README.md:183`); with a rate that is out of range the exporter is made and never shut down
  (`ReleasedAtExit` excepts it).
- `docs/request-chaining.md:158-160` promises values that persist for a worker; the store is
  made anew for each request (`endpoints.go:229`). Credentials and feeder records reach
  only the default request, never an endpoint's (`docs/authentication.md:40`).
- HAR endpoints are added after `Validate` and never validated; a HAR file lets a
  configuration without a target pass and fail later (`Unbuildable`).
- Nothing calls the `Close` of a requester (`websocket_requester.go:221`, `sse_requester.go:178`,
  `grpc_requester.go:270`): the clean-up of `BuildRunner` (`build.go:72-84`) releases feeder, token provider and
  exporter. The process ends soon after `crankfire` returns; under the daemon and the terminal UI, which
  build a runner for each run, the idle connections of every run are left open.
- `set run` has no end if a session was saved without total, duration and plan (or with a total and
  no timeout, and its target does not answer): `BuildRunner` does not call `Validate`, and the
  context is `context.Background()` (`main.go:80`, `build.go:58-67`; `CommandEnds` excepts it).
- Thresholds of `cli.Run` are parsed only after the run. A request that is cancelled before
  its first attempt is an error of the runner's result and absent from the statistics;
  each retry takes a new feeder record.
- Two edits of a session or set by two processes: the later save wins, whatever it was
  based on.

## Proofs

`LoadRunner_proofs` (any finite non-empty set of workers, any options, any
bound on the slots):

- `TypeCorrect`, `SlotsAccounted`, `NeverOverTotal`, `OneLateAtMost`, `NoEarlyCancel`,
  `ResultExact`: the invariants of the run, and the total cap.
- `Implementation`: `Spec => ImplementsLoadRun`, the whole refinement.

The inductive invariant `IInv` joins the typing, the accounting equation, the cap,
and two facts that the code relies on silently. `AtMostOneLate` is not inductive:
what is needed is that a late permit has left the scheduler in "check" with its
context done for good, from where it can only stop. `ReturnExact` needs the order of
the closes and joins: Run joins only after the scheduler is gone, the channel is
closed by then, and a worker leaves only when it is empty. Steps are proved per
conjunct, so that each names the actions that can disturb it; facts about
cardinalities of sets of workers are lemmas cited from there.

`TokenCache_proofs` (any callers, lifetimes, window and timeout): `TypeCorrect`,
`OneFetch`, `WaitersHaveAFetcher`, `CacheHandsOutLive`, `TokensNeverGoBack`. Here the
invariant adds that an answer on its way is no older than `Timeout` and that no
token in a caller's hands is newer than the one in the cache; the latter
is what makes the order of tokens an action property of every step.

`ConnPool_proofs` (any finite set of workers, any keys and clients): `TypeCorrect`,
`OneUser`, `NoneLost`, `NeverFull`, `CountsAreOwn`, all from one invariant, for they need
each other. `AlwaysRoom` counts the workers out under a key with the clients idle
under it, so `Put` never takes its closing branch (`PutHasRoom`); were it taken, a
dropped client would be open or counted, against `LeakInv` and `CountInv`. `JobInv` says
where in `Do` a worker's client is open. `CountInv` says of every client that nobody
has that it starts at zero, which is why a new client needs no `start`.

`SetDaemon_proofs` (any sets, schedules, jobs, capacity and bounds): `TypeCorrect`,
`OneRunPerSet`, `TableAndCron`, `ReloadCorrect`, `ReloadSpares`, `NothingCutOff`. The
invariant adds that no two sets share an entry ID (so that removing by ID removes
one entry), what the loops of a `Reload` have still to do at each moment
(`ReloadInv`: nothing but this `Reload` writes the table while it runs), and that jobs
exist only while main serves or stops.

`Screens_proofs` (any sessions, tags and filters): `SetScreensNeverLoad`, by an invariant on the
shape of the stack (which kinds of screen lie under which). `OnlyLoadsLose`: the cursor stays on a
row until a load lacks one, whatever others do to the store. `OnlyEditsLose`: while nobody else touches
it, that load follows a deletion or a save under a filter. It adds the invariant
that what the list shows is stored with the tags it had (`Agrees`): an import only adds, and an
editor or a confirmation always lies on the list, which its pop loads. Its hypotheses are that the
sessions are finite, for there to be a number of rows, and that no set of tags is the mark of an absent session.

`SetCommands_proofs`, first part (of `Store` alone: any processes, paths and documents, whatever fails
or dies): `FilesWhole`, `SetsWhole`, `OneWriter`. The hard part is that a dead process leaves a temporary file
and a removed lock lets two writers in. `StoreInv` says, of paths whose lock file was never
removed, that whoever waits for the lock or holds it has opened the one lock there is
(`OpenedInv`), so one process writes (`WriterInv`), and at each of its steps the temporary
file is what that writer has made it (`TempInv`), so that what is renamed is whole
(`FileInv`). Records have no lock; that only one process writes this one is
`SetCommands`'s part.

The rest of it (any sessions, sets, flags, environment and number of editors): `FilesStayWhole`,
from the same invariant by showing that each step is one of the store's, and `Implementation`:
`Spec => ImplementsSetRun`. Its invariant `IInv` adds to `StoreInv` that only Main writes the
record (`OwnerInv`), what can be in the set's file and on its way there (`SavedInv`), where
the command is when its runner is somewhere (`CmdInv`), what the record and its temporary file hold at
each step of writing it (`RecordInv`), and what is known of the stages so far (`StageInv`):
the record is "running" from the first stage to the last, so a crash leaves exactly
that, and "completed" is decided only when the last stage has gone by without an abort. Edits
are frame steps (`EditorFrame`): they do not touch what the mapping sees.

`ExitCodeEarned`, `OverridesReachTheRun`, `VerdictCoversAll` (same module) rest on three more
invariants. `AgreeInv` follows the set from the flags to the runner: what was merged is
what was saved and what was read, unless another process came between. `VerdictInv` follows the
verdict to the exit code. `WorkInv` says that, when names are distinct, an item's snapshot is
its own, whichever items of its stage ended before, and that a stage that aborts can have
failed only if it is the last. What flags do to a set is a recursive function over them: that it exists, and what it
leaves and changes (`FlagsApplied`), is proved by the least counterexample (`LeastNat`, from the
well-foundedness of `<`), and so is that a finite set of numbers has a maximum (`MaxExists`), for a bound
on the worst item to be one on every item. No induction theorem with an operator as parameter is needed.

`Program_proofs` (any invocations, workers, shards, responses and numbers of retries):

- `OnlyPoolsLeft`, from what each step of `Run` and `BuildRunner` finds acquired (`HeldInv`) and when
  workers can be at work (`RunningInv`).
- `RecordsInTurn`: the records before the cursor have been handed out once more than those from it
  on (`InTurn`), if a feeder file has a natural number of records or is bad, which the theorem assumes.
- `GoodMeansEachSucceeded`: successes counted by the requesters and failures counted by the runner add
  up to the requests executed and the workers whose last attempt succeeded and that have not come
  back (`SuccessInv`), so no request succeeds twice and none that failed is counted as a success.
- `HistoryIsSound`: a snapshot reads the shards one after the other while requests add to them. `SnapInv`
  says at each shard that what was read is no more than the shards read hold now, and that what
  had been counted when the snapshot began is in what was read and the shards still to be read; so a
  point of the history is never below the one before.
- `StatsAreExact`: the shards are behind the attempts made by exactly the requests that are about to
  record (`TotalInv`), the endpoints' counts by those and the ones between the two steps of
  `RecordRequest` (`EndpointsInv`); when the statistics are taken there are no such requests (`StatsInv`).
- `GoodExits`: `SuccessInv` and the exactness of the statistics, with slots never above the total and
  a verdict that passes only if each threshold was parsed and held (`ExitInv`).
- `AcceptedConfigsAreBuilt`: what `Load` returns has the shape of a configuration (`ConfigInv`); each
  check of `Validate` is then set against the step of `BuildRunner` that it should make succeed
  (`BuiltInv`). The attempt showed that a path could be resolved to a blank URL, which `Unbuildable` names now.
- `SchedulesMatch`: the plan and the dashboard's timeline, made by two functions from the same
  patterns, have the same steps, and a rate looked up in the middle of a step lies between its ends.

The sums over shards and endpoints and the concatenations of patterns are folds, for which
no induction theorem can be used; what is needed of them (a step of one shard changes the sum by that step, a
sum over two parts is the sum of the parts) is proved from their definitions by the least
counterexample.

The last three and `StatsAreExact` are stated under two hypotheses. `TypedInputs`: documents are made of
viper's values (numbers, texts, lists, maps) and flags have the types that the
command line gives them. `Library`: laws of Go's and viper's functions, which are constants of the model
(`TrimSpace` trims once and for all, a canonical header name is as blank as the name, numbers
parse to integers, no value is the error). Both are facts of the code's libraries, not of crankfire.
`MCProgram` states them again for its texts and invocations, as `InputsAreTyped` and
`LibraryHolds`, and TLC evaluates them: the theorems speak of the instance that is checked.

`Tui_proofs` (any number of Run screens, any depth of the stack, messages in any order):
`RecordsTellTheTruth`. The messages of a run carry no name of their run and go to whatever
screen is on top, so the invariant is stated as long as each has met its own (`~muddled`). It
then says: a Run screen is only ever on top (`StackInv`); a screen is fresh, then about to
be pushed, then about to start its run, once (`FreshInv`, `PushesInv`, `StartsInv`); a run has one
record, which all its messages are about (`RecordInv`); what a screen shows is what
happened to its run (`StatusInv`); a record "cancelled" has a cancelled context or a
screen that was told too early (`CancelInv`); and what was written is what its screen had to say
(`WrittenInv`).

**Assumptions** are the named `ASSUME`s of the modules and the hypotheses that theorems of
`Program_proofs` state themselves.
That the sets an editor saves are sequences of stages whose items fit the
slots, that flags are sequences, and that summaries are numbers (`DocsAssumption`) is such an assumption;
TLC evaluates it for the instance. That a set with flags applied is again one is proved
(`StoredSetsWellFormed`).

**Only model-checked**: all liveness (the prover has neither fairness nor
ENABLED): `StopLeadsToReturn`, `BoundedRunsReturn`, `CallsReturn`, `TermLeadsToExit`,
`CommandEnds`, `RunsExit`, `RunsFinalized`. Every other property of the passing runs is also a theorem or part
of one. **Only proved**: `Screens`, and the types of `ConnPool`. **Only parsed**: `SetReports`.

## Plan

What was planned is there: the set runner with its store and its commands, the
terminal UI, the program with its requests and metrics. Every invariant and action property of
the runs is proved. What would come next, in this order:

1. Two processes that run the same set, for the records of both; the daemon's own lock.
2. The pool's keys as made from headers, to count idle connections that nothing closes, across the
   runs of a daemon too.
3. `ListSets` with files that cannot be read, against `Reload`.

## Not modelled

The gRPC requester (a sequential call over library code; its pool of clients is
`ConnPool`'s), the text of reports, of the terminal UI and of templates, the processing of
text by extractors and placeholders, how long delays and latencies are, spans and status
labels. `ConnectionPool.Close`, since nothing calls it. The amount of pacing:
how many requests a second a rate lets through. The other subcommands of `set` and
`session`, which are single calls of the store. Each is listed in `PROJECT.json` with its reason.
