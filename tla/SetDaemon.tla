------------------------------ MODULE SetDaemon ------------------------------
(***************************************************************************)
(* `crankfire daemon`: cli.RunDaemon, the signal goroutine it starts, and  *)
(* scheduler.Manager with the cron it wraps (robfig/cron, external).       *)
(*                                                                         *)
(* Three kinds of goroutine interleave: main (Reload, Manager.Run, drain), *)
(* the signal goroutine (Reload on SIGHUP, cancel on SIGINT or SIGTERM)    *)
(* and one job for every entry that cron fires.  Other processes edit the  *)
(* sets in the store meanwhile.  A job's run of its set (setrunner.Run) is *)
(* one "running" span here.                                                *)
(***************************************************************************)
EXTENDS Integers, FiniteSets, SequencesExt

CONSTANTS Sets,       \* the IDs of the sets in the store
          Exprs,      \* schedules that the cron parser accepts
          Bad,        \* a schedule that it refuses, written by hand
          None,       \* no schedule: "" or no such set, or no entry
          Jobs,       \* bound: jobs that can exist at once
          SignalCap,  \* the capacity of sigCh: 4 in the code
          MaxEdits,   \* bound: edits of the store
          MaxHups     \* bound: SIGHUPs sent

ASSUME DaemonAssumption ==
    /\ None \notin Exprs \cup {Bad} /\ Bad \notin Exprs
    /\ None \notin [id : Nat, expr : Exprs]
    /\ SignalCap \in Nat \ {0} /\ MaxEdits \in Nat /\ MaxHups \in Nat

VARIABLES
    sched,      \* the store: each set's schedule
    entries,    \* Manager.entries: each set's entryRec, or None
    cron,       \* the entries cron holds
    ids,        \* the number of cron entries made so far
    ticking,    \* cron is running
    reload,     \* the local variables of the Reload in progress
    job,        \* the goroutines that cron has started
    busy,       \* Manager.inFlight
    cancelled,  \* rootCtx is done
    sigs,       \* sigCh
    sig,        \* the signal goroutine: "none", "select", "reload", "done"
    main,       \* "reload", "run", "serve", "stop", "drain", "exited"
    drained,    \* the channel that is closed after inflight.Wait
    edits, hups \* counters for the bounds

store     == <<sched, edits>>
table     == <<entries, cron, ids>>
firing    == <<job, busy>>
signals   == <<sigs, hups>>
vars == <<store, table, ticking, reload, firing, cancelled, signals, sig, main, drained>>

Schedules == Exprs \cup {Bad, None}
NoReload  == [pc |-> "idle", desired |-> [s \in Sets |-> None], todo |-> {}, gone |-> {}]
NoJob     == [pc |-> "free", set |-> None]

ExprOf(rec) == IF rec = None THEN None ELSE rec.expr
Alive       == main # "exited"

\* RunDaemon has its lock and its channel of signals.  Main loads the table.
Init ==
    /\ sched \in [Sets -> Schedules]
    /\ entries = [s \in Sets |-> None]
    /\ cron = {} /\ ids = 0 /\ ticking = FALSE
    /\ reload = [NoReload EXCEPT !.pc = "list"]
    /\ job = [j \in Jobs |-> NoJob] /\ busy = {}
    /\ cancelled = FALSE
    /\ sigs = <<>> /\ sig = "none" /\ main = "reload" /\ drained = FALSE
    /\ edits = 0 /\ hups = 0

-----------------------------------------------------------------------------
(* The environment                                                         *)

\* Another process saves or deletes a set, or a person edits its file.
EditSchedule(s, x) ==
    /\ edits < MaxEdits /\ x # sched[s]
    /\ edits' = edits + 1
    /\ sched' = [sched EXCEPT ![s] = x]
    /\ UNCHANGED <<table, ticking, reload, firing, cancelled, signals, sig, main, drained>>

\* Bug: the channel has no capacity (signals pile up).
MutNotify(k) ==
    /\ Alive
    /\ k = "hup" => hups < MaxHups
    /\ hups' = IF k = "hup" THEN hups + 1 ELSE hups
    /\ sigs' = Append(sigs, k)
    /\ UNCHANGED <<store, table, ticking, reload, firing, cancelled, sig, main, drained>>

\* os/signal never blocks: what does not fit into the channel is dropped.
Notify(k) ==
    /\ Alive /\ Len(sigs) < SignalCap
    /\ k = "hup" => hups < MaxHups
    /\ hups' = IF k = "hup" THEN hups + 1 ELSE hups
    /\ sigs' = Append(sigs, k)
    /\ UNCHANGED <<store, table, ticking, reload, firing, cancelled, sig, main, drained>>

-----------------------------------------------------------------------------
(* Manager.Reload and what it calls, in the goroutine that called it       *)

\* ListSets: an error, or the schedules of the sets whose file could be read
\* (a file that cannot be read is passed over).
ReloadList ==
    /\ Alive /\ reload.pc = "list"
    /\ \/ reload' = [reload EXCEPT !.pc = "failed"]
       \/ reload' = [reload EXCEPT !.pc = "diff", !.desired = sched]
    /\ UNCHANGED <<store, table, ticking, firing, cancelled, signals, sig, main, drained>>

\* Bug: Reload replaces entries whose schedule has not changed.
MutReloadDiff ==
    /\ Alive /\ reload.pc = "diff"
    /\ LET want == reload.desired IN
       reload' = [reload EXCEPT
           !.pc = "update",
           !.todo = {s \in Sets : want[s] # None},
           !.gone = {s \in Sets : want[s] = None /\ entries[s] # None}]
    /\ UNCHANGED <<store, table, ticking, firing, cancelled, signals, sig, main, drained>>

\* The snapshot of the entries, and what the two loops will do by it.
ReloadDiff ==
    /\ Alive /\ reload.pc = "diff"
    /\ LET want == reload.desired IN
       reload' = [reload EXCEPT
           !.pc = "update",
           !.todo = {s \in Sets : want[s] # None /\ ExprOf(entries[s]) # want[s]},
           !.gone = {s \in Sets : want[s] = None /\ entries[s] # None}]
    /\ UNCHANGED <<store, table, ticking, firing, cancelled, signals, sig, main, drained>>

\* Bug: the entry that is replaced stays in the cron.
MutAddOrReplace(s, x) ==
    /\ ids' = ids + 1
    /\ cron' = cron \cup {[id |-> ids + 1, set |-> s, expr |-> x]}
    /\ entries' = [entries EXCEPT ![s] = [id |-> ids + 1, expr |-> x]]

\* AddOrReplace, with an expression that parses.  cron parses it again in the
\* same way, so that AddFunc cannot fail.
AddOrReplace(s, x) ==
    /\ ids' = ids + 1
    /\ cron' = {e \in cron : entries[s] = None \/ e.id # entries[s].id}
                   \cup {[id |-> ids + 1, set |-> s, expr |-> x]}
    /\ entries' = [entries EXCEPT ![s] = [id |-> ids + 1, expr |-> x]]

\* Add or update, in the order of a map: the first bad schedule ends Reload.
ReloadUpdate(s) ==
    /\ Alive /\ reload.pc = "update" /\ s \in reload.todo
    /\ IF reload.desired[s] = Bad
       THEN /\ reload' = [reload EXCEPT !.pc = "failed"]
            /\ UNCHANGED table
       ELSE /\ AddOrReplace(s, reload.desired[s])
            /\ reload' = [reload EXCEPT !.todo = @ \ {s}]
    /\ UNCHANGED <<store, ticking, firing, cancelled, signals, sig, main, drained>>

\* Remove, for an entry that the snapshot had and the store has not.
ReloadRemove(s) ==
    /\ Alive /\ reload.pc = "update" /\ reload.todo = {} /\ s \in reload.gone
    /\ cron' = {e \in cron : e.id # entries[s].id}
    /\ entries' = [entries EXCEPT ![s] = None]
    /\ reload' = [reload EXCEPT !.gone = @ \ {s}]
    /\ UNCHANGED <<store, ids, ticking, firing, cancelled, signals, sig, main, drained>>

\* Bug: Reload returns without removing the entries that are gone.
MutReloadReturn ==
    /\ Alive /\ reload.pc = "update" /\ reload.todo = {}
    /\ reload' = [reload EXCEPT !.pc = "ok"]
    /\ UNCHANGED <<store, table, ticking, firing, cancelled, signals, sig, main, drained>>

ReloadReturn ==
    /\ Alive /\ reload.pc = "update" /\ reload.todo = {} /\ reload.gone = {}
    /\ reload' = [reload EXCEPT !.pc = "ok"]
    /\ UNCHANGED <<store, table, ticking, firing, cancelled, signals, sig, main, drained>>

ReloadStep == \/ ReloadList \/ ReloadDiff \/ ReloadReturn
              \/ \E s \in Sets : ReloadUpdate(s) \/ ReloadRemove(s)

-----------------------------------------------------------------------------
(* The signal goroutine                                                    *)

\* SIGINT or SIGTERM: cancel, and return.
SigTerm ==
    /\ Alive /\ sig = "select" /\ sigs # <<>> /\ Head(sigs) = "term"
    /\ sigs' = Tail(sigs)
    /\ cancelled' = TRUE
    /\ sig' = "done"
    /\ UNCHANGED <<store, table, ticking, reload, firing, hups, main, drained>>

SigHup ==
    /\ Alive /\ sig = "select" /\ sigs # <<>> /\ Head(sigs) = "hup"
    /\ sigs' = Tail(sigs)
    /\ sig' = "reload"
    /\ reload' = [NoReload EXCEPT !.pc = "list"]
    /\ UNCHANGED <<store, table, ticking, firing, cancelled, hups, main, drained>>

\* Bug: the goroutine returns when a Reload fails.
MutSigReloaded ==
    /\ Alive /\ sig = "reload" /\ reload.pc \in {"ok", "failed"}
    /\ sig' = IF reload.pc = "ok" THEN "select" ELSE "done"
    /\ reload' = NoReload
    /\ UNCHANGED <<store, table, ticking, firing, cancelled, signals, main, drained>>

\* Reload has returned: its result is logged, and the loop goes on.
SigReloaded ==
    /\ Alive /\ sig = "reload" /\ reload.pc \in {"ok", "failed"}
    /\ sig' = "select"
    /\ reload' = NoReload
    /\ UNCHANGED <<store, table, ticking, firing, cancelled, signals, main, drained>>

-----------------------------------------------------------------------------
(* Main                                                                    *)

\* The first Reload has succeeded: the signal goroutine starts.
MainLoaded ==
    /\ main = "reload" /\ reload.pc = "ok"
    /\ main' = "run"
    /\ sig' = "select"
    /\ reload' = NoReload
    /\ UNCHANGED <<store, table, ticking, firing, cancelled, signals, drained>>

\* The first Reload has failed: RunDaemon returns ExitRunnerError.
MainLoadFails ==
    /\ main = "reload" /\ reload.pc = "failed"
    /\ main' = "exited"
    /\ UNCHANGED <<store, table, ticking, reload, firing, cancelled, signals, sig, drained>>

\* Manager.Run: runCtx is set before the cron starts.
MainStarts ==
    /\ main = "run"
    /\ main' = "serve" /\ ticking' = TRUE
    /\ UNCHANGED <<store, table, reload, firing, cancelled, signals, sig, drained>>

\* Manager.Run: <-ctx.Done(), cron.Stop().
MainStops ==
    /\ main = "serve" /\ cancelled
    /\ main' = "stop" /\ ticking' = FALSE
    /\ UNCHANGED <<store, table, reload, firing, cancelled, signals, sig, drained>>

\* Bug: Manager.Run does not wait for the jobs.
MutMainStopped ==
    /\ main = "stop"
    /\ main' = "drain"
    /\ UNCHANGED <<store, table, ticking, reload, firing, cancelled, signals, sig, drained>>

\* Manager.Run: <-stopCtx.Done(), which cron closes when all jobs have ended.
MainStopped ==
    /\ main = "stop" /\ \A j \in Jobs : job[j].pc = "free"
    /\ main' = "drain"
    /\ UNCHANGED <<store, table, ticking, reload, firing, cancelled, signals, sig, drained>>

\* The goroutine that waits for the runs to end and closes drained.
DrainWaits ==
    /\ main = "drain" /\ ~drained /\ \A j \in Jobs : job[j].pc # "running"
    /\ drained' = TRUE
    /\ UNCHANGED <<store, table, ticking, reload, firing, cancelled, signals, sig, main>>

MainDrained ==
    /\ main = "drain" /\ drained
    /\ main' = "exited"
    /\ UNCHANGED <<store, table, ticking, reload, firing, cancelled, signals, sig, drained>>

\* daemonDrainTimeout has passed.
MainDrainTimeout ==
    /\ main = "drain"
    /\ main' = "exited"
    /\ UNCHANGED <<store, table, ticking, reload, firing, cancelled, signals, sig, drained>>

-----------------------------------------------------------------------------
(* Jobs                                                                    *)

\* cron starts a goroutine for an entry that is due.
Fire(e, j) ==
    /\ Alive /\ ticking /\ job[j].pc = "free"
    /\ job' = [job EXCEPT ![j] = [pc |-> "start", set |-> e.set]]
    /\ UNCHANGED <<store, table, ticking, reload, busy, cancelled, signals, sig, main, drained>>

\* Bug: fire looks whether the set is in flight, and claims it later.
MutJobClaim(j) ==
    /\ Alive /\ job[j].pc = "start"
    /\ job' = [job EXCEPT ![j] = IF @.set \in busy THEN NoJob ELSE [@ EXCEPT !.pc = "claimed"]]
    /\ UNCHANGED <<store, table, ticking, reload, busy, cancelled, signals, sig, main, drained>>

\* fire: LoadOrStore, and return if the set is in flight.
JobClaim(j) ==
    /\ Alive /\ job[j].pc = "start"
    /\ job' = [job EXCEPT ![j] = IF @.set \in busy THEN NoJob ELSE [@ EXCEPT !.pc = "claimed"]]
    /\ busy' = busy \cup {job[j].set}
    /\ UNCHANGED <<store, table, ticking, reload, cancelled, signals, sig, main, drained>>

\* fire reads runCtx and calls onFire, which adds itself to inflight and runs
\* the set.
JobRuns(j) ==
    /\ Alive /\ job[j].pc = "claimed"
    /\ job' = [job EXCEPT ![j].pc = "running"]
    /\ UNCHANGED <<store, table, ticking, reload, busy, cancelled, signals, sig, main, drained>>

\* The run has ended, well or not: onFire returns.
JobReturns(j) ==
    /\ Alive /\ job[j].pc = "running"
    /\ job' = [job EXCEPT ![j].pc = "ran"]
    /\ UNCHANGED <<store, table, ticking, reload, busy, cancelled, signals, sig, main, drained>>

\* Bug: the set is not released.
MutJobReleases(j) ==
    /\ Alive /\ job[j].pc = "ran"
    /\ job' = [job EXCEPT ![j] = NoJob]
    /\ UNCHANGED <<store, table, ticking, reload, busy, cancelled, signals, sig, main, drained>>

\* The deferred Delete.
JobReleases(j) ==
    /\ Alive /\ job[j].pc = "ran"
    /\ job' = [job EXCEPT ![j] = NoJob]
    /\ busy' = busy \ {job[j].set}
    /\ UNCHANGED <<store, table, ticking, reload, cancelled, signals, sig, main, drained>>

-----------------------------------------------------------------------------
Exited == main = "exited" /\ UNCHANGED vars

SigStep  == SigTerm \/ SigHup \/ SigReloaded
MainStep == \/ MainLoaded \/ MainLoadFails \/ MainStarts \/ MainStops \/ MainStopped
            \/ DrainWaits \/ MainDrained \/ MainDrainTimeout
JobStep(j) == JobClaim(j) \/ JobRuns(j) \/ JobReleases(j)

Next ==
    \/ \E s \in Sets, x \in Schedules : EditSchedule(s, x)
    \/ \E k \in {"hup", "term"} : Notify(k)
    \/ ReloadStep \/ SigStep \/ MainStep
    \/ \E e \in cron, j \in Jobs : Fire(e, j)
    \/ \E j \in Jobs : JobStep(j) \/ JobReturns(j)
    \/ Exited

Spec == Init /\ [][Next]_vars

(***************************************************************************)
(* Goroutines that can run do run.  Nothing is assumed of cron, of the     *)
(* signals or of the store.  FairSpec adds what setrunner.Run does, which  *)
(* passes its context to every load test: a run ends once it is cancelled. *)
(***************************************************************************)
Scheduling ==
    /\ WF_vars(ReloadStep) /\ WF_vars(SigStep) /\ WF_vars(MainStep)
    /\ \A j \in Jobs : WF_vars(JobStep(j))

SlowSpec == Spec /\ Scheduling
FairSpec == SlowSpec /\ \A j \in Jobs : WF_vars(cancelled /\ JobReturns(j))

-----------------------------------------------------------------------------
(* Properties                                                              *)

TypeOK ==
    /\ sched \in [Sets -> Schedules]
    /\ entries \in [Sets -> [id : 1..ids, expr : Exprs] \cup {None}]
    /\ cron \subseteq [id : 1..ids, set : Sets, expr : Exprs]
    /\ ids \in Nat /\ edits \in 0..MaxEdits /\ hups \in 0..MaxHups
    /\ reload \in [pc : {"idle", "list", "diff", "update", "ok", "failed"},
                   desired : [Sets -> Schedules], todo : SUBSET Sets, gone : SUBSET Sets]
    /\ job \in [Jobs -> [pc : {"free", "start", "claimed", "running", "ran"},
                          set : Sets \cup {None}]]
    /\ busy \subseteq Sets
    /\ sigs \in Seq({"hup", "term"}) /\ Len(sigs) <= SignalCap
    /\ sig \in {"none", "select", "reload", "done"}
    /\ main \in {"reload", "run", "serve", "stop", "drain", "exited"}
    /\ {ticking, cancelled, drained} \subseteq BOOLEAN

Holds(j, s) == job[j].set = s /\ job[j].pc \in {"claimed", "running", "ran"}

\* Single flight: a set has at most one run at a time, and it is marked as in
\* flight exactly while a job holds it: a mark that stayed behind would keep
\* the set from ever running again (Manager.fire).
SingleFlight ==
    /\ \A i, j \in Jobs, s \in Sets : Holds(i, s) /\ Holds(j, s) => i = j
    /\ \A s \in Sets : s \in busy <=> \E j \in Jobs : Holds(j, s)

\* The table and the cron agree: no entry of the cron is lost to the table (it
\* could never be removed, and its set would fire twice), and none is missing
\* (AddOrReplace, Remove).
TableMatchesCron ==
    cron = {[id |-> entries[s].id, set |-> s, expr |-> entries[s].expr] :
               s \in {t \in Sets : entries[t] # None}}

\* A Reload that reports success has left exactly the schedules that ListSets
\* gave it, whatever the table held before (Reload diffs against a snapshot
\* and works outside the lock).
ReloadApplies ==
    reload.pc = "ok" => \A s \in Sets : ExprOf(entries[s]) = reload.desired[s]

\* A Reload leaves the entry of an unchanged schedule alone: replacing it
\* would start an @every schedule from zero at each SIGHUP (Reload's diff).
UnchangedKept ==
    [][\A s \in Sets : entries'[s] # entries[s] => ExprOf(entries'[s]) # ExprOf(entries[s])]_vars

\* When RunDaemon returns, having stopped the cron, no job is left: a run is
\* never cut off by the end of the process (Manager.Run waits for the cron's
\* stop context).
QuietAtExit == main \in {"drain", "exited"} => \A j \in Jobs : job[j].pc = "free"

\* A SIGTERM that reached the channel ends the daemon, whatever it is doing:
\* in a Reload, behind SIGHUPs, with runs in flight (the signal goroutine's
\* loop, Manager.Run, the drain).
TermLeadsToExit == "term" \in ToSet(sigs) ~> ~Alive

\* The comment on daemonDrainTimeout and docs/sets.md: the daemon waits a
\* bounded time for runs in flight, however long they take.
DrainIsBounded == cancelled ~> ~Alive

\* The comment on FireFunc: "if it's already cancelled the Manager skips the
\* fire entirely".
NoFireOnceCancelled ==
    [][\A j \in Jobs : job[j].pc = "claimed" /\ job'[j].pc = "running" => ~cancelled]_vars
=============================================================================
