---------------------------- MODULE SetCommands ----------------------------
(***************************************************************************)
(* One execution of a set among other users of the store.  Main is either  *)
(* "crankfire set run" with its --threshold and --override flags, or a job *)
(* of the daemon, whose context can be cancelled.  The editors are other   *)
(* commands and TUIs that save and delete the set and its sessions at any  *)
(* moment, and may die while they do.                                      *)
(*                                                                         *)
(* The flags reach the runner through the store: set run saves the changed *)
(* set under its own id, and Run reads it again.                           *)
(***************************************************************************)
EXTENDS SetRunner

CONSTANTS
    Editors,      \* other processes
    SetDocs,      \* sets that exist or that an editor may save
    Configs,      \* configurations of sessions
    Limits,       \* thresholds that sets and flags may state
    Flags,        \* choices of flags: [thresholds, overrides]
    EditsBeside,  \* bound: how many operations each editor begins while the set runs
    EditsAlone,   \* the same when nobody runs it
    NoFlags       \* the flags of a daemon's job

VARIABLES
    caller,       \* "cli", "daemon", or "nobody"
    flags,        \* the command's flags
    cmd,          \* where the command is
    mine,         \* setRun's set, with the flags applied
    exit,         \* exit code, -1 while the command runs
    foreign,      \* another process has changed the set since Main saved it
    edits         \* operations each editor may still begin

cmdVars == <<caller, flags, cmd, mine, exit, foreign>>
vars == <<storeVars, runVars, cmdVars, edits>>

ExitOK == 0
ExitUsage == 1
ExitThresholdFailed == 2
ExitRunnerError == 3

---------------------------------------------------------------------------
\* validateSetContents: names are unique within a stage, an item without one
\* counting by its session; the sessions must be there when the set is saved.
KeyOf(item) == IF item.name = "" THEN item.session ELSE item.name
ValidSet(s) ==
    /\ Len(s.stages) > 0
    /\ \A k \in DOMAIN s.stages :
          LET its == s.stages[k].items IN
          /\ Len(its) > 0
          /\ \A i, j \in DOMAIN its : KeyOf(its[i]) = KeyOf(its[j]) => i = j
          /\ \A i \in DOMAIN its : Readable(SessionFile[its[i].session])
          /\ s.stages[k].onFailure \in {"", "abort", "continue"}
    /\ \A k \in DOMAIN s.thresholds : s.thresholds[k].metric # "" /\ s.thresholds[k].op # ""

\* findItem: the first item of that name, in whichever stage it is.
Named(s, n) == {x \in Positions(s) : NameAt(s, x) = n}
Before(x, y) == x[1] < y[1] \/ (x[1] = y[1] /\ x[2] <= y[2])
FindItem(s, n) == CHOOSE x \in Named(s, n) : \A y \in Named(s, n) : Before(x, y)

SetOverride(s, o) ==
    LET x == FindItem(s, o.item) IN
    [s EXCEPT !.stages[x[1]].items[x[2]].overrides.fields =
        Merge(@, [f \in {o.field} |-> o.value])]

\* applyOverrideFlags, in the order of the flags.
WithOverrides(s, os) ==
    LET apply[k \in 0..Len(os)] == IF k = 0 THEN s ELSE SetOverride(apply[k - 1], os[k])
    IN apply[Len(os)]

WithFlags(s, f) ==
    WithOverrides([s EXCEPT !.thresholds = @ \o f.thresholds], f.overrides)

UnknownItem(s, f) == \E k \in DOMAIN f.overrides : Named(s, f.overrides[k].item) = {}

\* What the set's file may hold: a set that was saved, with flags applied or not.
StoredSets ==
    SetDocs \cup {WithFlags(x[1], x[2]) : x \in {y \in SetDocs \X Flags : ~UnknownItem(y[1], y[2])}}

WellFormed(s) ==
    /\ {"stages", "thresholds"} \subseteq DOMAIN s
    /\ s.thresholds \in Seq(Limits)
    /\ Len(s.stages) \in Nat
    /\ DOMAIN s.stages = 1..Len(s.stages)
    /\ \A k \in DOMAIN s.stages :
          /\ "items" \in DOMAIN s.stages[k]
          /\ DOMAIN s.stages[k].items \subseteq Slots
          /\ \A i \in DOMAIN s.stages[k].items :
                /\ {"name", "overrides"} \subseteq DOMAIN s.stages[k].items[i]
                /\ "fields" \in DOMAIN s.stages[k].items[i].overrides

ASSUME DocsAssumption ==
    /\ \A s \in SetDocs : WellFormed(s)
    /\ \A f \in Flags :
          /\ f.thresholds \in Seq(Limits)
          /\ Len(f.overrides) \in Nat
          /\ DOMAIN f.overrides = 1..Len(f.overrides)
    /\ IsFiniteSet(Slots) /\ Slots \subseteq Nat
    /\ \A t \in Limits : t.value \in Int
    /\ Summaries \subseteq [total : Nat, errors : Nat, seconds : Nat, p50 : Nat, p95 : Nat, p99 : Nat]

ASSUME SetCommandsAssumption ==
    /\ Main \notin Editors
    /\ Procs = Editors \cup {Main}
    /\ SetFile \in SetPaths
    /\ Record \in RecordPaths
    /\ NoFlags \in Flags
    /\ NoSet \notin StoredSets
    /\ StoredSets \cup Configs \subseteq Docs
    /\ \A s \in {"running", "completed", "failed", "cancelled"} : RunDoc(s) \in Docs

---------------------------------------------------------------------------
InitFiles ==
    {f \in [Paths -> SetDocs \cup Configs \cup {Absent}] :
        /\ f[SetFile] \in SetDocs
        /\ \A x \in SessionPaths : f[x] \in Configs
        /\ f[Record] = Absent}

Init ==
    /\ \E f \in InitFiles : StoreInit(f) /\ ValidSet(f[SetFile])
    /\ RunInit
    /\ \/ caller = "cli" /\ flags \in Flags /\ cmd = "get" /\ edits = EditsBeside
       \/ caller = "daemon" /\ flags = NoFlags /\ cmd = "fire" /\ edits = EditsBeside
       \/ caller = "nobody" /\ flags = NoFlags /\ cmd = "exited" /\ edits = EditsAlone
    /\ mine = NoSet
    /\ exit = -1
    /\ foreign = FALSE

Exit(code) ==
    /\ exit' = code
    /\ cmd' = "exited"

\* fire, in the daemon: straight into the runner.
FireRun ==
    /\ cmd = "fire"
    /\ cmd' = "run"
    /\ pc' = "get"
    /\ UNCHANGED <<set, stageNo, itemPc, config, result, perItem, anyFail, stages, judged, cancelled, status>>
    /\ UNCHANGED <<storeVars, caller, flags, mine, exit, foreign, edits>>

\* A bug that could be: the overrides are parsed and forgotten.
MutGetAndMerge ==
    /\ cmd = "get"
    /\ IF ~Readable(SetFile) \/ UnknownItem(DocOr(SetFile, EmptySet), flags)
       THEN Exit(ExitUsage) /\ UNCHANGED mine
       ELSE /\ mine' = WithFlags(DocOr(SetFile, EmptySet), [flags EXCEPT !.overrides = << >>])
            /\ cmd' = "save"
            /\ UNCHANGED exit
    /\ UNCHANGED <<storeVars, runVars, caller, flags, foreign, edits>>

\* GetSet and the flags.
GetAndMerge ==
    /\ cmd = "get"
    /\ IF ~Readable(SetFile) \/ UnknownItem(DocOr(SetFile, EmptySet), flags)
       THEN Exit(ExitUsage) /\ UNCHANGED mine
       ELSE /\ mine' = WithFlags(DocOr(SetFile, EmptySet), flags)
            /\ cmd' = "save"
            /\ UNCHANGED exit
    /\ UNCHANGED <<storeVars, runVars, caller, flags, foreign, edits>>

\* SaveSet under the same id, flags or none.
SaveMine ==
    /\ cmd = "save"
    /\ IF ValidSet(mine)
       THEN BeginSave(Main, SetFile, mine) /\ cmd' = "saving" /\ UNCHANGED exit
       ELSE Exit(ExitUsage) /\ UNCHANGED storeVars
    /\ UNCHANGED <<runVars, caller, flags, mine, foreign, edits>>

MineSaved ==
    /\ cmd = "saving"
    /\ \/ step[Main] = "ok" /\ cmd' = "run" /\ pc' = "get" /\ UNCHANGED exit
       \/ step[Main] = "err" /\ Exit(ExitUsage) /\ UNCHANGED pc
    /\ UNCHANGED <<set, stageNo, itemPc, config, result, perItem, anyFail, stages, judged, cancelled, status>>
    /\ UNCHANGED <<storeVars, caller, flags, mine, foreign, edits>>

\* A bug that could be: the status is looked at before the run's error.
MutReport ==
    /\ cmd = "run" /\ pc = "returned"
    /\ Exit(IF ~AllPassed(judged) THEN ExitThresholdFailed
            ELSE IF status \in {"failed", "cancelled"} THEN ExitRunnerError
            ELSE ExitOK)
    /\ UNCHANGED <<storeVars, runVars, caller, flags, mine, foreign, edits>>

\* The exit code of set run, whose HTML report may fail to be written.
Report ==
    /\ cmd = "run" /\ pc = "returned"
    /\ \/ Exit(IF status = "error" THEN ExitRunnerError
               ELSE IF ~AllPassed(judged) THEN ExitThresholdFailed
               ELSE IF status # "completed" THEN ExitRunnerError
               ELSE ExitOK)
       \/ caller = "cli" /\ Exit(ExitRunnerError)
    /\ UNCHANGED <<storeVars, runVars, caller, flags, mine, foreign, edits>>

\* Only a job of the daemon has a context that anything cancels.
CancelJob ==
    /\ caller = "daemon" /\ ~cancelled
    /\ Cancel
    /\ UNCHANGED <<cmdVars, edits>>

MainDies ==
    /\ cmd \notin {"exited", "dead"}
    /\ cmd' = "dead"
    /\ Crash
    /\ UNCHANGED <<caller, flags, mine, exit, foreign, edits>>

\* The store's steps of an operation of Main; its save makes the set its own.
MainStores ==
    /\ pc # "dead"
    /\ StoreStep(Main)
    /\ foreign' = IF step[Main] = "rename" /\ at[Main] = SetFile /\ step'[Main] = "ok"
                  THEN FALSE ELSE foreign
    /\ UNCHANGED <<runVars, caller, flags, cmd, mine, exit, edits>>

Disturbs == foreign' = (foreign \/ (file'[SetFile] # file[SetFile] /\ pc \in {"idle", "get"}))

EditorStep(p) ==
    /\ StoreStep(p) /\ Disturbs
    /\ UNCHANGED <<runVars, caller, flags, cmd, mine, exit, edits>>

EditorBegins(p) ==
    /\ edits[p] > 0
    /\ edits' = [edits EXCEPT ![p] = @ - 1]
    /\ \/ \E s \in SetDocs : ValidSet(s) /\ BeginSave(p, SetFile, s)
       \/ \E x \in SessionPaths, c \in Configs : BeginSave(p, x, c)
       \/ \E x \in SetPaths \cup SessionPaths : Remove(p, x)
    /\ Disturbs
    /\ UNCHANGED <<runVars, caller, flags, cmd, mine, exit>>

EditorDies(p) ==
    /\ ~Resting(p)
    /\ Die(p)
    /\ UNCHANGED <<runVars, cmdVars, edits>>

RunnerSteps ==
    /\ RunStep \/ \E i \in Slots : ItemStep(i)
    /\ UNCHANGED <<cmdVars, edits>>

Command == FireRun \/ GetAndMerge \/ SaveMine \/ MineSaved \/ Report

Next ==
    \/ Command
    \/ CancelJob
    \/ MainDies
    \/ MainStores
    \/ RunnerSteps
    \/ \E p \in Editors : EditorBegins(p) \/ EditorStep(p) \/ EditorDies(p)

Over == cmd \in {"exited", "dead"}

\* Goroutines are scheduled; no item is said to end that the code lets run on.
Spec ==
    /\ Init /\ [][Next]_vars
    /\ WF_vars(Command) /\ WF_vars(MainStores)
    /\ WF_vars(RunStep /\ UNCHANGED <<cmdVars, edits>>)
    /\ \A i \in Slots : WF_vars(~Endless(i) /\ ItemStep(i) /\ UNCHANGED <<cmdVars, edits>>)
    /\ \A p \in Editors : WF_vars(EditorStep(p))

---------------------------------------------------------------------------
Statuses == {"none", "error", "completed", "failed", "cancelled"}

TypeOK ==
    /\ StoreTypeOK
    /\ pc \in {"idle", "get", "create", "creating", "stage", "items", "judge",
               "finalizing", "returned", "dead"}
    /\ stageNo \in 0..Len(stages) + 1
    /\ itemPc \in [Slots -> {"none", "ready", "build", "merge", "done"}]
    /\ status \in Statuses
    /\ exit \in -1..3
    /\ edits \in [Editors -> Nat]

\* The record's status, for whoever lists the runs.
Recorded == IF file[Record] = Absent THEN "none" ELSE file[Record].status

\* The exit code 0 of set run means: the record says completed, and, unless
\* another process changed the set after the command had saved it, each
\* threshold of the command line was applied and held (setRun, set.go).
ExitMeansPassed ==
    caller = "cli" /\ exit = ExitOK =>
        /\ Recorded = "completed"
        /\ ~foreign => \A k \in DOMAIN flags.thresholds : \E j \in DOMAIN judged :
              /\ set.thresholds[j] = flags.thresholds[k]
              /\ \A r \in judged[j] : r.passed

\* An item runs with what --override said of it, under the same proviso, when
\* it is the only item of its name (applyOverrideFlags, runItem).
LastOf(k) == \A j \in DOMAIN flags.overrides :
    flags.overrides[j].item = flags.overrides[k].item /\ flags.overrides[j].field = flags.overrides[k].field => j <= k
OverridesInForce ==
    caller = "cli" /\ ~foreign =>
        \A i \in Slots : config[i] # NoConfig =>
            \A k \in DOMAIN flags.overrides :
                LET o == flags.overrides[k] IN
                Items(stageNo)[i].name = o.item /\ Cardinality(Named(set, o.item)) = 1 /\ LastOf(k) =>
                    config[i].fields[o.field] = IF o.field = "auth_token" THEN Expand(o.value) ELSE o.value

\* What SetRun sees of the state.
PlanOf(s) ==
    [k \in DOMAIN s.stages |-> [items |-> DOMAIN s.stages[k].items, abort |-> Aborts(s.stages[k])]]
Plan == IF set = NoSet \/ Recorded = "none" THEN << >> ELSE PlanOf(set)
Waiting == {i \in Slots : itemPc[i] = "ready"}
Underway == {i \in Slots : Busy(i)}

Abstract == INSTANCE SetRun WITH
    plan <- Plan, stage <- stageNo, waiting <- Waiting, busy <- Underway,
    failed <- anyFail, record <- Recorded, stopped <- cancelled, alive <- cmd # "dead"
\* The run, its record and its death implement SetRun.
ImplementsSetRun == Abstract!Spec

\* A command or job that is not killed ends, whatever the editors do to the
\* set, to its sessions and to the locks, unless it comes upon an item without
\* an end: a session saved without a total, a duration or a plan, or with a
\* total alone and no timeout, of which the builder makes a run that set run's
\* context, cancelled by nobody, never stops (main.go:80, build.go:58-67).
CommandEnds == <>Over \/ <>[](\E i \in Slots : Endless(i))
=============================================================================
