-------------------------------- MODULE Tui --------------------------------
(***************************************************************************)
(* The terminal UI: the stack of screens (internal/tui/root.go), the       *)
(* screens that are reached from it, and the Run screen, which runs a      *)
(* session in the background and keeps its record (internal/tui/screens).  *)
(*                                                                         *)
(* Bubble Tea executes the command that an update returns in a goroutine   *)
(* of its own and hands its message to the program when it ends: messages  *)
(* may arrive in any order, and Root gives all but pushes and pops to the  *)
(* screen that is on top by then.                                          *)
(***************************************************************************)
EXTENDS Integers, SequencesExt

CONSTANTS
    MaxRuns,     \* bound: Run screens, and run records
    MaxDepth,    \* bound: screens on the stack or about to be pushed
    MaxWaiting   \* bound: pushes and pops that a key may find on their way

ASSUME TuiAssumption ==
    /\ MaxRuns \in Nat
    /\ MaxDepth \in Nat
    /\ MaxWaiting \in Nat

VARIABLES
    alive,      \* the program has not quit
    stack,      \* the screens [kind, run], the last one on top
    pushes,     \* the messages on their way: screens to push,
    pops,       \* how many pops,
    ticks,      \* how many ticks of Run screens,
    started,    \* the runs that were started [run, rec, ok]
    starts,     \* commands to be executed: Run screens to start,
    finals,     \* and for each Run screen how often to finalise it
    status,     \* each Run screen: see Statuses
    recOf,      \* the record it knows, 0 for none
    coll,       \* it has a collector and a cancel function
    erred,      \* its status message tells of errors
    finalized,  \* its record was written
    finish,     \* finishPending: the record whose runner has returned, or 0
    rec,        \* each record's status in the store
    owner,      \* the Run screen that created it
    runner,     \* its runner: "none", "going", "done" or "failed"
    ctxDone,    \* its context is cancelled
    early,      \* history: the Run screens cancelled by a key before they knew their record
    hasty,      \* such a key was pressed too early or too often
    muddled     \* history: a message met a screen it was not meant for, or came too late

inboxVars  == <<pushes, pops, ticks, started>>
runVars    == <<status, recOf, coll, erred, finalized>>
recordVars == <<rec, owner, runner, ctxDone>>
historyVars == <<early, hasty, muddled>>
vars == <<alive, stack, inboxVars, starts, finals, runVars, finish, recordVars,
          historyVars>>

Runs == 1..MaxRuns
Statuses == {"starting", "running", "cancelled", "completed", "failed"}
Screen(kind, run) == [kind |-> kind, run |-> run]
Top == Last(stack)
Fresh == {r \in Runs : status[r] = "none" /\ \A q \in 1..(r - 1) : status[q] # "none"}

Init ==
    /\ alive = TRUE
    /\ stack = <<Screen("list", 0)>>
    /\ pushes = <<>>
    /\ pops = 0
    /\ ticks = 0
    /\ started = {}
    /\ starts = {}
    /\ finals = [r \in Runs |-> 0]
    /\ status = [r \in Runs |-> "none"]
    /\ recOf = [r \in Runs |-> 0]
    /\ coll = [r \in Runs |-> FALSE]
    /\ erred = [r \in Runs |-> FALSE]
    /\ finalized = [r \in Runs |-> FALSE]
    /\ finish = [r \in Runs |-> 0]
    /\ rec = [k \in Runs |-> "none"]
    /\ owner = [k \in Runs |-> 0]
    /\ runner = [k \in Runs |-> "none"]
    /\ ctxDone = {}
    /\ early = {}
    /\ hasty = FALSE
    /\ muddled = FALSE

---------------------------------------------------------------------------
\* A key on a screen that is not a Run screen: of the list's and its details'
\* keys, those that push a screen or pop their own (Screens has the others).
Room == Len(stack) + Len(pushes) < MaxDepth
\* Bound: after a message has met the wrong screen no more keys are pressed.
Patient == Len(pushes) + pops <= MaxWaiting /\ ~muddled

Push(screen) == Room /\ pushes' = Append(pushes, screen) /\ UNCHANGED <<alive, pops, status>>
PushRun ==
    \E r \in Fresh :
        /\ Room
        /\ pushes' = Append(pushes, Screen("run", r))
        /\ status' = [status EXCEPT ![r] = "starting"]
        /\ UNCHANGED <<alive, pops>>

Key ==
    /\ alive
    /\ Patient
    /\ Top.kind # "run"
    /\ \/ Len(stack) = 1 /\ alive' = FALSE /\ UNCHANGED <<pushes, pops, status>>
       \/ PushRun
       \/ Push(Screen("page", 0))
       \/ Top.kind = "page" /\ pops' = pops + 1 /\ UNCHANGED <<alive, pushes, status>>
    /\ UNCHANGED <<stack, ticks, started, starts, finals, recOf, coll, erred, finalized, finish,
                   recordVars, historyVars>>

\* cancelRun: q, esc or ctrl+c on a Run screen.
CancelRun ==
    /\ alive
    /\ Patient
    /\ Top.kind = "run"
    /\ LET r == Top.run
       IN IF status[r] \in {"completed", "failed", "cancelled"}
          THEN /\ pops' = pops + 1
               /\ hasty' = TRUE
               /\ UNCHANGED <<status, ctxDone, finals, early>>
          ELSE /\ status' = [status EXCEPT ![r] = "cancelled"]
               /\ ctxDone' = IF coll[r] THEN ctxDone \cup {recOf[r]} ELSE ctxDone
               /\ finals' = [finals EXCEPT ![r] = IF recOf[r] = 0 THEN @ + 1 ELSE @]
               /\ early' = IF recOf[r] = 0 THEN early \cup {r} ELSE early
               /\ hasty' = (hasty \/ recOf[r] = 0)
               /\ UNCHANGED pops
    /\ UNCHANGED <<alive, stack, pushes, ticks, started, starts, recOf, coll,
                   erred, finalized, finish, rec, owner, runner, muddled>>

---------------------------------------------------------------------------
\* Root: pushes and pops.  The screen that is on top after them is
\* initialised, a Run screen that was covered by another for a second time.
InitTop(screen) ==
    IF screen.kind = "run" THEN starts' = starts \cup {screen.run} /\ ticks' = ticks + 1
    ELSE UNCHANGED <<starts, ticks>>

DeliverPush ==
    /\ alive
    /\ \E i \in DOMAIN pushes :
          /\ pushes' = RemoveAt(pushes, i)
          /\ stack' = Append(stack, pushes[i])
          /\ InitTop(pushes[i])
    /\ muddled' = (muddled \/ Top.kind = "run")
    /\ UNCHANGED <<alive, pops, started, finals, runVars, finish, recordVars, early, hasty>>

DeliverPop ==
    /\ alive
    /\ pops > 0
    /\ pops' = pops - 1
    /\ stack' = IF Len(stack) > 1 THEN Front(stack) ELSE stack
    /\ InitTop(Last(stack'))
    /\ muddled' = (muddled \/ (Len(stack) > 1 /\ Top.kind = "run" /\ ~finalized[Top.run]))
    /\ UNCHANGED <<alive, pushes, started, finals, runVars, finish, recordVars, early, hasty>>

---------------------------------------------------------------------------
\* The Run screen.  Its start command creates the record, builds the runner
\* and leaves it running.
StartRun ==
    /\ alive
    /\ \E r \in starts, k \in Runs :
          /\ rec[k] = "none" /\ \A j \in 1..(k - 1) : rec[j] # "none"
          /\ starts' = starts \ {r}
          /\ owner' = [owner EXCEPT ![k] = r]
          /\ \/ /\ rec' = [rec EXCEPT ![k] = "running"]
                /\ \E ok \in BOOLEAN :
                      /\ started' = started \cup {[run |-> r, rec |-> k, ok |-> ok]}
                      /\ runner' = [runner EXCEPT ![k] = IF ok THEN "going" ELSE @]
             \/ /\ rec' = [rec EXCEPT ![k] = "absent"]
                /\ started' = started \cup {[run |-> r, rec |-> 0, ok |-> FALSE]}
                /\ UNCHANGED runner
    /\ UNCHANGED <<alive, stack, pushes, pops, ticks, finals, runVars, finish,
                   ctxDone, historyVars>>

\* runStartedMsg, to whichever Run screen is on top.
DeliverStarted ==
    /\ alive
    /\ \E m \in started :
          /\ started' = started \ {m}
          /\ muddled' = (muddled \/ Top.kind # "run" \/ Top.run # m.run
                          \/ status[m.run] \notin {"starting", "cancelled"} \/ recOf[m.run] # 0)
          /\ IF Top.kind # "run" THEN UNCHANGED <<runVars, finals>>
             ELSE LET r == Top.run
                  IN /\ recOf' = [recOf EXCEPT ![r] = m.rec]
                     /\ coll' = [coll EXCEPT ![r] = m.ok]
                     /\ status' = [status EXCEPT ![r] = IF ~m.ok THEN "failed"
                                                        ELSE IF @ = "starting" THEN "running"
                                                        ELSE @]
                     /\ erred' = [erred EXCEPT ![r] = @ \/ ~m.ok]
                     /\ finals' = [finals EXCEPT ![r] = IF m.ok THEN @ ELSE @ + 1]
                     /\ UNCHANGED finalized
    /\ UNCHANGED <<alive, stack, pushes, pops, ticks, starts, finish, recordVars,
                   early, hasty>>

\* The goroutine of the run, at its end: the next tick will find its message.
RunnerReturns(k) ==
    /\ alive
    /\ runner[k] = "going"
    /\ \E how \in {"done", "failed"} : runner' = [runner EXCEPT ![k] = how]
    /\ finish' = [finish EXCEPT ![owner[k]] = k]
    /\ UNCHANGED <<alive, stack, inboxVars, starts, finals, runVars, rec, owner,
                   ctxDone, historyVars>>

\* A bug that could be: the end of a run overrules its cancellation.
MutHandleFinished(r) ==
    /\ status' = [status EXCEPT ![r] = "completed"]
    /\ erred' = [erred EXCEPT ![r] = runner[finish[r]] = "failed"]
    /\ finish' = [finish EXCEPT ![r] = 0]
    /\ finals' = [finals EXCEPT ![r] = @ + 1]

HandleFinished(r) ==
    /\ IF status[r] = "cancelled" THEN UNCHANGED <<status, erred>>
       ELSE /\ status' = [status EXCEPT ![r] = "completed"]
            /\ erred' = [erred EXCEPT ![r] = @ \/ runner[finish[r]] = "failed"]
    /\ finish' = [finish EXCEPT ![r] = 0]
    /\ finals' = [finals EXCEPT ![r] = @ + 1]

\* A bug that could be: a cancelled run is not waited for.
MutRearmed(r) == ~finalized[r] /\ status[r] # "cancelled"

\* A tick that finds no end is sent again, until the screen is finalised.
Rearmed(r) == ~finalized[r]

DeliverTick ==
    /\ alive
    /\ ticks > 0
    /\ IF Top.kind # "run" THEN ticks' = ticks - 1 /\ UNCHANGED <<status, erred, finish, finals>>
       ELSE IF finish[Top.run] # 0 THEN ticks' = ticks - 1 /\ HandleFinished(Top.run)
       ELSE /\ ticks' = IF Rearmed(Top.run) THEN ticks ELSE ticks - 1
            /\ UNCHANGED <<status, erred, finish, finals>>
    /\ UNCHANGED <<alive, stack, pushes, pops, started, starts, recOf, coll,
                   finalized, recordVars, historyVars>>

\* finalizeCmd: the first one writes the record, each one pops a screen.  A
\* status message makes the store keep a completed run as failed.
FinalStatus(r) ==
    CASE status[r] = "completed" /\ ~erred[r] -> "completed"
      [] status[r] = "cancelled" -> "cancelled"
      [] OTHER -> "failed"

Finalize(r) ==
    /\ alive
    /\ finals[r] > 0
    /\ finals' = [finals EXCEPT ![r] = @ - 1]
    /\ pops' = pops + 1
    /\ finalized' = [finalized EXCEPT ![r] = TRUE]
    /\ rec' = IF finalized[r] \/ recOf[r] = 0 THEN rec
              ELSE [rec EXCEPT ![recOf[r]] = FinalStatus(r)]
    /\ UNCHANGED <<alive, stack, pushes, ticks, started, starts, status, recOf,
                   coll, erred, finish, owner, runner, ctxDone, historyVars>>

---------------------------------------------------------------------------
Next ==
    \/ Key
    \/ CancelRun
    \/ DeliverPush
    \/ DeliverPop
    \/ StartRun
    \/ DeliverStarted
    \/ DeliverTick
    \/ \E k \in Runs : RunnerReturns(k)
    \/ \E r \in Runs : Finalize(r)

\* Commands are executed and messages delivered; a cancelled runner returns.
\* No user need press a key, and no other run ever need end.
Fairness ==
    /\ WF_vars(DeliverPush) /\ WF_vars(DeliverPop)
    /\ WF_vars(StartRun) /\ WF_vars(DeliverStarted) /\ WF_vars(DeliverTick)
    /\ \A k \in Runs : WF_vars(k \in ctxDone /\ RunnerReturns(k))
    /\ \A r \in Runs : WF_vars(Finalize(r))

Spec == Init /\ [][Next]_vars /\ Fairness

---------------------------------------------------------------------------
\* A record that is no longer running tells what happened to its own run: its
\* context was cancelled, it ended without errors and nobody had cancelled it,
\* or it was not built or had errors.  This needs each start message to have
\* met its own screen in time (finalizeCmd, handleFinished, cancelRun and the
\* registry of ended runs, in any order).  It needs, of a record that says
\* "cancelled", a key that was not early: cancelRun has no function to call
\* before the start message is there (run.go:240-247), and the run that starts
\* afterwards is recorded as cancelled and goes on to its own end.
RecordTruthful ==
    ~muddled =>
        \A k \in Runs :
            /\ rec[k] = "completed" => runner[k] = "done"
            /\ rec[k] = "cancelled" => k \in ctxDone \/ owner[k] \in early
            /\ rec[k] = "failed" => runner[k] \in {"none", "failed"}
            /\ rec[k] = "completed" => k \notin ctxDone

\* The record of a run that ended or was cancelled is brought up to date, as
\* long as the program lives, messages meet their screens, and the cancel key
\* is not pressed before the run has started, nor a second time.
RunsFinalized ==
    \A k \in Runs :
        (rec[k] = "running" /\ (runner[k] \in {"done", "failed"} \/ k \in ctxDone))
            ~> (rec[k] # "running" \/ ~alive \/ muddled \/ hasty)
=============================================================================
