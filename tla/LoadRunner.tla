----------------------------- MODULE LoadRunner -----------------------------
(***************************************************************************)
(* One call of Runner.Run (internal/runner/runner.go): the scheduler       *)
(* goroutine that paces and allocates slots, the buffered permits channel, *)
(* the worker goroutines, the pattern controller that retunes the arrival  *)
(* controller (arrival.go) while the scheduler waits in it, the contexts   *)
(* that stop them, and Run itself, which joins everything within the       *)
(* grace window.                                                           *)
(*                                                                         *)
(* Rates are abstracted to 0 and 1 (none, or some requests per second): a  *)
(* rate of 0 means "no limit" to both arrival controllers.  A compiled     *)
(* patternPlan is the sequence of the rates its segments go through.       *)
(* Requester.Do is the environment: it may take for ever unless its        *)
(* context, runCtx, is done.                                               *)
(***************************************************************************)
EXTENDS Integers, FiniteSets, Sequences

CONSTANTS Workers,   \* the worker goroutines; Concurrency is their number
          Options,   \* the option records a run may be started with
          MaxSlots   \* bound: slots of a run whose TotalRequests is 0

Rates == {0, 1}

\* Options after normalize(): total is TotalRequests (0 for no limit), timed is
\* Duration > 0, hasty is GracefulShutdown < 0, rate is RatePerSecond and plan
\* the compiled LoadPatterns (<<>> for nil).
OptionRecord ==
    [total : Nat, timed : BOOLEAN, hasty : BOOLEAN,
     model : {"uniform", "poisson"}, rate : Rates, plan : Seq(Rates)]

ASSUME WorkersAssumption  == IsFiniteSet(Workers) /\ Workers # {}
ASSUME OptionsAssumption  == Options \subseteq OptionRecord
ASSUME MaxSlotsAssumption == MaxSlots \in Nat

VARIABLES
    opt,              \* the options of this run
    schedPc,          \* the scheduler goroutine: "check", "wait", "send", "stop", "closed", "done"
    total,            \* slots allocated (atomic counter)
    permits,          \* tokens buffered in the permits channel
    wpc,              \* each worker: "recv", "do", "count", "exit"
    errs,             \* failed requests (atomic counter)
    mainPc,           \* Run: "schedule", "grace", "join", "returned"
    result,           \* the Result it returned
    parentCancelled,  \* the caller's context is done
    runCancelled,     \* runCancel has been called
    deadlineFired,    \* the WithTimeout context has expired
    patternCancelled, \* the pattern controller has called its cancel
    ctlPc,            \* the pattern controller: "start", "burst", "tick", "done"
    elapsed,          \* the segment of the plan that time has reached
    limit,            \* the arrival controller's limit: 0 is rate.Inf
    burst,            \* the rate.Limiter's burst: 0, or 1 for "at least 1"
    \* history
    executed,         \* calls of Requester.Do that returned
    failed,           \* those that returned an error
    late              \* permits sent after the scheduler's context was done

ctxVars  == <<parentCancelled, runCancelled, deadlineFired, patternCancelled>>
rateVars == <<ctlPc, elapsed, limit, burst>>
vars == <<opt, schedPc, total, permits, wpc, errs, mainPc, result, ctxVars,
          rateVars, executed, failed, late>>

NoResult == [total |-> -1, errors |-> -1]

\* The three contexts, each done as soon as its parent is.  Run's deferred
\* cancels are the runCancelled' of MainReturn.
RunDone   == parentCancelled \/ runCancelled
SchedDone == RunDone \/ deadlineFired \/ patternCancelled

LimitReached == opt.total > 0 /\ total >= opt.total

Doing    == {w \in Workers : wpc[w] = "do"}
Counting == {w \in Workers : wpc[w] = "count"}
WorkersDone == \A w \in Workers : wpc[w] = "exit"

\* New, and Run up to the start of its goroutines.  newArrivalController sets
\* the limiter to the plan's first rate, or to RatePerSecond without a plan.
FirstRate(o) == IF o.plan # <<>> THEN o.plan[1] ELSE o.rate

Init ==
    /\ opt \in Options
    /\ schedPc = "check"
    /\ total = 0
    /\ permits = 0
    /\ wpc = [w \in Workers |-> "recv"]
    /\ errs = 0
    /\ mainPc = "schedule"
    /\ result = NoResult
    /\ parentCancelled = FALSE
    /\ runCancelled = FALSE
    /\ deadlineFired = FALSE
    /\ patternCancelled = FALSE
    /\ ctlPc = IF opt.plan # <<>> THEN "start" ELSE "done"
    /\ elapsed = 1
    /\ limit = FirstRate(opt)
    /\ burst = FirstRate(opt)
    /\ executed = 0
    /\ failed = 0
    /\ late = 0

-----------------------------------------------------------------------------
(* The scheduler goroutine.                                                *)

\* Bug: the loop forgets to look at its context and relies on Wait for it.
MutSchedCheckNoCtx ==
    /\ schedPc = "check"
    /\ schedPc' = IF LimitReached THEN "stop" ELSE "wait"
    /\ UNCHANGED <<opt, total, permits, wpc, errs, mainPc, result, ctxVars,
                   rateVars, executed, failed, late>>

\* The two early returns at the head of the loop.
SchedCheck ==
    /\ schedPc = "check"
    /\ schedPc' = IF SchedDone \/ LimitReached THEN "stop" ELSE "wait"
    /\ UNCHANGED <<opt, total, permits, wpc, errs, mainPc, result, ctxVars,
                   rateVars, executed, failed, late>>

\* Wait returns nil and the slot is allocated.  A context that ends during the
\* wait does not rule this out: Wait's select may find its timer ready too, and
\* poissonArrival does not look at the context when its delay is 0.
SchedAllocate ==
    /\ schedPc = "wait"
    /\ opt.total > 0 \/ total < MaxSlots
    /\ schedPc' = "send"
    /\ total' = total + 1
    /\ UNCHANGED <<opt, permits, wpc, errs, mainPc, result, ctxVars, rateVars,
                   executed, failed, late>>

\* What makes Wait return an error: a context that is done; for the uniform
\* controller also a finite limit whose next token lies behind the deadline
\* of the context, and a finite limit with burst 0, which no token can satisfy.
WaitPastDeadline == opt.model = "uniform" /\ limit # 0 /\ opt.timed
WaitPastBurst    == opt.model = "uniform" /\ limit # 0 /\ burst = 0

SchedWaitFails ==
    /\ schedPc = "wait"
    /\ SchedDone \/ WaitPastDeadline \/ WaitPastBurst
    /\ schedPc' = "stop"
    /\ UNCHANGED <<opt, total, permits, wpc, errs, mainPc, result, ctxVars,
                   rateVars, executed, failed, late>>

\* Bug: the permits channel is given room for any number of slots.
MutSchedSendUnbounded ==
    /\ schedPc = "send"
    /\ schedPc' = "check"
    /\ permits' = permits + 1
    /\ late' = late + (IF SchedDone THEN 1 ELSE 0)
    /\ UNCHANGED <<opt, total, wpc, errs, mainPc, result, ctxVars, rateVars,
                   executed, failed>>

\* The select's two cases: the buffered send, and the undo of a slot that
\* could not be handed over.
SchedSend ==
    /\ schedPc = "send"
    /\ permits < Cardinality(Workers)
    /\ schedPc' = "check"
    /\ permits' = permits + 1
    /\ late' = late + (IF SchedDone THEN 1 ELSE 0)
    /\ UNCHANGED <<opt, total, wpc, errs, mainPc, result, ctxVars, rateVars,
                   executed, failed>>

\* Bug: the slot that was never handed to a worker stays in the total.
MutSchedGiveUpKeepsSlot ==
    /\ schedPc = "send"
    /\ SchedDone
    /\ schedPc' = "stop"
    /\ UNCHANGED <<opt, total, permits, wpc, errs, mainPc, result, ctxVars,
                   rateVars, executed, failed, late>>

SchedGiveUp ==
    /\ schedPc = "send"
    /\ SchedDone
    /\ schedPc' = "stop"
    /\ total' = total - 1
    /\ UNCHANGED <<opt, permits, wpc, errs, mainPc, result, ctxVars, rateVars,
                   executed, failed, late>>

\* The deferred closes, in the order they run: permits, then scheduleDone.
SchedClosePermits ==
    /\ schedPc = "stop"
    /\ schedPc' = "closed"
    /\ UNCHANGED <<opt, total, permits, wpc, errs, mainPc, result, ctxVars,
                   rateVars, executed, failed, late>>

SchedCloseDone ==
    /\ schedPc = "closed"
    /\ schedPc' = "done"
    /\ UNCHANGED <<opt, total, permits, wpc, errs, mainPc, result, ctxVars,
                   rateVars, executed, failed, late>>

Scheduler ==
    \/ SchedCheck
    \/ SchedAllocate
    \/ SchedWaitFails
    \/ SchedSend
    \/ SchedGiveUp
    \/ SchedClosePermits
    \/ SchedCloseDone

-----------------------------------------------------------------------------
(* A worker: for range permits { Do; count the error }.                    *)

PermitsClosed == schedPc \in {"closed", "done"}

WorkerRecv(w) ==
    /\ wpc[w] = "recv"
    /\ permits > 0
    /\ permits' = permits - 1
    /\ wpc' = [wpc EXCEPT ![w] = "do"]
    /\ UNCHANGED <<opt, schedPc, total, errs, mainPc, result, ctxVars,
                   rateVars, executed, failed, late>>

\* Bug: the worker also watches the run's context and drops what is buffered.
MutWorkerExitDropsPermits(w) ==
    /\ wpc[w] = "recv"
    /\ PermitsClosed
    /\ permits = 0 \/ RunDone
    /\ wpc' = [wpc EXCEPT ![w] = "exit"]
    /\ UNCHANGED <<opt, schedPc, total, permits, errs, mainPc, result, ctxVars,
                   rateVars, executed, failed, late>>

\* A closed channel is drained before the range over it ends.
WorkerExit(w) ==
    /\ wpc[w] = "recv"
    /\ PermitsClosed
    /\ permits = 0
    /\ wpc' = [wpc EXCEPT ![w] = "exit"]
    /\ UNCHANGED <<opt, schedPc, total, permits, errs, mainPc, result, ctxVars,
                   rateVars, executed, failed, late>>

DoReturns(w) ==
    /\ wpc[w] = "do"
    /\ executed' = executed + 1
    /\ \/ /\ wpc' = [wpc EXCEPT ![w] = "recv"]
          /\ UNCHANGED failed
       \/ /\ wpc' = [wpc EXCEPT ![w] = "count"]
          /\ failed' = failed + 1
    /\ UNCHANGED <<opt, schedPc, total, permits, errs, mainPc, result, ctxVars,
                   rateVars, late>>

CountError(w) ==
    /\ wpc[w] = "count"
    /\ errs' = errs + 1
    /\ wpc' = [wpc EXCEPT ![w] = "recv"]
    /\ UNCHANGED <<opt, schedPc, total, permits, mainPc, result, ctxVars,
                   rateVars, executed, failed, late>>

Worker(w) == WorkerRecv(w) \/ WorkerExit(w) \/ DoReturns(w) \/ CountError(w)

-----------------------------------------------------------------------------
(* Run after the goroutines are started.                                   *)

\* <-scheduleDone; a negative grace window cancels the requests at once.
MainScheduleDone ==
    /\ mainPc = "schedule"
    /\ schedPc = "done"
    /\ mainPc' = IF opt.hasty THEN "join" ELSE "grace"
    /\ runCancelled' = (runCancelled \/ opt.hasty)
    /\ UNCHANGED <<opt, schedPc, total, permits, wpc, errs, result,
                   parentCancelled, deadlineFired, patternCancelled, rateVars,
                   executed, failed, late>>

\* Run's return: the Result is read, then the deferred cancels run.
ReturnResult ==
    /\ mainPc' = "returned"
    /\ result' = [total |-> total, errors |-> errs]
    /\ runCancelled' = TRUE
    /\ UNCHANGED <<opt, schedPc, total, permits, wpc, errs, parentCancelled,
                   deadlineFired, patternCancelled, rateVars, executed, failed,
                   late>>

\* The three cases of the select: all workers done, runCtx done, timer.
MainWorkersDone == mainPc = "grace" /\ WorkersDone /\ ReturnResult

MainRunDone ==
    /\ mainPc = "grace"
    /\ RunDone
    /\ mainPc' = "join"
    /\ UNCHANGED <<opt, schedPc, total, permits, wpc, errs, result, ctxVars,
                   rateVars, executed, failed, late>>

\* Bug: the grace window elapses without a cancel of the requests.
MutMainGraceElapsedNoCancel ==
    /\ mainPc = "grace"
    /\ mainPc' = "join"
    /\ UNCHANGED <<opt, schedPc, total, permits, wpc, errs, result, ctxVars,
                   rateVars, executed, failed, late>>

\* Bug: when the window elapses Run returns instead of joining the workers.
MutMainGraceElapsedReturns == mainPc = "grace" /\ ReturnResult

MainGraceElapsed ==
    /\ mainPc = "grace"
    /\ mainPc' = "join"
    /\ runCancelled' = TRUE
    /\ UNCHANGED <<opt, schedPc, total, permits, wpc, errs, result,
                   parentCancelled, deadlineFired, patternCancelled, rateVars,
                   executed, failed, late>>

MainJoined == mainPc = "join" /\ WorkersDone /\ ReturnResult

Main ==
    \/ MainScheduleDone
    \/ MainWorkersDone
    \/ MainRunDone
    \/ MainGraceElapsed
    \/ MainJoined

-----------------------------------------------------------------------------
(* runPatternController, and the two calls by which uniformArrival.SetRate *)
(* changes the limiter under the scheduler's feet.                         *)

\* SetRate, first half: SetLimit.  poissonArrival has only this half.
SetLimit(rps) ==
    /\ limit' = rps
    /\ ctlPc' = IF opt.model = "uniform" THEN "burst" ELSE "tick"
    /\ UNCHANGED <<opt, schedPc, total, permits, wpc, errs, mainPc, result,
                   ctxVars, elapsed, burst, executed, failed, late>>

\* The rate at time 0 is set before the ticker exists.
CtlStart == ctlPc = "start" /\ SetLimit(opt.plan[1])

\* A tick inside the plan sets the rate of the segment that time has reached.
CtlTick == ctlPc = "tick" /\ elapsed <= Len(opt.plan) /\ SetLimit(opt.plan[elapsed])

\* SetRate, second half: SetBurst, to 0 for a rate of 0 and to at least 1 otherwise.
CtlSetBurst ==
    /\ ctlPc = "burst"
    /\ burst' = limit
    /\ ctlPc' = "tick"
    /\ UNCHANGED <<opt, schedPc, total, permits, wpc, errs, mainPc, result,
                   ctxVars, elapsed, limit, executed, failed, late>>

\* Bug: the controller returns without the deferred cancel.
MutCtlEndNoCancel ==
    /\ ctlPc = "tick"
    /\ SchedDone \/ elapsed > Len(opt.plan)
    /\ ctlPc' = "done"
    /\ UNCHANGED <<opt, schedPc, total, permits, wpc, errs, mainPc, result,
                   ctxVars, elapsed, limit, burst, executed, failed, late>>

\* The plan is over, or the context done: the deferred cancel ends scheduling.
CtlEnd ==
    /\ ctlPc = "tick"
    /\ SchedDone \/ elapsed > Len(opt.plan)
    /\ ctlPc' = "done"
    /\ patternCancelled' = TRUE
    /\ UNCHANGED <<opt, schedPc, total, permits, wpc, errs, mainPc, result,
                   parentCancelled, runCancelled, deadlineFired, elapsed, limit,
                   burst, executed, failed, late>>

Controller == CtlStart \/ CtlTick \/ CtlSetBurst \/ CtlEnd

-----------------------------------------------------------------------------
(* Time and the caller.                                                    *)

TimePasses ==
    /\ ctlPc \in {"burst", "tick"}
    /\ elapsed <= Len(opt.plan)
    /\ elapsed' = elapsed + 1
    /\ UNCHANGED <<opt, schedPc, total, permits, wpc, errs, mainPc, result,
                   ctxVars, ctlPc, limit, burst, executed, failed, late>>

\* Bug: Duration bounds runCtx, the context the requests run under.
MutDeadlineCancelsRequests ==
    /\ opt.timed
    /\ ~deadlineFired
    /\ deadlineFired' = TRUE
    /\ runCancelled' = TRUE
    /\ UNCHANGED <<opt, schedPc, total, permits, wpc, errs, mainPc, result,
                   parentCancelled, patternCancelled, rateVars, executed,
                   failed, late>>

DeadlineFires ==
    /\ opt.timed
    /\ ~deadlineFired
    /\ deadlineFired' = TRUE
    /\ UNCHANGED <<opt, schedPc, total, permits, wpc, errs, mainPc, result,
                   parentCancelled, runCancelled, patternCancelled, rateVars,
                   executed, failed, late>>

ParentCancel ==
    /\ ~parentCancelled
    /\ parentCancelled' = TRUE
    /\ UNCHANGED <<opt, schedPc, total, permits, wpc, errs, mainPc, result,
                   runCancelled, deadlineFired, patternCancelled, rateVars,
                   executed, failed, late>>

\* A run that has returned, with its controller gone, may stay as it is.
Finished ==
    /\ mainPc = "returned"
    /\ ctlPc = "done"
    /\ UNCHANGED vars

Next ==
    \/ Scheduler
    \/ \E w \in Workers : Worker(w)
    \/ Main
    \/ Controller
    \/ TimePasses
    \/ DeadlineFires
    \/ ParentCancel
    \/ Finished

Spec == Init /\ [][Next]_vars

\* Every goroutine that can move does, time passes and timers fire.  A request
\* is only known to return once its context is done: a target may hang.
Fairness ==
    /\ WF_vars(Scheduler)
    /\ WF_vars(Main)
    /\ WF_vars(Controller)
    /\ WF_vars(TimePasses)
    /\ WF_vars(DeadlineFires)
    /\ \A w \in Workers :
        /\ WF_vars(WorkerRecv(w) \/ WorkerExit(w) \/ CountError(w))
        /\ WF_vars(RunDone /\ DoReturns(w))

FairSpec == Spec /\ Fairness

-----------------------------------------------------------------------------
(* Properties.                                                             *)

\* Every variable has its type; the permits channel holds at most Concurrency
\* tokens (runner.go:62).
TypeOK ==
    /\ opt \in Options
    /\ schedPc \in {"check", "wait", "send", "stop", "closed", "done"}
    /\ total \in Nat
    /\ permits \in 0 .. Cardinality(Workers)
    /\ wpc \in [Workers -> {"recv", "do", "count", "exit"}]
    /\ errs \in Nat
    /\ mainPc \in {"schedule", "grace", "join", "returned"}
    /\ result \in [total : Int, errors : Int]
    /\ parentCancelled \in BOOLEAN
    /\ runCancelled \in BOOLEAN
    /\ deadlineFired \in BOOLEAN
    /\ patternCancelled \in BOOLEAN
    /\ ctlPc \in {"start", "burst", "tick", "done"}
    /\ elapsed \in Nat \ {0}
    /\ limit \in Rates
    /\ burst \in Rates
    /\ executed \in Nat
    /\ failed \in Nat
    /\ late \in Nat

\* No slot is lost or run twice (runner.go:83-90): what the scheduler has counted
\* is what workers have executed, are executing, or will find in the channel,
\* plus the one slot it is still offering; the error counter lags behind the
\* failures by the workers about to bump it.
Accounting ==
    /\ total = executed + Cardinality(Doing) + permits
                 + (IF schedPc = "send" THEN 1 ELSE 0)
    /\ failed = errs + Cardinality(Counting)

\* TotalRequests is a hard cap, whatever the workers and the contexts do between
\* the check at runner.go:75 and the increment at runner.go:84.
TotalCapped == opt.total > 0 => total <= opt.total

\* Once the scheduler's context is done (cancel, deadline, end of the plan), at
\* most one more request is handed out: the slot already past the check of
\* runner.go:71, when its send wins the select against the context.  What was
\* handed out before and lies in the channel, at most Concurrency permits
\* (runner.go:62), is still taken and executed by the workers (runner.go:99).
AtMostOneLate == late <= 1

\* The end of scheduling by deadline or plan does not cancel the requests in
\* flight (runner.go:42-44): only Run itself does, once the scheduler is gone.
InFlightSpared == runCancelled => schedPc = "done"

\* The Result is exact (runner.go:142-146): when Run returns nothing is queued or
\* in flight, and it reports every execution and every failure.
ReturnExact ==
    mainPc = "returned" =>
        /\ WorkersDone
        /\ permits = 0
        /\ result = [total |-> executed, errors |-> failed]

\* What a run may issue at most: TotalRequests, or the bound MaxSlots.
cap == IF opt.total > 0 THEN opt.total ELSE MaxSlots

phase ==
    IF mainPc = "returned" THEN "returned"
    ELSE IF PermitsClosed THEN "closed" ELSE "open"

Abstract == INSTANCE LoadRun WITH waiting <- permits, running <- Doing

\* Run implements LoadRun: a slot is issued when its permit enters the channel.
ImplementsLoadRun == Abstract!Spec

\* Once scheduling has to stop, Run returns, although a request may hang until
\* it is cancelled (runner.go:123-140): nobody waits for ever.
StopLeadsToReturn == (SchedDone \/ schedPc = "done") ~> (mainPc = "returned")

\* A run with a duration or with load patterns always returns.
BoundedRunsReturn == (opt.timed \/ opt.plan # <<>>) ~> (mainPc = "returned")

\* "It stops on duration/total/pattern completion or parent cancellation"
\* (runner.go:42-43), and on nothing else.
StopsForAReason ==
    schedPc = "stop" => SchedDone \/ LimitReached \/ opt.timed
=============================================================================
