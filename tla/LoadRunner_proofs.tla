-------------------------- MODULE LoadRunner_proofs --------------------------
(***************************************************************************)
(* For every set of workers, every set of options and every bound, a load  *)
(* run keeps its accounting, caps and joins, and implements LoadRun.       *)
(***************************************************************************)
EXTENDS LoadRunner, FiniteSetTheorems, TLAPS

\* Without a plan there is no controller.
PlanInv == ctlPc # "done" => opt.plan # <<>>

\* Slots against what the run may issue, strict where one is about to be added.
CapInv ==
    /\ total <= cap
    /\ schedPc = "wait" /\ opt.total > 0 => total < opt.total

\* A late permit is the last one: the scheduler's context stays done and its
\* next check ends the loop.
LateInv ==
    late = 0 \/ (late = 1 /\ SchedDone /\ schedPc \notin {"wait", "send"})

\* The order in which a run comes to its end.
JoinInv ==
    /\ mainPc # "schedule" => schedPc = "done"
    /\ runCancelled => schedPc = "done"
    /\ (\E w \in Workers : wpc[w] = "exit") => PermitsClosed /\ permits = 0
    /\ mainPc # "returned" => result = NoResult
    /\ ReturnExact

IInv == TypeOK /\ PlanInv /\ Accounting /\ CapInv /\ LateInv /\ JoinInv

-----------------------------------------------------------------------------
(* Facts about the sets the counters are compared with.                    *)

LEMMA OptionsTyped ==
    ASSUME NEW o \in Options
    PROVE  /\ o.total \in Nat
           /\ o.timed \in BOOLEAN
           /\ o.hasty \in BOOLEAN
           /\ o.model \in {"uniform", "poisson"}
           /\ o.rate \in Rates
           /\ o.plan \in Seq(Rates)
BY OptionsAssumption DEF OptionRecord

\* Doing and Counting are finite, so their cardinalities are numbers.
LEMMA WorkerSetsFinite ==
    /\ Cardinality(Workers) \in Nat
    /\ IsFiniteSet(Doing) /\ Cardinality(Doing) \in Nat
    /\ IsFiniteSet(Counting) /\ Cardinality(Counting) \in Nat
BY WorkersAssumption, FS_Subset, FS_CardinalityType DEF Doing, Counting

\* A worker that enters a state joins the set of that state, and is new to it.
LEMMA WorkerMoves ==
    ASSUME TypeOK, NEW w \in Workers, NEW to \in {"recv", "do", "count", "exit"},
           wpc' = [wpc EXCEPT ![w] = to]
    PROVE  /\ Doing' = IF to = "do" THEN Doing \cup {w} ELSE Doing \ {w}
           /\ Counting' = IF to = "count" THEN Counting \cup {w}
                                          ELSE Counting \ {w}
BY DEF TypeOK, Doing, Counting

LEMMA WorkerCounts ==
    ASSUME TypeOK, NEW w \in Workers, NEW to \in {"recv", "do", "count", "exit"},
           wpc' = [wpc EXCEPT ![w] = to], wpc[w] # to
    PROVE  /\ Cardinality(Doing') = IF to = "do" THEN Cardinality(Doing) + 1
                                    ELSE IF wpc[w] = "do" THEN Cardinality(Doing) - 1
                                    ELSE Cardinality(Doing)
           /\ Cardinality(Counting') = IF to = "count" THEN Cardinality(Counting) + 1
                                       ELSE IF wpc[w] = "count" THEN Cardinality(Counting) - 1
                                       ELSE Cardinality(Counting)
<1>1. /\ w \in Doing <=> wpc[w] = "do"
      /\ w \in Counting <=> wpc[w] = "count"
  BY DEF Doing, Counting
<1>2. /\ w \notin Doing => Cardinality(Doing \cup {w}) = Cardinality(Doing) + 1
      /\ w \in Doing => Cardinality(Doing \ {w}) = Cardinality(Doing) - 1
      /\ w \notin Doing => Cardinality(Doing \ {w}) = Cardinality(Doing)
  BY WorkerSetsFinite, FS_AddElement, FS_RemoveElement, Zenon
<1>3. /\ w \notin Counting => Cardinality(Counting \cup {w}) = Cardinality(Counting) + 1
      /\ w \in Counting => Cardinality(Counting \ {w}) = Cardinality(Counting) - 1
      /\ w \notin Counting => Cardinality(Counting \ {w}) = Cardinality(Counting)
  BY WorkerSetsFinite, FS_AddElement, FS_RemoveElement, Zenon
<1>4. /\ to = "do" => Doing' = Doing \cup {w}
      /\ to # "do" => Doing' = Doing \ {w}
      /\ to = "count" => Counting' = Counting \cup {w}
      /\ to # "count" => Counting' = Counting \ {w}
  BY WorkerMoves, Zenon
<1>5. Cardinality(Doing') = IF to = "do" THEN Cardinality(Doing) + 1
                            ELSE IF wpc[w] = "do" THEN Cardinality(Doing) - 1
                            ELSE Cardinality(Doing)
  <2>1. CASE to = "do"
    <3>1. w \notin Doing /\ Doing' = Doing \cup {w}
      BY <2>1, <1>1, <1>4
    <3> QED
      BY <3>1, <2>1, <1>2
  <2>2. CASE to # "do" /\ wpc[w] = "do"
    <3>1. w \in Doing /\ Doing' = Doing \ {w}
      BY <2>2, <1>1, <1>4
    <3> QED
      BY <3>1, <2>2, <1>2
  <2>3. CASE to # "do" /\ wpc[w] # "do"
    <3>1. w \notin Doing /\ Doing' = Doing \ {w}
      BY <2>3, <1>1, <1>4
    <3> QED
      BY <3>1, <2>3, <1>2
  <2> QED
    BY <2>1, <2>2, <2>3
<1>6. Cardinality(Counting') = IF to = "count" THEN Cardinality(Counting) + 1
                               ELSE IF wpc[w] = "count" THEN Cardinality(Counting) - 1
                               ELSE Cardinality(Counting)
  <2>1. CASE to = "count"
    <3>1. w \notin Counting /\ Counting' = Counting \cup {w}
      BY <2>1, <1>1, <1>4
    <3> QED
      BY <3>1, <2>1, <1>3
  <2>2. CASE to # "count" /\ wpc[w] = "count"
    <3>1. w \in Counting /\ Counting' = Counting \ {w}
      BY <2>2, <1>1, <1>4
    <3> QED
      BY <3>1, <2>2, <1>3
  <2>3. CASE to # "count" /\ wpc[w] # "count"
    <3>1. w \notin Counting /\ Counting' = Counting \ {w}
      BY <2>3, <1>1, <1>4
    <3> QED
      BY <3>1, <2>3, <1>3
  <2> QED
    BY <2>1, <2>2, <2>3
<1> QED
  BY <1>5, <1>6

-----------------------------------------------------------------------------
LEMMA InitInv == Init => IInv
<1> SUFFICES ASSUME Init PROVE IInv
  OBVIOUS
<1> USE OptionsTyped, WorkersAssumption
<1>1. Doing = {} /\ Counting = {}
  BY DEF Init, Doing, Counting
<1>2. Cardinality(Doing) = 0 /\ Cardinality(Counting) = 0
  BY <1>1, FS_EmptySet
<1>3. opt \in Options /\ FirstRate(opt) \in Rates
  BY DEF Init, FirstRate, Rates
<1>4. TypeOK
  <2>1. 0 \in 0 .. Cardinality(Workers)
    BY WorkerSetsFinite
  <2>2. result \in [total : Int, errors : Int]
    BY DEF Init, NoResult
  <2>3. wpc \in [Workers -> {"recv", "do", "count", "exit"}]
    BY DEF Init
  <2>4. limit \in Rates /\ burst \in Rates /\ elapsed \in Nat \ {0}
    BY <1>3 DEF Init
  <2>5. ctlPc \in {"start", "burst", "tick", "done"}
    BY DEF Init
  <2> QED
    BY <1>3, <2>1, <2>2, <2>3, <2>4, <2>5 DEF Init, TypeOK
<1>5. PlanInv /\ LateInv
  BY DEF Init, PlanInv, LateInv
<1>6. Accounting
  BY <1>2 DEF Init, Accounting
<1>7. CapInv
  BY <1>3, MaxSlotsAssumption DEF Init, CapInv, cap
<1>8. JoinInv
  BY DEF Init, JoinInv, ReturnExact
<1> QED
  BY <1>4, <1>5, <1>6, <1>7, <1>8 DEF IInv

-----------------------------------------------------------------------------
(* Every step preserves every part of the invariant.                       *)

LEMMA TypeStep ==
    ASSUME IInv, [Next]_vars
    PROVE  TypeOK'
<1> USE DEF IInv, TypeOK, ctxVars, rateVars
<1> USE WorkerSetsFinite
<1>1. CASE SchedCheck \/ SchedAllocate \/ SchedWaitFails \/ SchedSend
           \/ SchedClosePermits \/ SchedCloseDone
  BY <1>1 DEF SchedCheck, SchedAllocate, SchedWaitFails, SchedSend,
              SchedClosePermits, SchedCloseDone
<1>2. CASE SchedGiveUp
  <2>1. total >= 1
    BY <1>2 DEF SchedGiveUp, Accounting
  <2> QED
    BY <1>2, <2>1 DEF SchedGiveUp
<1>3. ASSUME NEW w \in Workers, Worker(w)
      PROVE  TypeOK'
  <2>1. CASE WorkerRecv(w)
    BY <2>1 DEF WorkerRecv
  <2>2. CASE WorkerExit(w)
    BY <2>2 DEF WorkerExit
  <2>3. CASE DoReturns(w)
    BY <2>3 DEF DoReturns
  <2>4. CASE CountError(w)
    BY <2>4 DEF CountError
  <2> QED
    BY <1>3, <2>1, <2>2, <2>3, <2>4 DEF Worker
<1>4. CASE MainScheduleDone \/ MainRunDone \/ MainGraceElapsed
  BY <1>4 DEF MainScheduleDone, MainRunDone, MainGraceElapsed
<1>5. CASE MainWorkersDone \/ MainJoined
  <2>1. [total |-> total, errors |-> errs] \in [total : Int, errors : Int]
    OBVIOUS
  <2> QED
    BY <1>5, <2>1 DEF MainWorkersDone, MainJoined, ReturnResult
<1>6. CASE CtlStart \/ CtlTick
  <2>1. opt.plan \in Seq(Rates) /\ opt.plan # <<>>
    BY <1>6, OptionsTyped DEF CtlStart, CtlTick, PlanInv
  <2>2. opt.plan[1] \in Rates /\ (elapsed <= Len(opt.plan) => opt.plan[elapsed] \in Rates)
    BY <2>1
  <2> QED
    <3>1. limit' \in Rates /\ ctlPc' \in {"start", "burst", "tick", "done"}
      BY <1>6, <2>2 DEF CtlStart, CtlTick, SetLimit
    <3> QED
      BY <1>6, <3>1 DEF CtlStart, CtlTick, SetLimit
<1>7. CASE CtlSetBurst \/ CtlEnd
  BY <1>7 DEF CtlSetBurst, CtlEnd
<1>8. CASE TimePasses
  BY <1>8 DEF TimePasses
<1>9. CASE DeadlineFires \/ ParentCancel
  BY <1>9 DEF DeadlineFires, ParentCancel
<1>10. CASE Finished \/ UNCHANGED vars
  BY <1>10 DEF Finished, vars
<1> QED
  BY <1>1, <1>2, <1>3, <1>4, <1>5, <1>6, <1>7, <1>8, <1>9, <1>10
  DEF Next, Scheduler, Main, Controller

LEMMA PlanStep ==
    ASSUME IInv, [Next]_vars
    PROVE  PlanInv'
<1> USE DEF IInv, PlanInv, ctxVars, rateVars
<1>1. CASE Scheduler
  BY <1>1 DEF Scheduler, SchedCheck, SchedAllocate, SchedWaitFails, SchedSend,
              SchedGiveUp, SchedClosePermits, SchedCloseDone
<1>2. CASE \E w \in Workers : Worker(w)
  BY <1>2 DEF Worker, WorkerRecv, WorkerExit, DoReturns, CountError
<1>3. CASE Main
  BY <1>3 DEF Main, MainScheduleDone, MainWorkersDone, MainRunDone,
              MainGraceElapsed, MainJoined, ReturnResult
<1>4. CASE Controller
  BY <1>4 DEF Controller, CtlStart, CtlTick, CtlSetBurst, CtlEnd, SetLimit
<1>5. CASE TimePasses \/ DeadlineFires \/ ParentCancel \/ Finished \/ UNCHANGED vars
  BY <1>5 DEF TimePasses, DeadlineFires, ParentCancel, Finished, vars
<1> QED
  BY <1>1, <1>2, <1>3, <1>4, <1>5 DEF Next

LEMMA AccountingStep ==
    ASSUME IInv, [Next]_vars
    PROVE  Accounting'
<1> USE DEF IInv, ctxVars, rateVars
<1> USE WorkerSetsFinite
<1>1. ASSUME UNCHANGED wpc
      PROVE  Doing' = Doing /\ Counting' = Counting
  BY <1>1 DEF Doing, Counting
<1>2. CASE SchedAllocate \/ SchedSend \/ SchedGiveUp
  BY <1>1, <1>2 DEF SchedAllocate, SchedSend, SchedGiveUp, Accounting, TypeOK
<1>3. CASE SchedCheck \/ SchedWaitFails \/ SchedClosePermits \/ SchedCloseDone
  BY <1>1, <1>3 DEF SchedCheck, SchedWaitFails, SchedClosePermits,
                    SchedCloseDone, Accounting
<1>4. ASSUME NEW w \in Workers, Worker(w)
      PROVE  Accounting'
  <2>1. CASE WorkerRecv(w)
    <3>1. Cardinality(Doing') = Cardinality(Doing) + 1 /\ Cardinality(Counting') = Cardinality(Counting)
      BY <2>1, WorkerCounts DEF WorkerRecv
    <3> QED
      BY <2>1, <3>1 DEF WorkerRecv, Accounting, TypeOK
  <2>2. CASE WorkerExit(w)
    <3>1. Cardinality(Doing') = Cardinality(Doing) /\ Cardinality(Counting') = Cardinality(Counting)
      BY <2>2, WorkerCounts DEF WorkerExit
    <3> QED
      BY <2>2, <3>1 DEF WorkerExit, Accounting
  <2>3. CASE DoReturns(w) /\ wpc' = [wpc EXCEPT ![w] = "recv"]
    <3>1. Cardinality(Doing') = Cardinality(Doing) - 1 /\ Cardinality(Counting') = Cardinality(Counting)
      BY <2>3, WorkerCounts DEF DoReturns
    <3>2. failed' = failed
      BY <2>3 DEF DoReturns, TypeOK
    <3> QED
      BY <2>3, <3>1, <3>2 DEF DoReturns, Accounting, TypeOK
  <2>4. CASE DoReturns(w) /\ wpc' = [wpc EXCEPT ![w] = "count"]
    <3>1. Cardinality(Doing') = Cardinality(Doing) - 1 /\ Cardinality(Counting') = Cardinality(Counting) + 1
      BY <2>4, WorkerCounts DEF DoReturns
    <3>2. failed' = failed + 1
      BY <2>4 DEF DoReturns, TypeOK
    <3> QED
      BY <2>4, <3>1, <3>2 DEF DoReturns, Accounting, TypeOK
  <2>5. CASE CountError(w)
    <3>1. Cardinality(Doing') = Cardinality(Doing) /\ Cardinality(Counting') = Cardinality(Counting) - 1
      BY <2>5, WorkerCounts DEF CountError
    <3> QED
      BY <2>5, <3>1 DEF CountError, Accounting, TypeOK
  <2> QED
    BY <1>4, <2>1, <2>2, <2>3, <2>4, <2>5 DEF Worker, DoReturns
<1>5. CASE Main
  BY <1>1, <1>5 DEF Main, MainScheduleDone, MainWorkersDone, MainRunDone,
                    MainGraceElapsed, MainJoined, ReturnResult, Accounting
<1>6. CASE Controller
  BY <1>1, <1>6 DEF Controller, CtlStart, CtlTick, CtlSetBurst, CtlEnd, SetLimit,
                    Accounting
<1>7. CASE TimePasses \/ DeadlineFires \/ ParentCancel \/ Finished \/ UNCHANGED vars
  BY <1>1, <1>7 DEF TimePasses, DeadlineFires, ParentCancel, Finished, vars, Accounting
<1> QED
  BY <1>2, <1>3, <1>4, <1>5, <1>6, <1>7 DEF Next, Scheduler

\* The options of a run never change, and with them what it may issue.
LEMMA OptionsFixed ==
    ASSUME [Next]_vars
    PROVE  opt' = opt /\ cap' = cap
<1>1. opt' = opt
  BY DEF Next, Scheduler, SchedCheck, SchedAllocate, SchedWaitFails, SchedSend,
         SchedGiveUp, SchedClosePermits, SchedCloseDone, Worker, WorkerRecv,
         WorkerExit, DoReturns, CountError, Main, MainScheduleDone,
         MainWorkersDone, MainRunDone, MainGraceElapsed, MainJoined,
         ReturnResult, Controller, CtlStart, CtlTick, CtlSetBurst, CtlEnd,
         SetLimit, TimePasses, DeadlineFires, ParentCancel, Finished, vars
<1> QED
  BY <1>1 DEF cap

LEMMA CapStep ==
    ASSUME IInv, [Next]_vars
    PROVE  CapInv'
<1> USE DEF IInv, CapInv, ctxVars, rateVars
<1>1. opt' = opt /\ cap' = cap
  BY OptionsFixed
<1>2. total \in Nat /\ opt.total \in Nat /\ MaxSlots \in Nat
  BY OptionsTyped, MaxSlotsAssumption DEF TypeOK
<1>3. CASE SchedCheck
  BY <1>1, <1>2, <1>3 DEF SchedCheck, LimitReached
<1>4. CASE SchedAllocate
  <2>1. total' <= cap
    BY <1>2, <1>4 DEF SchedAllocate, cap
  <2> QED
    BY <1>1, <1>4, <2>1 DEF SchedAllocate
<1>5. CASE SchedGiveUp
  <2>1. cap \in Nat
    BY <1>2 DEF cap
  <2> QED
    BY <1>1, <1>2, <1>5, <2>1 DEF SchedGiveUp
<1>6. CASE SchedWaitFails \/ SchedSend \/ SchedClosePermits \/ SchedCloseDone
  BY <1>1, <1>6 DEF SchedWaitFails, SchedSend, SchedClosePermits, SchedCloseDone
<1>7. CASE \E w \in Workers : Worker(w)
  BY <1>1, <1>7 DEF Worker, WorkerRecv, WorkerExit, DoReturns, CountError
<1>8. CASE Main
  BY <1>1, <1>8 DEF Main, MainScheduleDone, MainWorkersDone, MainRunDone,
                    MainGraceElapsed, MainJoined, ReturnResult
<1>9. CASE Controller
  BY <1>1, <1>9 DEF Controller, CtlStart, CtlTick, CtlSetBurst, CtlEnd, SetLimit
<1>10. CASE TimePasses \/ DeadlineFires \/ ParentCancel \/ Finished \/ UNCHANGED vars
  BY <1>1, <1>10 DEF TimePasses, DeadlineFires, ParentCancel, Finished, vars
<1> QED
  BY <1>3, <1>4, <1>5, <1>6, <1>7, <1>8, <1>9, <1>10 DEF Next, Scheduler

LEMMA LateStep ==
    ASSUME IInv, [Next]_vars
    PROVE  LateInv'
<1> USE DEF IInv, LateInv, SchedDone, RunDone, ctxVars, rateVars
<1>1. late \in Nat
  BY DEF TypeOK
<1>2. CASE SchedCheck \/ SchedAllocate \/ SchedWaitFails \/ SchedGiveUp
           \/ SchedClosePermits \/ SchedCloseDone
  BY <1>2 DEF SchedCheck, SchedAllocate, SchedWaitFails, SchedGiveUp,
              SchedClosePermits, SchedCloseDone
<1>3. CASE SchedSend
  BY <1>1, <1>3 DEF SchedSend
<1>4. CASE \E w \in Workers : Worker(w)
  BY <1>4 DEF Worker, WorkerRecv, WorkerExit, DoReturns, CountError
<1>5. CASE Main
  BY <1>5 DEF Main, MainScheduleDone, MainWorkersDone, MainRunDone,
              MainGraceElapsed, MainJoined, ReturnResult
<1>6. CASE Controller
  BY <1>6 DEF Controller, CtlStart, CtlTick, CtlSetBurst, CtlEnd, SetLimit
<1>7. CASE TimePasses \/ DeadlineFires \/ ParentCancel \/ Finished \/ UNCHANGED vars
  BY <1>7 DEF TimePasses, DeadlineFires, ParentCancel, Finished, vars
<1> QED
  BY <1>2, <1>3, <1>4, <1>5, <1>6, <1>7 DEF Next, Scheduler

\* When every worker has left, the channel is empty and every slot executed.
LEMMA AllJoined ==
    ASSUME IInv, WorkersDone
    PROVE  /\ PermitsClosed /\ permits = 0
           /\ Doing = {} /\ Counting = {}
           /\ schedPc = "done" => total = executed /\ errs = failed
<1>1. PermitsClosed /\ permits = 0
  BY WorkersAssumption DEF IInv, JoinInv, WorkersDone
<1>2. Doing = {} /\ Counting = {}
  BY DEF WorkersDone, Doing, Counting
<1>3. Cardinality(Doing) = 0 /\ Cardinality(Counting) = 0
  BY <1>2, FS_EmptySet
<1> QED
  BY <1>1, <1>2, <1>3 DEF IInv, Accounting, TypeOK

LEMMA JoinStep ==
    ASSUME IInv, [Next]_vars
    PROVE  JoinInv'
<1> USE DEF IInv, JoinInv, ReturnExact, ctxVars, rateVars
<1>1. CASE SchedCheck \/ SchedAllocate \/ SchedWaitFails \/ SchedGiveUp
           \/ SchedClosePermits \/ SchedCloseDone
  BY <1>1 DEF SchedCheck, SchedAllocate, SchedWaitFails, SchedGiveUp,
              SchedClosePermits, SchedCloseDone, PermitsClosed, WorkersDone
<1>2. CASE SchedSend
  BY <1>2 DEF SchedSend, PermitsClosed, WorkersDone
<1>3. ASSUME NEW w \in Workers, Worker(w)
      PROVE  JoinInv'
  <2>1. mainPc # "returned" /\ mainPc' = mainPc /\ schedPc' = schedPc
        /\ runCancelled' = runCancelled /\ result' = result
    BY <1>3 DEF Worker, WorkerRecv, WorkerExit, DoReturns, CountError, WorkersDone
  <2>2. (\E v \in Workers : wpc'[v] = "exit") => PermitsClosed /\ permits' = 0
    <3>1. CASE WorkerRecv(w)
      BY <3>1 DEF WorkerRecv, TypeOK
    <3>2. CASE WorkerExit(w)
      BY <3>2 DEF WorkerExit
    <3>3. CASE DoReturns(w) \/ CountError(w)
      BY <3>3 DEF DoReturns, CountError, TypeOK
    <3> QED
      BY <1>3, <3>1, <3>2, <3>3 DEF Worker
  <2> QED
    BY <2>1, <2>2 DEF PermitsClosed
<1>4. CASE MainScheduleDone \/ MainRunDone \/ MainGraceElapsed
  BY <1>4 DEF MainScheduleDone, MainRunDone, MainGraceElapsed, PermitsClosed
<1>5. CASE MainWorkersDone \/ MainJoined
  <2>1. WorkersDone /\ schedPc = "done" /\ ReturnResult
    BY <1>5 DEF MainWorkersDone, MainJoined
  <2>2. result' = [total |-> executed, errors |-> failed] /\ permits = 0
    BY <2>1, AllJoined DEF ReturnResult
  <2> QED
    BY <2>1, <2>2 DEF ReturnResult, PermitsClosed, WorkersDone
<1>6. CASE Controller
  BY <1>6 DEF Controller, CtlStart, CtlTick, CtlSetBurst, CtlEnd, SetLimit,
              PermitsClosed, WorkersDone
<1>7. CASE TimePasses \/ DeadlineFires \/ ParentCancel \/ Finished \/ UNCHANGED vars
  BY <1>7 DEF TimePasses, DeadlineFires, ParentCancel, Finished, vars,
              PermitsClosed, WorkersDone
<1> QED
  BY <1>1, <1>2, <1>3, <1>4, <1>5, <1>6, <1>7 DEF Next, Scheduler, Main

\* The inductive invariant.
THEOREM Invariance == Spec => []IInv
<1>1. IInv /\ [Next]_vars => IInv'
  BY TypeStep, PlanStep, AccountingStep, CapStep, LateStep, JoinStep DEF IInv
<1> QED
  BY InitInv, <1>1, PTL DEF Spec

-----------------------------------------------------------------------------
(* What it gives: the safety properties of LoadRunner.                     *)

\* Every variable keeps its type; in particular the permits channel never holds
\* more than Concurrency tokens.
THEOREM TypeCorrect == Spec => []TypeOK
<1>1. IInv => TypeOK
  BY DEF IInv
<1> QED
  BY Invariance, <1>1, PTL

\* No slot is lost or executed twice, and no failure goes uncounted.
THEOREM SlotsAccounted == Spec => []Accounting
<1>1. IInv => Accounting
  BY DEF IInv
<1> QED
  BY Invariance, <1>1, PTL

\* A run never allocates more than TotalRequests slots.
THEOREM NeverOverTotal == Spec => []TotalCapped
<1>1. IInv => TotalCapped
  BY DEF IInv, CapInv, cap, TotalCapped
<1> QED
  BY Invariance, <1>1, PTL

\* At most one request starts after the scheduler's context is done.
THEOREM OneLateAtMost == Spec => []AtMostOneLate
<1>1. IInv => AtMostOneLate
  BY DEF IInv, LateInv, AtMostOneLate
<1> QED
  BY Invariance, <1>1, PTL

\* Requests in flight are cancelled only by Run, after scheduling has ended.
THEOREM NoEarlyCancel == Spec => []InFlightSpared
<1>1. IInv => InFlightSpared
  BY DEF IInv, JoinInv, InFlightSpared
<1> QED
  BY Invariance, <1>1, PTL

\* The Result that Run returns is exact and nothing is left running.
THEOREM ResultExact == Spec => []ReturnExact
<1>1. IInv => ReturnExact
  BY DEF IInv, JoinInv
<1> QED
  BY Invariance, <1>1, PTL

-----------------------------------------------------------------------------
(* LoadRunner implements LoadRun.                                          *)

\* The cardinality LoadRun speaks of is the one used here.
LEMMA SameCardinality ==
    ASSUME NEW S
    PROVE  Abstract!Cardinality(S) = Cardinality(S)
BY DEF Abstract!Cardinality, Cardinality

LEMMA RefinesInit == Init => Abstract!Init
<1> SUFFICES ASSUME Init PROVE Abstract!Init
  OBVIOUS
<1>1. cap \in Nat
  BY OptionsTyped, MaxSlotsAssumption DEF Init, cap
<1>2. phase = "open" /\ Doing = {}
  BY DEF Init, phase, PermitsClosed, Doing
<1> QED
  BY <1>1, <1>2 DEF Init, Abstract!Init, NoResult, Abstract!NoResult

LEMMA RefinesStep ==
    ASSUME IInv, [Next]_vars
    PROVE  [Abstract!Next]_(Abstract!vars)
<1> USE DEF ctxVars, rateVars
<1>1. cap' = cap
  BY OptionsFixed
<1>2. ASSUME UNCHANGED wpc
      PROVE  Doing' = Doing
  BY <1>2 DEF Doing
<1>3. ASSUME UNCHANGED <<mainPc, PermitsClosed>>
      PROVE  phase' = phase
  BY <1>3 DEF phase
<1>4. CASE SchedSend
  <2>1. phase = "open" /\ phase' = "open"
    BY <1>4 DEF SchedSend, IInv, JoinInv, phase, PermitsClosed
  <2>2. permits + Cardinality(Doing) + executed < cap
    <3>1. total = executed + Cardinality(Doing) + permits + 1
      BY <1>4 DEF SchedSend, IInv, Accounting
    <3>2. total \in Nat /\ cap \in Nat /\ total <= cap
      BY OptionsTyped, MaxSlotsAssumption DEF IInv, TypeOK, CapInv, cap
    <3> QED
      BY <3>1, <3>2, WorkerSetsFinite DEF IInv, TypeOK
  <2>3. Abstract!Issue
    BY <1>1, <1>2, <1>4, <2>1, <2>2, SameCardinality DEF SchedSend, Abstract!Issue
  <2> QED
    BY <2>3 DEF Abstract!Next
<1>5. CASE SchedClosePermits
  <2>1. phase = "open" /\ phase' = "closed"
    BY <1>5 DEF SchedClosePermits, IInv, JoinInv, phase, PermitsClosed
  <2>2. Abstract!Close
    BY <1>1, <1>2, <1>5, <2>1 DEF SchedClosePermits, Abstract!Close
  <2> QED
    BY <2>2 DEF Abstract!Next
<1>6. CASE SchedCheck \/ SchedAllocate \/ SchedWaitFails \/ SchedGiveUp \/ SchedCloseDone
  <2>1. UNCHANGED <<mainPc, PermitsClosed, wpc, permits, executed, failed, result>>
    BY <1>6 DEF SchedCheck, SchedAllocate, SchedWaitFails, SchedGiveUp,
                SchedCloseDone, PermitsClosed
  <2> QED
    BY <1>1, <1>2, <1>3, <2>1 DEF Abstract!vars
<1>7. ASSUME NEW w \in Workers, Worker(w)
      PROVE  [Abstract!Next]_(Abstract!vars)
  <2>1. phase # "returned" /\ phase' = phase
    BY <1>7 DEF Worker, WorkerRecv, WorkerExit, DoReturns, CountError, IInv,
                JoinInv, ReturnExact, WorkersDone, phase, PermitsClosed
  <2>2. CASE WorkerRecv(w)
    <3>1. w \notin Doing /\ Doing' = Doing \cup {w}
      BY <2>2, WorkerMoves DEF WorkerRecv, IInv, Doing
    <3>2. Abstract!Begin(w)
      BY <1>1, <2>1, <2>2, <3>1 DEF WorkerRecv, Abstract!Begin
    <3> QED
      BY <3>2 DEF Abstract!Next
  <2>3. CASE DoReturns(w)
    <3>1. w \in Doing /\ Doing' = Doing \ {w}
      BY <2>3, WorkerMoves DEF DoReturns, IInv, Doing
    <3>2. PICK n \in {0, 1} : failed' = failed + n
      <4>1. failed' = failed + 0 \/ failed' = failed + 1
        BY <2>3 DEF DoReturns, IInv, TypeOK
      <4> QED
        BY <4>1
    <3>3. Abstract!End(w, n)
      BY <1>1, <2>1, <2>3, <3>1, <3>2 DEF DoReturns, Abstract!End
    <3> QED
      BY <3>3 DEF Abstract!Next
  <2>4. CASE WorkerExit(w) \/ CountError(w)
    <3>1. Doing' = Doing
      BY <2>4, WorkerMoves DEF WorkerExit, CountError, IInv, Doing
    <3> QED
      BY <1>1, <2>1, <2>4, <3>1 DEF WorkerExit, CountError, Abstract!vars
  <2> QED
    BY <1>7, <2>2, <2>3, <2>4 DEF Worker
<1>8. CASE MainWorkersDone \/ MainJoined
  <2>1. WorkersDone /\ schedPc = "done" /\ ReturnResult /\ mainPc # "returned"
    BY <1>8 DEF MainWorkersDone, MainJoined, IInv, JoinInv
  <2>2. permits = 0 /\ Doing = {} /\ result' = [total |-> executed, errors |-> failed]
    BY <2>1, AllJoined DEF ReturnResult
  <2>3. phase = "closed" /\ phase' = "returned"
    BY <2>1 DEF ReturnResult, phase, PermitsClosed
  <2>4. Abstract!Return
    BY <1>1, <1>2, <2>1, <2>2, <2>3 DEF ReturnResult, Abstract!Return
  <2> QED
    BY <2>4 DEF Abstract!Next
<1>9. CASE MainScheduleDone \/ MainRunDone \/ MainGraceElapsed
  <2>1. phase' = phase
    BY <1>9 DEF MainScheduleDone, MainRunDone, MainGraceElapsed, phase, PermitsClosed
  <2> QED
    BY <1>1, <1>2, <1>9, <2>1
    DEF MainScheduleDone, MainRunDone, MainGraceElapsed, Abstract!vars
<1>10. CASE Controller
  <2>1. UNCHANGED <<mainPc, PermitsClosed, wpc, permits, executed, failed, result>>
    BY <1>10 DEF Controller, CtlStart, CtlTick, CtlSetBurst, CtlEnd, SetLimit,
                 PermitsClosed
  <2> QED
    BY <1>1, <1>2, <1>3, <2>1 DEF Abstract!vars
<1>11. CASE TimePasses \/ DeadlineFires \/ ParentCancel \/ Finished \/ UNCHANGED vars
  <2>1. UNCHANGED <<mainPc, PermitsClosed, wpc, permits, executed, failed, result>>
    BY <1>11 DEF TimePasses, DeadlineFires, ParentCancel, Finished, vars,
                 PermitsClosed
  <2> QED
    BY <1>1, <1>2, <1>3, <2>1 DEF Abstract!vars
<1> QED
  BY <1>4, <1>5, <1>6, <1>7, <1>8, <1>9, <1>10, <1>11 DEF Next, Scheduler, Main

\* Runner.Run implements LoadRun: whatever the interleaving of its goroutines,
\* its caller sees slots issued up to the cap, each executed once by one worker,
\* and a Result that counts exactly those, after the last of them.
THEOREM Implementation == Spec => ImplementsLoadRun
<1>1. IInv /\ [Next]_vars => [Abstract!Next]_(Abstract!vars)
  BY RefinesStep
<1> QED
  BY RefinesInit, Invariance, <1>1, PTL DEF Spec, ImplementsLoadRun, Abstract!Spec

=============================================================================
