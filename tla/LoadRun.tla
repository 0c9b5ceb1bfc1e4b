------------------------------ MODULE LoadRun ------------------------------
(***************************************************************************)
(* What one call of runner.Run promises its caller, without permits,       *)
(* contexts or timers.  Slots are issued while the run is open; each       *)
(* issued slot is executed exactly once, by one worker; the run returns    *)
(* only when nothing is waiting or running, and its Result counts exactly  *)
(* the executions and the failures among them.                             *)
(***************************************************************************)
EXTENDS Integers, FiniteSets

CONSTANT Workers     \* the worker goroutines

VARIABLES cap,       \* most slots this run may issue; fixed when it starts
          phase,     \* "open", "closed" or "returned"
          waiting,   \* slots issued and not yet taken by a worker
          running,   \* the workers executing a request
          executed,  \* executions that ended
          failed,    \* those that ended with an error
          result     \* what Run returned

vars == <<cap, phase, waiting, running, executed, failed, result>>

NoResult == [total |-> -1, errors |-> -1]

Init ==
    /\ cap \in Nat
    /\ phase = "open"
    /\ waiting = 0
    /\ running = {}
    /\ executed = 0
    /\ failed = 0
    /\ result = NoResult

\* No more than cap slots, and never more waiting than there are workers.
Issue ==
    /\ phase = "open"
    /\ waiting < Cardinality(Workers)
    /\ waiting + Cardinality(running) + executed < cap
    /\ waiting' = waiting + 1
    /\ UNCHANGED <<cap, phase, running, executed, failed, result>>

Begin(w) ==
    /\ phase # "returned"
    /\ waiting > 0
    /\ w \notin running
    /\ waiting' = waiting - 1
    /\ running' = running \cup {w}
    /\ UNCHANGED <<cap, phase, executed, failed, result>>

End(w, failures) ==
    /\ w \in running
    /\ running' = running \ {w}
    /\ executed' = executed + 1
    /\ failed' = failed + failures
    /\ UNCHANGED <<cap, phase, waiting, result>>

Close ==
    /\ phase = "open"
    /\ phase' = "closed"
    /\ UNCHANGED <<cap, waiting, running, executed, failed, result>>

Return ==
    /\ phase = "closed"
    /\ waiting = 0
    /\ running = {}
    /\ phase' = "returned"
    /\ result' = [total |-> executed, errors |-> failed]
    /\ UNCHANGED <<cap, waiting, running, executed, failed>>

Next ==
    \/ Issue
    \/ Close
    \/ Return
    \/ \E w \in Workers : Begin(w) \/ (\E failures \in {0, 1} : End(w, failures))

Spec == Init /\ [][Next]_vars
=============================================================================
