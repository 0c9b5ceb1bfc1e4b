------------------------------- MODULE SetRun -------------------------------
(***************************************************************************)
(* What one execution of a set promises whoever watches its record: stages *)
(* one after the other, the items of a stage side by side and each once,   *)
(* nothing more after a stage that ends the run, and a record that says    *)
(* "running" until it gets, once, its final status.  A process that dies   *)
(* leaves the record as it is.                                             *)
(***************************************************************************)
EXTENDS Naturals, Sequences

CONSTANT Slots      \* items of a stage

VARIABLES plan,     \* for each stage its items, and whether a failure ends the run
          stage,    \* the stage under way, 0 before the first
          waiting,  \* its items that have not begun
          busy,     \* its items under way
          failed,   \* some item of it failed
          record,   \* "none", "running" or a final status
          stopped,  \* the caller has cancelled the run
          alive     \* the process is there

vars == <<plan, stage, waiting, busy, failed, record, stopped, alive>>

Final == {"completed", "failed", "cancelled"}
Quiet == waiting = {} /\ busy = {}

\* The stage under way does not end the run.
MayGoOn == Quiet /\ (stage > 0 /\ plan[stage].abort => ~failed)

Init ==
    /\ plan = << >> /\ stage = 0 /\ waiting = {} /\ busy = {}
    /\ failed = FALSE /\ record = "none" /\ stopped = FALSE /\ alive = TRUE

Begin ==
    /\ record = "none"
    /\ plan' \in Seq([items : SUBSET Slots, abort : BOOLEAN])
    /\ record' = "running"
    /\ UNCHANGED <<stage, waiting, busy, failed, stopped, alive>>

NextStage ==
    /\ record = "running" /\ MayGoOn
    /\ stage < Len(plan)
    /\ stage' = stage + 1
    /\ waiting' = plan[stage + 1].items
    /\ failed' = FALSE
    /\ UNCHANGED <<plan, busy, record, stopped, alive>>

StartItem(i) ==
    /\ i \in waiting
    /\ waiting' = waiting \ {i}
    /\ busy' = busy \cup {i}
    /\ UNCHANGED <<plan, stage, failed, record, stopped, alive>>

EndItem(i) ==
    /\ i \in busy
    /\ busy' = busy \ {i}
    /\ failed' \in {failed, TRUE}
    /\ UNCHANGED <<plan, stage, waiting, record, stopped, alive>>

\* "completed" is for a run that went through all its stages.
Close(status) ==
    /\ record = "running" /\ Quiet
    /\ status = "completed" => stage = Len(plan) /\ MayGoOn
    /\ status = "cancelled" => stopped
    /\ record' = status
    /\ UNCHANGED <<plan, stage, waiting, busy, failed, stopped, alive>>

Stop ==
    /\ stopped' = TRUE
    /\ UNCHANGED <<plan, stage, waiting, busy, failed, record, alive>>

Die ==
    /\ alive' = FALSE
    /\ plan' = << >> /\ stage' = 0 /\ waiting' = {} /\ busy' = {}
    /\ failed' = FALSE /\ stopped' = FALSE
    /\ UNCHANGED record

Next ==
    /\ alive
    /\ \/ Begin
       \/ NextStage
       \/ \E i \in Slots : StartItem(i) \/ EndItem(i)
       \/ \E status \in Final : Close(status)
       \/ Stop
       \/ Die

Spec == Init /\ [][Next]_vars
=============================================================================
