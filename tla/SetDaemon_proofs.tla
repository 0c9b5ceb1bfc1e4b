--------------------------- MODULE SetDaemon_proofs ---------------------------
(***************************************************************************)
(* For any sets, schedules, jobs and bounds: the scheduler never runs a    *)
(* set twice at a time, its table and the cron agree, a Reload does what   *)
(* it says and no more, and the daemon leaves no job behind.               *)
(***************************************************************************)
EXTENDS SetDaemon, TLAPS

\* No two sets share an entry of the cron: to remove one by its ID removes
\* no other.
UniqueIds ==
    \A s, t \in Sets :
        entries[s] # None /\ entries[t] # None /\ entries[s].id = entries[t].id => s = t

\* What a Reload has still to do, at each moment of its two loops.
ReloadInv ==
    reload.pc = "update" =>
        /\ \A s \in reload.todo :
               reload.desired[s] # None /\ ExprOf(entries[s]) # reload.desired[s]
        /\ \A s \in reload.gone : reload.desired[s] = None /\ entries[s] # None
        /\ \A s \in Sets \ (reload.todo \cup reload.gone) :
               ExprOf(entries[s]) = reload.desired[s]

\* Every job is for a set, and jobs exist only while the cron runs or stops.
JobInv ==
    /\ \A j \in Jobs : job[j].pc # "free" => job[j].set \in Sets
    /\ ticking => main = "serve"
    /\ main \notin {"serve", "stop"} => \A j \in Jobs : job[j].pc = "free"

IInv == /\ TypeOK /\ SingleFlight /\ TableMatchesCron /\ UniqueIds
        /\ ReloadInv /\ ReloadApplies /\ JobInv

-----------------------------------------------------------------------------
LEMMA InitInv == Init => IInv
<1> SUFFICES ASSUME Init PROVE IInv
  OBVIOUS
<1>1. TypeOK
  <2>1. 0 \in 0..MaxEdits /\ 0 \in 0..MaxHups /\ SignalCap \in Nat
    BY DaemonAssumption
  <2>2. reload = [pc |-> "list", desired |-> [s \in Sets |-> None], todo |-> {}, gone |-> {}]
    BY DEF Init, NoReload
  <2>3. reload \in [pc : {"idle", "list", "diff", "update", "ok", "failed"},
                    desired : [Sets -> Schedules], todo : SUBSET Sets, gone : SUBSET Sets]
    BY <2>2 DEF Schedules
  <2>4. job \in [Jobs -> [pc : {"free", "start", "claimed", "running", "ran"},
                          set : Sets \cup {None}]]
    BY DEF Init, NoJob
  <2>5. sigs \in Seq({"hup", "term"}) /\ Len(sigs) <= SignalCap
    BY <2>1 DEF Init
  <2>6. {ticking, cancelled, drained} \subseteq BOOLEAN
    BY Zenon DEF Init
  <2> QED
    BY <2>1, <2>3, <2>4, <2>5, <2>6 DEF Init, TypeOK
<1>2. SingleFlight
  BY DEF Init, SingleFlight, Holds, NoJob
<1>3. TableMatchesCron /\ UniqueIds
  BY DEF Init, TableMatchesCron, UniqueIds
<1>4. reload.pc = "list"
  BY DEF Init, NoReload
<1>5. ReloadInv /\ ReloadApplies
  BY <1>4 DEF ReloadInv, ReloadApplies
<1>6. JobInv
  BY DEF Init, JobInv, NoJob
<1> QED
  BY <1>1, <1>2, <1>3, <1>5, <1>6 DEF IInv

-----------------------------------------------------------------------------
(* The steps of Next that touch the table                                  *)

\* The facts of a state in which every step below starts.
LEMMA EntryFacts ==
    ASSUME TypeOK
    PROVE  /\ ids \in Nat
           /\ \A s \in Sets : entries[s] # None =>
                  entries[s] \in [id : Nat, expr : Exprs] /\ entries[s].id <= ids
           /\ \A s \in Sets : ExprOf(entries[s]) = None <=> entries[s] = None
           /\ \A i \in Nat, x \in Exprs : [id |-> i, expr |-> x] # None
           /\ None \notin Exprs
<1>1. ids \in Nat /\ None \notin Exprs
  BY DaemonAssumption DEF TypeOK
<1>2. ASSUME NEW s \in Sets, entries[s] # None
      PROVE  entries[s] \in [id : Nat, expr : Exprs] /\ entries[s].id <= ids
  <2>1. entries[s] \in [id : 1..ids, expr : Exprs]
    BY <1>2 DEF TypeOK
  <2> QED
    BY <2>1, <1>1
<1>3. ASSUME NEW s \in Sets
      PROVE  ExprOf(entries[s]) = None <=> entries[s] = None
  BY <1>1, <1>2, <1>3 DEF ExprOf
<1>4. \A i \in Nat, x \in Exprs : [id |-> i, expr |-> x] # None
  BY DaemonAssumption
<1> QED
  BY <1>1, <1>2, <1>3, <1>4

\* What a Reload wants of a set it has still to update or remove.
LEMMA ReloadFacts ==
    ASSUME TypeOK
    PROVE  /\ reload.desired \in [Sets -> Schedules]
           /\ reload.todo \subseteq Sets /\ reload.gone \subseteq Sets
           /\ \A f \in {"idle", "list", "diff", "update", "ok", "failed"} :
                  [reload EXCEPT !.pc = f] =
                  [pc |-> f, desired |-> reload.desired, todo |-> reload.todo, gone |-> reload.gone]
           /\ \A S \in SUBSET Sets :
                  /\ [reload EXCEPT !.todo = S] =
                     [pc |-> reload.pc, desired |-> reload.desired, todo |-> S, gone |-> reload.gone]
                  /\ [reload EXCEPT !.gone = S] =
                     [pc |-> reload.pc, desired |-> reload.desired, todo |-> reload.todo, gone |-> S]
BY DEF TypeOK

\* A step that puts a new entry in the place of the one that s had, if any.
LEMMA Replaced ==
    ASSUME TypeOK, UniqueIds, TableMatchesCron, NEW s \in Sets, NEW x \in Exprs,
           AddOrReplace(s, x)
    PROVE  /\ ids' \in Nat
           /\ entries' \in [Sets -> [id : 1..ids', expr : Exprs] \cup {None}]
           /\ cron' \subseteq [id : 1..ids', set : Sets, expr : Exprs]
           /\ TableMatchesCron' /\ UniqueIds'
           /\ ExprOf(entries'[s]) = x
           /\ \A t \in Sets \ {s} : entries'[t] = entries[t]
<1> DEFINE new == [id |-> ids + 1, expr |-> x]
<1>1. /\ ids \in Nat
      /\ \A t \in Sets : entries[t] # None =>
             entries[t] \in [id : Nat, expr : Exprs] /\ entries[t].id <= ids
      /\ new # None
  <2>1. ids + 1 \in Nat
    BY DEF TypeOK
  <2> QED
    BY <2>1, EntryFacts
<1>2. entries' = [entries EXCEPT ![s] = new] /\ ids' = ids + 1
  BY DEF AddOrReplace
<1>3. /\ entries'[s] = new /\ \A t \in Sets \ {s} : entries'[t] = entries[t]
  BY <1>2 DEF TypeOK
<1>4. ExprOf(entries'[s]) = x
  BY <1>1, <1>3 DEF ExprOf
<1>5. 1..ids \subseteq 1..ids' /\ ids + 1 \in 1..ids' /\ ids' \in Nat
  BY <1>1, <1>2
<1>6. entries' \in [Sets -> [id : 1..ids', expr : Exprs] \cup {None}]
  <2>1. new \in [id : 1..ids', expr : Exprs]
    BY <1>5
  <2>2. [id : 1..ids, expr : Exprs] \subseteq [id : 1..ids', expr : Exprs]
    BY <1>5
  <2> QED
    BY <1>2, <2>1, <2>2 DEF TypeOK
<1>7. cron' \subseteq [id : 1..ids', set : Sets, expr : Exprs]
  <2>1. [id |-> ids + 1, set |-> s, expr |-> x] \in [id : 1..ids', set : Sets, expr : Exprs]
    BY <1>5
  <2>2. [id : 1..ids, set : Sets, expr : Exprs] \subseteq [id : 1..ids', set : Sets, expr : Exprs]
    BY <1>5
  <2> QED
    BY <2>1, <2>2 DEF AddOrReplace, TypeOK
<1>8. UniqueIds'
  BY <1>1, <1>3 DEF UniqueIds
<1>9. TableMatchesCron'
  <2> DEFINE Rec(t, e) == [id |-> e.id, set |-> t, expr |-> e.expr]
  <2>1. cron = {Rec(t, entries[t]) : t \in {u \in Sets : entries[u] # None}}
    BY DEF TableMatchesCron
  <2>2. cron' = {e \in cron : entries[s] = None \/ e.id # entries[s].id} \cup {Rec(s, new)}
    BY DEF AddOrReplace
  <2>3. ASSUME NEW e \in cron' PROVE \E t \in Sets : entries'[t] # None /\ e = Rec(t, entries'[t])
    <3>1. CASE e = Rec(s, new)
      BY <3>1, <1>1, <1>3
    <3>2. CASE e \in cron /\ (entries[s] = None \/ e.id # entries[s].id)
      <4>1. PICK t \in Sets : entries[t] # None /\ e = Rec(t, entries[t])
        BY <2>1, <3>2
      <4>2. t # s
        BY <3>2, <4>1
      <4> QED
        BY <1>3, <4>1, <4>2
    <3> QED
      BY <2>2, <2>3, <3>1, <3>2
  <2>4. ASSUME NEW t \in Sets, entries'[t] # None PROVE Rec(t, entries'[t]) \in cron'
    <3>1. CASE t = s
      BY <1>3, <2>2, <3>1
    <3>2. CASE t # s
      <4>1. entries'[t] = entries[t] /\ Rec(t, entries[t]) \in cron
        BY <1>3, <2>1, <2>4, <3>2
      <4>2. entries[s] = None \/ entries[t].id # entries[s].id
        BY <2>4, <3>2, <4>1 DEF UniqueIds
      <4> QED
        BY <2>2, <4>1, <4>2
    <3> QED
      BY <3>1, <3>2
  <2>5. cron' = {Rec(t, entries'[t]) : t \in {u \in Sets : entries'[u] # None}}
    BY <2>3, <2>4
  <2> QED
    BY <2>5 DEF TableMatchesCron
<1> QED
  BY <1>3, <1>4, <1>5, <1>6, <1>7, <1>8, <1>9

\* A step that removes the entry that s had.
LEMMA Removed ==
    ASSUME TypeOK, UniqueIds, TableMatchesCron, NEW s \in Sets, entries[s] # None,
           cron' = {e \in cron : e.id # entries[s].id},
           entries' = [entries EXCEPT ![s] = None], ids' = ids
    PROVE  /\ entries' \in [Sets -> [id : 1..ids', expr : Exprs] \cup {None}]
           /\ cron' \subseteq [id : 1..ids', set : Sets, expr : Exprs]
           /\ TableMatchesCron' /\ UniqueIds'
           /\ entries'[s] = None
           /\ \A t \in Sets \ {s} : entries'[t] = entries[t]
<1>1. entries'[s] = None /\ \A t \in Sets \ {s} : entries'[t] = entries[t]
  BY DEF TypeOK
<1>2. /\ entries' \in [Sets -> [id : 1..ids', expr : Exprs] \cup {None}]
      /\ cron' \subseteq [id : 1..ids', set : Sets, expr : Exprs]
  BY DEF TypeOK
<1>3. UniqueIds'
  BY <1>1 DEF UniqueIds
<1>4. TableMatchesCron'
  <2> DEFINE Rec(t, e) == [id |-> e.id, set |-> t, expr |-> e.expr]
  <2>1. cron = {Rec(t, entries[t]) : t \in {u \in Sets : entries[u] # None}}
    BY DEF TableMatchesCron
  <2>2. ASSUME NEW e \in cron' PROVE \E t \in Sets : entries'[t] # None /\ e = Rec(t, entries'[t])
    <3>1. PICK t \in Sets : entries[t] # None /\ e = Rec(t, entries[t])
      BY <2>1, <2>2
    <3>2. t # s
      BY <2>2, <3>1
    <3> QED
      BY <1>1, <3>1, <3>2
  <2>3. ASSUME NEW t \in Sets, entries'[t] # None PROVE Rec(t, entries'[t]) \in cron'
    <3>1. t # s /\ entries'[t] = entries[t] /\ Rec(t, entries[t]) \in cron
      BY <1>1, <2>1, <2>3
    <3>2. entries[t].id # entries[s].id
      BY <2>3, <3>1 DEF UniqueIds
    <3> QED
      BY <3>1, <3>2
  <2>4. cron' = {Rec(t, entries'[t]) : t \in {u \in Sets : entries'[u] # None}}
    BY <2>2, <2>3
  <2> QED
    BY <2>4 DEF TableMatchesCron
<1> QED
  BY <1>1, <1>2, <1>3, <1>4
-----------------------------------------------------------------------------
(* What a step leaves alone stays right                                    *)

Kept == \A s \in Sets : entries'[s] # entries[s] => ExprOf(entries'[s]) # ExprOf(entries[s])

LEMMA SameTable == ASSUME IInv, UNCHANGED table
                   PROVE  TableMatchesCron' /\ UniqueIds' /\ Kept
BY DEF IInv, table, TableMatchesCron, UniqueIds, Kept

LEMMA SameReload == ASSUME IInv, UNCHANGED entries, UNCHANGED reload
                    PROVE  ReloadInv' /\ ReloadApplies'
BY DEF IInv, ReloadInv, ReloadApplies, ExprOf

LEMMA OtherReload == ASSUME reload'.pc \notin {"update", "ok"}
                     PROVE  ReloadInv' /\ ReloadApplies'
BY DEF ReloadInv, ReloadApplies

LEMMA SameFiring == ASSUME IInv, UNCHANGED firing
                    PROVE  SingleFlight'
BY DEF IInv, firing, SingleFlight, Holds

LEMMA SameJobs == ASSUME IInv, UNCHANGED job, UNCHANGED ticking, UNCHANGED main
                  PROVE  JobInv'
BY DEF IInv, JobInv

-----------------------------------------------------------------------------
(* The environment                                                         *)

LEMMA EditScheduleInv ==
    ASSUME IInv, NEW s \in Sets, NEW x \in Schedules, EditSchedule(s, x)
    PROVE  IInv' /\ Kept
<1> USE DEF EditSchedule, table, firing, signals
<1>1. TypeOK'
  <2>1. edits' \in 0..MaxEdits
    BY DaemonAssumption DEF IInv, TypeOK
  <2> QED
    BY <2>1 DEF IInv, TypeOK
<1> QED
  BY <1>1, SameTable, SameReload, SameFiring, SameJobs DEF IInv

LEMMA NotifyInv ==
    ASSUME IInv, NEW k \in {"hup", "term"}, Notify(k)
    PROVE  IInv' /\ Kept
<1> USE DEF Notify, table, firing, store
<1>1. TypeOK'
  <2>1. hups' \in 0..MaxHups
    BY DaemonAssumption DEF IInv, TypeOK
  <2>2. sigs' \in Seq({"hup", "term"}) /\ Len(sigs') <= SignalCap
    <3>1. sigs \in Seq({"hup", "term"}) /\ Len(sigs) < SignalCap /\ SignalCap \in Nat
      BY DaemonAssumption DEF IInv, TypeOK
    <3> QED
      BY <3>1
  <2> QED
    BY <2>1, <2>2 DEF IInv, TypeOK
<1> QED
  BY <1>1, SameTable, SameReload, SameFiring, SameJobs DEF IInv

-----------------------------------------------------------------------------
(* Reload                                                                  *)

LEMMA ReloadListInv == ASSUME IInv, ReloadList PROVE IInv' /\ Kept
<1> USE DEF ReloadList, table, firing, signals, store
<1>1. reload'.pc \in {"failed", "diff"}
  BY DEF IInv, TypeOK
<1>2. TypeOK'
  <2>1. reload' \in [pc : {"idle", "list", "diff", "update", "ok", "failed"},
                     desired : [Sets -> Schedules], todo : SUBSET Sets, gone : SUBSET Sets]
    BY DEF IInv, TypeOK
  <2> QED
    BY <2>1 DEF IInv, TypeOK
<1> QED
  BY <1>1, <1>2, SameTable, OtherReload, SameFiring, SameJobs DEF IInv

LEMMA ReloadDiffInv == ASSUME IInv, ReloadDiff PROVE IInv' /\ Kept
<1> USE DEF ReloadDiff, table, firing, signals, store
<1> DEFINE todo == {s \in Sets : reload.desired[s] # None /\ ExprOf(entries[s]) # reload.desired[s]}
           gone == {s \in Sets : reload.desired[s] = None /\ entries[s] # None}
<1>1. reload' = [pc |-> "update", desired |-> reload.desired, todo |-> todo, gone |-> gone]
  BY DEF IInv, TypeOK
<1>2. TypeOK'
  BY <1>1 DEF IInv, TypeOK
<1>3. ReloadInv' /\ ReloadApplies'
  <2>1. \A s \in Sets \ (todo \cup gone) : ExprOf(entries[s]) = reload.desired[s]
    BY DEF ExprOf
  <2>2. \A s \in Sets : ExprOf(entries'[s]) = ExprOf(entries[s])
    BY DEF ExprOf
  <2>3. /\ reload'.pc = "update" /\ reload'.desired = reload.desired
        /\ reload'.todo = todo /\ reload'.gone = gone
    BY <1>1
  <2>4. \A s \in gone : reload.desired[s] = None /\ entries'[s] # None
    OBVIOUS
  <2>5. \A s \in todo : reload.desired[s] # None /\ ExprOf(entries'[s]) # reload.desired[s]
    BY <2>2
  <2>6. todo \subseteq Sets /\ gone \subseteq Sets
    OBVIOUS
  <2> HIDE DEF todo, gone
  <2> QED
    BY <2>1, <2>2, <2>3, <2>4, <2>5, <2>6 DEF ReloadInv, ReloadApplies, ExprOf
<1> QED
  BY <1>2, <1>3, SameTable, SameFiring, SameJobs DEF IInv

LEMMA ReloadReturnInv == ASSUME IInv, ReloadReturn PROVE IInv' /\ Kept
<1> USE DEF ReloadReturn, table, firing, signals, store
<1>1. reload' = [pc |-> "ok", desired |-> reload.desired, todo |-> reload.todo, gone |-> reload.gone]
  BY DEF IInv, TypeOK
<1>2. TypeOK'
  BY <1>1 DEF IInv, TypeOK
<1>3. ReloadInv' /\ ReloadApplies'
  BY <1>1 DEF IInv, ReloadInv, ReloadApplies, ExprOf
<1> QED
  BY <1>2, <1>3, SameTable, SameFiring, SameJobs DEF IInv

LEMMA ReloadUpdateInv ==
    ASSUME IInv, NEW s \in Sets, ReloadUpdate(s)
    PROVE  IInv' /\ Kept
<1> USE DEF firing, signals, store
<1>1. CASE reload.desired[s] = Bad
  <2>1. reload' = [pc |-> "failed", desired |-> reload.desired, todo |-> reload.todo, gone |-> reload.gone]
    BY <1>1, ReloadFacts DEF ReloadUpdate, IInv
  <2>2. UNCHANGED table
    BY <1>1 DEF ReloadUpdate
  <2>3. TypeOK'
    BY <2>1, <2>2 DEF IInv, TypeOK, ReloadUpdate, table
  <2>4. ReloadInv' /\ ReloadApplies'
    BY <2>1, OtherReload
  <2> QED
    BY <2>2, <2>3, <2>4, SameTable, SameFiring, SameJobs DEF IInv, ReloadUpdate
<1>2. CASE reload.desired[s] # Bad
  <2> DEFINE x == reload.desired[s]
  <2>1. /\ reload.pc = "update" /\ s \in reload.todo
        /\ AddOrReplace(s, x)
        /\ reload' = [reload EXCEPT !.todo = reload.todo \ {s}]
    BY <1>2 DEF ReloadUpdate
  <2>2. /\ reload.desired \in [Sets -> Schedules]
        /\ reload.todo \subseteq Sets /\ reload.gone \subseteq Sets
        /\ reload' = [pc |-> "update", desired |-> reload.desired,
                      todo |-> reload.todo \ {s}, gone |-> reload.gone]
    BY <2>1, ReloadFacts DEF IInv
  <2>3. x # None /\ ExprOf(entries[s]) # x
    BY <2>1 DEF IInv, ReloadInv
  <2>4. x \in Exprs
    BY <1>2, <2>2, <2>3 DEF Schedules
  <2> HIDE DEF x
  <2>5. /\ ids' \in Nat
        /\ entries' \in [Sets -> [id : 1..ids', expr : Exprs] \cup {None}]
        /\ cron' \subseteq [id : 1..ids', set : Sets, expr : Exprs]
        /\ TableMatchesCron' /\ UniqueIds'
        /\ ExprOf(entries'[s]) = x
        /\ \A t \in Sets \ {s} : entries'[t] = entries[t]
    BY <2>1, <2>4, Replaced DEF IInv
  <2>6. TypeOK'
    BY <2>2, <2>5 DEF IInv, TypeOK, ReloadUpdate
  <2>7. Kept
    BY <2>3, <2>5 DEF Kept
  <2>8. ReloadInv'
    <3>1. \A t \in Sets : ExprOf(entries'[t]) = IF t = s THEN x ELSE ExprOf(entries[t])
      BY <2>5 DEF ExprOf
    <3>2. \A t \in reload.todo \ {s} : reload.desired[t] # None /\ ExprOf(entries'[t]) # reload.desired[t]
      BY <2>1, <2>2, <3>1 DEF IInv, ReloadInv
    <3>3. \A t \in reload.gone : reload.desired[t] = None /\ entries'[t] # None
      BY <2>1, <2>2, <2>3, <2>5 DEF IInv, ReloadInv, x
    <3>4. \A t \in Sets \ ((reload.todo \ {s}) \cup reload.gone) : ExprOf(entries'[t]) = reload.desired[t]
      BY <2>1, <2>2, <3>1 DEF IInv, ReloadInv, x
    <3> QED
      BY <2>2, <3>2, <3>3, <3>4 DEF ReloadInv, ExprOf
  <2>9. ReloadApplies'
    BY <2>2 DEF ReloadApplies
  <2> QED
    BY <2>5, <2>6, <2>7, <2>8, <2>9, SameFiring, SameJobs DEF IInv, ReloadUpdate
<1> QED
  BY <1>1, <1>2

LEMMA ReloadRemoveInv ==
    ASSUME IInv, NEW s \in Sets, ReloadRemove(s)
    PROVE  IInv' /\ Kept
<1> USE DEF firing, signals, store
<1>1. /\ reload.pc = "update" /\ reload.todo = {} /\ s \in reload.gone
      /\ reload.desired[s] = None /\ entries[s] # None
  BY DEF IInv, ReloadInv, ReloadRemove
<1>2. /\ reload.gone \subseteq Sets
      /\ reload' = [pc |-> "update", desired |-> reload.desired,
                    todo |-> {}, gone |-> reload.gone \ {s}]
  BY <1>1, ReloadFacts DEF IInv, ReloadRemove
<1>3. /\ entries' \in [Sets -> [id : 1..ids', expr : Exprs] \cup {None}]
      /\ cron' \subseteq [id : 1..ids', set : Sets, expr : Exprs]
      /\ TableMatchesCron' /\ UniqueIds'
      /\ entries'[s] = None
      /\ \A t \in Sets \ {s} : entries'[t] = entries[t]
  BY <1>1, Removed DEF IInv, ReloadRemove
<1>4. TypeOK'
  <2>1. reload.desired \in [Sets -> Schedules] /\ reload.gone \ {s} \subseteq Sets
    BY <1>2 DEF IInv, TypeOK
  <2>2. reload' \in [pc : {"idle", "list", "diff", "update", "ok", "failed"},
                     desired : [Sets -> Schedules], todo : SUBSET Sets, gone : SUBSET Sets]
    BY <1>2, <2>1
  <2> QED
    BY <1>3, <2>2 DEF IInv, TypeOK, ReloadRemove
<1>5. ExprOf(entries'[s]) = None /\ ExprOf(entries[s]) # None
  <2>1. ExprOf(entries'[s]) = None
    BY <1>3 DEF ExprOf
  <2>2. ExprOf(entries[s]) # None
    BY <1>1, EntryFacts DEF IInv
  <2> QED
    BY <2>1, <2>2
<1>6. Kept
  BY <1>3, <1>5 DEF Kept
<1>7. ReloadInv'
  <2>1. \A t \in Sets \ {s} : ExprOf(entries'[t]) = ExprOf(entries[t])
    BY <1>3 DEF ExprOf
  <2>2. \A t \in reload.gone \ {s} : reload.desired[t] = None /\ entries'[t] # None
    BY <1>1, <1>2, <1>3 DEF IInv, ReloadInv
  <2>3. \A t \in Sets \ (reload.gone \ {s}) : ExprOf(entries'[t]) = reload.desired[t]
    BY <1>1, <1>5, <2>1 DEF IInv, ReloadInv
  <2> QED
    BY <1>2, <2>2, <2>3 DEF ReloadInv, ExprOf
<1>8. ReloadApplies'
  BY <1>2 DEF ReloadApplies
<1> QED
  BY <1>3, <1>4, <1>6, <1>7, <1>8, SameFiring, SameJobs DEF IInv, ReloadRemove
-----------------------------------------------------------------------------
(* The signal goroutine and main                                           *)

LEMMA FreshReload ==
    /\ NoReload.pc = "idle"
    /\ [NoReload EXCEPT !.pc = "list"] \in
           [pc : {"idle", "list", "diff", "update", "ok", "failed"},
            desired : [Sets -> Schedules], todo : SUBSET Sets, gone : SUBSET Sets]
    /\ [NoReload EXCEPT !.pc = "list"].pc = "list"
    /\ NoReload \in
           [pc : {"idle", "list", "diff", "update", "ok", "failed"},
            desired : [Sets -> Schedules], todo : SUBSET Sets, gone : SUBSET Sets]
BY DEF NoReload, Schedules

LEMMA SigStepInv == ASSUME IInv, SigStep PROVE IInv' /\ Kept
<1> USE DEF table, firing, store
<1>1. CASE SigTerm
  <2> USE DEF SigTerm
  <2>1. sigs' \in Seq({"hup", "term"}) /\ Len(sigs') <= SignalCap
    BY <1>1, DaemonAssumption DEF IInv, TypeOK
  <2>2. TypeOK'
    BY <1>1, <2>1 DEF IInv, TypeOK
  <2> QED
    BY <1>1, <2>2, SameTable, SameReload, SameFiring, SameJobs DEF IInv
<1>2. CASE SigHup
  <2> USE DEF SigHup
  <2>1. sigs' \in Seq({"hup", "term"}) /\ Len(sigs') <= SignalCap
    BY <1>2, DaemonAssumption DEF IInv, TypeOK
  <2>2. TypeOK'
    BY <1>2, <2>1, FreshReload DEF IInv, TypeOK
  <2>3. ReloadInv' /\ ReloadApplies'
    BY <1>2, FreshReload, OtherReload
  <2> QED
    BY <1>2, <2>2, <2>3, SameTable, SameFiring, SameJobs DEF IInv
<1>3. CASE SigReloaded
  <2> USE DEF SigReloaded, signals
  <2>1. TypeOK'
    BY <1>3, FreshReload DEF IInv, TypeOK
  <2>2. ReloadInv' /\ ReloadApplies'
    BY <1>3, FreshReload, OtherReload
  <2> QED
    BY <1>3, <2>1, <2>2, SameTable, SameFiring, SameJobs DEF IInv
<1> QED
  BY <1>1, <1>2, <1>3 DEF SigStep

LEMMA MainStepInv == ASSUME IInv, MainStep PROVE IInv' /\ Kept
<1> USE DEF table, firing, store, signals
<1>1. CASE MainLoaded
  <2> USE DEF MainLoaded
  <2>1. TypeOK'
    BY <1>1, FreshReload DEF IInv, TypeOK
  <2>2. ReloadInv' /\ ReloadApplies'
    BY <1>1, FreshReload, OtherReload
  <2>3. JobInv'
    BY <1>1 DEF IInv, JobInv
  <2> QED
    BY <1>1, <2>1, <2>2, <2>3, SameTable, SameFiring DEF IInv
<1>2. CASE MainLoadFails \/ MainStarts \/ MainStops \/ MainStopped
  <2> USE DEF MainLoadFails, MainStarts, MainStops, MainStopped
  <2>1. TypeOK'
    BY <1>2 DEF IInv, TypeOK
  <2>2. JobInv'
    BY <1>2 DEF IInv, JobInv
  <2> QED
    BY <1>2, <2>1, <2>2, SameTable, SameReload, SameFiring DEF IInv
<1>3. CASE DrainWaits \/ MainDrained \/ MainDrainTimeout
  <2> USE DEF DrainWaits, MainDrained, MainDrainTimeout
  <2>1. TypeOK'
    BY <1>3 DEF IInv, TypeOK
  <2>2. JobInv'
    BY <1>3 DEF IInv, JobInv
  <2> QED
    BY <1>3, <2>1, <2>2, SameTable, SameReload, SameFiring DEF IInv
<1> QED
  BY <1>1, <1>2, <1>3 DEF MainStep

-----------------------------------------------------------------------------
(* Jobs                                                                    *)

\* A job's step changes job and busy only: what the other variables say stays.
LEMMA JobFrame ==
    ASSUME IInv, UNCHANGED <<store, table, ticking, reload, cancelled, signals, sig, main, drained>>,
           job' \in [Jobs -> [pc : {"free", "start", "claimed", "running", "ran"},
                              set : Sets \cup {None}]],
           busy' \subseteq Sets, SingleFlight', JobInv'
    PROVE  IInv' /\ Kept
<1> USE DEF table, store, signals
<1>1. TypeOK'
  BY DEF IInv, TypeOK
<1> QED
  BY <1>1, SameTable, SameReload DEF IInv

LEMMA FireInv ==
    ASSUME IInv, NEW e \in cron, NEW j \in Jobs, Fire(e, j)
    PROVE  IInv' /\ Kept
<1>1. e.set \in Sets /\ main = "serve" /\ ticking
  BY DEF IInv, TypeOK, JobInv, Fire
<1>2. job' = [job EXCEPT ![j] = [pc |-> "start", set |-> e.set]] /\ job[j].pc = "free"
  BY DEF Fire
<1>3. job' \in [Jobs -> [pc : {"free", "start", "claimed", "running", "ran"},
                         set : Sets \cup {None}]]
  BY <1>1, <1>2 DEF IInv, TypeOK
<1>4. job'[j].pc = "start" /\ job'[j].set = e.set /\ \A i \in Jobs \ {j} : job'[i] = job[i]
  BY <1>2 DEF IInv, TypeOK
<1>5. busy' = busy /\ busy \subseteq Sets
  BY DEF Fire, IInv, TypeOK
<1>6. SingleFlight'
  <2>1. \A i \in Jobs, s \in Sets : Holds(i, s)' <=> Holds(i, s)
    BY <1>2, <1>4 DEF Holds
  <2> QED
    BY <1>5, <2>1 DEF IInv, SingleFlight
<1>7. JobInv'
  BY <1>1, <1>4 DEF IInv, JobInv, Fire
<1> QED
  BY <1>3, <1>5, <1>6, <1>7, JobFrame DEF Fire

LEMMA JobClaimInv ==
    ASSUME IInv, NEW j \in Jobs, JobClaim(j)
    PROVE  IInv' /\ Kept
<1> DEFINE s == job[j].set
<1>1. job[j].pc = "start" /\ s \in Sets /\ main \in {"serve", "stop"}
  BY DEF IInv, JobInv, JobClaim
<1>2. busy' = busy \cup {s} /\ busy' \subseteq Sets
  BY <1>1 DEF JobClaim, IInv, TypeOK
<1>3. /\ s \in busy => job' = [job EXCEPT ![j] = NoJob]
      /\ s \notin busy => job' = [job EXCEPT ![j] = [pc |-> "claimed", set |-> s]]
  <2>1. [job[j] EXCEPT !.pc = "claimed"] = [pc |-> "claimed", set |-> s]
    BY DEF IInv, TypeOK
  <2>2. job' = [job EXCEPT ![j] = IF s \in busy THEN NoJob ELSE [job[j] EXCEPT !.pc = "claimed"]]
    BY DEF JobClaim
  <2> QED
    BY <2>1, <2>2
<1>4. job' \in [Jobs -> [pc : {"free", "start", "claimed", "running", "ran"},
                         set : Sets \cup {None}]]
  BY <1>1, <1>3 DEF IInv, TypeOK, NoJob
<1>5. /\ \A i \in Jobs \ {j} : job'[i] = job[i]
      /\ s \in busy => job'[j].pc = "free"
      /\ s \notin busy => job'[j].pc = "claimed" /\ job'[j].set = s
  BY <1>3 DEF IInv, TypeOK, NoJob
<1>6. SingleFlight'
  <2>1. \A i \in Jobs \ {j}, t \in Sets : Holds(i, t)' <=> Holds(i, t)
    BY <1>5 DEF Holds
  <2>2. \A t \in Sets : ~Holds(j, t)
    BY <1>1 DEF Holds
  <2>3. CASE s \in busy
    <3>1. \A t \in Sets : ~Holds(j, t)'
      BY <1>5, <2>3 DEF Holds
    <3> QED
      BY <1>2, <2>1, <2>2, <2>3, <3>1 DEF IInv, SingleFlight
  <2>4. CASE s \notin busy
    <3>1. \A t \in Sets : Holds(j, t)' <=> t = s
      BY <1>5, <2>4 DEF Holds
    <3>2. \A i \in Jobs : ~Holds(i, s)
      BY <1>1, <2>4 DEF IInv, SingleFlight
    <3> QED
      BY <1>1, <1>2, <2>1, <2>2, <3>1, <3>2 DEF IInv, SingleFlight
  <2> QED
    BY <2>3, <2>4
<1>7. JobInv'
  BY <1>1, <1>5 DEF IInv, JobInv, JobClaim
<1> QED
  BY <1>2, <1>4, <1>6, <1>7, JobFrame DEF JobClaim

LEMMA JobMovesInv ==
    ASSUME IInv, NEW j \in Jobs, JobRuns(j) \/ JobReturns(j)
    PROVE  IInv' /\ Kept
<1>1. PICK f \in {"running", "ran"} :
          job' = [job EXCEPT ![j].pc = f] /\ job[j].pc \in {"claimed", "running"}
  BY DEF JobRuns, JobReturns
<1>2. /\ \A i \in Jobs \ {j} : job'[i] = job[i]
      /\ job'[j].pc = f /\ job'[j].set = job[j].set
      /\ job' \in [Jobs -> [pc : {"free", "start", "claimed", "running", "ran"},
                            set : Sets \cup {None}]]
  BY <1>1 DEF IInv, TypeOK
<1>3. busy' = busy /\ busy \subseteq Sets
  BY DEF JobRuns, JobReturns, IInv, TypeOK
<1>4. SingleFlight'
  <2>1. \A i \in Jobs, s \in Sets : Holds(i, s)' <=> Holds(i, s)
    BY <1>1, <1>2 DEF Holds
  <2> QED
    BY <1>3, <2>1 DEF IInv, SingleFlight
<1>5. JobInv'
  BY <1>1, <1>2 DEF IInv, JobInv, JobRuns, JobReturns
<1> QED
  BY <1>2, <1>3, <1>4, <1>5, JobFrame DEF JobRuns, JobReturns

LEMMA JobReleasesInv ==
    ASSUME IInv, NEW j \in Jobs, JobReleases(j)
    PROVE  IInv' /\ Kept
<1> DEFINE s == job[j].set
<1>1. job[j].pc = "ran" /\ s \in Sets
  BY DEF IInv, JobInv, JobReleases
<1>2. busy' = busy \ {s} /\ busy' \subseteq Sets
  BY DEF JobReleases, IInv, TypeOK
<1>3. /\ \A i \in Jobs \ {j} : job'[i] = job[i]
      /\ job'[j].pc = "free"
      /\ job' \in [Jobs -> [pc : {"free", "start", "claimed", "running", "ran"},
                            set : Sets \cup {None}]]
  BY DEF JobReleases, NoJob, IInv, TypeOK
<1>4. SingleFlight'
  <2>1. \A i \in Jobs \ {j}, t \in Sets : Holds(i, t)' <=> Holds(i, t)
    BY <1>3 DEF Holds
  <2>2. \A t \in Sets : ~Holds(j, t)' /\ (Holds(j, t) <=> t = s)
    BY <1>1, <1>3 DEF Holds
  <2> QED
    BY <1>1, <1>2, <2>1, <2>2 DEF IInv, SingleFlight
<1>5. JobInv'
  BY <1>1, <1>3 DEF IInv, JobInv, JobReleases
<1> QED
  BY <1>2, <1>3, <1>4, <1>5, JobFrame DEF JobReleases

-----------------------------------------------------------------------------
LEMMA NextInv == IInv /\ [Next]_vars => IInv' /\ Kept
<1> SUFFICES ASSUME IInv, [Next]_vars PROVE IInv' /\ Kept
  OBVIOUS
<1>1. CASE \E s \in Sets, x \in Schedules : EditSchedule(s, x)
  BY <1>1, EditScheduleInv
<1>2. CASE \E k \in {"hup", "term"} : Notify(k)
  BY <1>2, NotifyInv
<1>3. CASE ReloadStep
  BY <1>3, ReloadListInv, ReloadDiffInv, ReloadReturnInv, ReloadUpdateInv, ReloadRemoveInv
  DEF ReloadStep
<1>4. CASE SigStep
  BY <1>4, SigStepInv
<1>5. CASE MainStep
  BY <1>5, MainStepInv
<1>6. CASE \E e \in cron, j \in Jobs : Fire(e, j)
  BY <1>6, FireInv
<1>7. CASE \E j \in Jobs : JobStep(j) \/ JobReturns(j)
  BY <1>7, JobClaimInv, JobMovesInv, JobReleasesInv DEF JobStep
<1>8. CASE UNCHANGED vars
  <2> USE DEF vars, table, firing, store, signals
  <2>1. TypeOK'
    BY <1>8 DEF IInv, TypeOK
  <2> QED
    BY <1>8, <2>1, SameTable, SameReload, SameFiring, SameJobs DEF IInv
<1>9. CASE Exited
  BY <1>8, <1>9 DEF Exited
<1> QED
  BY <1>1, <1>2, <1>3, <1>4, <1>5, <1>6, <1>7, <1>8, <1>9 DEF Next

LEMMA Inductive == Spec => []IInv
<1>1. IInv /\ [Next]_vars => IInv'
  BY NextInv
<1> QED
  BY InitInv, <1>1, PTL DEF Spec

-----------------------------------------------------------------------------
\* The daemon's variables keep their types; sigCh never holds more than its
\* capacity (RunDaemon, Manager).
THEOREM TypeCorrect == Spec => []TypeOK
<1>1. IInv => TypeOK
  BY DEF IInv
<1> QED
  BY Inductive, <1>1, PTL

\* A set never has two runs at a time, and is in flight exactly while a job
\* holds it (Manager.fire).
THEOREM OneRunPerSet == Spec => []SingleFlight
<1>1. IInv => SingleFlight
  BY DEF IInv
<1> QED
  BY Inductive, <1>1, PTL

\* The cron holds an entry for every record of the table, and no other
\* (AddOrReplace, Remove).
THEOREM TableAndCron == Spec => []TableMatchesCron
<1>1. IInv => TableMatchesCron
  BY DEF IInv
<1> QED
  BY Inductive, <1>1, PTL

\* A Reload that reports success has put the table into the state that the
\* store's list asked for (Reload).
THEOREM ReloadCorrect == Spec => []ReloadApplies
<1>1. IInv => ReloadApplies
  BY DEF IInv
<1> QED
  BY Inductive, <1>1, PTL

\* A Reload replaces no entry whose schedule is what it was (Reload).
THEOREM ReloadSpares == Spec => UnchangedKept
<1>1. IInv /\ [Next]_vars =>
          [\A s \in Sets : entries'[s] # entries[s] => ExprOf(entries'[s]) # ExprOf(entries[s])]_vars
  BY NextInv DEF Kept
<1> QED
  BY Inductive, <1>1, PTL DEF Spec, UnchangedKept

\* When RunDaemon returns no job is left running (Manager.Run).
THEOREM NothingCutOff == Spec => []QuietAtExit
<1>1. IInv => QuietAtExit
  BY DEF IInv, JobInv, QuietAtExit
<1> QED
  BY Inductive, <1>1, PTL
=============================================================================
