----------------------------- MODULE Tui_proofs -----------------------------
(***************************************************************************)
(* Proofs about Tui, for any number of Run screens, any depth of the stack *)
(* and messages in any order: as long as each message meets the screen it  *)
(* was meant for, the record of a run says what happened to it, but for a  *)
(* cancel key that came before the start and cancelled nothing.            *)
(***************************************************************************)
EXTENDS Tui, TLAPS

Records == {"none", "running", "completed", "cancelled", "failed", "absent"}
Runners == {"none", "going", "done", "failed"}
Screens == [kind : {"list", "page"}, run : {0}] \cup [kind : {"run"}, run : Runs]
Starts == [run : Runs, rec : 0..MaxRuns, ok : BOOLEAN]

TypeInv ==
    /\ stack \in Seq(Screens) /\ stack # << >>
    /\ pushes \in Seq(Screens)
    /\ starts \subseteq Runs
    /\ started \subseteq Starts
    /\ finals \in [Runs -> Nat]
    /\ status \in [Runs -> Statuses \cup {"none"}]
    /\ recOf \in [Runs -> 0..MaxRuns]
    /\ coll \in [Runs -> BOOLEAN]
    /\ erred \in [Runs -> BOOLEAN]
    /\ finalized \in [Runs -> BOOLEAN]
    /\ finish \in [Runs -> 0..MaxRuns]
    /\ rec \in [Runs -> Records]
    /\ owner \in [Runs -> 0..MaxRuns]
    /\ runner \in [Runs -> Runners]
    /\ ctxDone \subseteq 0..MaxRuns
    /\ early \subseteq Runs

IsRun(screen) == screen.kind = "run"

\* A Run screen is only ever on top, with the list below.
StackInv ==
    /\ ~IsRun(stack[1])
    /\ \A i \in 1..Len(stack) : IsRun(stack[i]) => i = Len(stack)

\* Record k is of the run on screen r.
Owns(r, k) == rec[k] # "none" /\ owner[k] = r

\* Nothing has been started for r yet.
Unstarted(r) ==
    /\ recOf[r] = 0 /\ finish[r] = 0 /\ ~coll[r] /\ ~erred[r]
    /\ \A k \in Runs : ~Owns(r, k)
    /\ \A m \in started : m.run # r

\* A screen is fresh, then about to be pushed, then on the stack and about to
\* start its run, once.
ToPush(i, r) == IsRun(pushes[i]) /\ pushes[i].run = r
Shown(r) == IsRun(Top) /\ Top.run = r

FreshInv ==
    \A r \in Runs : status[r] = "none" =>
        /\ Unstarted(r) /\ r \notin starts /\ ~Shown(r)
        /\ \A i \in 1..Len(pushes) : ~ToPush(i, r)

PushesInv ==
    \A r \in Runs : \A i \in 1..Len(pushes) : ToPush(i, r) =>
        /\ Unstarted(r) /\ r \notin starts /\ ~Shown(r)
        /\ status[r] = "starting"
        /\ \A j \in 1..Len(pushes) : ToPush(j, r) => j = i

StartsInv == \A r \in starts : Unstarted(r) /\ status[r] \in {"starting", "cancelled"}

\* A run has one record, which its messages are about.
RecordInv ==
    /\ \A k \in Runs : rec[k] = "none" => runner[k] = "none" /\ k \notin ctxDone
    /\ \A r, j, k \in Runs : Owns(r, j) /\ Owns(r, k) => j = k
    /\ \A r \in Runs : recOf[r] # 0 => Owns(r, recOf[r])
    /\ \A r \in Runs : coll[r] => recOf[r] # 0
    /\ \A r \in Runs : finish[r] # 0 =>
          Owns(r, finish[r]) /\ runner[finish[r]] \in {"done", "failed"}
    /\ \A k \in Runs : rec[k] # "none" => owner[k] \in Runs
    /\ \A m \in started :
          /\ m.rec # 0 => Owns(m.run, m.rec)
          /\ m.ok => m.rec # 0
          /\ ~m.ok => \A k \in Runs : Owns(m.run, k) => runner[k] = "none"

\* What a screen shows is what happened to its run.
StatusInv ==
    /\ \A r \in Runs :
          /\ finals[r] > 0 => status[r] \in {"cancelled", "completed", "failed"}
          /\ status[r] = "failed" => r \notin starts
                                       /\ \A k \in Runs : Owns(r, k) => runner[k] = "none"
          /\ erred[r] => \A k \in Runs : Owns(r, k) => runner[k] \in {"none", "failed"}
          /\ status[r] = "completed" =>
                /\ r \notin starts
                /\ ~erred[r] => \A k \in Runs : Owns(r, k) => runner[k] = "done"
    /\ \A k \in ctxDone : k \in Runs /\ status[owner[k]] = "cancelled" /\ recOf[owner[k]] = k

\* A screen that shows its run cancelled has cancelled it, if it knew how.
CancelInv ==
    \A r \in Runs :
        /\ status[r] = "cancelled" => r \in early \/ (recOf[r] # 0 /\ recOf[r] \in ctxDone)
        /\ recOf[r] # 0 => coll[r] \/ status[r] = "failed"

\* What was written is what its screen had to say.
WrittenInv ==
    \A k \in Runs :
        /\ rec[k] = "completed" => status[owner[k]] = "completed" /\ ~erred[owner[k]] /\ recOf[owner[k]] = k
        /\ rec[k] = "cancelled" => k \in ctxDone \/ owner[k] \in early
        /\ rec[k] = "failed" => runner[k] \in {"none", "failed"}

TruthInv ==
    /\ StackInv /\ FreshInv /\ PushesInv /\ StartsInv
    /\ RecordInv /\ StatusInv /\ CancelInv /\ WrittenInv
Inv == TypeInv /\ (~muddled => TruthInv)

---------------------------------------------------------------------------
\* What is left of a sequence without its i-th element.
LEMMA Removed ==
    ASSUME NEW S, NEW s \in Seq(S), NEW i \in DOMAIN s
    PROVE  /\ RemoveAt(s, i) \in Seq(S)
           /\ Len(RemoveAt(s, i)) = Len(s) - 1
           /\ \A j \in 1..Len(RemoveAt(s, i)) :
                 RemoveAt(s, i)[j] = IF j < i THEN s[j] ELSE s[j + 1]
<1> DEFINE a == SubSeq(s, 1, i - 1)
           b == SubSeq(s, i + 1, Len(s))
<1>1. i \in 1..Len(s) /\ Len(s) \in Nat
  OBVIOUS
<1>2. a \in Seq(S) /\ Len(a) = i - 1 /\ \A j \in 1..(i - 1) : a[j] = s[j]
  BY <1>1
<1>3. b \in Seq(S) /\ Len(b) = Len(s) - i /\ \A j \in 1..(Len(s) - i) : b[j] = s[i + j]
  BY <1>1
<1>4. RemoveAt(s, i) = a \o b
  BY DEF RemoveAt
<1> HIDE DEF a, b
<1>5. a \o b \in Seq(S) /\ Len(a \o b) = Len(s) - 1
  BY <1>1, <1>2, <1>3
<1>6. ASSUME NEW j \in 1..(Len(s) - 1)
      PROVE  (a \o b)[j] = IF j < i THEN s[j] ELSE s[j + 1]
  <2>1. CASE j < i
    <3>1. (a \o b)[j] = a[j]
      BY <1>1, <1>2, <1>3, <2>1
    <3> QED  BY <1>1, <1>2, <2>1, <3>1
  <2>2. CASE ~(j < i)
    <3>1. \A m \in 1..Len(b) : (a \o b)[Len(a) + m] = b[m]
      BY <1>2, <1>3
    <3>2. PICK m \in 1..(Len(s) - i) : j = i - 1 + m /\ j + 1 = i + m
      <4>1. j - (i - 1) \in 1..(Len(s) - i)
        BY <1>1, <2>2
      <4>2. j = i - 1 + (j - (i - 1)) /\ j + 1 = i + (j - (i - 1))
        BY <1>1
      <4> QED  BY <4>1, <4>2
    <3>3. (a \o b)[j] = b[m]
      BY <1>2, <1>3, <3>1, <3>2
    <3> QED  BY <1>3, <2>2, <3>2, <3>3
  <2> QED  BY <2>1, <2>2
<1> QED  BY <1>4, <1>5, <1>6

\* The top of a stack that is not empty is its last screen.
LEMMA OnTop ==
    ASSUME TypeInv
    PROVE  /\ Len(stack) \in Nat \ {0} /\ Top = stack[Len(stack)] /\ Top \in Screens
           /\ IsRun(Top) => Top.run \in Runs
           /\ Len(pushes) \in Nat /\ DOMAIN pushes = 1..Len(pushes)
<1>1. /\ Len(stack) \in Nat \ {0} /\ Top = stack[Len(stack)] /\ Top \in Screens
      /\ Len(pushes) \in Nat /\ DOMAIN pushes = 1..Len(pushes)
  BY DEF TypeInv, Top, Last
<1> QED  BY <1>1 DEF IsRun, Screens

\* One of several counts goes up.
LEMMA Raised ==
    ASSUME NEW f \in [Runs -> Nat], NEW x \in Runs, NEW g, g = [f EXCEPT ![x] = @ + 1]
    PROVE  g \in [Runs -> Nat] /\ g[x] = f[x] + 1 /\ \A y \in Runs : y # x => g[y] = f[y]
OBVIOUS

\* A pushed screen is on top of what there was.
LEMMA Pushed ==
    ASSUME TypeInv, NEW x \in Screens, stack' = Append(stack, x)
    PROVE  /\ stack' \in Seq(Screens) /\ stack' # << >> /\ Len(stack') = Len(stack) + 1
           /\ \A i \in 1..Len(stack) : stack'[i] = stack[i]
           /\ Top' = x
<1>1. stack \in Seq(Screens) /\ Len(stack) \in Nat
  BY DEF TypeInv
<1>2. /\ stack' \in Seq(Screens) /\ Len(stack') = Len(stack) + 1
      /\ \A i \in 1..Len(stack) : stack'[i] = stack[i]
      /\ stack'[Len(stack) + 1] = x
  BY <1>1
<1> QED  BY <1>1, <1>2 DEF Top, Last

\* A pop uncovers the screen below, unless there is none.
LEMMA Popped ==
    ASSUME TypeInv, stack' = IF Len(stack) > 1 THEN Front(stack) ELSE stack
    PROVE  /\ stack' \in Seq(Screens) /\ stack' # << >>
           /\ Len(stack') = IF Len(stack) > 1 THEN Len(stack) - 1 ELSE Len(stack)
           /\ \A i \in 1..Len(stack') : stack'[i] = stack[i]
           /\ Top' = stack[Len(stack')]
<1>1. stack \in Seq(Screens) /\ Len(stack) \in Nat \ {0}
  BY DEF TypeInv
<1>2. CASE Len(stack) > 1
  <2>1. stack' = SubSeq(stack, 1, Len(stack) - 1)
    BY <1>2 DEF Front
  <2>2. /\ stack' \in Seq(Screens) /\ Len(stack') = Len(stack) - 1
        /\ \A i \in 1..(Len(stack) - 1) : stack'[i] = stack[i]
    BY <1>1, <1>2, <2>1
  <2> QED  BY <1>1, <1>2, <2>2 DEF Top, Last
<1>3. CASE ~(Len(stack) > 1)
  BY <1>1, <1>3 DEF Top, Last
<1> QED  BY <1>2, <1>3

\* Every step leaves everything what it is.
LEMMA TypeStep ==
    ASSUME TypeInv, [Next]_vars
    PROVE  TypeInv'
<1> USE DEF TypeInv, inboxVars, runVars, recordVars, historyVars
<1>1. CASE Key
  <2>1. pushes' \in Seq(Screens)
    <3>1. CASE PushRun
      <4>1. PICK r \in Runs : pushes' = Append(pushes, Screen("run", r))
        BY <3>1 DEF PushRun, Fresh
      <4>2. Screen("run", r) \in Screens
        BY TuiAssumption DEF Screen, Screens, Runs
      <4> QED  BY <4>1, <4>2
    <3>2. CASE Push(Screen("page", 0))
      <4>1. Screen("page", 0) \in Screens
        BY TuiAssumption DEF Screen, Screens
      <4> QED  BY <3>2, <4>1 DEF Push
    <3> QED  BY <1>1, <3>1, <3>2 DEF Key
  <2>2. status' \in [Runs -> Statuses \cup {"none"}]
    BY <1>1 DEF Key, PushRun, Push, Statuses
  <2> QED  BY <1>1, <2>1, <2>2 DEF Key
<1>2. CASE CancelRun
  <2>1. Top.run \in Runs
    BY <1>2, OnTop DEF CancelRun, IsRun
  <2>2. status' \in [Runs -> Statuses \cup {"none"}]
    BY <1>2 DEF CancelRun, Statuses
  <2>3. finals' \in [Runs -> Nat]
    BY <1>2, <2>1 DEF CancelRun
  <2>4. ctxDone' \subseteq 0..MaxRuns /\ early' \subseteq Runs
    <3>1. recOf[Top.run] \in 0..MaxRuns
      BY <2>1
    <3>2. early' \subseteq early \cup {Top.run} /\ ctxDone' \subseteq ctxDone \cup {recOf[Top.run]}
      BY <1>2 DEF CancelRun
    <3> QED  BY <2>1, <3>1, <3>2
  <2> QED  BY <1>2, <2>2, <2>3, <2>4 DEF CancelRun
<1>3. CASE DeliverPush
  <2>1. PICK i \in DOMAIN pushes :
           /\ pushes' = RemoveAt(pushes, i) /\ stack' = Append(stack, pushes[i]) /\ InitTop(pushes[i])
    BY <1>3 DEF DeliverPush
  <2>2. pushes[i] \in Screens
    BY <2>1
  <2>3. stack' \in Seq(Screens) /\ stack' # << >> /\ pushes' \in Seq(Screens)
    BY <2>1, <2>2, Pushed, Removed
  <2>4. starts' \subseteq Runs
    BY <2>1, <2>2 DEF InitTop, Screens
  <2> QED  BY <1>3, <2>3, <2>4 DEF DeliverPush
<1>4. CASE DeliverPop
  <2>1. stack' \in Seq(Screens) /\ stack' # << >>
    BY <1>4, Popped DEF DeliverPop
  <2>2. starts' \subseteq Runs
    <3>1. Last(stack') \in Screens
      BY <1>4, Popped, OnTop DEF DeliverPop, Top
    <3> QED  BY <1>4, <3>1 DEF DeliverPop, InitTop, Screens
  <2> QED  BY <1>4, <2>1, <2>2 DEF DeliverPop
<1>5. CASE StartRun
  <2>1. PICK r \in starts, k \in Runs :
           /\ starts' = starts \ {r} /\ owner' = [owner EXCEPT ![k] = r]
           /\ \/ /\ rec' = [rec EXCEPT ![k] = "running"]
                 /\ \E ok \in BOOLEAN :
                       /\ started' = started \cup {[run |-> r, rec |-> k, ok |-> ok]}
                       /\ runner' = [runner EXCEPT ![k] = IF ok THEN "going" ELSE @]
              \/ /\ rec' = [rec EXCEPT ![k] = "absent"]
                 /\ started' = started \cup {[run |-> r, rec |-> 0, ok |-> FALSE]}
                 /\ UNCHANGED runner
    BY <1>5 DEF StartRun
  <2>2. 0 \in 0..MaxRuns /\ k \in 0..MaxRuns /\ r \in 0..MaxRuns
    BY TuiAssumption DEF Runs
  <2>3. started' \subseteq Starts
    <3>1. /\ \A ok \in BOOLEAN : [run |-> r, rec |-> k, ok |-> ok] \in Starts
          /\ [run |-> r, rec |-> 0, ok |-> FALSE] \in Starts
      BY <2>2 DEF Starts
    <3>2. PICK m \in Starts : started' = started \cup {m}
      BY <2>1, <3>1
    <3> QED  BY <3>2
  <2>4. runner' \in [Runs -> Runners] /\ rec' \in [Runs -> Records] /\ owner' \in [Runs -> 0..MaxRuns]
    BY <2>1, <2>2 DEF Runners, Records
  <2> QED  BY <1>5, <2>1, <2>3, <2>4 DEF StartRun
<1>6. CASE DeliverStarted
  <2>1. PICK m \in started :
           /\ started' = started \ {m}
           /\ muddled' = (muddled \/ Top.kind # "run" \/ Top.run # m.run
                           \/ status[m.run] \notin {"starting", "cancelled"} \/ recOf[m.run] # 0)
           /\ IF Top.kind # "run" THEN UNCHANGED <<runVars, finals>>
              ELSE LET r == Top.run
                   IN /\ recOf' = [recOf EXCEPT ![r] = m.rec]
                      /\ coll' = [coll EXCEPT ![r] = m.ok]
                      /\ status' = [status EXCEPT ![r] = IF ~m.ok THEN "failed"
                                                         ELSE IF @ = "starting" THEN "running"
                                                         ELSE @]
                      /\ erred' = [erred EXCEPT ![r] = @ \/ ~m.ok]
                      /\ finals' = [finals EXCEPT ![r] = IF m.ok THEN @ ELSE @ + 1]
                      /\ UNCHANGED finalized
    BY <1>6 DEF DeliverStarted
  <2>2. m.rec \in 0..MaxRuns /\ m.ok \in BOOLEAN
    BY <2>1 DEF Starts
  <2>3. CASE Top.kind # "run"
    BY <1>6, <2>1, <2>3 DEF DeliverStarted
  <2>4. CASE Top.kind = "run"
    <3>1. status' \in [Runs -> Statuses \cup {"none"}]
      <4>1. \A x : status' = [status EXCEPT ![x] = IF ~m.ok THEN "failed"
                                                  ELSE IF @ = "starting" THEN "running" ELSE @]
                  => status' \in [Runs -> Statuses \cup {"none"}]
        BY DEF Statuses
      <4> QED  BY <2>1, <2>4, <4>1
    <3>2. recOf' \in [Runs -> 0..MaxRuns]
      <4>1. \A x : recOf' = [recOf EXCEPT ![x] = m.rec] => recOf' \in [Runs -> 0..MaxRuns]
        BY <2>2
      <4> QED  BY <2>1, <2>4, <4>1
    <3>4. finals' \in [Runs -> Nat]
      <4>1. CASE m.ok
        <5>1. finals' = [finals EXCEPT ![Top.run] = @]
          BY <2>1, <2>4, <4>1
        <5> QED  BY <5>1
      <4>2. CASE ~m.ok
        <5>1. finals' = [finals EXCEPT ![Top.run] = @ + 1]
          BY <2>1, <2>4, <4>2
        <5> QED  BY <2>4, <5>1, OnTop, Raised DEF IsRun
      <4> QED  BY <4>1, <4>2
    <3>3. coll' \in [Runs -> BOOLEAN] /\ erred' \in [Runs -> BOOLEAN]
      BY <2>1, <2>2, <2>4, Zenon
    <3> QED  BY <1>6, <2>1, <2>4, <3>1, <3>2, <3>3, <3>4 DEF DeliverStarted
  <2> QED  BY <2>3, <2>4
<1>7. CASE DeliverTick
  <2>1. \/ UNCHANGED <<status, erred, finish, finals>>
        \/ IsRun(Top) /\ HandleFinished(Top.run)
    BY <1>7 DEF DeliverTick, IsRun
  <2>2. CASE IsRun(Top) /\ HandleFinished(Top.run)
    <3>0. IsRun(Top)
      BY <2>2
    <3>1. status' \in [Runs -> Statuses \cup {"none"}]
      BY <2>2 DEF HandleFinished, Statuses
    <3>2. finish' \in [Runs -> 0..MaxRuns]
      <4>1. 0 \in 0..MaxRuns
        BY TuiAssumption
      <4>2. \A x : finish' = [finish EXCEPT ![x] = 0] => finish' \in [Runs -> 0..MaxRuns]
        BY <4>1
      <4> QED  BY <2>2, <4>2 DEF HandleFinished
    <3>4. finals' \in [Runs -> Nat]
      <4>1. Top.run \in Runs
        BY <3>0, OnTop
      <4> QED  BY <2>2, <4>1, Raised DEF HandleFinished
    <3>3. erred' \in [Runs -> BOOLEAN]
      BY <2>2 DEF HandleFinished
    <3> QED  BY <1>7, <3>1, <3>2, <3>3, <3>4 DEF DeliverTick
  <2> QED  BY <1>7, <2>1, <2>2 DEF DeliverTick
<1>8. ASSUME NEW k \in Runs, RunnerReturns(k) PROVE TypeInv'
  <2>1. runner' \in [Runs -> Runners] /\ k \in 0..MaxRuns
    BY <1>8, TuiAssumption DEF RunnerReturns, Runners, Runs
  <2>2. finish' \in [Runs -> 0..MaxRuns]
    BY <1>8, <2>1 DEF RunnerReturns
  <2> QED  BY <1>8, <2>1, <2>2 DEF RunnerReturns
<1>9. ASSUME NEW r \in Runs, Finalize(r) PROVE TypeInv'
  <2>1. FinalStatus(r) \in Records
    BY DEF FinalStatus, Records
  <2>2. rec' \in [Runs -> Records]
    BY <1>9, <2>1 DEF Finalize
  <2>3. finals' \in [Runs -> Nat]
    BY <1>9 DEF Finalize
  <2>4. finalized' \in [Runs -> BOOLEAN]
    BY <1>9 DEF Finalize
  <2> QED  BY <1>9, <2>2, <2>3, <2>4 DEF Finalize
<1>10. CASE UNCHANGED vars
  BY <1>10 DEF vars
<1> QED
  BY <1>1, <1>2, <1>3, <1>4, <1>5, <1>6, <1>7, <1>8, <1>9, <1>10 DEF Next

---------------------------------------------------------------------------
\* The parts of the invariant that are about the runs only.
LEMMA Undisturbed ==
    ASSUME RecordInv, StatusInv, CancelInv, WrittenInv,
           UNCHANGED <<rec, owner, runner, ctxDone, started, finals, status, recOf, coll, erred, finish,
                       early>>,
           \A r \in starts' : r \in starts \/ status[r] = "starting"
    PROVE  RecordInv' /\ StatusInv' /\ CancelInv' /\ WrittenInv'
<1>1. RecordInv' /\ WrittenInv'
  BY DEF RecordInv, WrittenInv, Owns
<1>2. StatusInv' /\ CancelInv'
  BY DEF StatusInv, CancelInv, Owns
<1> QED  BY <1>1, <1>2

\* A key pushes a fresh Run screen at most.
LEMMA KeyStep ==
    ASSUME TypeInv, TruthInv, Key
    PROVE  TruthInv'
<1> USE DEF TruthInv
<1>1. /\ UNCHANGED <<stack, ticks, started, starts, finals, recOf, coll, erred, finalized, finish, rec,
                     owner, runner, ctxDone, early>>
      /\ Top' = Top
  BY DEF Key, recordVars, historyVars, Top
<1>2. Len(pushes) \in Nat /\ pushes \in Seq(Screens)
  BY DEF TypeInv
<1>3. CASE UNCHANGED <<pushes, status>>
  <2>1. RecordInv' /\ StatusInv' /\ CancelInv' /\ WrittenInv'
    BY <1>1, <1>3, Undisturbed
  <2>2. StackInv' /\ FreshInv' /\ PushesInv' /\ StartsInv'
    BY <1>1, <1>3 DEF StackInv, FreshInv, PushesInv, StartsInv, Unstarted, Owns, ToPush, Shown, IsRun
  <2> QED  BY <2>1, <2>2
<1>4. CASE Push(Screen("page", 0))
  <2>1. pushes' = Append(pushes, Screen("page", 0)) /\ status' = status
    BY <1>4 DEF Push
  <2>2. /\ Len(pushes') = Len(pushes) + 1
        /\ \A i \in 1..Len(pushes) : pushes'[i] = pushes[i]
        /\ ~IsRun(pushes'[Len(pushes) + 1])
    BY <1>2, <2>1 DEF IsRun, Screen
  <2>3. \A i \in 1..Len(pushes') : IsRun(pushes'[i]) => i \in 1..Len(pushes) /\ pushes'[i] = pushes[i]
    BY <1>2, <2>2
  <2>4. RecordInv' /\ StatusInv' /\ CancelInv' /\ WrittenInv'
    BY <1>1, <2>1, Undisturbed
  <2>5. StackInv' /\ FreshInv' /\ StartsInv'
    BY <1>1, <2>1, <2>3 DEF StackInv, FreshInv, StartsInv, Unstarted, Owns, ToPush, Shown, IsRun
  <2>6. PushesInv'
    BY <1>1, <2>1, <2>3 DEF PushesInv, Unstarted, Owns, ToPush, Shown, IsRun
  <2> QED  BY <2>4, <2>5, <2>6
<1>5. CASE PushRun
  <2>1. PICK r \in Runs : /\ status[r] = "none" /\ pushes' = Append(pushes, Screen("run", r))
                          /\ status' = [status EXCEPT ![r] = "starting"]
    BY <1>5 DEF PushRun, Fresh
  <2>2. /\ Len(pushes') = Len(pushes) + 1
        /\ \A i \in 1..Len(pushes) : pushes'[i] = pushes[i]
        /\ IsRun(pushes'[Len(pushes) + 1]) /\ pushes'[Len(pushes) + 1].run = r
    BY <1>2, <2>1 DEF IsRun, Screen
  <2>3. \A i \in 1..Len(pushes') : \/ i = Len(pushes) + 1
                                   \/ i \in 1..Len(pushes) /\ pushes'[i] = pushes[i]
    BY <1>2, <2>2
  <2>4. status'[r] = "starting" /\ \A q \in Runs : q # r => status'[q] = status[q]
    BY <2>1 DEF TypeInv
  <2>5. Unstarted(r) /\ r \notin starts /\ ~Shown(r) /\ \A i \in 1..Len(pushes) : ~ToPush(i, r)
    BY <2>1 DEF FreshInv
  <2>6. \A q \in Runs : (Unstarted(q)' <=> Unstarted(q)) /\ (Shown(q)' <=> Shown(q))
    BY <1>1 DEF Unstarted, Owns, Shown, IsRun
  <2>7. StackInv' /\ StartsInv'
    BY <1>1, <2>4, <2>5, <2>6 DEF StackInv, StartsInv, TypeInv, IsRun
  <2>8. \A q \in Runs : \A i \in 1..Len(pushes') :
           ToPush(i, q)' <=> \/ i = Len(pushes) + 1 /\ q = r
                             \/ i \in 1..Len(pushes) /\ ToPush(i, q)
    BY <1>2, <2>2, <2>3 DEF ToPush, IsRun
  <2>9. FreshInv' /\ PushesInv'
    <3>1. FreshInv'
      BY <1>1, <2>1, <2>4, <2>6, <2>8 DEF FreshInv
    <3>2. PushesInv'
      BY <1>1, <2>4, <2>5, <2>6, <2>8 DEF PushesInv
    <3> QED  BY <3>1, <3>2
  <2>10. RecordInv'
    BY <1>1 DEF RecordInv, Owns
  <2>11. StatusInv'
    <3>1. \A k \in Runs : ~Owns(r, k)
      BY <2>5 DEF Unstarted
    <3>2. \A k \in ctxDone : owner[k] # r
      BY <3>1 DEF RecordInv, StatusInv, Owns
    <3>3. finals[r] = 0 \/ ~(finals[r] > 0)
      BY <2>1 DEF StatusInv, TypeInv
    <3> QED  BY <1>1, <2>4, <2>5, <3>2, <3>3 DEF StatusInv, Owns, Unstarted, RecordInv
  <2>12. WrittenInv'
    <3>1. \A k \in Runs : ~Owns(r, k)
      BY <2>5 DEF Unstarted
    <3> QED  BY <1>1, <2>4, <3>1 DEF WrittenInv, Owns, RecordInv
  <2>13. CancelInv'
    BY <1>1, <2>4, <2>5 DEF CancelInv, Unstarted
  <2> QED  BY <2>7, <2>9, <2>10, <2>11, <2>12, <2>13
<1> QED  BY <1>3, <1>4, <1>5 DEF Key

\* A key cancels the run, if its screen knows it already.
LEMMA CancelStep ==
    ASSUME TypeInv, TruthInv, CancelRun
    PROVE  TruthInv'
<1> USE DEF TruthInv
<1> DEFINE r == Top.run
<1>1. r \in Runs /\ Shown(r)
  BY OnTop DEF CancelRun, IsRun, Shown
<1>2. /\ UNCHANGED <<stack, pushes, started, starts, recOf, coll, erred, finalized, finish, rec, owner,
                     runner>>
      /\ Top' = Top
  BY DEF CancelRun, Top
<1>3. status[r] # "none" /\ \A i \in 1..Len(pushes) : ~ToPush(i, r)
  BY <1>1 DEF FreshInv, PushesInv
<1>4. \/ /\ UNCHANGED <<status, ctxDone, finals, early>>
      \/ /\ status[r] \notin {"completed", "failed", "cancelled"}
         /\ status' = [status EXCEPT ![r] = "cancelled"]
         /\ ctxDone' = IF coll[r] THEN ctxDone \cup {recOf[r]} ELSE ctxDone
         /\ finals' = [finals EXCEPT ![r] = IF recOf[r] = 0 THEN @ + 1 ELSE @]
         /\ early' = IF recOf[r] = 0 THEN early \cup {r} ELSE early
  BY DEF CancelRun
<1> HIDE DEF r
<1>5. \A q \in Runs : /\ Unstarted(q)' <=> Unstarted(q)
                      /\ Shown(q)' <=> Shown(q)
                      /\ \A i \in 1..Len(pushes) : ToPush(i, q)' <=> ToPush(i, q)
  BY <1>2 DEF Unstarted, Owns, Shown, IsRun, ToPush
<1>6. StackInv'
  BY <1>2 DEF StackInv, IsRun
<1>7. CASE UNCHANGED <<status, ctxDone, finals, early>>
  <2>1. FreshInv' /\ PushesInv' /\ StartsInv'
    BY <1>2, <1>5, <1>7 DEF FreshInv, PushesInv, StartsInv, TypeInv
  <2>2. RecordInv' /\ WrittenInv' /\ StatusInv' /\ CancelInv'
    BY <1>2, <1>7 DEF RecordInv, WrittenInv, StatusInv, CancelInv, Owns
  <2> QED  BY <1>6, <2>1, <2>2
<1>8. CASE /\ status[r] \notin {"completed", "failed", "cancelled"}
           /\ status' = [status EXCEPT ![r] = "cancelled"]
           /\ ctxDone' = IF coll[r] THEN ctxDone \cup {recOf[r]} ELSE ctxDone
           /\ finals' = [finals EXCEPT ![r] = IF recOf[r] = 0 THEN @ + 1 ELSE @]
           /\ early' = IF recOf[r] = 0 THEN early \cup {r} ELSE early
  <2>1. status'[r] = "cancelled" /\ \A q \in Runs : q # r => status'[q] = status[q]
    BY <1>1, <1>8 DEF TypeInv
  <2>2. \A q \in Runs : q # r => finals'[q] = finals[q]
    BY <1>8 DEF TypeInv
  <2>3. coll[r] => recOf[r] # 0 /\ Owns(r, recOf[r]) /\ recOf[r] \in Runs
    <3>1. recOf[r] \in 0..MaxRuns
      BY <1>1 DEF TypeInv
    <3> QED  BY <1>1, <3>1, TuiAssumption DEF RecordInv, Runs
  <2>4. \A k \in ctxDone' : k \in ctxDone \/ (k \in Runs /\ Owns(r, k) /\ recOf[r] = k)
    BY <1>8, <2>3
  <2>5. FreshInv' /\ PushesInv'
    BY <1>1, <1>2, <1>3, <1>5, <2>1 DEF FreshInv, PushesInv
  <2>6. StartsInv'
    BY <1>1, <1>2, <1>5, <2>1 DEF StartsInv, TypeInv
  <2>7. RecordInv'
    <3>1. \A k \in Runs : rec[k] = "none" => k \notin ctxDone'
      BY <2>4 DEF RecordInv, Owns
    <3> QED  BY <1>2, <3>1 DEF RecordInv, Owns
  <2>8. \A k \in ctxDone' : k \in Runs /\ status'[owner[k]] = "cancelled" /\ recOf[owner[k]] = k
    <3>1. \A k \in ctxDone : owner[k] \in Runs
      BY DEF RecordInv, StatusInv
    <3> QED  BY <1>1, <2>1, <2>4, <3>1 DEF StatusInv, Owns
  <2>9. StatusInv'
    <3>1. \A q \in Runs : q = r \/ (status'[q] = status[q] /\ finals'[q] = finals[q])
      BY <2>1, <2>2
    <3> QED  BY <1>2, <2>1, <2>8, <3>1 DEF StatusInv, Owns
  <2>10. WrittenInv'
    <3>1. \A k \in Runs : rec[k] = "completed" => owner[k] \in Runs /\ owner[k] # r
      BY <1>8 DEF WrittenInv, RecordInv
    <3>2. ctxDone \subseteq ctxDone' /\ early \subseteq early'
      BY <1>8
    <3> QED  BY <1>2, <2>1, <3>1, <3>2 DEF WrittenInv
  <2>11. CancelInv'
    <3>1. ctxDone \subseteq ctxDone' /\ early \subseteq early'
      BY <1>8
    <3>2. recOf[r] # 0 => coll[r] /\ recOf[r] \in ctxDone'
      BY <1>1, <1>8 DEF CancelInv
    <3>3. recOf[r] = 0 => r \in early' /\ ~coll[r]
      BY <1>1, <1>8 DEF RecordInv
    <3> QED  BY <1>2, <2>1, <3>1, <3>2, <3>3 DEF CancelInv
  <2> QED  BY <1>6, <2>5, <2>6, <2>7, <2>9, <2>10, <2>11
<1> QED  BY <1>4, <1>7, <1>8

\* A Run screen is pushed once, on a screen that is not one.
LEMMA PushStep ==
    ASSUME TypeInv, TruthInv, DeliverPush, ~muddled'
    PROVE  TruthInv'
<1> USE DEF TruthInv
<1>1. PICK i \in DOMAIN pushes :
         /\ pushes' = RemoveAt(pushes, i) /\ stack' = Append(stack, pushes[i]) /\ InitTop(pushes[i])
  BY DEF DeliverPush
<1>2. /\ UNCHANGED <<started, finals, status, recOf, coll, erred, finalized, finish, rec, owner, runner,
                     ctxDone, early>>
      /\ ~IsRun(Top)
  BY DEF DeliverPush, runVars, recordVars, IsRun
<1>3. pushes[i] \in Screens /\ pushes \in Seq(Screens) /\ i \in 1..Len(pushes) /\ Len(pushes) \in Nat
  BY <1>1 DEF TypeInv
<1>4. /\ Len(stack') = Len(stack) + 1 /\ Top' = pushes[i]
      /\ \A j \in 1..Len(stack) : stack'[j] = stack[j]
  BY <1>1, <1>3, Pushed
<1>5. /\ Len(pushes') = Len(pushes) - 1
      /\ \A j \in 1..Len(pushes') : pushes'[j] = IF j < i THEN pushes[j] ELSE pushes[j + 1]
  BY <1>1, <1>3, Removed
<1>6. StackInv'
  <2>1. \A j \in 1..Len(stack) : ~IsRun(stack[j])
    BY <1>2, OnTop DEF StackInv
  <2>2. \A j \in 1..Len(stack') : j = Len(stack') \/ (j \in 1..Len(stack) /\ stack'[j] = stack[j])
    BY <1>4, OnTop
  <2>3. 1 \in 1..Len(stack) /\ stack'[1] = stack[1]
    BY <1>4, OnTop
  <2> QED  BY <2>1, <2>2, <2>3 DEF StackInv, IsRun
<1>7. \A q \in Runs : \A j \in 1..Len(pushes') : ToPush(j, q)' =>
         \E k \in 1..Len(pushes) : ToPush(k, q) /\ k # i /\ k = IF j < i THEN j ELSE j + 1
  <2> SUFFICES ASSUME NEW q \in Runs, NEW j \in 1..Len(pushes'), ToPush(j, q)'
               PROVE  \E k \in 1..Len(pushes) : ToPush(k, q) /\ k # i /\ k = IF j < i THEN j ELSE j + 1
    OBVIOUS
  <2> DEFINE k == IF j < i THEN j ELSE j + 1
  <2>1. k \in 1..Len(pushes) /\ k # i
    BY <1>3, <1>5
  <2>2. pushes'[j] = pushes[k]
    BY <1>5
  <2>3. ToPush(k, q)
    BY <2>2 DEF ToPush, IsRun
  <2> QED  BY <2>1, <2>3
<1>8. \A q \in Runs : /\ Unstarted(q)' <=> Unstarted(q)
                      /\ Shown(q)' <=> ToPush(i, q)
                      /\ q \in starts' <=> q \in starts \/ ToPush(i, q)
  BY <1>1, <1>2, <1>3, <1>4 DEF Unstarted, Owns, Shown, IsRun, ToPush, InitTop
<1>9. FreshInv'
  BY <1>2, <1>3, <1>7, <1>8 DEF FreshInv
<1>10. PushesInv'
  <2> SUFFICES ASSUME NEW q \in Runs, NEW j \in 1..Len(pushes'), ToPush(j, q)'
               PROVE  /\ Unstarted(q)' /\ q \notin starts' /\ ~Shown(q)' /\ status'[q] = "starting"
                      /\ \A l \in 1..Len(pushes') : ToPush(l, q)' => l = j
    BY DEF PushesInv
  <2>1. PICK k \in 1..Len(pushes) : ToPush(k, q) /\ k # i /\ k = IF j < i THEN j ELSE j + 1
    BY <1>7
  <2>2. Unstarted(q)' /\ q \notin starts' /\ ~Shown(q)' /\ status'[q] = "starting"
    BY <1>2, <1>3, <1>8, <2>1 DEF PushesInv
  <2>3. ASSUME NEW l \in 1..Len(pushes'), ToPush(l, q)' PROVE l = j
    <3>1. PICK m \in 1..Len(pushes) : ToPush(m, q) /\ m # i /\ m = IF l < i THEN l ELSE l + 1
      BY <1>7, <2>3
    <3>2. m = k
      BY <2>1, <3>1 DEF PushesInv
    <3> QED  BY <1>3, <2>1, <3>1, <3>2
  <2> QED  BY <2>2, <2>3
<1>11. \A q \in starts' : q \in Runs /\ (q \in starts \/ ToPush(i, q))
  BY <1>1, <1>3 DEF InitTop, TypeInv, Screens, ToPush, IsRun
<1>12. StartsInv'
  BY <1>2, <1>3, <1>8, <1>11 DEF StartsInv, PushesInv
<1>13. RecordInv' /\ StatusInv' /\ CancelInv' /\ WrittenInv'
  BY <1>2, <1>3, <1>11, Undisturbed DEF PushesInv
<1> QED  BY <1>6, <1>9, <1>10, <1>12, <1>13

\* A pop uncovers no Run screen.
LEMMA PopStep ==
    ASSUME TypeInv, TruthInv, DeliverPop
    PROVE  TruthInv'
<1> USE DEF TruthInv
<1>1. /\ stack' = IF Len(stack) > 1 THEN Front(stack) ELSE stack
      /\ InitTop(Last(stack'))
      /\ UNCHANGED <<pushes, started, finals, status, recOf, coll, erred, finalized, finish, rec, owner,
                     runner, ctxDone, early>>
  BY DEF DeliverPop, runVars, recordVars
<1>2. /\ Len(stack') = IF Len(stack) > 1 THEN Len(stack) - 1 ELSE Len(stack)
      /\ \A i \in 1..Len(stack') : stack'[i] = stack[i]
      /\ Top' = stack[Len(stack')]
  BY <1>1, Popped
<1>3. 1 \in 1..Len(stack') /\ ~IsRun(Top') /\ \A i \in 1..Len(stack') : ~IsRun(stack'[i])
  <2>1. Len(stack') \in Nat \ {0} /\ Len(stack') <= Len(stack)
    BY <1>2, OnTop
  <2>2. \A i \in 1..Len(stack') : i \in 1..Len(stack) /\ (i = 1 \/ i # Len(stack))
    BY <1>2, <2>1, OnTop
  <2>3. \A i \in 1..Len(stack') : ~IsRun(stack[i])
    BY <2>2 DEF StackInv
  <2> QED  BY <1>2, <2>1, <2>3
<1>4. starts' = starts
  BY <1>1, <1>3 DEF InitTop, Top, IsRun
<1>5. StackInv'
  BY <1>3 DEF StackInv, IsRun
<1>6. \A q \in Runs : /\ Unstarted(q)' <=> Unstarted(q)
                      /\ ~Shown(q)'
                      /\ \A i \in 1..Len(pushes) : ToPush(i, q)' <=> ToPush(i, q)
  BY <1>1, <1>3 DEF Unstarted, Owns, Shown, IsRun, ToPush
<1>7. FreshInv' /\ PushesInv' /\ StartsInv'
  BY <1>1, <1>4, <1>6 DEF FreshInv, PushesInv, StartsInv, TypeInv
<1>8. RecordInv' /\ StatusInv' /\ CancelInv' /\ WrittenInv'
  BY <1>1, <1>4, Undisturbed
<1> QED  BY <1>5, <1>7, <1>8

\* A screen that starts its run has not started one before.
LEMMA StartStep ==
    ASSUME TypeInv, TruthInv, StartRun
    PROVE  TruthInv'
<1> USE DEF TruthInv
<1>1. PICK r \in starts, k \in Runs :
         /\ rec[k] = "none"
         /\ starts' = starts \ {r} /\ owner' = [owner EXCEPT ![k] = r]
         /\ \/ /\ rec' = [rec EXCEPT ![k] = "running"]
               /\ \E ok \in BOOLEAN :
                     /\ started' = started \cup {[run |-> r, rec |-> k, ok |-> ok]}
                     /\ runner' = [runner EXCEPT ![k] = IF ok THEN "going" ELSE @]
            \/ /\ rec' = [rec EXCEPT ![k] = "absent"]
               /\ started' = started \cup {[run |-> r, rec |-> 0, ok |-> FALSE]}
               /\ UNCHANGED runner
  BY DEF StartRun
<1>2. /\ UNCHANGED <<stack, pushes, finals, status, recOf, coll, erred, finalized, finish, ctxDone, early>>
      /\ Top' = Top
  BY DEF StartRun, runVars, historyVars, Top
<1>3. r \in Runs /\ k \in Nat \ {0} /\ Unstarted(r) /\ status[r] \in {"starting", "cancelled"}
  BY TuiAssumption DEF TypeInv, StartsInv, Runs
<1>4. /\ rec'[k] \in {"running", "absent"} /\ owner'[k] = r /\ runner'[k] \in {"none", "going"}
      /\ \A j \in Runs : j # k => rec'[j] = rec[j] /\ owner'[j] = owner[j] /\ runner'[j] = runner[j]
  BY <1>1 DEF TypeInv, RecordInv
<1>5. \A q, j \in Runs : Owns(q, j)' <=> (Owns(q, j) \/ (q = r /\ j = k))
  BY <1>1, <1>4 DEF Owns
<1>6. PICK m : /\ started' = started \cup {m} /\ m.run = r /\ m.rec \in {0, k}
               /\ m.ok => m.rec = k
               /\ ~m.ok => runner'[k] = "none"
  <2> DEFINE M(x, ok) == [run |-> r, rec |-> x, ok |-> ok]
  <2>1. runner[k] = "none"
    BY <1>1 DEF RecordInv
  <2>2. \A x, ok : M(x, ok).run = r /\ M(x, ok).rec = x /\ M(x, ok).ok = ok
    OBVIOUS
  <2>3. \/ started' = started \cup {M(k, TRUE)}
        \/ started' = started \cup {M(k, FALSE)} /\ runner' = [runner EXCEPT ![k] = @]
        \/ started' = started \cup {M(0, FALSE)} /\ runner' = runner
    BY <1>1
  <2> HIDE DEF M
  <2>4. CASE started' = started \cup {M(k, TRUE)}
    <3>1. TRUE = M(k, TRUE).ok /\ M(k, TRUE).run = r /\ M(k, TRUE).rec = k
      BY <2>2
    <3> WITNESS M(k, TRUE)
    <3> QED  BY <2>4, <3>1
  <2>5. CASE started' = started \cup {M(k, FALSE)} /\ runner' = [runner EXCEPT ![k] = @]
    <3>1. runner'[k] = "none"
      BY <2>1, <2>5 DEF TypeInv
    <3>2. M(k, FALSE).ok = FALSE /\ M(k, FALSE).run = r /\ M(k, FALSE).rec = k
      BY <2>2
    <3> WITNESS M(k, FALSE)
    <3> QED  BY <2>5, <3>1, <3>2
  <2>6. CASE started' = started \cup {M(0, FALSE)} /\ runner' = runner
    <3>1. M(0, FALSE).ok = FALSE /\ M(0, FALSE).run = r /\ M(0, FALSE).rec = 0
      BY <2>2
    <3> WITNESS M(0, FALSE)
    <3> QED  BY <2>1, <2>6, <3>1
  <2> QED  BY <2>3, <2>4, <2>5, <2>6
<1>7. \A q \in Runs : q # r => (Unstarted(q)' <=> Unstarted(q))
  BY <1>2, <1>5, <1>6 DEF Unstarted
<1>8. \A q \in Runs : /\ Shown(q)' <=> Shown(q)
                      /\ \A i \in 1..Len(pushes) : ToPush(i, q)' <=> ToPush(i, q)
  BY <1>2 DEF Shown, IsRun, ToPush
<1>9. StackInv'
  BY <1>2 DEF StackInv, IsRun
<1>10. FreshInv' /\ PushesInv' /\ StartsInv'
  <2>1. FreshInv'
    BY <1>1, <1>2, <1>3, <1>7, <1>8 DEF FreshInv
  <2>2. PushesInv'
    BY <1>1, <1>2, <1>3, <1>7, <1>8 DEF PushesInv
  <2>3. StartsInv'
    BY <1>1, <1>2, <1>7 DEF StartsInv, TypeInv
  <2> QED  BY <2>1, <2>2, <2>3
<1>11. k \notin ctxDone /\ \A q \in Runs : ~Owns(q, k) /\ recOf[q] # k /\ finish[q] # k
  BY <1>1, <1>3 DEF RecordInv, Owns
<1>12. \A q \in Runs : ~Owns(r, q)
  BY <1>3 DEF Unstarted
<1>13. RecordInv'
  <2>1. \A j \in Runs : rec'[j] = "none" => runner'[j] = "none" /\ j \notin ctxDone'
    BY <1>2, <1>4 DEF RecordInv
  <2>2. \A q, i, j \in Runs : Owns(q, i)' /\ Owns(q, j)' => i = j
    BY <1>5, <1>12 DEF RecordInv
  <2>3. \A q \in Runs : recOf'[q] # 0 => Owns(q, recOf[q])'
    <3>1. \A q \in Runs : recOf[q] # 0 => recOf[q] \in Runs
      BY TuiAssumption DEF TypeInv, Runs
    <3> QED  BY <1>2, <1>5, <3>1 DEF RecordInv
  <2>4. \A q \in Runs : coll'[q] => recOf'[q] # 0
    BY <1>2 DEF RecordInv
  <2>5. \A q \in Runs : finish'[q] # 0 =>
           Owns(q, finish[q])' /\ runner'[finish'[q]] \in {"done", "failed"}
    <3>1. \A q \in Runs : finish[q] # 0 => finish[q] \in Runs
      BY TuiAssumption DEF TypeInv, Runs
    <3> QED  BY <1>2, <1>4, <1>5, <1>11, <3>1 DEF RecordInv
  <2>6. \A j \in Runs : rec'[j] # "none" => owner'[j] \in Runs
    BY <1>3, <1>4 DEF RecordInv
  <2>7. ASSUME NEW n \in started'
        PROVE  /\ n.rec # 0 => Owns(n.run, n.rec)'
               /\ n.ok => n.rec # 0
               /\ ~n.ok => \A j \in Runs : Owns(n.run, j)' => runner'[j] = "none"
    <3>1. CASE n = m
      BY <1>3, <1>4, <1>5, <1>6, <1>12, <3>1
    <3>2. CASE n \in started
      <4>1. n.run \in Runs /\ n.run # r /\ n.rec \in 0..MaxRuns
        BY <1>3, <3>2 DEF TypeInv, Starts, Unstarted
      <4>2. n.rec # 0 => n.rec \in Runs
        BY <4>1, TuiAssumption DEF Runs
      <4> QED  BY <1>4, <1>5, <1>11, <3>2, <4>1, <4>2 DEF RecordInv
    <3> QED  BY <1>6, <2>7, <3>1, <3>2
  <2> QED  BY <2>1, <2>2, <2>3, <2>4, <2>5, <2>6, <2>7 DEF RecordInv
<1>14. StatusInv'
  <2>1. ~erred[r]
    BY <1>3 DEF Unstarted
  <2>2. \A j \in ctxDone' : j \in Runs /\ status'[owner'[j]] = "cancelled" /\ recOf'[owner'[j]] = j
    BY <1>2, <1>4, <1>11 DEF StatusInv
  <2>3. \A q \in Runs : q # r => \A j \in Runs : Owns(q, j)' => Owns(q, j) /\ runner'[j] = runner[j]
    BY <1>4, <1>5, <1>11
  <2> QED  BY <1>1, <1>2, <1>3, <2>1, <2>2, <2>3 DEF StatusInv
<1>15. WrittenInv' /\ CancelInv'
  BY <1>2, <1>4 DEF WrittenInv, CancelInv
<1> QED  BY <1>9, <1>10, <1>13, <1>14, <1>15

\* The message of a start finds its own screen, which knows of no record yet.
LEMMA StartedStep ==
    ASSUME TypeInv, TruthInv, DeliverStarted, ~muddled'
    PROVE  TruthInv'
<1> USE DEF TruthInv
<1> DEFINE r == Top.run
<1>1. PICK m \in started :
         /\ started' = started \ {m}
         /\ Top.run = m.run /\ status[m.run] \in {"starting", "cancelled"} /\ recOf[m.run] = 0
         /\ recOf' = [recOf EXCEPT ![m.run] = m.rec]
         /\ coll' = [coll EXCEPT ![m.run] = m.ok]
         /\ status' = [status EXCEPT ![m.run] = IF ~m.ok THEN "failed"
                                                ELSE IF @ = "starting" THEN "running" ELSE @]
         /\ erred' = [erred EXCEPT ![m.run] = @ \/ ~m.ok]
         /\ finals' = [finals EXCEPT ![m.run] = IF m.ok THEN @ ELSE @ + 1]
  BY DEF DeliverStarted
<1>2. /\ UNCHANGED <<stack, pushes, starts, finish, rec, owner, runner, ctxDone, early>>
      /\ Top' = Top
  BY DEF DeliverStarted, recordVars, Top
<1> HIDE DEF r
<1>3. PICK q \in Runs : q = m.run /\ m.rec \in 0..MaxRuns /\ m.ok \in BOOLEAN
  BY <1>1 DEF TypeInv, Starts
<1>4. /\ \A p \in Runs : p # q => /\ recOf'[p] = recOf[p] /\ coll'[p] = coll[p] /\ status'[p] = status[p]
                                  /\ erred'[p] = erred[p] /\ finals'[p] = finals[p]
      /\ recOf'[q] = m.rec /\ coll'[q] = m.ok
      /\ status'[q] = IF ~m.ok THEN "failed" ELSE IF status[q] = "starting" THEN "running" ELSE status[q]
      /\ erred'[q] = (erred[q] \/ ~m.ok)
      /\ finals'[q] = IF m.ok THEN finals[q] ELSE finals[q] + 1
  BY <1>1, <1>3 DEF TypeInv
<1>5. status[q] \in {"starting", "cancelled"} /\ recOf[q] = 0 /\ ~Unstarted(q)
  BY <1>1, <1>3 DEF Unstarted
<1>6. \A p, j \in Runs : Owns(p, j)' <=> Owns(p, j)
  BY <1>2 DEF Owns
<1>7. \A p \in Runs : /\ p # q => (Unstarted(p) => Unstarted(p)')
                      /\ Shown(p)' <=> Shown(p)
                      /\ \A i \in 1..Len(pushes) : ToPush(i, p)' <=> ToPush(i, p)
  <2>1. \A p \in Runs : p # q => (Unstarted(p) => Unstarted(p)')
    BY <1>1, <1>2, <1>4, <1>6 DEF Unstarted
  <2> QED  BY <1>2, <2>1 DEF Shown, IsRun, ToPush
<1>8. StackInv'
  BY <1>2 DEF StackInv, IsRun
<1>9. FreshInv' /\ PushesInv' /\ StartsInv'
  <2>1. FreshInv'
    BY <1>2, <1>4, <1>5, <1>7 DEF FreshInv
  <2>2. PushesInv'
    BY <1>2, <1>4, <1>5, <1>7 DEF PushesInv
  <2>3. StartsInv'
    BY <1>2, <1>4, <1>5, <1>7 DEF StartsInv, TypeInv
  <2> QED  BY <2>1, <2>2, <2>3
<1>10. q \notin starts
  BY <1>5 DEF StartsInv
<1>11. /\ m.rec # 0 => Owns(q, m.rec)
       /\ m.ok => m.rec # 0
       /\ ~m.ok => \A k \in Runs : Owns(q, k) => runner[k] = "none"
  BY <1>3 DEF RecordInv
<1>12. RecordInv'
  <2>1. /\ \A k \in Runs : rec'[k] = "none" => runner'[k] = "none" /\ k \notin ctxDone'
        /\ \A p, j, k \in Runs : Owns(p, j)' /\ Owns(p, k)' => j = k
        /\ \A k \in Runs : rec'[k] # "none" => owner'[k] \in Runs
    BY <1>2, <1>6 DEF RecordInv
  <2>2. \A p \in Runs : (recOf'[p] # 0 => Owns(p, recOf[p])') /\ (coll'[p] => recOf'[p] # 0)
    BY <1>2, <1>4, <1>11 DEF RecordInv, Owns
  <2>3. \A p \in Runs : finish'[p] # 0 =>
           Owns(p, finish[p])' /\ runner'[finish'[p]] \in {"done", "failed"}
    BY <1>2 DEF RecordInv, Owns
  <2>4. \A n \in started' : /\ n.rec # 0 => Owns(n.run, n.rec)'
                            /\ n.ok => n.rec # 0
                            /\ ~n.ok => \A k \in Runs : Owns(n.run, k)' => runner'[k] = "none"
    BY <1>1, <1>2 DEF RecordInv, Owns
  <2> QED  BY <2>1, <2>2, <2>3, <2>4 DEF RecordInv
<1>13. StatusInv'
  <2>1. \A k \in ctxDone : owner[k] # q
    <3>1. \A k \in ctxDone : k \in Runs /\ recOf[owner[k]] = k
      BY DEF StatusInv
    <3>2. 0 \notin Runs
      BY TuiAssumption DEF Runs
    <3> QED  BY <1>5, <3>1, <3>2
  <2>2. \A k \in ctxDone' : k \in Runs /\ status'[owner'[k]] = "cancelled" /\ recOf'[owner'[k]] = k
    <3>1. \A k \in ctxDone : owner[k] \in Runs
      BY DEF RecordInv, StatusInv
    <3> QED  BY <1>2, <1>4, <2>1, <3>1 DEF StatusInv
  <2>3. finals'[q] > 0 => status'[q] \in {"cancelled", "completed", "failed"}
    BY <1>2, <1>3, <1>4, <1>5 DEF StatusInv, TypeInv
  <2>4. /\ status'[q] = "failed" => ~m.ok
        /\ erred'[q] => erred[q] \/ ~m.ok
        /\ status'[q] # "completed"
    BY <1>3, <1>4, <1>5
  <2>5. /\ status'[q] = "failed" => q \notin starts' /\ \A k \in Runs : Owns(q, k)' => runner'[k] = "none"
        /\ erred'[q] => \A k \in Runs : Owns(q, k)' => runner'[k] \in {"none", "failed"}
    BY <1>2, <1>6, <1>10, <1>11, <2>4 DEF StatusInv
  <2>6. ASSUME NEW p \in Runs, p # q
        PROVE  /\ finals'[p] > 0 => status'[p] \in {"cancelled", "completed", "failed"}
               /\ status'[p] = "failed" => p \notin starts'
                                            /\ \A k \in Runs : Owns(p, k)' => runner'[k] = "none"
               /\ erred'[p] => \A k \in Runs : Owns(p, k)' => runner'[k] \in {"none", "failed"}
               /\ status'[p] = "completed" =>
                     /\ p \notin starts'
                     /\ ~erred'[p] => \A k \in Runs : Owns(p, k)' => runner'[k] = "done"
    BY <1>2, <1>4, <1>6, <2>6 DEF StatusInv
  <2> QED  BY <2>2, <2>3, <2>4, <2>5, <2>6 DEF StatusInv
<1>14. WrittenInv'
  <2>1. \A k \in Runs : rec[k] = "completed" => owner[k] \in Runs /\ owner[k] # q
    BY <1>5 DEF WrittenInv, RecordInv
  <2> QED  BY <1>2, <1>4, <2>1 DEF WrittenInv
<1>15. CancelInv'
  <2>1. status'[q] = "cancelled" => q \in early'
    BY <1>2, <1>3, <1>4, <1>5 DEF CancelInv
  <2>2. coll'[q] \/ status'[q] = "failed"
    BY <1>3, <1>4
  <2> QED  BY <1>2, <1>4, <2>1, <2>2 DEF CancelInv
<1> QED  BY <1>8, <1>9, <1>12, <1>13, <1>14, <1>15

\* Nothing but ticks, pops and the like.
LEMMA IdleStep ==
    ASSUME TypeInv, TruthInv,
           UNCHANGED <<stack, pushes, started, starts, finals, status, recOf, coll, erred, finish,
                       recordVars, early>>
    PROVE  TruthInv'
<1> USE DEF TruthInv, recordVars
<1>1. RecordInv' /\ StatusInv' /\ CancelInv' /\ WrittenInv'
  BY Undisturbed
<1>2. \A r \in Runs : /\ Unstarted(r)' <=> Unstarted(r)
                      /\ Shown(r)' <=> Shown(r)
                      /\ \A i \in 1..Len(pushes) : ToPush(i, r)' <=> ToPush(i, r)
  BY DEF Unstarted, Owns, Shown, IsRun, ToPush, Top
<1>3. StackInv' /\ FreshInv' /\ PushesInv' /\ StartsInv'
  BY <1>2 DEF StackInv, IsRun, FreshInv, PushesInv, StartsInv, TypeInv
<1> QED  BY <1>1, <1>3

\* The end of a run is that of the record its screen owns.
LEMMA TickStep ==
    ASSUME TypeInv, TruthInv, DeliverTick
    PROVE  TruthInv'
<1> USE DEF TruthInv
<1>1. /\ UNCHANGED <<stack, pushes, started, starts, recOf, coll, finalized, rec, owner, runner, ctxDone,
                     early>>
      /\ Top' = Top
  BY DEF DeliverTick, recordVars, historyVars, Top
<1>2. CASE UNCHANGED <<status, erred, finish, finals>>
  BY <1>1, <1>2, IdleStep DEF recordVars
<1>3. CASE IsRun(Top) /\ finish[Top.run] # 0 /\ HandleFinished(Top.run)
  <2>1. PICK r \in Runs : r = Top.run /\ Shown(r)
    BY <1>3, OnTop DEF Shown
  <2>3. PICK k \in Runs : k = finish[r] /\ k # 0 /\ Owns(r, k) /\ runner[k] \in {"done", "failed"}
    <3>1. finish[r] \in 0..MaxRuns
      BY <2>1 DEF TypeInv
    <3> QED  BY <1>3, <2>1, <3>1, TuiAssumption DEF RecordInv, Runs
  <2>2. /\ finish' = [finish EXCEPT ![r] = 0]
        /\ finals' = [finals EXCEPT ![r] = @ + 1]
        /\ \/ status[r] = "cancelled" /\ UNCHANGED <<status, erred>>
           \/ /\ status[r] # "cancelled"
              /\ status' = [status EXCEPT ![r] = "completed"]
              /\ erred' = [erred EXCEPT ![r] = @ \/ runner[k] = "failed"]
    BY <1>3, <2>1, <2>3 DEF HandleFinished
  <2>4. /\ \A q \in Runs : q # r => /\ finish'[q] = finish[q] /\ finals'[q] = finals[q]
                                    /\ status'[q] = status[q] /\ erred'[q] = erred[q]
        /\ finish'[r] = 0
        /\ \/ status'[r] = "cancelled" /\ status[r] = "cancelled" /\ (erred'[r] <=> erred[r])
           \/ /\ status'[r] = "completed" /\ status[r] # "cancelled"
              /\ erred'[r] <=> (erred[r] \/ runner[k] = "failed")
    BY <2>1, <2>2 DEF TypeInv
  <2>5. ~Unstarted(r)
    BY <2>3 DEF Unstarted
  <2>6. r \notin starts /\ status[r] # "none" /\ \A i \in 1..Len(pushes) : ~ToPush(i, r)
    BY <2>1, <2>5 DEF StartsInv, FreshInv, PushesInv
  <2>7. \A q, j \in Runs : Owns(q, j)' <=> Owns(q, j)
    BY <1>1 DEF Owns
  <2>8. \A q \in Runs : /\ q # r => (Unstarted(q) => Unstarted(q)')
                        /\ Shown(q)' <=> Shown(q)
                        /\ \A i \in 1..Len(pushes) : ToPush(i, q)' <=> ToPush(i, q)
    <3>1. \A q \in Runs : q # r => (Unstarted(q) => Unstarted(q)')
      BY <1>1, <2>4, <2>7 DEF Unstarted
    <3> QED  BY <1>1, <3>1 DEF Shown, IsRun, ToPush
  <2>9. StackInv'
    BY <1>1 DEF StackInv, IsRun
  <2>10. FreshInv' /\ PushesInv' /\ StartsInv'
    <3>1. FreshInv'
      BY <1>1, <2>4, <2>8 DEF FreshInv
    <3>2. PushesInv'
      BY <1>1, <2>4, <2>6, <2>8 DEF PushesInv
    <3>3. StartsInv'
      BY <1>1, <2>4, <2>6, <2>8 DEF StartsInv, TypeInv
    <3> QED  BY <3>1, <3>2, <3>3
  <2>11. RecordInv'
    <3>1. \A q \in Runs : finish'[q] # 0 =>
             Owns(q, finish[q])' /\ runner'[finish'[q]] \in {"done", "failed"} /\ finish'[q] = finish[q]
      BY <1>1, <2>4 DEF RecordInv, Owns
    <3> QED  BY <1>1, <3>1 DEF RecordInv, Owns
  <2>12. \A j \in Runs : Owns(r, j) => j = k
    BY <2>1, <2>3 DEF RecordInv
  <2>13. StatusInv'
    <3>1. status[r] # "failed"
      BY <2>1, <2>3 DEF StatusInv
    <3>2. \A j \in ctxDone' : j \in Runs /\ status'[owner'[j]] = "cancelled" /\ recOf'[owner'[j]] = j
      <4>1. \A j \in ctxDone : owner[j] \in Runs
        BY DEF RecordInv, StatusInv
      <4> QED  BY <1>1, <2>4, <4>1 DEF StatusInv
    <3>3. /\ status'[r] \in {"cancelled", "completed"}
          /\ r \notin starts'
      BY <1>1, <2>1, <2>4, <2>6 DEF StatusInv
    <3>4. erred'[r] => \A j \in Runs : Owns(r, j)' => runner'[j] \in {"none", "failed"}
      <4> SUFFICES ASSUME erred'[r], NEW j \in Runs, Owns(r, j)' PROVE runner[j] \in {"none", "failed"}
        BY <1>1
      <4>1. Owns(r, j) /\ j = k
        BY <2>1, <2>7, <2>12
      <4>2. erred[r] \/ runner[k] = "failed"
        BY <2>4
      <4> QED  BY <2>1, <4>1, <4>2 DEF StatusInv
    <3>5. status'[r] = "completed" /\ ~erred'[r] => \A j \in Runs : Owns(r, j)' => runner'[j] = "done"
      <4> SUFFICES ASSUME status'[r] = "completed", ~erred'[r], NEW j \in Runs, Owns(r, j)'
                   PROVE  runner[j] = "done"
        BY <1>1
      <4>1. j = k
        BY <2>1, <2>7, <2>12
      <4>2. runner[k] # "failed"
        BY <2>4
      <4> QED  BY <2>3, <4>1, <4>2
    <3>7. /\ finals'[r] > 0 => status'[r] \in {"cancelled", "completed", "failed"}
          /\ status'[r] # "failed"
          /\ erred'[r] => \A j \in Runs : Owns(r, j)' => runner'[j] \in {"none", "failed"}
          /\ status'[r] = "completed" =>
                /\ r \notin starts'
                /\ ~erred'[r] => \A j \in Runs : Owns(r, j)' => runner'[j] = "done"
      BY <3>3, <3>4, <3>5
    <3>6. ASSUME NEW p \in Runs, p # r
          PROVE  /\ finals'[p] > 0 => status'[p] \in {"cancelled", "completed", "failed"}
                 /\ status'[p] = "failed" => p \notin starts'
                                              /\ \A j \in Runs : Owns(p, j)' => runner'[j] = "none"
                 /\ erred'[p] => \A j \in Runs : Owns(p, j)' => runner'[j] \in {"none", "failed"}
                 /\ status'[p] = "completed" =>
                       /\ p \notin starts'
                       /\ ~erred'[p] => \A j \in Runs : Owns(p, j)' => runner'[j] = "done"
      BY <1>1, <2>4, <2>7, <3>6 DEF StatusInv
    <3> QED  BY <3>2, <3>6, <3>7 DEF StatusInv
  <2>14. WrittenInv'
    <3> SUFFICES ASSUME NEW j \in Runs, rec[j] = "completed"
                 PROVE  status'[owner[j]] = "completed" /\ ~erred'[owner[j]] /\ recOf[owner[j]] = j
      BY <1>1 DEF WrittenInv
    <3>1. owner[j] \in Runs /\ status[owner[j]] = "completed" /\ ~erred[owner[j]] /\ recOf[owner[j]] = j
      BY DEF WrittenInv, RecordInv
    <3>2. CASE owner[j] # r
      BY <2>4, <3>1, <3>2
    <3>3. CASE owner[j] = r
      <4>1. runner[k] = "done"
        BY <2>1, <2>3, <3>1, <3>3 DEF StatusInv
      <4> QED  BY <2>4, <3>1, <3>3, <4>1
    <3> QED  BY <3>2, <3>3
  <2>15. CancelInv'
    <3>1. status[r] # "failed"
      BY <2>1, <2>3 DEF StatusInv
    <3> QED  BY <1>1, <2>1, <2>4, <3>1 DEF CancelInv
  <2> QED  BY <2>9, <2>10, <2>11, <2>13, <2>14, <2>15
<1> QED  BY <1>2, <1>3 DEF DeliverTick, IsRun

\* A runner returns once, while its screen shows it running or cancelled.
LEMMA ReturnStep ==
    ASSUME TypeInv, TruthInv, NEW k \in Runs, RunnerReturns(k)
    PROVE  TruthInv'
<1> USE DEF TruthInv
<1>1. /\ runner[k] = "going"
      /\ \E how \in {"done", "failed"} : runner' = [runner EXCEPT ![k] = how]
      /\ finish' = [finish EXCEPT ![owner[k]] = k]
      /\ UNCHANGED <<stack, pushes, started, starts, finals, status, recOf, coll, erred, finalized, rec,
                     owner, ctxDone, early>>
      /\ Top' = Top
  BY DEF RunnerReturns, inboxVars, runVars, historyVars, Top
<1>2. /\ runner'[k] \in {"done", "failed"}
      /\ \A j \in Runs : j # k => runner'[j] = runner[j]
  BY <1>1 DEF TypeInv
<1>3. PICK r \in Runs : r = owner[k] /\ Owns(r, k) /\ rec[k] # "none"
  BY <1>1 DEF RecordInv, Owns
<1>4. finish'[r] = k /\ \A q \in Runs : q # r => finish'[q] = finish[q]
  BY <1>1, <1>3 DEF TypeInv
<1>5. \A q, j \in Runs : Owns(q, j)' <=> Owns(q, j)
  BY <1>1 DEF Owns
<1>6. \A q \in Runs : /\ Unstarted(q) => Unstarted(q)'
                      /\ Shown(q)' <=> Shown(q)
                      /\ \A i \in 1..Len(pushes) : ToPush(i, q)' <=> ToPush(i, q)
  <2>1. \A q \in Runs : Unstarted(q) => Unstarted(q)'
    BY <1>1, <1>3, <1>4, <1>5 DEF Unstarted
  <2> QED  BY <1>1, <2>1 DEF Shown, IsRun, ToPush
<1>7. StackInv' /\ FreshInv' /\ PushesInv' /\ StartsInv'
  BY <1>1, <1>6 DEF StackInv, IsRun, FreshInv, PushesInv, StartsInv, TypeInv
<1>8. \A j \in Runs : Owns(r, j) => j = k
  BY <1>3 DEF RecordInv
<1>9. RecordInv'
  <2>1. \A q \in Runs : finish'[q] # 0 =>
           q = r \/ (finish'[q] = finish[q] /\ Owns(q, finish[q]) /\ runner'[finish[q]] \in {"done", "failed"})
    <3>1. \A q \in Runs : finish[q] # 0 => finish[q] \in Runs
      BY TuiAssumption DEF TypeInv, Runs
    <3> QED  BY <1>1, <1>2, <1>4, <1>5, <3>1 DEF RecordInv
  <2>2. finish'[r] # 0 => Owns(r, finish[r])' /\ runner'[finish'[r]] \in {"done", "failed"}
    <3>1. Owns(r, k)'
      BY <1>3, <1>5
    <3> QED  BY <1>2, <1>4, <3>1 DEF Owns
  <2>3. ASSUME NEW m \in started'
        PROVE  /\ m.rec # 0 => Owns(m.run, m.rec)'
               /\ m.ok => m.rec # 0
               /\ ~m.ok => \A j \in Runs : Owns(m.run, j)' => runner'[j] = "none"
    <3>1. m \in started /\ \A j \in Runs : Owns(m.run, j)' <=> Owns(m.run, j)
      BY <1>1 DEF Owns
    <3>2. m.rec # 0 => Owns(m.run, m.rec)'
      BY <1>1, <3>1 DEF RecordInv, Owns
    <3>3. ~m.ok => ~Owns(m.run, k)
      BY <1>1, <3>1 DEF RecordInv
    <3>4. (m.ok => m.rec # 0) /\ (~m.ok => \A j \in Runs : Owns(m.run, j) => runner[j] = "none")
      BY <3>1 DEF RecordInv
    <3> QED  BY <1>2, <3>1, <3>2, <3>3, <3>4
  <2>4. \A j \in Runs : rec'[j] = "none" => runner'[j] = "none" /\ j \notin ctxDone'
    BY <1>1, <1>2, <1>3 DEF RecordInv
  <2>5. /\ \A q, i, j \in Runs : Owns(q, i)' /\ Owns(q, j)' => i = j
        /\ \A j \in Runs : rec'[j] # "none" => owner'[j] \in Runs
    BY <1>1, <1>5 DEF RecordInv
  <2>6. \A q \in Runs : (recOf'[q] # 0 => Owns(q, recOf[q])') /\ (coll'[q] => recOf'[q] # 0)
    BY <1>1 DEF RecordInv, Owns
  <2> QED  BY <1>1, <2>1, <2>2, <2>3, <2>4, <2>5, <2>6 DEF RecordInv, Owns
<1>10. StatusInv'
  <2>1. status[r] # "failed" /\ ~erred[r] /\ status[r] # "completed"
    BY <1>1, <1>3 DEF StatusInv
  <2>2. \A q \in Runs : q # r => \A j \in Runs : Owns(q, j)' => Owns(q, j) /\ runner'[j] = runner[j]
    BY <1>2, <1>3, <1>5 DEF Owns
  <2> QED  BY <1>1, <2>1, <2>2 DEF StatusInv
<1>11. WrittenInv' /\ CancelInv'
  BY <1>1, <1>2 DEF WrittenInv, CancelInv
<1> QED  BY <1>7, <1>9, <1>10, <1>11

\* What is written is what the screen shows.
LEMMA FinalizeStep ==
    ASSUME TypeInv, TruthInv, NEW r \in Runs, Finalize(r)
    PROVE  TruthInv'
<1> USE DEF TruthInv
<1>1. /\ finals[r] > 0 /\ finals' = [finals EXCEPT ![r] = @ - 1]
      /\ rec' = IF finalized[r] \/ recOf[r] = 0 THEN rec ELSE [rec EXCEPT ![recOf[r]] = FinalStatus(r)]
      /\ UNCHANGED <<stack, pushes, started, starts, status, recOf, coll, erred, finish, owner, runner,
                     ctxDone, early>>
      /\ Top' = Top
  BY DEF Finalize, historyVars, Top
<1>2. \A q \in Runs : finals'[q] > 0 => finals[q] > 0
  BY <1>1 DEF TypeInv
<1>3. status[r] \in {"cancelled", "completed", "failed"}
  BY <1>1 DEF StatusInv
<1>4. ASSUME NEW k \in Runs, rec'[k] # rec[k]
      PROVE  Owns(r, k) /\ k = recOf[r] /\ rec'[k] = FinalStatus(r)
  <2>1. recOf[r] # 0 /\ rec' = [rec EXCEPT ![recOf[r]] = FinalStatus(r)]
    BY <1>1, <1>4
  <2>2. Owns(r, recOf[r])
    BY <2>1 DEF RecordInv
  <2>3. k = recOf[r] /\ rec'[k] = FinalStatus(r)
    BY <1>4, <2>1 DEF TypeInv
  <2> QED  BY <2>2, <2>3
<1>5. FinalStatus(r) \in {"completed", "cancelled", "failed"}
  BY DEF FinalStatus
<1>6. \A k \in Runs : rec'[k] = "none" <=> rec[k] = "none"
  BY <1>4, <1>5 DEF Owns
<1>7. \A q : \A j \in Runs : Owns(q, j)' <=> Owns(q, j)
  BY <1>1, <1>6 DEF Owns
<1>8. \A q \in Runs : /\ Unstarted(q)' <=> Unstarted(q)
                      /\ Shown(q)' <=> Shown(q)
                      /\ \A i \in 1..Len(pushes) : ToPush(i, q)' <=> ToPush(i, q)
  BY <1>1, <1>7 DEF Unstarted, Shown, IsRun, ToPush
<1>9. StackInv' /\ FreshInv' /\ PushesInv' /\ StartsInv'
  BY <1>1, <1>8 DEF StackInv, IsRun, FreshInv, PushesInv, StartsInv, TypeInv
<1>10. \A x \in 0..MaxRuns : x # 0 => x \in Runs
  BY TuiAssumption DEF Runs
<1>11. RecordInv'
  <2>0. \A q \in Runs : recOf[q] \in 0..MaxRuns /\ finish[q] \in 0..MaxRuns
    BY DEF TypeInv
  <2>1. \A q \in Runs : recOf[q] # 0 => Owns(q, recOf[q])'
    BY <1>1, <1>6, <1>10, <2>0 DEF RecordInv, Owns
  <2>2. \A q \in Runs : finish[q] # 0 => Owns(q, finish[q])'
    BY <1>1, <1>6, <1>10, <2>0 DEF RecordInv, Owns
  <2>3. \A m \in started : m.rec # 0 => Owns(m.run, m.rec)'
    BY <1>7, <1>10 DEF RecordInv, TypeInv, Starts
  <2>4. \A m \in started : ~m.ok => \A j \in Runs : Owns(m.run, j)' => runner[j] = "none"
    BY <1>7 DEF RecordInv
  <2> QED  BY <1>1, <1>6, <1>7, <2>1, <2>2, <2>3, <2>4 DEF RecordInv
<1>12. StatusInv' /\ CancelInv'
  BY <1>1, <1>2, <1>7 DEF StatusInv, CancelInv
<1>13. WrittenInv'
  <2> SUFFICES ASSUME NEW k \in Runs
               PROVE  /\ rec'[k] = "completed" =>
                            status[owner[k]] = "completed" /\ ~erred[owner[k]] /\ recOf[owner[k]] = k
                      /\ rec'[k] = "cancelled" => k \in ctxDone \/ owner[k] \in early
                      /\ rec'[k] = "failed" => runner[k] \in {"none", "failed"}
    BY <1>1 DEF WrittenInv
  <2>1. CASE rec'[k] = rec[k]
    BY <2>1 DEF WrittenInv
  <2>2. CASE rec'[k] # rec[k]
    <3>1. Owns(r, k) /\ owner[k] = r /\ k = recOf[r] /\ rec'[k] = FinalStatus(r)
      BY <1>4, <2>2 DEF Owns
    <3>2. CASE status[r] = "completed" /\ ~erred[r]
      BY <3>1, <3>2 DEF FinalStatus
    <3>3. CASE status[r] = "cancelled"
      <4>1. FinalStatus(r) = "cancelled"
        BY <3>3 DEF FinalStatus
      <4> QED  BY <3>1, <3>3, <4>1 DEF CancelInv
    <3>4. CASE status[r] = "failed" \/ (status[r] = "completed" /\ erred[r])
      <4>1. FinalStatus(r) = "failed"
        BY <3>4 DEF FinalStatus
      <4>2. runner[k] \in {"none", "failed"}
        BY <3>1, <3>4 DEF StatusInv
      <4> QED  BY <3>1, <4>1, <4>2
    <3> QED  BY <1>3, <3>2, <3>3, <3>4
  <2> QED  BY <2>1, <2>2
<1> QED  BY <1>9, <1>11, <1>12, <1>13

\* All of it holds at first,
LEMMA InvInit == Init => Inv
<1> SUFFICES ASSUME Init PROVE Inv
  OBVIOUS
<1>1. stack = <<Screen("list", 0)>> /\ Screen("list", 0) \in Screens /\ ~IsRun(Screen("list", 0))
  BY DEF Init, Screen, Screens, IsRun
<1>2. Len(stack) = 1 /\ stack[1] = Screen("list", 0) /\ stack \in Seq(Screens) /\ stack # << >>
  BY <1>1
<1>3. TypeInv
  <2>1. 0 \in 0..MaxRuns
    BY TuiAssumption
  <2> QED  BY <1>2, <2>1 DEF Init, TypeInv, Records, Runners
<1>4. ~IsRun(Top) /\ StackInv
  BY <1>1, <1>2, <1>3, OnTop DEF StackInv
<1>5. FreshInv /\ PushesInv /\ StartsInv
  BY <1>4 DEF Init, FreshInv, PushesInv, StartsInv, Unstarted, Owns, Shown
<1>6. RecordInv /\ StatusInv /\ CancelInv /\ WrittenInv
  BY DEF Init, RecordInv, StatusInv, CancelInv, WrittenInv, Owns
<1> QED  BY <1>3, <1>4, <1>5, <1>6 DEF Inv, TruthInv

\* and each step keeps it, until a message meets the wrong screen.
LEMMA InvStep == Inv /\ [Next]_vars => Inv'
<1> SUFFICES ASSUME Inv, [Next]_vars PROVE Inv'
  OBVIOUS
<1>1. TypeInv'
  BY TypeStep DEF Inv
<1> SUFFICES ASSUME ~muddled' PROVE TruthInv'
  BY <1>1 DEF Inv
<1>2. TypeInv /\ TruthInv
  <2>1. ~muddled
    BY DEF Next, vars, Key, CancelRun, DeliverPush, DeliverPop, StartRun, DeliverStarted, DeliverTick,
           RunnerReturns, Finalize, historyVars
  <2> QED  BY <2>1 DEF Inv
<1>3. CASE UNCHANGED vars
  BY <1>2, <1>3, IdleStep DEF vars, inboxVars, runVars, historyVars
<1> QED
  BY <1>2, <1>3, KeyStep, CancelStep, PushStep, PopStep, StartStep, StartedStep, TickStep, ReturnStep,
     FinalizeStep DEF Next

\* A record that is no longer running tells what happened to its own run, in
\* whatever order keys, messages and runners come, as long as each message
\* meets the screen it was meant for; "cancelled" also when the key was early and
\* nothing was cancelled (run.go and root.go).
THEOREM RecordsTellTheTruth == Spec => []RecordTruthful
<1>1. Inv => RecordTruthful
  <2> SUFFICES ASSUME TruthInv, NEW k \in Runs
               PROVE  /\ rec[k] = "completed" => runner[k] = "done" /\ k \notin ctxDone
                      /\ rec[k] = "cancelled" => k \in ctxDone \/ owner[k] \in early
                      /\ rec[k] = "failed" => runner[k] \in {"none", "failed"}
    BY DEF Inv, RecordTruthful
  <2>1. ASSUME rec[k] = "completed" PROVE runner[k] = "done" /\ k \notin ctxDone
    <3>1. Owns(owner[k], k) /\ owner[k] \in Runs
      BY <2>1 DEF TruthInv, RecordInv, Owns
    <3>2. status[owner[k]] = "completed" /\ ~erred[owner[k]]
      BY <2>1 DEF TruthInv, WrittenInv
    <3> QED  BY <3>1, <3>2 DEF TruthInv, StatusInv
  <2> QED  BY <2>1 DEF TruthInv, WrittenInv
<1> QED  BY <1>1, InvInit, InvStep, PTL DEF Spec
=============================================================================
