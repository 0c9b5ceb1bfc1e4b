------------------------- MODULE SetCommands_proofs -------------------------
(***************************************************************************)
(* Proofs about SetCommands, for any sessions, sets, flags and number of   *)
(* editors: the files stay whole, the record tells the truth about the     *)
(* run, and the run with its record implements SetRun.  First about Store, *)
(* for any processes, paths and documents: files that are written under a  *)
(* lock are never torn as long as the lock file stays.                     *)
(***************************************************************************)
EXTENDS SetCommands, SequenceTheorems, FiniteSetTheorems, WellFoundedInduction, TLAPS

Locked == SetPaths \cup SessionPaths

\* A path whose lock file was never removed: everybody locks the same file.
Guarded(x) == x \in Locked /\ gen[x] = 0

\* Who waits for a lock or holds it has opened the lock file that is there.
OpenedInv ==
    \A p \in Procs :
        Guarded(at[p]) /\ (step[p] = "lock" \/ Writing(p)) => opened[p] = 0

\* The lock: one writer at a time.
WriterInv ==
    \A p, q \in Procs :
        Guarded(at[p]) /\ at[p] = at[q] /\ Writing(p) /\ Writing(q) => p = q

\* What the writer finds in <path>.tmp, and where its descriptor leads.
TempInv ==
    \A p \in Procs : Guarded(at[p]) =>
        /\ step[p] = "write" => temp[at[p]] = Empty /\ fd[p] = "temp"
        /\ step[p] = "rename" => temp[at[p]] = doc[p]

FileInv == \A x \in Paths : Guarded(x) => ~Torn(x)

\* Only DeleteSession and DeleteTemplate remove a lock file.
GenInv ==
    /\ \A x \in SetPaths : gen[x] = 0
    /\ \A p \in Procs : step[p] = "rmlock" => at[p] \in SessionPaths

StoreInv == StoreTypeOK /\ OpenedInv /\ WriterInv /\ TempInv /\ FileInv /\ GenInv

---------------------------------------------------------------------------
LEMMA StoreInvInit ==
    ASSUME NEW files \in [Paths -> Docs \cup {Absent}], StoreInit(files)
    PROVE  StoreInv
<1>1. /\ (CHOOSE x \in Paths : TRUE) \in Paths
      /\ (CHOOSE d \in Docs : TRUE) \in Docs
  BY StoreAssumption
<1>2. StoreTypeOK
  BY <1>1 DEF StoreInit, StoreTypeOK, Contents, Steps
<1>3. OpenedInv /\ WriterInv /\ TempInv
  BY DEF StoreInit, OpenedInv, WriterInv, TempInv, Writing
<1>4. FileInv
  BY StoreAssumption DEF StoreInit, FileInv, Torn
<1>5. GenInv
  BY DEF StoreInit, GenInv, Paths
<1> QED  BY <1>2, <1>3, <1>4, <1>5 DEF StoreInv

LEMMA StoreTypeStep ==
    ASSUME StoreTypeOK, [StoreNext]_storeVars
    PROVE  StoreTypeOK'
<1> USE DEF StoreTypeOK
<1>1. CASE UNCHANGED storeVars
  BY <1>1 DEF storeVars
<1>2. ASSUME NEW p \in Procs, OpenLock(p) \/ AcquireLock(p)
      PROVE  StoreTypeOK'
  BY <1>2 DEF OpenLock, AcquireLock, Steps
<1>3. ASSUME NEW p \in Procs, CreateTemp(p)
      PROVE  StoreTypeOK'
  BY <1>3 DEF CreateTemp, Steps, Contents
<1>4. ASSUME NEW p \in Procs, WriteTemp(p)
      PROVE  StoreTypeOK'
  <2>1. \A c \in Contents : Overlay(c, doc[p]) \in Contents
    BY DEF Overlay, Contents
  <2>2. temp' \in [Paths -> Contents] /\ file' \in [Paths -> Contents]
    BY <1>4, <2>1 DEF WriteTemp
  <2> QED  BY <1>4, <2>2 DEF WriteTemp, Steps
<1>5. ASSUME NEW p \in Procs, RenameTemp(p)
      PROVE  StoreTypeOK'
  <2>1. fd' \in [Procs -> {"temp", "file", "gone"}]
    BY <1>5 DEF RenameTemp, Renamed
  <2> QED  BY <1>5, <2>1 DEF RenameTemp, Steps, Contents
<1>6. ASSUME NEW p \in Procs, WriteFails(p)
      PROVE  StoreTypeOK'
  BY <1>6 DEF WriteFails, Steps
<1>7. ASSUME NEW p \in Procs, RenameFails(p)
      PROVE  StoreTypeOK'
  BY <1>7 DEF RenameFails, Steps, Contents
<1>8. ASSUME NEW p \in Procs, RemoveLock(p)
      PROVE  StoreTypeOK'
  BY <1>8 DEF RemoveLock, Steps
<1>9. ASSUME NEW p \in Procs, Die(p)
      PROVE  StoreTypeOK'
  BY <1>9 DEF Die, Steps
<1>10. ASSUME NEW p \in Procs, NEW path \in Paths, Remove(p, path)
       PROVE  StoreTypeOK'
  <2>1. fd' \in [Procs -> {"temp", "file", "gone"}]
    BY <1>10 DEF Remove, Unlinked
  <2> QED  BY <1>10, <2>1 DEF Remove, Steps, Contents
<1>11. ASSUME NEW p \in Procs, NEW path \in Paths, NEW d \in Docs,
              BeginSave(p, path, d) \/ BeginRecord(p, path, d)
       PROVE  StoreTypeOK'
  BY <1>11 DEF BeginSave, BeginRecord, Steps
<1> QED
  BY <1>1, <1>2, <1>3, <1>4, <1>5, <1>6, <1>7, <1>8, <1>9, <1>10, <1>11
  DEF StoreNext, StoreStep
---------------------------------------------------------------------------
LEMMA StoreGenStep ==
    ASSUME StoreInv, [StoreNext]_storeVars
    PROVE  GenInv'
<1> USE DEF StoreInv, StoreTypeOK, GenInv
<1>1. CASE UNCHANGED storeVars
  BY <1>1 DEF storeVars
<1>2. ASSUME NEW p \in Procs, RemoveLock(p)
      PROVE  GenInv'
  BY <1>2, StoreAssumption DEF RemoveLock
<1>3. ASSUME NEW p \in Procs, NEW path \in Paths, Remove(p, path)
      PROVE  GenInv'
  BY <1>3 DEF Remove
<1>4. ASSUME NEW p \in Procs, NEW path \in Paths, NEW d \in Docs,
             BeginSave(p, path, d) \/ BeginRecord(p, path, d)
      PROVE  GenInv'
  BY <1>4 DEF BeginSave, BeginRecord
<1>5. ASSUME NEW p \in Procs,
             (StoreStep(p) /\ ~RemoveLock(p)) \/ Die(p)
      PROVE  GenInv'
  BY <1>5 DEF StoreStep, OpenLock, AcquireLock, CreateTemp, WriteTemp, RenameTemp,
              WriteFails, RenameFails, Die
<1> QED  BY <1>1, <1>2, <1>3, <1>4, <1>5 DEF StoreNext, StoreStep

LEMMA StoreOpenedStep ==
    ASSUME StoreInv, [StoreNext]_storeVars
    PROVE  OpenedInv'
<1> USE DEF StoreInv, StoreTypeOK, OpenedInv, Writing, Guarded
<1>1. CASE UNCHANGED storeVars
  BY <1>1 DEF storeVars
<1>2. ASSUME NEW p \in Procs, OpenLock(p)
      PROVE  OpenedInv'
  BY <1>2 DEF OpenLock
<1>3. ASSUME NEW p \in Procs, RemoveLock(p)
      PROVE  OpenedInv'
  BY <1>3 DEF RemoveLock
<1>4. ASSUME NEW p \in Procs, NEW path \in Paths, Remove(p, path)
      PROVE  OpenedInv'
  BY <1>4 DEF Remove
<1>5. ASSUME NEW p \in Procs, NEW path \in Paths, NEW d \in Docs,
             BeginSave(p, path, d) \/ BeginRecord(p, path, d)
      PROVE  OpenedInv'
  BY <1>5, StoreAssumption DEF BeginSave, BeginRecord, Locked
<1>6. ASSUME NEW p \in Procs,
             (StoreStep(p) /\ ~OpenLock(p) /\ ~RemoveLock(p)) \/ Die(p)
      PROVE  OpenedInv'
  BY <1>6 DEF StoreStep, AcquireLock, CreateTemp, WriteTemp, RenameTemp,
              WriteFails, RenameFails, Die
<1> QED  BY <1>1, <1>2, <1>3, <1>4, <1>5, <1>6 DEF StoreNext, StoreStep

\* AcquireLock is the step that counts: another writer would have the lock.
LEMMA StoreWriterStep ==
    ASSUME StoreInv, [StoreNext]_storeVars
    PROVE  WriterInv'
<1> USE DEF StoreInv, StoreTypeOK, WriterInv, Writing, Guarded
<1>1. CASE UNCHANGED storeVars
  BY <1>1 DEF storeVars
<1>2. ASSUME NEW p \in Procs, AcquireLock(p)
      PROVE  WriterInv'
  BY <1>2 DEF AcquireLock, SameLock, OpenedInv
<1>3. ASSUME NEW p \in Procs, RemoveLock(p)
      PROVE  WriterInv'
  BY <1>3 DEF RemoveLock
<1>4. ASSUME NEW p \in Procs, NEW path \in Paths, Remove(p, path)
      PROVE  WriterInv'
  BY <1>4 DEF Remove
<1>5. ASSUME NEW p \in Procs, NEW path \in Paths, NEW d \in Docs,
             BeginSave(p, path, d) \/ BeginRecord(p, path, d)
      PROVE  WriterInv'
  BY <1>5, StoreAssumption DEF BeginSave, BeginRecord, Locked
<1>6. ASSUME NEW p \in Procs,
             (StoreStep(p) /\ ~AcquireLock(p) /\ ~RemoveLock(p)) \/ Die(p)
      PROVE  WriterInv'
  BY <1>6 DEF StoreStep, OpenLock, CreateTemp, WriteTemp, RenameTemp,
              WriteFails, RenameFails, Die
<1> QED  BY <1>1, <1>2, <1>3, <1>4, <1>5, <1>6 DEF StoreNext, StoreStep

\* Nobody else touches <path>.tmp while there is a writer.
LEMMA StoreTempStep ==
    ASSUME StoreInv, [StoreNext]_storeVars
    PROVE  TempInv'
<1> USE DEF StoreInv, StoreTypeOK, TempInv, Writing, Guarded
<1>1. CASE UNCHANGED storeVars
  BY <1>1 DEF storeVars
<1>2. ASSUME NEW p \in Procs, OpenLock(p) \/ AcquireLock(p) \/ WriteFails(p)
      PROVE  TempInv'
  BY <1>2 DEF OpenLock, AcquireLock, WriteFails
<1>3. ASSUME NEW p \in Procs, CreateTemp(p)
      PROVE  TempInv'
  BY <1>3 DEF CreateTemp, WriterInv
<1>4. ASSUME NEW p \in Procs, WriteTemp(p)
      PROVE  TempInv'
  BY <1>4 DEF WriteTemp, WriterInv, Overlay
<1>5. ASSUME NEW p \in Procs, RenameTemp(p)
      PROVE  TempInv'
  BY <1>5 DEF RenameTemp, Renamed, WriterInv
<1>6. ASSUME NEW p \in Procs, RenameFails(p)
      PROVE  TempInv'
  BY <1>6 DEF RenameFails, WriterInv
<1>7. ASSUME NEW p \in Procs, RemoveLock(p)
      PROVE  TempInv'
  BY <1>7 DEF RemoveLock
<1>8. ASSUME NEW p \in Procs, Die(p)
      PROVE  TempInv'
  BY <1>8 DEF Die
<1>9. ASSUME NEW p \in Procs, NEW path \in Paths, Remove(p, path)
      PROVE  TempInv'
  BY <1>9 DEF Remove, Unlinked
<1>10. ASSUME NEW p \in Procs, NEW path \in Paths, NEW d \in Docs,
              BeginSave(p, path, d) \/ BeginRecord(p, path, d)
       PROVE  TempInv'
  BY <1>10 DEF BeginSave, BeginRecord
<1> QED
  BY <1>1, <1>2, <1>3, <1>4, <1>5, <1>6, <1>7, <1>8, <1>9, <1>10 DEF StoreNext, StoreStep

\* A file gets its content from a rename; a write reaches it only through a
\* descriptor that outlived one, and a writer under a good lock has none.
LEMMA StoreFileStep ==
    ASSUME StoreInv, [StoreNext]_storeVars
    PROVE  FileInv'
<1> USE DEF StoreInv, StoreTypeOK, FileInv, Torn, Guarded
<1>1. CASE UNCHANGED storeVars
  BY <1>1 DEF storeVars
<1>2. ASSUME NEW p \in Procs, WriteTemp(p)
      PROVE  FileInv'
  <2>1. Guarded(at[p]) => file' = file
    BY <1>2 DEF WriteTemp, TempInv
  <2> QED  BY <1>2, <2>1 DEF WriteTemp
<1>3. ASSUME NEW p \in Procs, RenameTemp(p)
      PROVE  FileInv'
  <2>1. Guarded(at[p]) => temp[at[p]] \in Docs
    BY <1>3 DEF RenameTemp, TempInv
  <2> QED  BY <1>3, <2>1, StoreAssumption DEF RenameTemp
<1>4. ASSUME NEW p \in Procs, RemoveLock(p)
      PROVE  FileInv'
  BY <1>4 DEF RemoveLock
<1>5. ASSUME NEW p \in Procs, NEW path \in Paths, Remove(p, path)
      PROVE  FileInv'
  BY <1>5, StoreAssumption DEF Remove
<1>6. ASSUME NEW p \in Procs, NEW path \in Paths, NEW d \in Docs,
             BeginSave(p, path, d) \/ BeginRecord(p, path, d)
      PROVE  FileInv'
  BY <1>6 DEF BeginSave, BeginRecord
<1>7. ASSUME NEW p \in Procs,
             \/ StoreStep(p) /\ ~WriteTemp(p) /\ ~RenameTemp(p) /\ ~RemoveLock(p)
             \/ Die(p)
      PROVE  FileInv'
  BY <1>7 DEF StoreStep, OpenLock, AcquireLock, CreateTemp, WriteFails, RenameFails, Die
<1> QED  BY <1>1, <1>2, <1>3, <1>4, <1>5, <1>6, <1>7 DEF StoreNext, StoreStep

LEMMA StoreInvStep ==
    ASSUME StoreInv, [StoreNext]_storeVars
    PROVE  StoreInv'
BY StoreTypeStep, StoreGenStep, StoreOpenedStep, StoreWriterStep, StoreTempStep, StoreFileStep
   DEF StoreInv

LEMMA StoreInvariance == StoreSpec => []StoreInv
<1>1. (\E files \in [Paths -> Docs \cup {Absent}] : StoreInit(files)) => StoreInv
  BY StoreInvInit
<1>2. StoreInv /\ [StoreNext]_storeVars => StoreInv'
  BY StoreInvStep
<1> QED  BY <1>1, <1>2, PTL DEF StoreSpec

---------------------------------------------------------------------------
\* No reader of a set ever meets half a document or two, and none of a session
\* or template that was never deleted, however many processes write, fail and
\* die (writeAtomic under flock).
THEOREM FilesWhole == StoreSpec => []NoTornFile
<1>1. StoreInv => NoTornFile
  BY DEF StoreInv, StoreTypeOK, FileInv, NoTornFile, Guarded, Locked, Paths
<1> QED  BY <1>1, StoreInvariance, PTL

\* For sets without a proviso: DeleteSet leaves the lock file where it is.
THEOREM SetsWhole == StoreSpec => [](\A x \in SetPaths : ~Torn(x))
<1>1. StoreInv => \A x \in SetPaths : ~Torn(x)
  BY DEF StoreInv, FileInv, GenInv, Guarded, Locked, Paths
<1> QED  BY <1>1, StoreInvariance, PTL

\* The lock does what it is for: a set has one writer at a time.
THEOREM OneWriter ==
    StoreSpec => [](\A p, q \in Procs :
        at[p] \in SetPaths /\ at[p] = at[q] /\ Writing(p) /\ Writing(q) => p = q)
<1>1. StoreInv => \A p, q \in Procs :
        at[p] \in SetPaths /\ at[p] = at[q] /\ Writing(p) /\ Writing(q) => p = q
  BY DEF StoreInv, WriterInv, GenInv, Guarded, Locked
<1> QED  BY <1>1, StoreInvariance, PTL

---------------------------------------------------------------------------
(***************************************************************************)
(* The set run beside its editors.                                         *)
(***************************************************************************)
\* Only Main writes the record.
OwnerInv == \A e \in Editors : ~Resting(e) => at[e] \notin RecordPaths

\* What is saved as the set, and what can be read of it before the flags.
SavedInv ==
    /\ \A e \in Editors : ~Resting(e) /\ at[e] = SetFile => doc[e] \in SetDocs
    /\ ~Resting(Main) /\ at[Main] = SetFile => doc[Main] \in StoredSets
    /\ file[SetFile] \in StoredSets \cup {Absent}
    /\ cmd = "get" => file[SetFile] \in SetDocs \cup {Absent}
    /\ cmd = "save" => mine \in StoredSets
    /\ flags \in Flags

\* Where the command is when its run is somewhere, and whose store operation
\* is under way.
CmdInv ==
    /\ cmd \in {"fire", "get", "save", "saving"} => pc = "idle"
    /\ cmd \in {"fire", "get", "save", "exited"} => Resting(Main)
    /\ cmd = "saving" => at[Main] = SetFile
    /\ cmd = "run" => pc \notin {"idle", "dead"}
    /\ cmd = "exited" => pc \in {"idle", "returned"}
    /\ cmd = "dead" <=> pc = "dead"
    /\ cmd \in {"fire", "get", "save", "saving", "run", "exited", "dead"}
    /\ pc \in {"idle", "get", "create", "creating", "stage", "items", "judge", "finalizing",
               "returned", "dead"}
    /\ pc \in {"get", "create", "stage", "items", "judge", "returned", "dead"} => Resting(Main)

\* The record while Main replaces what was before by the status s.
Recording(s, before) ==
    /\ at[Main] = Record
    /\ doc[Main] = RunDoc(s)
    /\ step[Main] \in {"create", "write", "rename", "ok", "err"}
    /\ step[Main] = "write" => temp[Record] = Empty /\ fd[Main] = "temp"
    /\ step[Main] = "rename" => temp[Record] = RunDoc(s)
    /\ file[Record] = IF step[Main] = "ok" THEN RunDoc(s) ELSE before

\* The record says what the run has reached.
RecordInv ==
    /\ pc \in {"idle", "get", "create"} => file[Record] = Absent
    /\ pc = "creating" => Recording("running", Absent)
    /\ pc \in {"stage", "items", "judge"} => file[Record] = RunDoc("running")
    /\ pc = "finalizing" => Recording(status, RunDoc("running"))
    /\ pc = "returned" /\ status # "error" => file[Record] = RunDoc(status)

Final == {"completed", "failed", "cancelled"}
MayGoOn == stageNo > 0 /\ Aborts(set.stages[stageNo]) => ~anyFail

\* The stages, and what may be concluded when they end.
StageInv ==
    /\ itemPc \in [Slots -> {"none", "ready", "build", "merge", "done"}]
    /\ anyFail \in BOOLEAN
    /\ stageNo \in Nat
    /\ pc \in {"idle", "get", "create", "creating"} => stageNo = 0 /\ anyFail = FALSE
    /\ pc # "items" => itemPc = [i \in Slots |-> "none"]
    /\ pc \in {"create", "creating", "stage", "items", "judge", "finalizing"} => set \in StoredSets
    /\ pc = "items" =>
          /\ stageNo \in 1..Len(set.stages)
          /\ \A i \in Slots : itemPc[i] # "none" <=> i \in DOMAIN Items(stageNo)
    /\ pc = "stage" => stageNo <= Len(set.stages) /\ MayGoOn
    /\ pc \in {"judge", "finalizing"} => status \in Final
    /\ pc \in {"judge", "finalizing"} /\ status = "completed" => stageNo = Len(set.stages) /\ MayGoOn
    /\ pc \in {"judge", "finalizing"} /\ status = "cancelled" => cancelled

IInv == StoreInv /\ OwnerInv /\ SavedInv /\ CmdInv /\ RecordInv /\ StageInv

---------------------------------------------------------------------------
(***************************************************************************)
(* What the flags do to a set, one override after the other.               *)
(***************************************************************************)
LEMMA LeastNat ==
    ASSUME NEW C, C \subseteq Nat, C # {}
    PROVE  \E n \in C : \A m \in C : n <= m
<1>1. PICK n \in C : \A m \in C : <<m, n>> \notin OpToRel(<, Nat)
  BY WFMin, NatLessThanWellFounded
<1>2. \A m \in C : ~(m < n)
  BY <1>1 DEF OpToRel
<1> QED  BY <1>2

\* The sets that applyOverrideFlags goes through.
Applies(g, s, os, n) ==
    g = [k \in 0..n |-> IF k = 0 THEN s ELSE SetOverride(g[k - 1], os[k])]

LEMMA SetsExist ==
    ASSUME NEW s, NEW os, NEW n \in Nat
    PROVE  \E g : Applies(g, s, os, n)
<1> DEFINE C == {m \in Nat : ~ \E g : Applies(g, s, os, m)}
<1>1. SUFFICES ASSUME C # {} PROVE FALSE
  OBVIOUS
<1>2. PICK m \in C : \A j \in C : m <= j
  BY <1>1, LeastNat
<1>3. m # 0
  <2> DEFINE g == [k \in 0..0 |-> s]
  <2>1. g = [k \in 0..0 |-> IF k = 0 THEN s ELSE SetOverride(g[k - 1], os[k])]
    OBVIOUS
  <2>2. Applies(g, s, os, 0)
    BY <2>1 DEF Applies
  <2> QED  BY <1>2, <2>2
<1>4. m - 1 \in Nat /\ m - 1 \notin C
  BY <1>2, <1>3
<1>5. PICK g : Applies(g, s, os, m - 1)
  BY <1>4
<1> DEFINE h == [k \in 0..m |-> IF k = m THEN SetOverride(g[m - 1], os[m]) ELSE g[k]]
<1>6. \A k \in 0..m : h[k] = IF k = 0 THEN s ELSE SetOverride(h[k - 1], os[k])
  <2> SUFFICES ASSUME NEW k \in 0..m
               PROVE  h[k] = IF k = 0 THEN s ELSE SetOverride(h[k - 1], os[k])
    OBVIOUS
  <2>1. CASE k = m
    <3>1. m - 1 \in 0..m /\ m - 1 # m
      BY <1>3, <1>4
    <3>2. h[m - 1] = g[m - 1]
      BY <3>1
    <3> QED  BY <1>3, <2>1, <3>2
  <2>2. CASE k # m
    <3>1. k \in 0..m - 1 /\ h[k] = g[k]
      BY <1>4, <2>2
    <3>2. k # 0 => k - 1 \in 0..m /\ k - 1 # m
      BY <1>4, <2>2
    <3>3. k # 0 => h[k - 1] = g[k - 1]
      BY <3>2
    <3>4. g[k] = IF k = 0 THEN s ELSE SetOverride(g[k - 1], os[k])
      BY <1>5, <3>1 DEF Applies
    <3> QED  BY <3>1, <3>3, <3>4
  <2> QED  BY <2>1, <2>2
<1>7. Applies(h, s, os, m)
  <2>1. h = [k \in 0..m |-> h[k]]
    OBVIOUS
  <2> HIDE DEF h
  <2> QED  BY <1>6, <2>1 DEF Applies
<1> QED  BY <1>2, <1>7

LEMMA FlagByFlag ==
    ASSUME NEW s, NEW os, Len(os) \in Nat
    PROVE  \E g : /\ WithOverrides(s, os) = g[Len(os)]
                  /\ g[0] = s
                  /\ \A k \in 1..Len(os) : g[k] = SetOverride(g[k - 1], os[k])
<1> DEFINE g == CHOOSE g : Applies(g, s, os, Len(os))
<1>1. Applies(g, s, os, Len(os))
  BY SetsExist
<1>2. WithOverrides(s, os) = g[Len(os)]
  BY DEF WithOverrides, Applies
<1> HIDE DEF g
<1>3. \A k \in 0..Len(os) : g[k] = IF k = 0 THEN s ELSE SetOverride(g[k - 1], os[k])
  BY <1>1 DEF Applies
<1>4. g[0] = s /\ \A k \in 1..Len(os) : g[k] = SetOverride(g[k - 1], os[k])
  BY <1>3
<1> QED  BY <1>2, <1>4

LEMMA OverrideKeepsThresholds ==
    ASSUME NEW s, NEW o, "thresholds" \in DOMAIN s
    PROVE  /\ "thresholds" \in DOMAIN SetOverride(s, o)
           /\ SetOverride(s, o).thresholds = s.thresholds
BY DEF SetOverride

LEMMA FlagsKeepThresholds ==
    ASSUME NEW s, NEW os, Len(os) \in Nat, "thresholds" \in DOMAIN s
    PROVE  WithOverrides(s, os).thresholds = s.thresholds
<1>1. PICK g : /\ WithOverrides(s, os) = g[Len(os)]
               /\ g[0] = s
               /\ \A k \in 1..Len(os) : g[k] = SetOverride(g[k - 1], os[k])
  BY FlagByFlag
<1> DEFINE C == {k \in 0..Len(os) : ~("thresholds" \in DOMAIN g[k] /\ g[k].thresholds = s.thresholds)}
<1>2. C = {}
  <2> SUFFICES ASSUME C # {} PROVE FALSE
    OBVIOUS
  <2>0. C \subseteq Nat
    OBVIOUS
  <2>1. PICK k \in C : \A j \in C : k <= j
    <3> HIDE DEF C
    <3> QED  BY <2>0, LeastNat
  <2>2. k # 0
    BY <1>1
  <2>3. k \in 1..Len(os) /\ k - 1 \in 0..Len(os) /\ k - 1 \notin C
    BY <2>1, <2>2
  <2>4. "thresholds" \in DOMAIN g[k - 1] /\ g[k - 1].thresholds = s.thresholds
    BY <2>3
  <2>5. g[k] = SetOverride(g[k - 1], os[k])
    BY <1>1, <2>3
  <2> QED  BY <2>1, <2>4, <2>5, OverrideKeepsThresholds
<1> QED  BY <1>1, <1>2

LEMMA FlagsShape ==
    ASSUME NEW s \in SetDocs, NEW f \in Flags
    PROVE  /\ s.thresholds \in Seq(Limits) /\ f.thresholds \in Seq(Limits)
           /\ s.thresholds \o f.thresholds \in Seq(Limits)
           /\ WithFlags(s, f).thresholds = s.thresholds \o f.thresholds
<1>1. WellFormed(s) /\ f.thresholds \in Seq(Limits) /\ Len(f.overrides) \in Nat
  BY DocsAssumption
<1>2. s.thresholds \in Seq(Limits) /\ "thresholds" \in DOMAIN s
  BY <1>1 DEF WellFormed
<1> DEFINE t == [s EXCEPT !.thresholds = @ \o f.thresholds]
<1>3. "thresholds" \in DOMAIN t /\ t.thresholds = s.thresholds \o f.thresholds
  BY <1>2
<1>4. WithFlags(s, f) = WithOverrides(t, f.overrides)
  BY DEF WithFlags
<1> HIDE DEF t
<1>5. WithFlags(s, f).thresholds = t.thresholds
  BY <1>1, <1>3, <1>4, FlagsKeepThresholds
<1> QED  BY <1>1, <1>2, <1>3, <1>5, ConcatProperties

---------------------------------------------------------------------------
\* What an override changes of an item.
ItemAt(s, p, q) == s.stages[p].items[q]

LEMMA OneOverride ==
    ASSUME NEW s, WellFormed(s), NEW o,
           NEW t, t = SetOverride(s, o), NEW x, x = FindItem(s, o.item),
           NEW p \in DOMAIN s.stages, NEW q \in DOMAIN s.stages[p].items
    PROVE  /\ ItemAt(t, p, q).name = ItemAt(s, p, q).name
           /\ {"name", "overrides"} \subseteq DOMAIN ItemAt(t, p, q)
           /\ "fields" \in DOMAIN ItemAt(t, p, q).overrides
           /\ ItemAt(t, p, q).overrides.fields =
                 IF p = x[1] /\ q = x[2]
                 THEN Merge(ItemAt(s, p, q).overrides.fields, [f \in {o.field} |-> o.value])
                 ELSE ItemAt(s, p, q).overrides.fields
<1> DEFINE v == Merge(s.stages[x[1]].items[x[2]].overrides.fields, [f \in {o.field} |-> o.value])
<1>1. t = [s EXCEPT !.stages[x[1]].items[x[2]].overrides.fields = v]
  BY DEF SetOverride
<1> HIDE DEF v
<1>2. /\ "stages" \in DOMAIN s /\ "items" \in DOMAIN s.stages[p]
      /\ {"name", "overrides"} \subseteq DOMAIN s.stages[p].items[q]
      /\ "fields" \in DOMAIN s.stages[p].items[q].overrides
  BY DEF WellFormed
<1>0. t.stages = [s.stages EXCEPT ![x[1]].items[x[2]].overrides.fields = v]
  BY <1>1, <1>2
<1>3. t.stages[p] = IF p = x[1]
                    THEN [s.stages[p] EXCEPT !.items[x[2]].overrides.fields = v]
                    ELSE s.stages[p]
  BY <1>0
<1>4. ItemAt(t, p, q) = IF p = x[1] /\ q = x[2]
                        THEN [s.stages[p].items[q] EXCEPT !.overrides.fields = v]
                        ELSE s.stages[p].items[q]
  BY <1>2, <1>3 DEF ItemAt
<1>5. p = x[1] /\ q = x[2] =>
        v = Merge(ItemAt(s, p, q).overrides.fields, [f \in {o.field} |-> o.value])
  BY DEF v, ItemAt
<1>6. CASE p = x[1] /\ q = x[2]
  <2>1. ItemAt(t, p, q).overrides = [s.stages[p].items[q].overrides EXCEPT !.fields = v]
    BY <1>2, <1>4, <1>6
  <2>2. ItemAt(t, p, q).overrides.fields = v /\ "fields" \in DOMAIN ItemAt(t, p, q).overrides
    BY <1>2, <2>1
  <2>3. ItemAt(t, p, q).name = ItemAt(s, p, q).name /\ {"name", "overrides"} \subseteq DOMAIN ItemAt(t, p, q)
    BY <1>2, <1>4, <1>6 DEF ItemAt
  <2> QED  BY <1>5, <1>6, <2>2, <2>3
<1>7. CASE ~(p = x[1] /\ q = x[2])
  BY <1>2, <1>4, <1>7 DEF ItemAt
<1> QED  BY <1>6, <1>7

\* A set with one more override is a set with the same places and names.
LEMMA OverrideKeepsShape ==
    ASSUME NEW s, WellFormed(s), NEW o
    PROVE  LET t == SetOverride(s, o)
           IN /\ WellFormed(t)
              /\ DOMAIN t.stages = DOMAIN s.stages
              /\ \A p \in DOMAIN s.stages : DOMAIN t.stages[p].items = DOMAIN s.stages[p].items
<1> DEFINE t == SetOverride(s, o)
           x == FindItem(s, o.item)
           v == Merge(s.stages[x[1]].items[x[2]].overrides.fields, [f \in {o.field} |-> o.value])
           w == [s.stages[x[1]] EXCEPT !.items[x[2]].overrides.fields = v]
<1>1. t = [s EXCEPT !.stages[x[1]].items[x[2]].overrides.fields = v]
  BY DEF SetOverride
<1>2. t = [s EXCEPT !.stages = [s.stages EXCEPT ![x[1]] = w]]
  BY <1>1
<1>3. {"stages", "thresholds"} \subseteq DOMAIN s /\ s.thresholds \in Seq(Limits)
      /\ DOMAIN s.stages = 1..Len(s.stages) /\ Len(s.stages) \in Nat
      /\ \A k \in DOMAIN s.stages :
            "items" \in DOMAIN s.stages[k] /\ DOMAIN s.stages[k].items \subseteq Slots
  BY DEF WellFormed
<1> HIDE DEF x, v, w
<1>4. /\ DOMAIN t = DOMAIN s /\ t.thresholds = s.thresholds
      /\ t.stages = [s.stages EXCEPT ![x[1]] = w]
  BY <1>2, <1>3
<1> HIDE DEF t
<1>5. DOMAIN t.stages = DOMAIN s.stages
  BY <1>4
<1>6. \A p \in DOMAIN s.stages :
        "items" \in DOMAIN t.stages[p] /\ DOMAIN t.stages[p].items = DOMAIN s.stages[p].items
  BY <1>3, <1>4 DEF w
<1>7. Len(t.stages) = Len(s.stages)
  <2> DEFINE n == Len(s.stages)
             S == {t.stages[k] : k \in 1..n}
  <2>0. t.stages = [k \in 1..n |-> t.stages[k]]
    <3>1. t.stages = [k \in DOMAIN s.stages |-> t.stages[k]]
      BY <1>4
    <3> QED  BY <1>3, <3>1
  <2>1. t.stages \in [1..n -> S] /\ n \in Nat
    <3> DEFINE h(k) == t.stages[k]
    <3>1. [k \in 1..n |-> h(k)] \in [1..n -> {h(k) : k \in 1..n}]
      OBVIOUS
    <3> QED  BY <1>3, <2>0, <3>1
  <2>2. t.stages \in Seq(S)
    <3>1. ASSUME NEW T, NEW m \in Nat, NEW f \in [1..m -> T]
          PROVE  f \in Seq(T)
      BY SeqDef
    <3> HIDE DEF n, S
    <3> QED  BY <2>1, <3>1
  <2> HIDE DEF S
  <2>3. DOMAIN t.stages = 1..Len(t.stages) /\ Len(t.stages) \in Nat
    BY <2>2, LenProperties
  <2> QED  BY <1>3, <1>5, <2>3
<1>8. \A p \in DOMAIN s.stages : \A q \in DOMAIN s.stages[p].items :
        /\ {"name", "overrides"} \subseteq DOMAIN t.stages[p].items[q]
        /\ "fields" \in DOMAIN t.stages[p].items[q].overrides
  <2> SUFFICES ASSUME NEW p \in DOMAIN s.stages, NEW q \in DOMAIN s.stages[p].items
               PROVE  /\ {"name", "overrides"} \subseteq DOMAIN ItemAt(t, p, q)
                      /\ "fields" \in DOMAIN ItemAt(t, p, q).overrides
    BY DEF ItemAt
  <2>1. x = FindItem(s, o.item) /\ t = SetOverride(s, o)
    BY DEF x, t
  <2>2. "name" \in DOMAIN ItemAt(t, p, q)
    BY <2>1, OneOverride
  <2>3. "overrides" \in DOMAIN ItemAt(t, p, q)
    BY <2>1, OneOverride
  <2>4. "fields" \in DOMAIN ItemAt(t, p, q).overrides
    BY <2>1, OneOverride
  <2> QED  BY <2>2, <2>3, <2>4
<1>9. WellFormed(t)
  BY <1>3, <1>4, <1>5, <1>6, <1>7, <1>8 DEF WellFormed
<1> QED  BY <1>5, <1>6, <1>9 DEF t

\* findItem finds an item of that name, when there is one.
LEMMA FindsItem ==
    ASSUME NEW s, WellFormed(s), NEW n, Named(s, n) # {}
    PROVE  FindItem(s, n) \in Named(s, n)
<1> DEFINE A == {x[1] : x \in Named(s, n)}
<1>1. A \subseteq Nat /\ A # {}
  BY DEF Named, Positions, WellFormed
<1>2. PICK a \in A : \A j \in A : a <= j
  <2> HIDE DEF A
  <2> QED  BY <1>1, LeastNat
<1> DEFINE B == {x[2] : x \in {y \in Named(s, n) : y[1] = a}}
<1>3. B \subseteq Nat /\ B # {}
  <2>1. \A x \in Named(s, n) : x[2] \in Nat
    BY DocsAssumption DEF Named, Positions
  <2>2. \E x \in Named(s, n) : x[1] = a
    OBVIOUS
  <2> QED  BY <2>1, <2>2
<1>4. PICK b \in B : \A j \in B : b <= j
  <2> HIDE DEF B
  <2> QED  BY <1>3, LeastNat
<1>5. PICK x \in Named(s, n) : x[1] = a /\ x[2] = b
  BY <1>4
<1>6. ASSUME NEW y \in Named(s, n)
      PROVE  Before(x, y)
  <2>1. y[1] \in A /\ y[1] \in Nat /\ a \in Nat
    BY <1>1
  <2>2. y[1] = a => y[2] \in B
    OBVIOUS
  <2> HIDE DEF A, B
  <2> QED  BY <1>2, <1>4, <1>5, <2>1, <2>2 DEF Before
<1> QED  BY <1>5, <1>6 DEF FindItem

LEMMA OnlyOne ==
    ASSUME NEW s, WellFormed(s), NEW n, Cardinality(Named(s, n)) = 1, NEW x \in Named(s, n)
    PROVE  \A y \in Named(s, n) : y = x
<1>1. IsFiniteSet((1..Len(s.stages)) \X Slots)
  <2>1. IsFiniteSet(1..Len(s.stages))
    BY FS_Interval DEF WellFormed
  <2> QED  BY <2>1, DocsAssumption, FS_Product
<1>2. Named(s, n) \subseteq (1..Len(s.stages)) \X Slots
  BY DEF Named, Positions, WellFormed
<1>3. IsFiniteSet(Named(s, n))
  BY <1>1, <1>2, FS_Subset
<1>4. PICK z : Named(s, n) = {z}
  BY <1>3, FS_Singleton
<1> QED  BY <1>4

FieldsAt(s, x) == ItemAt(s, x[1], x[2]).overrides.fields

LEMMA OneMore ==
    ASSUME NEW s, WellFormed(s), NEW o, Named(s, o.item) # {}
    PROVE  LET t == SetOverride(s, o)
           IN /\ WellFormed(t)
              /\ Positions(t) = Positions(s)
              /\ \A x \in Positions(s) :
                    /\ NameAt(t, x) = NameAt(s, x)
                    /\ FieldsAt(t, x) = IF x = FindItem(s, o.item)
                                        THEN Merge(FieldsAt(s, x), [f \in {o.field} |-> o.value])
                                        ELSE FieldsAt(s, x)
<1> DEFINE t == SetOverride(s, o)
<1>1. WellFormed(t) /\ Positions(t) = Positions(s)
  BY OverrideKeepsShape DEF Positions
<1>2. FindItem(s, o.item) \in (DOMAIN s.stages) \X Slots
  BY FindsItem DEF Named, Positions
<1>3. ASSUME NEW x \in Positions(s)
      PROVE  /\ NameAt(t, x) = NameAt(s, x)
             /\ FieldsAt(t, x) = IF x = FindItem(s, o.item)
                                 THEN Merge(FieldsAt(s, x), [f \in {o.field} |-> o.value])
                                 ELSE FieldsAt(s, x)
  <2>1. /\ x \in (DOMAIN s.stages) \X Slots
        /\ x[1] \in DOMAIN s.stages /\ x[2] \in DOMAIN s.stages[x[1]].items
    BY DEF Positions
  <2>2. x = FindItem(s, o.item) <=> (x[1] = FindItem(s, o.item)[1] /\ x[2] = FindItem(s, o.item)[2])
    BY <1>2, <2>1
  <2>3. /\ ItemAt(t, x[1], x[2]).name = ItemAt(s, x[1], x[2]).name
        /\ FieldsAt(t, x) = IF x[1] = FindItem(s, o.item)[1] /\ x[2] = FindItem(s, o.item)[2]
                            THEN Merge(FieldsAt(s, x), [f \in {o.field} |-> o.value])
                            ELSE FieldsAt(s, x)
    BY <2>1, OneOverride DEF FieldsAt
  <2> HIDE DEF t
  <2>4. NameAt(t, x) = NameAt(s, x)
    BY <2>3 DEF NameAt, ItemAt
  <2> QED  BY <2>2, <2>3, <2>4
<1> QED  BY <1>1, <1>3

\* The last word of the flags on a field of the only item of its name.
LastWord(os, k) == \A j \in DOMAIN os :
    os[j].item = os[k].item /\ os[j].field = os[k].field => j <= k
Said(s, x, o) == o.field \in DOMAIN FieldsAt(s, x) /\ FieldsAt(s, x)[o.field] = o.value

LEMMA AllFlagsSaid ==
    ASSUME NEW s, WellFormed(s), NEW os, Len(os) \in Nat, DOMAIN os = 1..Len(os),
           \A k \in DOMAIN os : Named(s, os[k].item) # {}
    PROVE  LET t == WithOverrides(s, os)
           IN /\ WellFormed(t)
              /\ \A k \in DOMAIN os : \A x \in Named(t, os[k].item) :
                    Cardinality(Named(t, os[k].item)) = 1 /\ LastWord(os, k) => Said(t, x, os[k])
<1>1. PICK g : /\ WithOverrides(s, os) = g[Len(os)]
               /\ g[0] = s
               /\ \A k \in 1..Len(os) : g[k] = SetOverride(g[k - 1], os[k])
  BY FlagByFlag
<1> DEFINE
      Alike(n) == /\ WellFormed(g[n])
                  /\ Positions(g[n]) = Positions(s)
                  /\ \A x \in Positions(s) : NameAt(g[n], x) = NameAt(s, x)
      SaidSoFar(n) == \A k \in 1..n : \A x \in Named(s, os[k].item) :
          (\A y \in Named(s, os[k].item) : y = x) /\ LastWord(os, k) => Said(g[n], x, os[k])
      C == {n \in 0..Len(os) : ~(Alike(n) /\ SaidSoFar(n))}
<1>2. ASSUME NEW n \in 1..Len(os), Alike(n - 1), SaidSoFar(n - 1)
      PROVE  Alike(n) /\ SaidSoFar(n)
  <2> DEFINE a == g[n - 1]
             o == os[n]
             z == FindItem(a, o.item)
  <2>1. g[n] = SetOverride(a, o)
    BY <1>1
  <2>2. \A m : Named(a, m) = Named(s, m)
    BY <1>2 DEF Named
  <2>3. WellFormed(a) /\ Named(a, o.item) # {}
    BY <1>2, <2>2
  <2>4. z \in Named(s, o.item)
    BY <2>2, <2>3, FindsItem
  <2>5. /\ WellFormed(g[n]) /\ Positions(g[n]) = Positions(a)
        /\ \A x \in Positions(a) :
              /\ NameAt(g[n], x) = NameAt(a, x)
              /\ FieldsAt(g[n], x) = IF x = z THEN Merge(FieldsAt(a, x), [f \in {o.field} |-> o.value])
                                     ELSE FieldsAt(a, x)
    <3> HIDE DEF a, o, z
    <3>1. /\ WellFormed(SetOverride(a, o)) /\ Positions(SetOverride(a, o)) = Positions(a)
          /\ \A x \in Positions(a) :
                /\ NameAt(SetOverride(a, o), x) = NameAt(a, x)
                /\ FieldsAt(SetOverride(a, o), x) =
                      IF x = FindItem(a, o.item)
                      THEN Merge(FieldsAt(a, x), [f \in {o.field} |-> o.value])
                      ELSE FieldsAt(a, x)
      BY <2>3, OneMore
    <3> QED  BY <2>1, <3>1 DEF z
  <2>6. Alike(n)
    BY <1>2, <2>5
  <2>7. SaidSoFar(n)
    <3> SUFFICES ASSUME NEW k \in 1..n, NEW x \in Named(s, os[k].item),
                        \A y \in Named(s, os[k].item) : y = x, LastWord(os, k)
                 PROVE  Said(g[n], x, os[k])
      OBVIOUS
    <3>1. x \in Positions(a) /\ NameAt(s, x) = os[k].item
      BY <1>2 DEF Named
    <3>2. CASE k = n
      <4>1. x = z
        BY <2>4, <3>2
      <4>2. FieldsAt(g[n], x) = Merge(FieldsAt(a, x), [f \in {o.field} |-> o.value])
        BY <2>5, <3>1, <4>1
      <4> QED  BY <3>2, <4>2 DEF Said, Merge
    <3>3. CASE k # n
      <4>0. k \in 1..n - 1
        BY <3>3
      <4>1. Said(a, x, os[k])
        <5> HIDE DEF LastWord
        <5> QED  BY <1>2, <4>0
      <4>2. ~(os[n].item = os[k].item /\ os[n].field = os[k].field)
        BY <3>3 DEF LastWord
      <4>3. CASE x = z
        <5>1. NameAt(s, z) = o.item
          BY <2>4 DEF Named
        <5>2. o.field # os[k].field
          BY <3>1, <4>2, <4>3, <5>1
        <5>3. FieldsAt(g[n], x) = Merge(FieldsAt(a, x), [f \in {o.field} |-> o.value])
          BY <2>5, <3>1, <4>3
        <5> QED  BY <4>1, <5>2, <5>3 DEF Said, Merge
      <4>4. CASE x # z
        <5>1. FieldsAt(g[n], x) = FieldsAt(a, x)
          BY <2>5, <3>1, <4>4
        <5> QED  BY <4>1, <5>1 DEF Said
      <4> QED  BY <4>3, <4>4
    <3> QED  BY <3>2, <3>3
  <2> QED  BY <2>6, <2>7
<1>3. Alike(0) /\ SaidSoFar(0)
  BY <1>1
<1> HIDE DEF Alike, SaidSoFar
<1>4. C = {}
  <2> SUFFICES ASSUME C # {} PROVE FALSE
    OBVIOUS
  <2>0. C \subseteq Nat
    OBVIOUS
  <2>1. PICK n \in C : \A j \in C : n <= j
    <3> HIDE DEF C
    <3> QED  BY <2>0, LeastNat
  <2>2. n # 0
    BY <1>3
  <2>3. n \in 1..Len(os) /\ n - 1 \in 0..Len(os) /\ n - 1 \notin C
    BY <2>1, <2>2
  <2> QED  BY <1>2, <2>1, <2>3
<1>5. Alike(Len(os)) /\ SaidSoFar(Len(os))
  BY <1>4
<1> DEFINE t == g[Len(os)]
<1>6. WellFormed(t) /\ \A m : Named(t, m) = Named(s, m)
  BY <1>5 DEF Alike, Named
<1>7. ASSUME NEW k \in DOMAIN os, NEW x \in Named(t, os[k].item),
             Cardinality(Named(t, os[k].item)) = 1, LastWord(os, k)
      PROVE  Said(t, x, os[k])
  <2>1. \A y \in Named(s, os[k].item) : y = x
    BY <1>6, <1>7, OnlyOne
  <2> QED  BY <1>5, <1>6, <1>7, <2>1 DEF SaidSoFar
<1> QED  BY <1>1, <1>6, <1>7

LEMMA FlagsApplied ==
    ASSUME NEW s \in SetDocs, NEW f \in Flags, ~UnknownItem(s, f), NEW m, m = WithFlags(s, f)
    PROVE  /\ WellFormed(m)
           /\ \A k \in DOMAIN f.thresholds : \E j \in DOMAIN m.thresholds :
                 m.thresholds[j] = f.thresholds[k]
           /\ \A k \in DOMAIN f.overrides : \A x \in Named(m, f.overrides[k].item) :
                 Cardinality(Named(m, f.overrides[k].item)) = 1 /\ LastWord(f.overrides, k)
                    => Said(m, x, f.overrides[k])
<1> DEFINE os == f.overrides
           t == [s EXCEPT !.thresholds = @ \o f.thresholds]
<1>1. WellFormed(s) /\ Len(os) \in Nat /\ DOMAIN os = 1..Len(os)
  BY DocsAssumption
<1>2. /\ s.thresholds \in Seq(Limits) /\ f.thresholds \in Seq(Limits)
      /\ s.thresholds \o f.thresholds \in Seq(Limits)
      /\ m.thresholds = s.thresholds \o f.thresholds
  BY FlagsShape
<1>3. m = WithOverrides(t, os)
  BY DEF WithFlags
<1>4. DOMAIN t = DOMAIN s /\ t.stages = s.stages /\ t.thresholds = s.thresholds \o f.thresholds
  BY <1>1 DEF WellFormed
<1> HIDE DEF t
<1>5. WellFormed(t)
  BY <1>1, <1>2, <1>4 DEF WellFormed
<1>6. \A n : Named(t, n) = Named(s, n)
  BY <1>4 DEF Named, Positions, NameAt
<1>7. \A k \in DOMAIN os : Named(t, os[k].item) # {}
  BY <1>6 DEF UnknownItem
<1>8. /\ WellFormed(m)
      /\ \A k \in DOMAIN os : \A x \in Named(m, os[k].item) :
            Cardinality(Named(m, os[k].item)) = 1 /\ LastWord(os, k) => Said(m, x, os[k])
  <2> HIDE DEF os
  <2> QED  BY <1>1, <1>3, <1>5, <1>7, AllFlagsSaid
<1>9. ASSUME NEW k \in DOMAIN f.thresholds
      PROVE  \E j \in DOMAIN m.thresholds : m.thresholds[j] = f.thresholds[k]
  <2> DEFINE a == s.thresholds
             b == f.thresholds
             j == Len(a) + k
  <2>1. /\ Len(a) \in Nat /\ Len(b) \in Nat /\ k \in 1..Len(b)
        /\ DOMAIN (a \o b) = 1..Len(a \o b)
    BY <1>2, LenProperties
  <2>2. /\ Len(a \o b) = Len(a) + Len(b)
        /\ \A i \in 1..Len(a) + Len(b) : (a \o b)[i] = IF i <= Len(a) THEN a[i] ELSE b[i - Len(a)]
    BY <1>2, ConcatProperties
  <2> HIDE DEF a, b
  <2>3. j \in DOMAIN (a \o b) /\ ~(j <= Len(a)) /\ j - Len(a) = k
    BY <2>1, <2>2
  <2>4. (a \o b)[j] = b[k]
    BY <2>1, <2>2, <2>3
  <2> QED  BY <1>2, <2>3, <2>4 DEF a, b
<1> QED  BY <1>8, <1>9

\* Every set that the store may hold is one.
LEMMA StoredSetsWellFormed ==
    ASSUME NEW s \in StoredSets
    PROVE  WellFormed(s)
<1>1. CASE s \in SetDocs
  BY <1>1, DocsAssumption
<1>2. CASE s \notin SetDocs
  <2>1. PICK x \in SetDocs \X Flags : ~UnknownItem(x[1], x[2]) /\ s = WithFlags(x[1], x[2])
    BY <1>2 DEF StoredSets
  <2>2. x[1] \in SetDocs /\ x[2] \in Flags
    OBVIOUS
  <2> QED  BY <2>1, <2>2, FlagsApplied
<1> QED  BY <1>1, <1>2

---------------------------------------------------------------------------
LEMMA InitIInv == Init => IInv
<1> SUFFICES ASSUME Init PROVE IInv
  OBVIOUS
<1> PICK f \in InitFiles : StoreInit(f)
  BY DEF Init
<1>1. f \in [Paths -> Docs \cup {Absent}]
  BY SetCommandsAssumption DEF InitFiles, StoredSets
<1>2. StoreInv
  BY <1>1, StoreInvInit
<1>3. OwnerInv
  BY SetCommandsAssumption DEF OwnerInv, StoreInit, Resting
<1>4. SavedInv
  BY SetCommandsAssumption DEF SavedInv, StoreInit, Resting, Init, InitFiles, StoredSets, Paths
<1>5. CmdInv
  BY SetCommandsAssumption DEF CmdInv, StoreInit, Resting, Init, RunInit
<1>6. RecordInv
  BY SetCommandsAssumption DEF RecordInv, StoreInit, Init, RunInit, InitFiles
<1>7. StageInv
  BY DEF StageInv, Init, RunInit
<1> QED  BY <1>2, <1>3, <1>4, <1>5, <1>6, <1>7 DEF IInv

---------------------------------------------------------------------------
\* Editors do nothing but work on the store, away from the record.
EditorMoves(e) == EditorBegins(e) \/ EditorStep(e) \/ EditorDies(e)

LEMMA EditorFrame ==
    ASSUME IInv, NEW e \in Editors, EditorMoves(e)
    PROVE  /\ UNCHANGED <<runVars, caller, flags, cmd, mine, exit>>
           /\ step'[Main] = step[Main] /\ at'[Main] = at[Main] /\ doc'[Main] = doc[Main]
           /\ file'[Record] = file[Record] /\ temp'[Record] = temp[Record]
           /\ at[Main] = Record => fd'[Main] = fd[Main]
<1> USE SetCommandsAssumption DEF IInv, StoreInv, StoreTypeOK, Paths
<1>1. CASE EditorBegins(e)
  <2>1. UNCHANGED <<runVars, caller, flags, cmd, mine, exit>>
    BY <1>1 DEF EditorBegins
  <2>2. CASE \E path \in Paths, d \in Docs \cup SetDocs \cup Configs : BeginSave(e, path, d)
    BY <2>1, <2>2 DEF BeginSave
  <2>3. CASE \E x \in SetPaths \cup SessionPaths : Remove(e, x)
    BY <2>1, <2>3, StoreAssumption DEF Remove, Unlinked
  <2> QED  BY <1>1, <2>2, <2>3 DEF EditorBegins
<1>2. CASE EditorStep(e)
  <2>1. at[e] # Record /\ ~Resting(e)
    BY <1>2 DEF EditorStep, OwnerInv, Resting, StoreStep, OpenLock, AcquireLock, CreateTemp,
                WriteTemp, RenameTemp, WriteFails, RenameFails, RemoveLock
  <2>2. UNCHANGED <<runVars, caller, flags, cmd, mine, exit>>
    BY <1>2 DEF EditorStep
  <2>3. CASE OpenLock(e) \/ AcquireLock(e) \/ WriteFails(e) \/ RemoveLock(e)
    BY <2>1, <2>2, <2>3 DEF OpenLock, AcquireLock, WriteFails, RemoveLock
  <2>4. CASE CreateTemp(e)
    BY <2>1, <2>2, <2>4 DEF CreateTemp
  <2>5. CASE WriteTemp(e)
    BY <2>1, <2>2, <2>5 DEF WriteTemp
  <2>6. CASE RenameTemp(e)
    BY <2>1, <2>2, <2>6 DEF RenameTemp, Renamed
  <2>7. CASE RenameFails(e)
    BY <2>1, <2>2, <2>7 DEF RenameFails
  <2> QED  BY <1>2, <2>3, <2>4, <2>5, <2>6, <2>7 DEF EditorStep, StoreStep
<1>3. CASE EditorDies(e)
  BY <1>3 DEF EditorDies, Die, cmdVars
<1> QED  BY <1>1, <1>2, <1>3 DEF EditorMoves

\* Every step is one of the store's, or leaves the store alone.
LEMMA StoreSteps ==
    ASSUME IInv, [Next]_vars
    PROVE  [StoreNext]_storeVars
<1> USE SetCommandsAssumption DEF StoreNext
<1>1. CASE UNCHANGED vars
  BY <1>1 DEF vars, storeVars
<1>2. CASE Command
  <2>1. CASE SaveMine
    BY <2>1 DEF SaveMine, IInv, SavedInv, Paths
  <2> QED  BY <1>2, <2>1 DEF Command, FireRun, GetAndMerge, MineSaved, Report
<1>3. CASE CancelJob
  BY <1>3 DEF CancelJob, Cancel
<1>4. CASE MainDies
  BY <1>4 DEF MainDies, Crash
<1>5. CASE MainStores
  BY <1>5 DEF MainStores
<1>6. CASE RunnerSteps
  <2>1. CASE CreateSetRun
    BY <2>1 DEF CreateSetRun, Paths
  <2>2. CASE Judge
    BY <2>2 DEF Judge, IInv, StageInv, Final, Paths
  <2>3. CASE \E i \in Slots : ItemStep(i)
    BY <2>3 DEF ItemStep, GetSession, BuildFails, ItemRuns, MergeItem
  <2> QED
    BY <1>6, <2>1, <2>2, <2>3
    DEF RunnerSteps, RunStep, ReadSet, SetRunCreated, StartStage, EndStage, LastStage, Finalized
<1>7. ASSUME NEW e \in Editors, EditorMoves(e)
      PROVE  [StoreNext]_storeVars
  <2>1. CASE EditorBegins(e)
    BY <2>1 DEF EditorBegins, Paths, StoredSets
  <2>2. CASE EditorStep(e)
    BY <2>2 DEF EditorStep
  <2>3. CASE EditorDies(e)
    BY <2>3 DEF EditorDies
  <2> QED  BY <1>7, <2>1, <2>2, <2>3 DEF EditorMoves
<1> QED  BY <1>1, <1>2, <1>3, <1>4, <1>5, <1>6, <1>7 DEF Next, EditorMoves

---------------------------------------------------------------------------
LEMMA OwnerInvStep ==
    ASSUME IInv, [Next]_vars
    PROVE  OwnerInv'
<1> USE SetCommandsAssumption DEF IInv, OwnerInv, Resting, StoreInv, StoreTypeOK
<1>1. CASE UNCHANGED vars
  BY <1>1 DEF vars, storeVars
<1>2. ASSUME step' = [step EXCEPT ![Main] = step'[Main]], at' = [at EXCEPT ![Main] = at'[Main]]
      PROVE  OwnerInv'
  BY <1>2
<1>3. ASSUME NEW e \in Editors, EditorMoves(e)
      PROVE  OwnerInv'
  <2>1. CASE EditorBegins(e)
    BY <2>1, StoreAssumption DEF EditorBegins, BeginSave, Remove
  <2>2. CASE EditorStep(e)
    BY <2>2 DEF EditorStep, StoreStep, OpenLock, AcquireLock, CreateTemp, WriteTemp, RenameTemp,
                WriteFails, RenameFails, RemoveLock
  <2>3. CASE EditorDies(e)
    BY <2>3 DEF EditorDies, Die
  <2> QED  BY <1>3, <2>1, <2>2, <2>3 DEF EditorMoves
<1>4. CASE Command \/ CancelJob \/ MainDies \/ MainStores \/ RunnerSteps
  <2>1. CASE SaveMine
    BY <2>1, <1>2 DEF SaveMine, BeginSave, storeVars
  <2>2. CASE CreateSetRun \/ Judge
    BY <2>2, <1>2 DEF CreateSetRun, Judge, BeginRecord
  <2>3. CASE MainStores
    BY <2>3, <1>2 DEF MainStores, StoreStep, OpenLock, AcquireLock, CreateTemp, WriteTemp, RenameTemp,
                WriteFails, RenameFails, RemoveLock
  <2>4. CASE MainDies
    BY <2>4, <1>2 DEF MainDies, Crash, Die
  <2>5. CASE UNCHANGED storeVars
    BY <2>5 DEF storeVars
  <2> QED
    BY <1>4, <2>1, <2>2, <2>3, <2>4, <2>5
    DEF Command, FireRun, GetAndMerge, MineSaved, Report, CancelJob, Cancel, RunnerSteps, RunStep,
        ReadSet, SetRunCreated, StartStage, EndStage, LastStage, Finalized,
        ItemStep, GetSession, BuildFails, ItemRuns, MergeItem
<1> QED  BY <1>1, <1>3, <1>4 DEF Next, EditorMoves

---------------------------------------------------------------------------
LEMMA CmdInvStep ==
    ASSUME IInv, [Next]_vars
    PROVE  CmdInv'
<1> USE SetCommandsAssumption DEF IInv, CmdInv, Resting, StoreInv, StoreTypeOK
<1>1. CASE UNCHANGED vars
  BY <1>1 DEF vars, storeVars, runVars, cmdVars
<1>2. ASSUME NEW e \in Editors, EditorMoves(e)
      PROVE  CmdInv'
  BY <1>2, EditorFrame DEF runVars
<1>3. CASE MainStores
  <2>1. pc' = pc /\ cmd' = cmd /\ at' = at /\ step[Main] \notin {"idle", "ok", "err"}
    BY <1>3 DEF MainStores, runVars, StoreStep, OpenLock, AcquireLock, CreateTemp, WriteTemp,
                RenameTemp, WriteFails, RenameFails, RemoveLock
  <2> QED  BY <2>1
<1>4. CASE MainDies
  BY <1>4 DEF MainDies, Crash, Die
<1>5. CASE CancelJob
  BY <1>5 DEF CancelJob, Cancel, storeVars, cmdVars
<1>6. CASE Command
  <2>1. CASE SaveMine
    BY <2>1 DEF SaveMine, BeginSave, storeVars, runVars, Exit
  <2>2. CASE FireRun \/ GetAndMerge \/ MineSaved \/ Report
    BY <2>2 DEF FireRun, GetAndMerge, MineSaved, Report, storeVars, runVars, Exit
  <2> QED  BY <1>6, <2>1, <2>2 DEF Command
<1>7. CASE RunnerSteps
  <2>1. UNCHANGED cmdVars
    BY <1>7 DEF RunnerSteps
  <2>2. CASE CreateSetRun \/ Judge
    BY <2>1, <2>2 DEF CreateSetRun, Judge, BeginRecord, cmdVars
  <2>3. CASE \E i \in Slots : ItemStep(i)
    <3>1. pc' = pc /\ UNCHANGED storeVars
      BY <2>3 DEF ItemStep, GetSession, BuildFails, ItemRuns, MergeItem
    <3> QED  BY <2>1, <3>1 DEF cmdVars, storeVars
  <2>4. CASE ReadSet \/ SetRunCreated \/ StartStage \/ EndStage \/ LastStage \/ Finalized
    BY <2>1, <2>4 DEF ReadSet, SetRunCreated, StartStage, EndStage, LastStage, Finalized, Fail,
                      cmdVars, storeVars
  <2> QED  BY <1>7, <2>2, <2>3, <2>4 DEF RunnerSteps, RunStep
<1> QED  BY <1>1, <1>2, <1>3, <1>4, <1>5, <1>6, <1>7 DEF Next, EditorMoves

LEMMA SavedInvStep ==
    ASSUME IInv, [Next]_vars
    PROVE  SavedInv'
<1> USE SetCommandsAssumption DEF IInv, SavedInv, Resting, StoreInv, StoreTypeOK, Paths
<1>1. CASE UNCHANGED vars
  BY <1>1 DEF vars, storeVars, runVars, cmdVars
<1>2. SetFile \notin RecordPaths /\ SetFile \notin SessionPaths
  BY StoreAssumption
\* Whoever renames <set>.tmp has written his document to it.
<1>3. ASSUME NEW p \in Procs, StoreStep(p),
             UNCHANGED <<cmd, mine, flags>>
      PROVE  SavedInv'
  <2>1. doc' = doc /\ at' = at /\ \A q \in Procs : step'[q] # step[q] => q = p /\ ~Resting(p)
    BY <1>3 DEF StoreStep, OpenLock, AcquireLock, CreateTemp, WriteTemp, RenameTemp, WriteFails,
                RenameFails, RemoveLock
  <2>2. CASE RenameTemp(p) /\ at[p] = SetFile
    <3>1. temp[SetFile] = doc[p]
      BY <2>2 DEF RenameTemp, TempInv, Guarded, GenInv, Locked
    <3>2. file'[SetFile] = doc[p]
      BY <2>2, <3>1 DEF RenameTemp
    <3>3. ~Resting(p)
      BY <2>2 DEF RenameTemp
    <3>4. p = Main => cmd = "saving"
      BY <3>3, <1>2, <2>2 DEF CmdInv, RecordInv, Recording
    <3>5. doc[p] \in StoredSets /\ (cmd = "get" => doc[p] \in SetDocs)
      BY <2>2, <3>3, <3>4 DEF StoredSets
    <3> QED  BY <1>3, <2>1, <3>2, <3>5
  <2>3. CASE WriteTemp(p)
    <3>1. at[p] = SetFile => fd[p] = "temp"
      BY <2>3 DEF WriteTemp, TempInv, Guarded, GenInv, Locked
    <3>2. file'[SetFile] = file[SetFile]
      BY <2>3, <3>1 DEF WriteTemp
    <3> QED  BY <1>3, <2>1, <3>2
  <2>4. CASE ~WriteTemp(p) /\ ~(RenameTemp(p) /\ at[p] = SetFile)
    <3>1. file'[SetFile] = file[SetFile]
      BY <1>3, <2>4 DEF StoreStep, OpenLock, AcquireLock, CreateTemp, RenameTemp, WriteFails,
                  RenameFails, RemoveLock
    <3> QED  BY <1>3, <2>1, <3>1
  <2> QED  BY <2>2, <2>3, <2>4
<1>4. ASSUME NEW e \in Editors, EditorMoves(e)
      PROVE  SavedInv'
  <2>1. UNCHANGED <<cmd, mine, flags>>
    BY <1>4, EditorFrame
  <2>2. CASE EditorStep(e)
    BY <1>3, <2>1, <2>2 DEF EditorStep
  <2>3. CASE EditorDies(e)
    BY <2>1, <2>3 DEF EditorDies, Die
  <2>4. CASE \E s \in SetDocs : BeginSave(e, SetFile, s)
    BY <2>1, <2>4 DEF BeginSave
  <2>5. CASE \E x \in SessionPaths, c \in Configs : BeginSave(e, x, c)
    BY <1>2, <2>1, <2>5 DEF BeginSave
  <2>6. CASE \E x \in SetPaths \cup SessionPaths : Remove(e, x)
    BY <1>2, <2>1, <2>6 DEF Remove
  <2> QED  BY <1>4, <2>2, <2>3, <2>4, <2>5, <2>6 DEF EditorMoves, EditorBegins
<1>5. CASE MainStores
  BY <1>3, <1>5 DEF MainStores
<1>6. CASE MainDies
  BY <1>6 DEF MainDies, Crash, Die
<1>7. CASE CancelJob
  BY <1>7 DEF CancelJob, Cancel, storeVars, cmdVars
<1>8. CASE Command
  <2>1. CASE SaveMine
    BY <2>1 DEF SaveMine, BeginSave, storeVars, runVars, Exit
  <2>2. CASE GetAndMerge
    <3>1. cmd' # "get" /\ (cmd' = "save" => mine' \in StoredSets)
      <4>1. CASE ~(~Readable(SetFile) \/ UnknownItem(DocOr(SetFile, EmptySet), flags))
        <5>1. DocOr(SetFile, EmptySet) = file[SetFile] /\ file[SetFile] \in SetDocs
          BY <2>2, <4>1, StoreAssumption DEF GetAndMerge, Readable, DocOr, StoredSets
        <5>2. mine' = WithFlags(file[SetFile], flags) /\ cmd' = "save"
          BY <2>2, <4>1, <5>1 DEF GetAndMerge
        <5>3. <<file[SetFile], flags>> \in {y \in SetDocs \X Flags : ~UnknownItem(y[1], y[2])}
          BY <4>1, <5>1
        <5>4. \A x \in {y \in SetDocs \X Flags : ~UnknownItem(y[1], y[2])} :
                 WithFlags(x[1], x[2]) \in StoredSets
          BY DEF StoredSets
        <5>5. WithFlags(<<file[SetFile], flags>>[1], <<file[SetFile], flags>>[2]) \in StoredSets
          BY <5>3, <5>4
        <5> QED  BY <5>2, <5>5
      <4>2. CASE ~Readable(SetFile) \/ UnknownItem(DocOr(SetFile, EmptySet), flags)
        BY <2>2, <4>2 DEF GetAndMerge, Exit
      <4> QED  BY <4>1, <4>2
    <3> QED  BY <2>2, <3>1 DEF GetAndMerge, storeVars, Exit
  <2>3. CASE FireRun \/ MineSaved \/ Report
    BY <2>3 DEF FireRun, MineSaved, Report, storeVars, runVars, Exit
  <2> QED  BY <1>8, <2>1, <2>2, <2>3 DEF Command
<1>9. CASE RunnerSteps
  <2>1. UNCHANGED <<cmd, mine, flags>>
    BY <1>9 DEF RunnerSteps, cmdVars
  <2>2. CASE CreateSetRun \/ Judge
    BY <1>2, <2>1, <2>2 DEF CreateSetRun, Judge, BeginRecord
  <2>3. CASE UNCHANGED storeVars
    BY <2>1, <2>3 DEF storeVars
  <2> QED
    BY <1>9, <2>2, <2>3
    DEF RunnerSteps, RunStep, ReadSet, SetRunCreated, StartStage, EndStage, LastStage, Finalized,
        ItemStep, GetSession, BuildFails, ItemRuns, MergeItem
<1> QED  BY <1>1, <1>4, <1>5, <1>6, <1>7, <1>8, <1>9 DEF Next, EditorMoves

---------------------------------------------------------------------------
LEMMA RecordingStep ==
    ASSUME IInv, NEW s, NEW before, Recording(s, before), StoreStep(Main)
    PROVE  Recording(s, before)'
<1> USE SetCommandsAssumption, StoreAssumption DEF Recording, IInv, StoreInv, StoreTypeOK, Paths
<1>1. CASE CreateTemp(Main)
  BY <1>1 DEF CreateTemp
<1>2. CASE WriteTemp(Main)
  BY <1>2 DEF WriteTemp, Overlay
<1>3. CASE RenameTemp(Main)
  BY <1>3 DEF RenameTemp
<1>4. CASE WriteFails(Main) \/ RenameFails(Main)
  BY <1>4 DEF WriteFails, RenameFails
<1> QED
  BY <1>1, <1>2, <1>3, <1>4 DEF StoreStep, OpenLock, AcquireLock, RemoveLock

LEMMA RecordInvStep ==
    ASSUME IInv, [Next]_vars
    PROVE  RecordInv'
<1> USE SetCommandsAssumption DEF IInv, RecordInv, StoreInv, StoreTypeOK, Paths
<1>0. Record \notin SetPaths \cup SessionPaths
  BY StoreAssumption
<1>1. CASE UNCHANGED vars
  BY <1>1 DEF vars, storeVars, runVars, cmdVars, Recording
<1>2. ASSUME NEW e \in Editors, EditorMoves(e)
      PROVE  RecordInv'
  BY <1>2, EditorFrame DEF runVars, Recording
<1>3. CASE MainStores
  <2>1. UNCHANGED <<pc, status>> /\ StoreStep(Main) /\ ~Resting(Main)
    BY <1>3 DEF MainStores, runVars, Resting, StoreStep, OpenLock, AcquireLock, CreateTemp,
                WriteTemp, RenameTemp, WriteFails, RenameFails, RemoveLock
  <2>2. CASE pc = "creating"
    BY <2>1, <2>2, RecordingStep
  <2>3. CASE pc = "finalizing"
    <3>1. PICK s : s = status
      OBVIOUS
    <3>2. Recording(s, RunDoc("running"))
      BY <2>3, <3>1
    <3>3. Recording(s, RunDoc("running"))'
      BY <2>1, <3>2, RecordingStep
    <3> QED  BY <2>1, <2>3, <3>1, <3>3 DEF Recording
  <2>4. CASE pc = "idle"
    <3>1. at[Main] = SetFile
      BY <2>1, <2>4 DEF CmdInv
    <3>2. file'[Record] = file[Record]
      BY <1>0, <2>1, <3>1 DEF StoreStep, OpenLock, AcquireLock, CreateTemp,
                WriteTemp, RenameTemp, WriteFails, RenameFails, RemoveLock
    <3> QED  BY <2>1, <2>4, <3>2
  <2> QED  BY <2>1, <2>2, <2>3, <2>4 DEF CmdInv
<1>4. CASE MainDies
  BY <1>4 DEF MainDies, Crash
<1>5. CASE CancelJob
  BY <1>5 DEF CancelJob, Cancel, storeVars, Recording
<1>6. CASE Command
  <2>1. CASE SaveMine
    BY <2>1 DEF SaveMine, BeginSave, storeVars, runVars, CmdInv
  <2>2. CASE FireRun \/ MineSaved
    BY <2>2 DEF FireRun, MineSaved, storeVars, CmdInv
  <2>3. CASE GetAndMerge \/ Report
    BY <2>3 DEF GetAndMerge, Report, storeVars, runVars, Recording
  <2> QED  BY <1>6, <2>1, <2>2, <2>3 DEF Command
<1>7. CASE RunnerSteps
  <2>1. CASE CreateSetRun
    BY <2>1 DEF CreateSetRun, BeginRecord, Recording
  <2>2. CASE Judge
    BY <2>2 DEF Judge, BeginRecord, Recording
  <2>3. CASE SetRunCreated \/ Finalized
    BY <2>3 DEF SetRunCreated, Finalized, Fail, storeVars, Recording
  <2>4. CASE \E i \in Slots : ItemStep(i)
    <3>1. pc = "items" /\ UNCHANGED <<pc, storeVars>>
      BY <2>4 DEF ItemStep, GetSession, BuildFails, ItemRuns, MergeItem
    <3> QED  BY <3>1 DEF storeVars
  <2>5. CASE ReadSet \/ StartStage \/ EndStage \/ LastStage
    BY <2>5 DEF ReadSet, StartStage, EndStage, LastStage, Fail, storeVars
  <2> QED  BY <1>7, <2>1, <2>2, <2>3, <2>4, <2>5 DEF RunnerSteps, RunStep
<1> QED  BY <1>1, <1>2, <1>3, <1>4, <1>5, <1>6, <1>7 DEF Next, EditorMoves

---------------------------------------------------------------------------
LEMMA StageInvStep ==
    ASSUME IInv, [Next]_vars
    PROVE  StageInv'
<1> USE SetCommandsAssumption DEF IInv, StageInv, MayGoOn, Items
<1>1. CASE UNCHANGED runVars
  BY <1>1 DEF runVars
<1>2. ASSUME NEW e \in Editors, EditorMoves(e)
      PROVE  StageInv'
  BY <1>1, <1>2, EditorFrame
<1>3. CASE CancelJob
  BY <1>3 DEF CancelJob, Cancel
<1>4. CASE MainDies
  BY <1>4 DEF MainDies, Crash
<1>5. CASE Command
  <2>1. CASE FireRun \/ MineSaved
    BY <2>1 DEF FireRun, MineSaved, CmdInv, runVars
  <2>2. CASE UNCHANGED runVars
    BY <1>1, <2>2
  <2> QED  BY <1>5, <2>1, <2>2 DEF Command, GetAndMerge, SaveMine, Report
<1>6. CASE RunnerSteps
  <2>1. CASE ReadSet
    <3>1. Readable(SetFile) => DocOr(SetFile, EmptySet) \in StoredSets
      BY StoreAssumption DEF Readable, DocOr, SavedInv
    <3> QED  BY <2>1, <3>1 DEF ReadSet, Fail
  <2>2. CASE CreateSetRun \/ SetRunCreated
    BY <2>2 DEF CreateSetRun, SetRunCreated, Fail
  <2>3. CASE StartStage
    <3>1. stageNo' \in 1..Len(set.stages)
      BY <2>3, StoredSetsWellFormed DEF StartStage, WellFormed
    <3>2. \A i \in Slots : itemPc'[i] = IF i \in DOMAIN set'.stages[stageNo'].items THEN "ready" ELSE "none"
      BY <2>3 DEF StartStage
    <3>3. itemPc' \in [Slots -> {"none", "ready", "build", "merge", "done"}]
      BY <2>3 DEF StartStage
    <3>4. pc' = "items" /\ set' = set /\ set \in StoredSets /\ anyFail' \in BOOLEAN
      BY <2>3 DEF StartStage
    <3> HIDE DEF Items
    <3> QED  BY <3>1, <3>2, <3>3, <3>4 DEF Items
  <2>4. CASE EndStage
    BY <2>4, StoredSetsWellFormed DEF EndStage, Final, WellFormed
  <2>5. CASE LastStage
    BY <2>5 DEF LastStage, Final
  <2>6. CASE Judge
    BY <2>6 DEF Judge, Final
  <2>7. CASE Finalized
    BY <2>7 DEF Finalized, Fail
  <2>8. ASSUME NEW i \in Slots, ItemStep(i)
        PROVE  StageInv'
    <3>1. CASE GetSession(i)
      BY <2>8, <3>1 DEF ItemStep, GetSession, Ended
    <3>2. CASE BuildFails(i) \/ ItemRuns(i)
      BY <2>8, <3>2 DEF ItemStep, BuildFails, ItemRuns, Ended
    <3>3. CASE MergeItem(i)
      BY <2>8, <3>3 DEF ItemStep, MergeItem
    <3> QED  BY <2>8, <3>1, <3>2, <3>3 DEF ItemStep
  <2> QED
    BY <1>6, <2>1, <2>2, <2>3, <2>4, <2>5, <2>6, <2>7, <2>8 DEF RunnerSteps, RunStep
<1> QED  BY <1>1, <1>2, <1>3, <1>4, <1>5, <1>6 DEF Next, EditorMoves, MainStores, vars

LEMMA InvStep ==
    ASSUME IInv, [Next]_vars
    PROVE  IInv'
<1>1. StoreInv'
  BY StoreSteps, StoreInvStep DEF IInv
<1> QED
  BY <1>1, OwnerInvStep, SavedInvStep, CmdInvStep, RecordInvStep, StageInvStep DEF IInv

LEMMA Invariance == Spec => []IInv
<1>1. IInv /\ [Next]_vars => IInv'
  BY InvStep
<1> QED  BY <1>1, InitIInv, PTL DEF Spec

\* No reader of the set ever meets half a document or two while set run, the
\* daemon and other commands save it side by side (SaveSet under its lock).
THEOREM FilesStayWhole == Spec => [](NoTornFile /\ ~Torn(SetFile))
<1>1. IInv => NoTornFile /\ ~Torn(SetFile)
  BY SetCommandsAssumption
  DEF IInv, StoreInv, StoreTypeOK, FileInv, GenInv, NoTornFile, Guarded, Locked, Paths
<1> QED  BY <1>1, Invariance, PTL

---------------------------------------------------------------------------
\* Steps that SetRun does not see.
Unseen ==
    /\ Recorded' = Recorded
    /\ set' = set \/ Recorded = "none"
    /\ UNCHANGED <<stageNo, anyFail, cancelled>>
    /\ Waiting' = Waiting /\ Underway' = Underway
    /\ (cmd # "dead")' = (cmd # "dead")

LEMMA UnseenStutters ==
    ASSUME Unseen
    PROVE  UNCHANGED Abstract!vars
<1>1. Plan' = Plan
  BY DEF Unseen, Plan
<1> QED  BY <1>1 DEF Unseen, Abstract!vars

LEMMA RefinesInit == Init => Abstract!Init
<1> SUFFICES ASSUME Init PROVE Abstract!Init
  OBVIOUS
<1>1. Recorded = "none"
  BY InitIInv DEF IInv, RecordInv, Recorded, Init, RunInit
<1> QED
  BY <1>1 DEF Init, RunInit, Abstract!Init, Plan, Waiting, Underway, Busy

\* What the record says, and that it is there.
LEMMA RecordedIs ==
    ASSUME IInv, NEW s \in Final \cup {"running"}, file[Record] = RunDoc(s)
    PROVE  Recorded = s
BY SetCommandsAssumption, StoreAssumption DEF Recorded, RunDoc, Final

LEMMA PlanIs ==
    ASSUME NEW s \in StoredSets
    PROVE  /\ s # NoSet
           /\ Len(s.stages) \in Nat
           /\ PlanOf(s) \in Seq([items : SUBSET Slots, abort : BOOLEAN])
           /\ Len(PlanOf(s)) = Len(s.stages)
           /\ \A k \in 1..Len(s.stages) :
                 /\ DOMAIN s.stages[k].items \subseteq Slots
                 /\ PlanOf(s)[k].items = DOMAIN s.stages[k].items
                 /\ PlanOf(s)[k].abort = Aborts(s.stages[k])
<1>1. WellFormed(s) /\ s # NoSet
  BY SetCommandsAssumption, StoredSetsWellFormed
<1>2. PlanOf(s) = [k \in 1..Len(s.stages) |->
                     [items |-> DOMAIN s.stages[k].items, abort |-> Aborts(s.stages[k])]]
  BY <1>1 DEF PlanOf, WellFormed
<1>3. \A k \in 1..Len(s.stages) :
        DOMAIN s.stages[k].items \in SUBSET Slots /\ Aborts(s.stages[k]) \in BOOLEAN
  BY <1>1 DEF WellFormed, Aborts
<1>4. Len(s.stages) \in Nat
  BY <1>1 DEF WellFormed
<1>5. PlanOf(s) \in [1..Len(s.stages) -> [items : SUBSET Slots, abort : BOOLEAN]]
  BY <1>2, <1>3
<1>6. PlanOf(s) \in Seq([items : SUBSET Slots, abort : BOOLEAN])
  <2>1. ASSUME NEW S, NEW n \in Nat, NEW f \in [1..n -> S]
        PROVE  f \in Seq(S)
    BY SeqDef
  <2> QED  BY <1>4, <1>5, <2>1
<1>7. Len(PlanOf(s)) = Len(s.stages)
  BY <1>4, <1>5, <1>6
<1> QED  BY <1>1, <1>2, <1>3, <1>4, <1>6, <1>7

LEMMA SameRecord ==
    ASSUME file'[Record] = file[Record]
    PROVE  Recorded' = Recorded
BY DEF Recorded

\* The record changes when Main renames it into place.
LEMMA RefinesMainStores ==
    ASSUME IInv, IInv', MainStores
    PROVE  [Abstract!Next]_(Abstract!vars)
<1> USE SetCommandsAssumption
<1>1. UNCHANGED <<runVars, cmd>> /\ cmd # "dead" /\ StoreStep(Main) /\ ~Resting(Main)
  BY DEF MainStores, IInv, CmdInv, Resting, StoreStep, OpenLock, AcquireLock, CreateTemp,
         WriteTemp, RenameTemp, WriteFails, RenameFails, RemoveLock
<1>2. UNCHANGED <<pc, set, stageNo, anyFail, cancelled, status, itemPc>>
  BY <1>1 DEF runVars
<1>3. Waiting' = Waiting /\ Underway' = Underway
  BY <1>2 DEF Waiting, Underway, Busy
<1>4. CASE file'[Record] = file[Record]
  <2>1. Unseen
    BY <1>1, <1>2, <1>3, <1>4, SameRecord DEF Unseen
  <2> QED  BY <2>1, UnseenStutters
<1>5. CASE pc = "creating" /\ file'[Record] # file[Record]
  <2>1. file[Record] = Absent /\ file'[Record] = RunDoc("running")
    BY <1>1, <1>2, <1>5 DEF IInv, RecordInv, Recording, Resting
  <2>2. Recorded = "none" /\ Recorded' = "running"
    BY <2>1, StoreAssumption DEF Recorded, RunDoc
  <2>3. set' \in StoredSets
    BY <1>2, <1>5 DEF IInv, StageInv
  <2>4. Plan' \in Seq([items : SUBSET Slots, abort : BOOLEAN])
    BY <2>2, <2>3, PlanIs DEF Plan
  <2>5. Abstract!Begin
    BY <1>1, <1>2, <1>3, <2>2, <2>4 DEF Abstract!Begin
  <2> QED  BY <1>1, <2>5 DEF Abstract!Next
<1>6. CASE pc = "finalizing" /\ file'[Record] # file[Record]
  <2>1. file[Record] = RunDoc("running") /\ file'[Record] = RunDoc(status) /\ status \in Final
    BY <1>1, <1>2, <1>6 DEF IInv, RecordInv, Recording, StageInv, Resting
  <2>2. Recorded = "running" /\ Recorded' = status
    BY <2>1, SetCommandsAssumption, StoreAssumption DEF Recorded, RunDoc, Final
  <2>3. set \in StoredSets /\ itemPc = [i \in Slots |-> "none"] /\ stageNo \in Nat
    BY <1>6 DEF IInv, StageInv
  <2>4. Waiting = {} /\ Underway = {}
    BY <2>3 DEF Waiting, Underway, Busy
  <2>5. Plan' = Plan
    BY <1>2, <2>1, <2>2 DEF Plan, Final
  <2>6. /\ Len(Plan) = Len(set.stages)
        /\ \A k \in 1..Len(set.stages) : Plan[k].abort = Aborts(set.stages[k])
    BY <2>2, <2>3, PlanIs DEF Plan
  <2>7. status = "completed" => stageNo = Len(Plan) /\ (stageNo > 0 /\ Plan[stageNo].abort => ~anyFail)
    BY <1>6, <2>3, <2>6 DEF IInv, StageInv, MayGoOn
  <2>8. status = "cancelled" => cancelled
    BY <1>6 DEF IInv, StageInv
  <2>9. Abstract!Close(status)
    BY <1>1, <1>2, <1>3, <2>2, <2>4, <2>5, <2>7, <2>8
    DEF Abstract!Close, Abstract!Quiet, Abstract!MayGoOn
  <2> QED  BY <1>1, <2>1, <2>9 DEF Abstract!Next, Abstract!Final, Final
<1>7. CASE pc = "idle"
  <2>1. at[Main] = SetFile
    BY <1>1, <1>7 DEF IInv, CmdInv
  <2>2. file'[Record] = file[Record]
    BY <1>1, <2>1, StoreAssumption
    DEF IInv, StoreInv, StoreTypeOK, Paths, StoreStep, OpenLock, AcquireLock, CreateTemp,
         WriteTemp, RenameTemp, WriteFails, RenameFails, RemoveLock
  <2> QED  BY <1>4, <2>2
<1> QED  BY <1>1, <1>4, <1>5, <1>6, <1>7 DEF IInv, CmdInv

LEMMA RefinesStages ==
    ASSUME IInv, IInv', RunnerSteps
    PROVE  [Abstract!Next]_(Abstract!vars)
<1>1. cmd' = cmd
  BY DEF RunnerSteps, cmdVars
<1>2. CASE StartStage
  <2>1. pc = "stage" /\ cmd # "dead" /\ set \in StoredSets /\ set' = set /\ stageNo \in Nat
    BY <1>2 DEF StartStage, IInv, CmdInv, StageInv
  <2>2. Recorded = "running" /\ Recorded' = Recorded
    BY <1>2, <2>1, RecordedIs, SameRecord DEF IInv, RecordInv, StartStage, storeVars
  <2>3. itemPc = [i \in Slots |-> "none"]
    BY <2>1 DEF IInv, StageInv
  <2>4. Waiting = {} /\ Underway = {}
    BY <2>3 DEF Waiting, Underway, Busy
  <2>5. /\ Len(Plan) = Len(set.stages)
        /\ Len(set.stages) \in Nat
        /\ \A k \in 1..Len(set.stages) :
              Plan[k].items = DOMAIN Items(k) /\ Plan[k].abort = Aborts(set.stages[k])
        /\ \A k \in 1..Len(set.stages) : DOMAIN Items(k) \subseteq Slots
    BY <2>1, <2>2, PlanIs DEF Plan, Items
  <2>6. stageNo < Len(Plan) /\ stageNo' = stageNo + 1 /\ stageNo + 1 \in 1..Len(set.stages)
    BY <1>2, <2>1, <2>5 DEF StartStage
  <2>7. Waiting' = Plan[stageNo + 1].items /\ Underway' = {}
    <3>1. \A i \in Slots : itemPc'[i] = IF i \in DOMAIN Items(stageNo + 1) THEN "ready" ELSE "none"
      BY <1>2 DEF StartStage
    <3> QED  BY <2>5, <2>6, <3>1 DEF Waiting, Underway, Busy
  <2>8. stageNo > 0 /\ Plan[stageNo].abort => ~anyFail
    BY <2>1, <2>5, <2>6 DEF IInv, StageInv, MayGoOn
  <2>9. Plan' = Plan
    BY <2>1, <2>2 DEF Plan
  <2>10. anyFail' = FALSE /\ cancelled' = cancelled
    BY <1>2 DEF StartStage
  <2>11. Abstract!NextStage
    BY <1>1, <2>1, <2>2, <2>4, <2>6, <2>7, <2>8, <2>9, <2>10
    DEF Abstract!NextStage, Abstract!MayGoOn, Abstract!Quiet
  <2> QED  BY <2>1, <2>11 DEF Abstract!Next
<1>3. ASSUME NEW i \in Slots, ItemStep(i)
      PROVE  [Abstract!Next]_(Abstract!vars)
  <2> USE DEF IInv, StageInv
  <2>1. pc = "items" /\ cmd # "dead" /\ UNCHANGED <<set, stageNo, cancelled, storeVars>>
    BY <1>3 DEF ItemStep, GetSession, BuildFails, ItemRuns, MergeItem, CmdInv
  <2>2. Recorded' = Recorded
    BY <2>1, SameRecord DEF storeVars
  <2>3. Plan' = Plan
    BY <2>1, <2>2 DEF Plan
  <2>4. CASE GetSession(i)
    <3>1. /\ itemPc[i] = "ready" /\ anyFail' = anyFail
          /\ \/ itemPc' = [itemPc EXCEPT ![i] = "build"]
             \/ itemPc' = [itemPc EXCEPT ![i] = "merge"]
      BY <2>4 DEF GetSession, Ended
    <3>2. i \in Waiting /\ Waiting' = Waiting \ {i} /\ Underway' = Underway \cup {i}
      BY <3>1 DEF Waiting, Underway, Busy
    <3>3. Abstract!StartItem(i)
      BY <1>1, <2>1, <2>2, <2>3, <3>1, <3>2 DEF Abstract!StartItem
    <3> QED  BY <2>1, <3>3 DEF Abstract!Next
  <2>5. CASE BuildFails(i) \/ ItemRuns(i)
    <3>1. itemPc[i] = "build" /\ anyFail' = anyFail /\ itemPc' = [itemPc EXCEPT ![i] = "merge"]
      BY <2>5 DEF BuildFails, ItemRuns, Ended
    <3>2. Waiting' = Waiting /\ Underway' = Underway
      BY <3>1 DEF Waiting, Underway, Busy
    <3>3. Unseen
      BY <1>1, <2>1, <2>2, <3>1, <3>2 DEF Unseen
    <3> QED  BY <3>3, UnseenStutters
  <2>6. CASE MergeItem(i)
    <3>1. itemPc[i] = "merge" /\ itemPc' = [itemPc EXCEPT ![i] = "done"]
      BY <2>6 DEF MergeItem
    <3>2. i \in Underway /\ Waiting' = Waiting /\ Underway' = Underway \ {i}
      BY <3>1 DEF Waiting, Underway, Busy
    <3>3. anyFail' \in {anyFail, TRUE}
      BY <2>6, Zenon DEF MergeItem
    <3>4. Abstract!EndItem(i)
      BY <1>1, <2>1, <2>2, <2>3, <3>2, <3>3 DEF Abstract!EndItem
    <3> QED  BY <2>1, <3>4 DEF Abstract!Next
  <2> QED  BY <1>3, <2>4, <2>5, <2>6 DEF ItemStep
<1>4. CASE EndStage
  <2> USE DEF IInv, StageInv
  <2>1. \A i \in Slots : itemPc[i] \in {"none", "done"}
    BY <1>4 DEF EndStage
  <2>2. \A i \in Slots : itemPc'[i] = "none"
    BY <1>4 DEF EndStage
  <2>3. Waiting' = Waiting /\ Underway' = Underway
    BY <2>1, <2>2 DEF Waiting, Underway, Busy
  <2>4. Unseen
    BY <1>1, <1>4, <2>3, SameRecord DEF Unseen, EndStage, storeVars
  <2> QED  BY <2>4, UnseenStutters
<1>5. CASE ReadSet \/ CreateSetRun \/ SetRunCreated \/ LastStage \/ Judge \/ Finalized
  <2>1. file'[Record] = file[Record] /\ UNCHANGED <<stageNo, itemPc, anyFail, cancelled>>
    BY <1>5 DEF ReadSet, CreateSetRun, SetRunCreated, LastStage, Judge, Finalized, BeginRecord, storeVars
  <2>2. set' = set \/ Recorded = "none"
    BY <1>5 DEF ReadSet, CreateSetRun, SetRunCreated, LastStage, Judge, Finalized, IInv, RecordInv,
                Recorded
  <2>3. Unseen
    BY <1>1, <2>1, <2>2, SameRecord DEF Unseen, Waiting, Underway, Busy
  <2> QED  BY <2>3, UnseenStutters
<1> QED  BY <1>2, <1>3, <1>4, <1>5 DEF RunnerSteps, RunStep

LEMMA RefinesStep ==
    ASSUME IInv, IInv', [Next]_vars
    PROVE  [Abstract!Next]_(Abstract!vars)
<1>1. ASSUME UNCHANGED <<set, stageNo, itemPc, anyFail, cancelled>>,
             (cmd # "dead")' = (cmd # "dead"), file'[Record] = file[Record]
      PROVE  [Abstract!Next]_(Abstract!vars)
  <2>1. Unseen
    BY <1>1, SameRecord DEF Unseen, Waiting, Underway, Busy
  <2> QED  BY <2>1, UnseenStutters
<1>2. CASE UNCHANGED vars
  BY <1>1, <1>2 DEF vars, storeVars, runVars, cmdVars
<1>3. ASSUME NEW e \in Editors, EditorMoves(e)
      PROVE  [Abstract!Next]_(Abstract!vars)
  BY <1>1, <1>3, EditorFrame DEF runVars
<1>4. CASE Command
  <2>1. UNCHANGED <<set, stageNo, itemPc, anyFail, cancelled>> /\ file' = file
    BY <1>4 DEF Command, FireRun, GetAndMerge, SaveMine, MineSaved, Report, runVars, storeVars, BeginSave
  <2>2. cmd # "dead" /\ cmd' # "dead"
    BY <1>4 DEF Command, FireRun, GetAndMerge, SaveMine, MineSaved, Report, Exit
  <2> QED  BY <1>1, <2>1, <2>2
<1>5. CASE CancelJob
  <2>1. /\ cmd # "dead" /\ cancelled' = TRUE
        /\ UNCHANGED <<set, stageNo, itemPc, anyFail, cmd, storeVars>>
    BY <1>5 DEF CancelJob, Cancel, IInv, CmdInv, cmdVars
  <2>2. Recorded' = Recorded
    BY <2>1, SameRecord DEF storeVars
  <2>3. Plan' = Plan /\ Waiting' = Waiting /\ Underway' = Underway
    BY <2>1, <2>2 DEF Plan, Waiting, Underway, Busy
  <2>4. Abstract!Stop
    BY <2>1, <2>2, <2>3 DEF Abstract!Stop
  <2> QED  BY <2>1, <2>4 DEF Abstract!Next
<1>6. CASE MainDies
  <2>1. /\ cmd # "dead" /\ cmd' = "dead" /\ file' = file
        /\ set' = NoSet /\ stageNo' = 0 /\ anyFail' = FALSE /\ cancelled' = FALSE
        /\ itemPc' = [i \in Slots |-> "none"]
    BY <1>6 DEF MainDies, Crash, Die
  <2>2. Recorded' = Recorded
    BY <2>1, SameRecord
  <2>3. Plan' = << >> /\ Waiting' = {} /\ Underway' = {}
    BY <2>1 DEF Plan, Waiting, Underway, Busy
  <2>4. Abstract!Die
    BY <2>1, <2>2, <2>3 DEF Abstract!Die
  <2> QED  BY <2>1, <2>4 DEF Abstract!Next
<1> QED
  BY <1>2, <1>3, <1>4, <1>5, <1>6, RefinesMainStores, RefinesStages DEF Next, EditorMoves

\* One execution of a set, with its record, its cancellation and its death,
\* implements SetRun, whatever editors do to the store meanwhile.
THEOREM Implementation == Spec => ImplementsSetRun
<1>1. IInv /\ IInv' /\ [Next]_vars => [Abstract!Next]_(Abstract!vars)
  BY RefinesStep
<1> QED  BY <1>1, RefinesInit, Invariance, PTL DEF Spec, ImplementsSetRun, Abstract!Spec

---------------------------------------------------------------------------
(***************************************************************************)
(* The flags reach the runner and the verdict reaches the exit code.       *)
(***************************************************************************)
Mine(m) == \E s \in SetDocs : ~UnknownItem(s, flags) /\ m = WithFlags(s, flags)

\* The runner holds a set.
HasSet == pc \in {"create", "creating", "stage", "items", "judge", "finalizing"}
            \/ (pc = "returned" /\ status # "error")

\* From the merge to the runner: what the command made of the set is what it
\* saved and what the runner read, unless another process came between.
AgreeInv ==
    /\ cmd \in {"get", "save", "saving"} => caller = "cli"
    /\ cmd = "fire" => caller # "cli"
    /\ cmd \in {"save", "saving"} => Mine(mine)
    /\ caller = "cli" /\ pc \notin {"idle", "dead"} => Mine(mine)
    /\ cmd = "saving" => doc[Main] = mine
    /\ cmd = "saving" /\ step[Main] = "ok" /\ ~foreign => file[SetFile] = mine
    /\ caller = "cli" /\ pc = "get" /\ ~foreign => file[SetFile] = mine
    /\ caller = "cli" /\ HasSet /\ ~foreign => set = mine

\* From the verdict to the exit code.
VerdictInv ==
    /\ pc = "finalizing" \/ (pc = "returned" /\ status # "error") =>
          /\ DOMAIN judged = DOMAIN set.thresholds
          /\ status = "completed" => AllPassed(judged)
    /\ exit = ExitOK => cmd = "exited" /\ pc = "returned" /\ status = "completed" /\ AllPassed(judged)

\* A configuration is there while its item runs, and the item's overrides are
\* in it.
ConfigInv ==
    /\ DOMAIN config = Slots
    /\ \A i \in Slots : config[i] # NoConfig =>
          /\ pc = "items" /\ itemPc[i] = "build"
          /\ \E c : config[i] = ApplyOverrides(c, Items(stageNo)[i].overrides)

FlagsInv == AgreeInv /\ VerdictInv /\ ConfigInv

LEMMA InitFlagsInv == Init => FlagsInv
BY DEF Init, RunInit, FlagsInv, AgreeInv, VerdictInv, ConfigInv, HasSet, ExitOK

LEMMA AgreeInvStep ==
    ASSUME IInv, AgreeInv, [Next]_vars
    PROVE  AgreeInv'
<1> USE SetCommandsAssumption DEF AgreeInv, HasSet
<1>0. SetFile \notin RecordPaths /\ SetFile \notin SessionPaths /\ SetFile \in Paths
  BY StoreAssumption DEF Paths
<1>1. CASE UNCHANGED vars
  BY <1>1 DEF vars, storeVars, runVars, cmdVars, Mine
<1>2. ASSUME NEW e \in Editors, EditorMoves(e)
      PROVE  AgreeInv'
  <2>1. /\ UNCHANGED <<runVars, caller, flags, cmd, mine, exit>>
        /\ step'[Main] = step[Main] /\ doc'[Main] = doc[Main]
    BY <1>2, EditorFrame
  <2>2. ~foreign' /\ pc \in {"idle", "get"} => file'[SetFile] = file[SetFile]
    <3>1. CASE EditorDies(e)
      BY <3>1 DEF EditorDies, Die, cmdVars
    <3>2. CASE Disturbs
      BY <3>2, Zenon DEF Disturbs
    <3> QED  BY <1>2, <3>1, <3>2 DEF EditorMoves, EditorBegins, EditorStep
  <2>3. ~foreign' => ~foreign
    BY <1>2 DEF EditorMoves, EditorBegins, EditorStep, EditorDies, Disturbs, cmdVars
  <2>4. Mine(mine)' <=> Mine(mine)
    BY <2>1 DEF Mine
  <2>5. cmd = "saving" => pc = "idle"
    BY DEF IInv, CmdInv
  <2> QED  BY <2>1, <2>2, <2>3, <2>4, <2>5 DEF runVars
<1>3. CASE MainStores
  <2>1. /\ UNCHANGED <<runVars, caller, flags, cmd, mine>> /\ doc' = doc /\ at' = at
        /\ StoreStep(Main) /\ ~Resting(Main)
    BY <1>3 DEF MainStores, Resting, StoreStep, OpenLock, AcquireLock, CreateTemp, WriteTemp,
                RenameTemp, WriteFails, RenameFails, RemoveLock
  <2>2. Mine(mine)' <=> Mine(mine)
    BY <2>1 DEF Mine
  <2>3. CASE cmd = "saving"
    <3>1. at[Main] = SetFile /\ pc = "idle"
      BY <2>3 DEF IInv, CmdInv
    <3>2. step'[Main] = "ok" => file'[SetFile] = mine
      <4>1. step[Main] # "rmlock"
        BY <1>0, <3>1 DEF IInv, StoreInv, GenInv
      <4>2. step'[Main] = "ok" => RenameTemp(Main)
        BY <2>1, <4>1 DEF IInv, StoreInv, StoreTypeOK, StoreStep, OpenLock, AcquireLock, CreateTemp,
                          WriteTemp, WriteFails, RenameFails, RemoveLock
      <4>3. step[Main] = "rename" => temp[SetFile] = doc[Main]
        BY <3>1 DEF IInv, StoreInv, TempInv, Guarded, GenInv, Locked
      <4> QED  BY <1>0, <2>3, <3>1, <4>2, <4>3 DEF RenameTemp, IInv, StoreInv, StoreTypeOK
    <3> QED  BY <2>1, <2>2, <2>3, <3>1, <3>2 DEF runVars
  <2>4. CASE cmd # "saving"
    <3>1. pc # "get"
      BY <2>1 DEF IInv, CmdInv
    <3>2. foreign' = foreign \/ pc = "idle"
      BY <1>3, <1>0, <2>1 DEF MainStores, IInv, CmdInv, RecordInv, Recording
    <3> QED  BY <2>1, <2>2, <2>4, <3>1, <3>2 DEF runVars
  <2> QED  BY <2>3, <2>4
<1>4. CASE MainDies
  BY <1>4 DEF MainDies, Crash
<1>5. CASE CancelJob
  BY <1>5 DEF CancelJob, Cancel, storeVars, cmdVars, Mine
<1>6. CASE Command
  <2> USE DEF IInv, CmdInv
  <2>1. CASE GetAndMerge
    <3>1. cmd' = "save" => Mine(mine)'
      <4> SUFFICES ASSUME cmd' = "save" PROVE Mine(mine)'
        OBVIOUS
      <4>1. /\ Readable(SetFile) /\ ~UnknownItem(DocOr(SetFile, EmptySet), flags)
            /\ mine' = WithFlags(DocOr(SetFile, EmptySet), flags) /\ flags' = flags
        BY <2>1 DEF GetAndMerge, Exit
      <4>2. DocOr(SetFile, EmptySet) \in SetDocs
        BY <2>1, <4>1, StoreAssumption DEF GetAndMerge, SavedInv, Readable, DocOr, StoredSets
      <4> QED  BY <4>1, <4>2 DEF Mine
    <3> QED  BY <2>1, <3>1 DEF GetAndMerge, Exit, storeVars, runVars
  <2>2. CASE SaveMine
    BY <2>2 DEF SaveMine, BeginSave, Exit, storeVars, runVars, Mine, StoreInv, StoreTypeOK
  <2>3. CASE MineSaved
    BY <2>3 DEF MineSaved, Exit, storeVars, Mine
  <2>4. CASE FireRun
    BY <2>4 DEF FireRun, storeVars, Mine
  <2>5. CASE Report
    BY <2>5 DEF Report, Exit, storeVars, runVars, Mine
  <2> QED  BY <1>6, <2>1, <2>2, <2>3, <2>4, <2>5 DEF Command
<1>7. CASE RunnerSteps
  <2>1. UNCHANGED cmdVars /\ cmd \notin {"get", "save", "saving", "fire"}
    <3>1. pc # "idle" /\ UNCHANGED cmdVars
      BY <1>7 DEF RunnerSteps, RunStep, ReadSet, CreateSetRun, SetRunCreated, StartStage, EndStage,
                  LastStage, Judge, Finalized, ItemStep
    <3> QED  BY <3>1 DEF IInv, CmdInv
  <2>2. Mine(mine)' <=> Mine(mine)
    BY <2>1 DEF Mine, cmdVars
  <2>3. CASE ReadSet
    <3>1. Readable(SetFile) => DocOr(SetFile, EmptySet) = file[SetFile]
      BY StoreAssumption DEF IInv, SavedInv, Readable, DocOr
    <3> QED  BY <2>1, <2>2, <2>3, <3>1 DEF ReadSet, Fail, cmdVars
  <2>4. CASE ~ReadSet
    <3>1. set' = set /\ pc' # "get" /\ pc' # "idle" /\ pc' # "dead" /\ pc # "idle" /\ pc # "dead"
          /\ (HasSet' => HasSet)
      BY <1>7, <2>4 DEF RunnerSteps, RunStep, CreateSetRun, SetRunCreated, StartStage, EndStage,
                  LastStage, Judge, Finalized, Fail, ItemStep, GetSession, BuildFails, ItemRuns, MergeItem
    <3> QED  BY <2>1, <2>2, <3>1 DEF cmdVars
  <2> QED  BY <2>3, <2>4
<1> QED  BY <1>1, <1>2, <1>3, <1>4, <1>5, <1>6, <1>7 DEF Next, EditorMoves

LEMMA VerdictInvStep ==
    ASSUME IInv, VerdictInv, [Next]_vars
    PROVE  VerdictInv'
<1> USE DEF VerdictInv, AllPassed, ExitOK
<1>1. CASE UNCHANGED <<runVars, cmd, exit>>
  BY <1>1 DEF runVars
<1>2. ASSUME NEW e \in Editors, EditorMoves(e)
      PROVE  VerdictInv'
  BY <1>1, <1>2, EditorFrame
<1>3. CASE MainDies
  BY <1>3 DEF MainDies, Crash
<1>4. CASE CancelJob
  BY <1>4 DEF CancelJob, Cancel, cmdVars
<1>5. CASE Command
  <2>1. CASE FireRun \/ MineSaved
    BY <2>1 DEF FireRun, MineSaved, Exit, ExitUsage
  <2>2. CASE GetAndMerge \/ SaveMine
    BY <2>2 DEF GetAndMerge, SaveMine, Exit, ExitUsage, runVars
  <2>3. CASE Report
    BY <2>3 DEF Report, Exit, ExitRunnerError, ExitThresholdFailed, runVars
  <2> QED  BY <1>5, <2>1, <2>2, <2>3 DEF Command
<1>6. CASE RunnerSteps
  <2>1. UNCHANGED cmdVars
    BY <1>6 DEF RunnerSteps
  <2>2. exit # 0
    BY <1>6 DEF RunnerSteps, RunStep, ReadSet, CreateSetRun, SetRunCreated, StartStage, EndStage,
                LastStage, Judge, Finalized, ItemStep
  <2>3. CASE Judge
    BY <2>1, <2>2, <2>3 DEF Judge, EvaluateThresholds, cmdVars
  <2>4. CASE Finalized
    BY <2>1, <2>2, <2>4 DEF Finalized, Fail, cmdVars
  <2>5. CASE RunnerSteps /\ ~Judge /\ ~Finalized
    <3>1. pc' # "finalizing" /\ (pc' = "returned" => status' = "error")
      BY <2>5 DEF RunnerSteps, RunStep, ReadSet, CreateSetRun, SetRunCreated, StartStage, EndStage,
                LastStage, Fail, ItemStep, GetSession, BuildFails, ItemRuns, MergeItem
    <3> QED  BY <2>1, <2>2, <3>1 DEF cmdVars
  <2> QED  BY <1>6, <2>3, <2>4, <2>5
<1> QED  BY <1>1, <1>2, <1>3, <1>4, <1>5, <1>6 DEF Next, EditorMoves, MainStores, vars, cmdVars

LEMMA ConfigInvStep ==
    ASSUME IInv, ConfigInv, [Next]_vars
    PROVE  ConfigInv'
<1> USE DEF ConfigInv, Items
<1>1. CASE UNCHANGED runVars
  BY <1>1 DEF runVars
<1>2. ASSUME NEW e \in Editors, EditorMoves(e)
      PROVE  ConfigInv'
  BY <1>1, <1>2, EditorFrame
<1>3. CASE MainDies
  BY <1>3 DEF MainDies, Crash
<1>4. CASE CancelJob
  BY <1>4 DEF CancelJob, Cancel
<1>5. CASE Command
  <2>1. CASE FireRun \/ MineSaved
    BY <2>1 DEF FireRun, MineSaved, IInv, CmdInv, runVars
  <2>2. CASE UNCHANGED runVars
    BY <1>1, <2>2
  <2> QED  BY <1>5, <2>1, <2>2 DEF Command, GetAndMerge, SaveMine, Report
<1>6. CASE RunStep
  <2>1. CASE StartStage
    BY <2>1 DEF StartStage
  <2>2. CASE EndStage
    <3>1. \A i \in Slots : itemPc[i] # "build"
      BY <2>2 DEF EndStage, IInv, StageInv
    <3> QED  BY <2>2, <3>1 DEF EndStage
  <2>3. CASE ReadSet \/ CreateSetRun \/ SetRunCreated \/ LastStage \/ Judge \/ Finalized
    <3>1. pc # "items" /\ config' = config
      BY <2>3 DEF ReadSet, CreateSetRun, SetRunCreated, LastStage, Judge, Finalized
    <3> QED  BY <3>1
  <2> QED  BY <1>6, <2>1, <2>2, <2>3 DEF RunStep
<1>7. ASSUME NEW i \in Slots, ItemStep(i)
      PROVE  ConfigInv'
  <2>1. pc = "items" /\ UNCHANGED <<pc, set, stageNo>> /\ DOMAIN itemPc = Slots
    BY <1>7 DEF ItemStep, GetSession, BuildFails, ItemRuns, MergeItem, IInv, StageInv
  <2>2. CASE GetSession(i) /\ Readable(SessionFile[Items(stageNo)[i].session])
    <3>1. PICK c : /\ config' = [config EXCEPT ![i] = ApplyOverrides(c, Items(stageNo)[i].overrides)]
                   /\ itemPc' = [itemPc EXCEPT ![i] = "build"]
      BY <2>2 DEF GetSession
    <3> HIDE DEF Items
    <3>2. Items(stageNo)' = Items(stageNo)
      BY <2>1 DEF Items
    <3> QED  BY <2>1, <3>1, <3>2
  <2>3. CASE /\ config' = [config EXCEPT ![i] = NoConfig]
             /\ itemPc' = [itemPc EXCEPT ![i] = "merge"]
    BY <2>1, <2>3
  <2>4. CASE MergeItem(i)
    BY <2>1, <2>4 DEF MergeItem
  <2> QED  BY <1>7, <2>2, <2>3, <2>4 DEF ItemStep, GetSession, BuildFails, ItemRuns, Ended
<1> QED  BY <1>1, <1>2, <1>3, <1>4, <1>5, <1>6, <1>7 DEF Next, EditorMoves, MainStores, RunnerSteps, vars

LEMMA FlagsInvariance == Spec => [](IInv /\ FlagsInv)
<1>1. IInv /\ FlagsInv /\ [Next]_vars => FlagsInv'
  BY AgreeInvStep, VerdictInvStep, ConfigInvStep DEF FlagsInv
<1> QED  BY <1>1, InitFlagsInv, Invariance, PTL DEF Spec

\* The exit code 0 of set run is earned, whatever editors do: the record says
\* completed and the thresholds of the command line were judged and held,
\* unless another process changed the set between the save and the run.
THEOREM ExitCodeEarned == Spec => []ExitMeansPassed
<1>1. IInv /\ FlagsInv => ExitMeansPassed
  <2> SUFFICES ASSUME IInv, FlagsInv, caller = "cli", exit = ExitOK
               PROVE  /\ Recorded = "completed"
                      /\ ~foreign => \A k \in DOMAIN flags.thresholds : \E j \in DOMAIN judged :
                            /\ set.thresholds[j] = flags.thresholds[k]
                            /\ \A r \in judged[j] : r.passed
    BY DEF ExitMeansPassed
  <2>1. pc = "returned" /\ status = "completed" /\ AllPassed(judged)
        /\ DOMAIN judged = DOMAIN set.thresholds
    BY DEF FlagsInv, VerdictInv
  <2>2. Recorded = "completed"
    BY <2>1, RecordedIs DEF IInv, RecordInv, Final
  <2>3. ASSUME ~foreign, NEW k \in DOMAIN flags.thresholds
        PROVE  \E j \in DOMAIN judged :
                  /\ set.thresholds[j] = flags.thresholds[k]
                  /\ \A r \in judged[j] : r.passed
    <3>1. set = mine /\ Mine(mine) /\ flags \in Flags
      BY <2>1, <2>3 DEF FlagsInv, AgreeInv, HasSet, IInv, SavedInv
    <3>2. \E j \in DOMAIN set.thresholds : set.thresholds[j] = flags.thresholds[k]
      BY <3>1, FlagsApplied DEF Mine
    <3> QED  BY <2>1, <3>2 DEF AllPassed
  <2> QED  BY <2>2, <2>3
<1> QED  BY <1>1, FlagsInvariance, PTL

\* Every item runs with the last word of --override on it (see
\* OverridesInForce), for any flags and whatever editors do to the sessions.
THEOREM OverridesReachTheRun == Spec => []OverridesInForce
<1>1. IInv /\ FlagsInv => OverridesInForce
  <2> SUFFICES ASSUME IInv, FlagsInv, caller = "cli", ~foreign,
                      NEW i \in Slots, config[i] # NoConfig,
                      NEW k \in DOMAIN flags.overrides,
                      Items(stageNo)[i].name = flags.overrides[k].item,
                      Cardinality(Named(set, flags.overrides[k].item)) = 1, LastOf(k)
               PROVE  config[i].fields[flags.overrides[k].field] =
                         IF flags.overrides[k].field = "auth_token"
                         THEN Expand(flags.overrides[k].value) ELSE flags.overrides[k].value
    BY DEF OverridesInForce
  <2> DEFINE o == flags.overrides[k]
             x == <<stageNo, i>>
  <2>1. PICK c : config[i] = ApplyOverrides(c, Items(stageNo)[i].overrides)
    BY DEF FlagsInv, ConfigInv
  <2>2. pc = "items" /\ itemPc[i] = "build"
    BY DEF FlagsInv, ConfigInv
  <2>3. set = mine /\ Mine(mine) /\ flags \in Flags
    BY <2>2 DEF FlagsInv, AgreeInv, HasSet, IInv, SavedInv
  <2>4. PICK s \in SetDocs : ~UnknownItem(s, flags) /\ set = WithFlags(s, flags)
    BY <2>3 DEF Mine
  <2>5. WellFormed(set)
    BY <2>3, <2>4, FlagsApplied
  <2>6. stageNo \in DOMAIN set.stages /\ i \in DOMAIN Items(stageNo)
    BY <2>2, <2>5 DEF IInv, StageInv, WellFormed
  <2>7. x \in Named(set, o.item)
    BY <2>6 DEF Named, Positions, NameAt, Items
  <2>8. LastWord(flags.overrides, k)
    BY DEF LastOf, LastWord
  <2>9. Said(set, x, o)
    BY <2>3, <2>4, <2>7, <2>8, FlagsApplied
  <2> HIDE DEF o
  <2>10. /\ o.field \in DOMAIN Items(stageNo)[i].overrides.fields
         /\ Items(stageNo)[i].overrides.fields[o.field] = o.value
    BY <2>9 DEF Said, FieldsAt, ItemAt, Items
  <2> DEFINE ov == Items(stageNo)[i].overrides.fields
             g == [f \in DOMAIN ov |-> IF f = "auth_token" THEN Expand(ov[f]) ELSE ov[f]]
  <2>11. config[i].fields = Merge(c.fields, g)
    BY <2>1 DEF ApplyOverrides
  <2>12. o.field \in DOMAIN g /\ g[o.field] = IF o.field = "auth_token" THEN Expand(o.value) ELSE o.value
    <3> HIDE DEF Items
    <3> QED  BY <2>10
  <2> HIDE DEF g
  <2>13. Merge(c.fields, g)[o.field] = g[o.field]
    BY <2>12 DEF Merge
  <2> QED  BY <2>11, <2>12, <2>13 DEF o
<1> QED  BY <1>1, FlagsInvariance, PTL

---------------------------------------------------------------------------
(***************************************************************************)
(* What the items did side by side is in the verdict.                      *)
(***************************************************************************)
\* What each item has to report.
ResultInv ==
    /\ DOMAIN result = Slots
    /\ \A i \in Slots : itemPc[i] \in {"merge", "done"} =>
          /\ result[i].name = Items(stageNo)[i].name
          /\ result[i].summary \in Summaries \cup {NoSummary}
    /\ \A i \in Slots : itemPc[i] = "done" /\ ~anyFail => result[i].status = "completed"

\* The stages that ended are those of the set, and one that aborts has failed
\* only if it is the last.
StagesInv ==
    /\ \E S : stages \in Seq(S)
    /\ Len(stages) = IF pc = "items" THEN stageNo - 1 ELSE stageNo
    /\ HasSet => set \in StoredSets
    /\ pc = "returned" /\ status = "completed" => stageNo = Len(set.stages) /\ MayGoOn
    /\ HasSet => \A k \in 1..Len(stages) :
          /\ DOMAIN stages[k] = DOMAIN Items(k)
          /\ Aborts(set.stages[k]) /\ (k < stageNo \/ ~anyFail) =>
                \A i \in DOMAIN stages[k] : stages[k][i].status = "completed"

Compared == Metrics \ Summed

\* The snapshots of items that have names of their own are theirs.
PerItemInv ==
    /\ IsFiniteSet(DOMAIN perItem)
    /\ \A n \in DOMAIN perItem : \A m \in Compared : perItem[n][m] \in Int
    /\ HasSet /\ DistinctNames(set) =>
          /\ \A x \in Positions(set) : x[1] \in 1..Len(stages) =>
                /\ NameAt(set, x) \in DOMAIN perItem
                /\ perItem[NameAt(set, x)] = Snapshot(stages[x[1]][x[2]].summary)
          /\ \A i \in Slots : itemPc[i] = "done" =>
                /\ Items(stageNo)[i].name \in DOMAIN perItem
                /\ perItem[Items(stageNo)[i].name] = Snapshot(result[i].summary)
    /\ pc = "finalizing" \/ (pc = "returned" /\ status # "error") =>
          judged = EvaluateThresholds(set.thresholds, Aggregate(perItem), perItem)

WorkInv == ResultInv /\ StagesInv /\ PerItemInv

LEMMA SnapshotIsInt ==
    ASSUME NEW s \in Summaries \cup {NoSummary}, NEW m \in Compared
    PROVE  Snapshot(s)[m] \in Int
<1>1. s \in [total : Nat, errors : Nat, seconds : Nat, p50 : Nat, p95 : Nat, p99 : Nat]
  BY DocsAssumption DEF NoSummary
<1>2. s.total > 0 => (100 * s.errors) \div s.total \in Int
  <2>1. s.total \in Nat /\ 100 * s.errors \in Int
    BY <1>1
  <2> QED  BY <2>1
<1>3. m \in {"p50", "p95", "p99", "error_rate"}
  BY DEF Compared, Metrics, Summed
<1>4. /\ Snapshot(s).p50 = s.p50 /\ Snapshot(s).p95 = s.p95 /\ Snapshot(s).p99 = s.p99
      /\ Snapshot(s).error_rate = IF s.total > 0 THEN (100 * s.errors) \div s.total ELSE 0
  BY DEF Snapshot
<1> QED  BY <1>1, <1>2, <1>3, <1>4

LEMMA MaxExists ==
    ASSUME NEW S, IsFiniteSet(S), S # {}, S \subseteq Int
    PROVE  Max(S) \in S /\ \A y \in S : Max(S) >= y
<1> DEFINE Bad(T) == /\ IsFiniteSet(T) /\ T # {} /\ T \subseteq Int
                     /\ ~ \E x \in T : \A y \in T : x >= y
           C == {Cardinality(T) : T \in {U \in SUBSET S : Bad(U)}}
<1>1. C = {}
  <2> SUFFICES ASSUME C # {} PROVE FALSE
    OBVIOUS
  <2>0. C \subseteq Nat
    BY FS_CardinalityType
  <2>1. PICK n \in C : \A j \in C : n <= j
    <3> HIDE DEF C
    <3> QED  BY <2>0, LeastNat
  <2>2. PICK T \in SUBSET S : Bad(T) /\ n = Cardinality(T)
    BY <2>1
  <2>3. PICK a \in T : TRUE
    BY <2>2
  <2> DEFINE U == T \ {a}
  <2>4. IsFiniteSet(U) /\ Cardinality(U) = n - 1 /\ n \in Nat
    BY <2>2, <2>3, <2>0, FS_RemoveElement
  <2>5. ~Bad(U)
    <3>1. Bad(U) => Cardinality(U) \in C
      OBVIOUS
    <3> HIDE DEF C, Bad, U
    <3> QED  BY <2>1, <2>4, <3>1
  <2>6. CASE U = {}
    <3>1. T = {a} /\ a \in Int
      BY <2>2, <2>3, <2>6
    <3> QED  BY <2>2, <3>1
  <2>7. CASE U # {}
    <3>1. PICK x \in U : \A y \in U : x >= y
      BY <2>2, <2>4, <2>5, <2>7
    <3>2. x \in Int /\ a \in Int /\ x \in T /\ \A y \in T : y \in Int
      BY <2>2, <2>3
    <3>3. CASE x >= a
      <4>1. \A y \in T : x >= y
        BY <3>1, <3>3
      <4> QED  BY <2>2, <3>2, <4>1
    <3>4. CASE ~(x >= a)
      <4>1. \A y \in T : a >= y
        BY <3>1, <3>2, <3>4
      <4> QED  BY <2>2, <2>3, <4>1
    <3> QED  BY <3>3, <3>4
  <2> QED  BY <2>6, <2>7
<1>2. ~Bad(S)
  <2>1. Bad(S) => Cardinality(S) \in C
    OBVIOUS
  <2> HIDE DEF Bad, C
  <2> QED  BY <1>1, <2>1
<1>3. \E x \in S : \A y \in S : x >= y
  BY <1>2
<1> QED  BY <1>3 DEF Max

LEMMA InitWorkInv == Init => WorkInv
<1> SUFFICES ASSUME Init PROVE WorkInv
  OBVIOUS
<1>1. << >> \in Seq({}) /\ Len(<< >>) = 0
  OBVIOUS
<1>2. IsFiniteSet(DOMAIN perItem) /\ DOMAIN perItem = {}
  <2>1. DOMAIN perItem = {}
    BY DEF Init, RunInit
  <2> QED  BY <2>1, FS_EmptySet
<1> QED
  BY <1>1, <1>2 DEF Init, RunInit, WorkInv, ResultInv, StagesInv, PerItemInv, HasSet

LEMMA ResultInvStep ==
    ASSUME IInv, ResultInv, [Next]_vars
    PROVE  ResultInv'
<1> USE DEF ResultInv, Items
<1>1. CASE UNCHANGED runVars
  BY <1>1 DEF runVars
<1>2. ASSUME NEW e \in Editors, EditorMoves(e)
      PROVE  ResultInv'
  BY <1>1, <1>2, EditorFrame
<1>3. CASE MainDies
  BY <1>3 DEF MainDies, Crash
<1>4. CASE CancelJob
  BY <1>4 DEF CancelJob, Cancel
<1>5. CASE Command
  <2>1. CASE FireRun \/ MineSaved
    BY <2>1 DEF FireRun, MineSaved
  <2>2. CASE UNCHANGED runVars
    BY <1>1, <2>2
  <2> QED  BY <1>5, <2>1, <2>2 DEF Command, GetAndMerge, SaveMine, Report
<1>6. CASE RunStep
  <2>1. CASE StartStage
    BY <2>1 DEF StartStage
  <2>2. CASE EndStage
    BY <2>2 DEF EndStage
  <2>3. CASE ReadSet \/ CreateSetRun \/ SetRunCreated \/ LastStage \/ Judge \/ Finalized
    <3>1. pc # "items" /\ UNCHANGED <<itemPc, result>>
      BY <2>3 DEF ReadSet, CreateSetRun, SetRunCreated, LastStage, Judge, Finalized
    <3>2. \A i \in Slots : itemPc[i] = "none"
      BY <3>1 DEF IInv, StageInv
    <3> QED  BY <3>1, <3>2
  <2> QED  BY <1>6, <2>1, <2>2, <2>3 DEF RunStep
<1>7. ASSUME NEW i \in Slots, ItemStep(i)
      PROVE  ResultInv'
  <2>1. DOMAIN itemPc = Slots /\ UNCHANGED <<set, stageNo>>
    BY <1>7 DEF ItemStep, GetSession, BuildFails, ItemRuns, MergeItem, IInv, StageInv
  <2>2. Items(stageNo)' = Items(stageNo)
    BY <2>1
  <2> HIDE DEF Items
  <2>3. ASSUME NEW st, NEW sm \in Summaries \cup {NoSummary}, Ended(i, st, sm), anyFail' = anyFail
        PROVE  ResultInv'
    BY <2>1, <2>2, <2>3 DEF Ended
  <2>4. CASE GetSession(i)
    <3>1. CASE /\ itemPc' = [itemPc EXCEPT ![i] = "build"]
               /\ result' = result /\ anyFail' = anyFail
      BY <2>1, <2>2, <3>1
    <3>2. CASE Ended(i, "failed", NoSummary) /\ anyFail' = anyFail
      BY <2>3, <3>2
    <3> QED  BY <2>4, <3>1, <3>2 DEF GetSession
  <2>5. CASE BuildFails(i) \/ ItemRuns(i)
    BY <2>3, <2>5 DEF BuildFails, ItemRuns
  <2>6. CASE MergeItem(i)
    <3>1. /\ itemPc[i] = "merge" /\ itemPc' = [itemPc EXCEPT ![i] = "done"] /\ result' = result
          /\ ~anyFail' => ~anyFail /\ result[i].status = "completed"
      BY <2>6 DEF MergeItem
    <3> QED  BY <2>1, <2>2, <3>1
  <2> QED  BY <1>7, <2>4, <2>5, <2>6 DEF ItemStep
<1> QED  BY <1>1, <1>2, <1>3, <1>4, <1>5, <1>6, <1>7 DEF Next, EditorMoves, MainStores, RunnerSteps, vars

\* Main's steps that touch neither the stages nor what the items report.
LEMMA StagesStay ==
    ASSUME IInv, StagesInv, UNCHANGED <<set, stageNo, anyFail, stages>>,
           pc' = "items" <=> pc = "items", HasSet' => HasSet,
           pc' = "returned" /\ status' = "completed" =>
               pc \in {"finalizing", "returned"} /\ status = "completed"
    PROVE  StagesInv'
BY DEF StagesInv, MayGoOn, Items, IInv, StageInv

LEMMA StagesInvStep ==
    ASSUME IInv, ResultInv, StagesInv, [Next]_vars
    PROVE  StagesInv'
<1>1. CASE UNCHANGED runVars
  BY <1>1, StagesStay DEF runVars, HasSet
<1>2. ASSUME NEW e \in Editors, EditorMoves(e)
      PROVE  StagesInv'
  BY <1>1, <1>2, EditorFrame
<1>3. CASE MainDies
  <2>1. << >> \in Seq({}) /\ Len(<< >>) = 0
    OBVIOUS
  <2> QED  BY <1>3, <2>1 DEF MainDies, Crash, StagesInv, HasSet
<1>4. CASE CancelJob
  BY <1>4, StagesStay DEF CancelJob, Cancel, HasSet
<1>5. CASE Command
  <2>1. CASE FireRun \/ MineSaved
    BY <2>1, StagesStay DEF FireRun, MineSaved, IInv, CmdInv, HasSet
  <2>2. CASE UNCHANGED runVars
    BY <1>1, <2>2
  <2> QED  BY <1>5, <2>1, <2>2 DEF Command, GetAndMerge, SaveMine, Report
<1>6. CASE RunStep
  <2>1. CASE ReadSet
    <3>1. stageNo = 0 /\ Len(stages) = 0 /\ pc' # "items"
      BY <2>1 DEF ReadSet, IInv, StageInv, StagesInv, Fail
    <3>2. HasSet' => set' \in StoredSets
      <4>1. Readable(SetFile) => DocOr(SetFile, EmptySet) \in StoredSets
        BY SetCommandsAssumption, StoreAssumption DEF Readable, DocOr, IInv, SavedInv
      <4> QED  BY <2>1, <4>1 DEF ReadSet, Fail, HasSet
    <3> QED  BY <2>1, <3>1, <3>2 DEF ReadSet, StagesInv, Fail
  <2>2. CASE CreateSetRun \/ SetRunCreated \/ Finalized
    BY <2>2, StagesStay DEF CreateSetRun, SetRunCreated, Finalized, Fail, HasSet
  <2>3. CASE LastStage \/ Judge
    BY <2>3, StagesStay DEF LastStage, Judge, HasSet
  <2>4. CASE StartStage
    <3>1. Len(stages) = stageNo /\ stageNo \in Nat /\ stageNo' = stageNo + 1 /\ MayGoOn
      BY <2>4 DEF StartStage, StagesInv, IInv, StageInv
    <3>2. /\ UNCHANGED <<set, stages>> /\ pc' = "items" /\ pc = "stage"
      BY <2>4 DEF StartStage
    <3>3. ASSUME NEW k \in 1..Len(stages)
          PROVE  /\ DOMAIN stages[k] = DOMAIN Items(k)
                 /\ Aborts(set.stages[k]) =>
                       \A i \in DOMAIN stages[k] : stages[k][i].status = "completed"
      BY <3>1, <3>2 DEF StagesInv, HasSet, MayGoOn
    <3>4. Len(stages)' = (stageNo - 1)'
      BY <3>1, <3>2
    <3> QED  BY <3>2, <3>3, <3>4 DEF StagesInv, HasSet, Items
  <2>5. CASE EndStage
    <3> DEFINE last == [i \in DOMAIN Items(stageNo) |-> result[i]]
    <3>1. /\ pc = "items" /\ stages' = Append(stages, last)
          /\ UNCHANGED <<set, stageNo, anyFail>> /\ pc' \in {"stage", "judge"}
          /\ \A i \in DOMAIN Items(stageNo) : itemPc[i] = "done"
      BY <2>5 DEF EndStage
    <3>2. Len(stages) = stageNo - 1 /\ stageNo \in Nat /\ stageNo > 0 /\ set \in StoredSets
          /\ DOMAIN Items(stageNo) \subseteq Slots
      <4>1. /\ Len(stages) = stageNo - 1 /\ stageNo \in 1..Len(set.stages) /\ set \in StoredSets
            /\ stageNo \in Nat
        BY <3>1 DEF StagesInv, IInv, StageInv, HasSet
      <4> QED  BY <4>1, StoredSetsWellFormed DEF WellFormed, Items
    <3> HIDE DEF last
    <3>3. PICK S : stages \in Seq(S)
      BY DEF StagesInv
    <3>4. stages \in Seq(S \cup {last})
      <4>1. Len(stages) \in Nat /\ stages \in [1..Len(stages) -> S \cup {last}]
        BY <3>3, LenProperties
      <4>2. ASSUME NEW T, NEW n \in Nat, NEW f \in [1..n -> T]
            PROVE  f \in Seq(T)
        BY SeqDef
      <4> QED  BY <4>1, <4>2
    <3>5. /\ stages' \in Seq(S \cup {last}) /\ Len(stages') = stageNo
          /\ \A k \in 1..stageNo - 1 : stages'[k] = stages[k]
          /\ stages'[stageNo] = last
      BY <3>1, <3>2, <3>4, AppendProperties
    <3>6. ~anyFail => \A i \in DOMAIN last : last[i].status = "completed"
      BY <3>1, <3>2 DEF ResultInv, last
    <3>7. ASSUME NEW k \in 1..stageNo
          PROVE  /\ DOMAIN stages'[k] = DOMAIN Items(k)
                 /\ Aborts(set.stages[k]) /\ (k < stageNo \/ ~anyFail) =>
                       \A i \in DOMAIN stages'[k] : stages'[k][i].status = "completed"
      <4>1. CASE k = stageNo
        BY <3>2, <3>5, <3>6, <4>1 DEF last
      <4>2. CASE k # stageNo
        <5>1. k \in 1..Len(stages) /\ k < stageNo /\ stages'[k] = stages[k]
          BY <3>2, <3>5, <4>2
        <5> QED  BY <3>1, <5>1 DEF StagesInv, HasSet
      <4> QED  BY <4>1, <4>2
    <3>8. UNCHANGED <<set, stageNo, anyFail>> /\ pc' # "items" /\ pc' # "returned" /\ set' \in StoredSets
      BY <3>1, <3>2
    <3> QED  BY <3>5, <3>7, <3>8 DEF StagesInv, Items
  <2> QED  BY <1>6, <2>1, <2>2, <2>3, <2>4, <2>5 DEF RunStep
<1>7. ASSUME NEW i \in Slots, ItemStep(i)
      PROVE  StagesInv'
  <2>1. pc = "items" /\ UNCHANGED <<pc, set, stageNo, stages, status>>
    BY <1>7 DEF ItemStep, GetSession, BuildFails, ItemRuns, MergeItem
  <2>2. ~anyFail' => ~anyFail
    <3>1. CASE MergeItem(i)
      BY <3>1, Zenon DEF MergeItem
    <3> QED  BY <1>7, <3>1 DEF ItemStep, GetSession, BuildFails, ItemRuns
  <2> QED  BY <2>1, <2>2 DEF StagesInv, HasSet, Items
<1> QED  BY <1>1, <1>2, <1>3, <1>4, <1>5, <1>6, <1>7 DEF Next, EditorMoves, MainStores, RunnerSteps, vars

LEMMA PerItemStay ==
    ASSUME PerItemInv, UNCHANGED <<set, stageNo, perItem, stages, result, judged>>,
           HasSet' => HasSet, \A i \in Slots : itemPc'[i] = "done" => itemPc[i] = "done",
           pc' = "finalizing" \/ (pc' = "returned" /\ status' # "error") =>
               pc = "finalizing" \/ (pc = "returned" /\ status # "error")
    PROVE  PerItemInv'
BY DEF PerItemInv, Items

LEMMA PerItemInvStep ==
    ASSUME IInv, ResultInv, StagesInv, PerItemInv, [Next]_vars
    PROVE  PerItemInv'
<1>1. CASE UNCHANGED runVars
  BY <1>1, PerItemStay DEF runVars, HasSet
<1>2. ASSUME NEW e \in Editors, EditorMoves(e)
      PROVE  PerItemInv'
  BY <1>1, <1>2, EditorFrame
<1>3. CASE MainDies
  <2>1. perItem' = << >> /\ pc' = "dead"
    BY <1>3 DEF MainDies, Crash
  <2>2. DOMAIN perItem' = {}
    BY <2>1
  <2>3. IsFiniteSet(DOMAIN perItem')
    BY <2>2, FS_EmptySet
  <2> QED  BY <2>1, <2>2, <2>3 DEF PerItemInv, HasSet
<1>4. CASE CancelJob
  BY <1>4, PerItemStay DEF CancelJob, Cancel, HasSet
<1>5. CASE Command
  <2>1. CASE FireRun \/ MineSaved
    BY <2>1, PerItemStay DEF FireRun, MineSaved, IInv, CmdInv, HasSet
  <2>2. CASE UNCHANGED runVars
    BY <1>1, <2>2
  <2> QED  BY <1>5, <2>1, <2>2 DEF Command, GetAndMerge, SaveMine, Report
<1>6. CASE RunStep
  <2>1. CASE ReadSet
    <3>1. stageNo = 0 /\ Len(stages) = 0 /\ \A i \in Slots : itemPc[i] = "none"
      BY <2>1 DEF ReadSet, IInv, StageInv, StagesInv
    <3>2. UNCHANGED <<perItem, stages, itemPc>> /\ pc' # "finalizing"
          /\ ~(pc' = "returned" /\ status' # "error")
      BY <2>1 DEF ReadSet, Fail
    <3> QED  BY <3>1, <3>2 DEF PerItemInv
  <2>2. CASE CreateSetRun \/ SetRunCreated \/ Finalized \/ LastStage
    BY <2>2, PerItemStay DEF CreateSetRun, SetRunCreated, Finalized, LastStage, Fail, HasSet
  <2>3. CASE Judge
    <3>1. /\ judged' = EvaluateThresholds(set.thresholds, Aggregate(perItem), perItem)
          /\ UNCHANGED <<set, stageNo, perItem, stages, result, itemPc>> /\ HasSet
      BY <2>3 DEF Judge, HasSet
    <3>2. judged' = EvaluateThresholds(set.thresholds, Aggregate(perItem), perItem)'
      BY <3>1
    <3> QED  BY <3>1, <3>2 DEF PerItemInv, Items
  <2>4. CASE StartStage
    <3>1. /\ UNCHANGED <<set, perItem, stages>> /\ pc' = "items" /\ pc = "stage"
          /\ \A i \in Slots : itemPc'[i] # "done"
      BY <2>4 DEF StartStage
    <3> QED  BY <3>1 DEF PerItemInv, HasSet
  <2>5. CASE EndStage
    <3>1. /\ UNCHANGED <<set, stageNo, perItem>> /\ pc = "items" /\ pc' \in {"stage", "judge"}
          /\ \A i \in Slots : itemPc'[i] = "none"
          /\ \A i \in DOMAIN Items(stageNo) : itemPc[i] = "done"
          /\ stages' = Append(stages, [i \in DOMAIN Items(stageNo) |-> result[i]])
      BY <2>5 DEF EndStage
    <3>2. PICK S : stages \in Seq(S)
      BY DEF StagesInv
    <3>3. /\ Len(stages) = stageNo - 1 /\ stageNo \in Nat
      BY <3>1 DEF StagesInv, IInv, StageInv
    <3>4. /\ Len(stages') = stageNo
          /\ \A k \in 1..stageNo - 1 : stages'[k] = stages[k]
          /\ stages'[stageNo] = [i \in DOMAIN Items(stageNo) |-> result[i]]
      <4> DEFINE last == [i \in DOMAIN Items(stageNo) |-> result[i]]
      <4>1. stages \in Seq(S \cup {last})
        <5>1. Len(stages) \in Nat /\ stages \in [1..Len(stages) -> S \cup {last}]
          BY <3>2, LenProperties
        <5>2. ASSUME NEW T, NEW n \in Nat, NEW f \in [1..n -> T]
              PROVE  f \in Seq(T)
          BY SeqDef
        <5> HIDE DEF last
        <5> QED  BY <5>1, <5>2
      <4>2. stages' = Append(stages, last)
        BY <3>1
      <4> HIDE DEF last
      <4>3. /\ Len(stages') = Len(stages) + 1
            /\ \A k \in 1..Len(stages) : stages'[k] = stages[k]
            /\ stages'[Len(stages) + 1] = last
        BY <4>1, <4>2, AppendProperties
      <4> QED  BY <3>3, <4>3 DEF last
    <3>5. ASSUME DistinctNames(set), NEW x \in Positions(set), x[1] \in 1..stageNo
          PROVE  /\ NameAt(set, x) \in DOMAIN perItem
                 /\ perItem[NameAt(set, x)] = Snapshot(stages'[x[1]][x[2]].summary)
      <4>1. CASE x[1] = stageNo
        <5>1. x[2] \in DOMAIN Items(stageNo) /\ x[2] \in Slots /\ NameAt(set, x) = Items(stageNo)[x[2]].name
          BY <4>1 DEF Positions, Items, NameAt
        <5>2. stages'[x[1]][x[2]] = result[x[2]] /\ itemPc[x[2]] = "done"
          BY <3>1, <3>4, <4>1, <5>1
        <5> QED  BY <3>1, <3>5, <5>1, <5>2 DEF PerItemInv, HasSet
      <4>2. CASE x[1] # stageNo
        <5>1. x[1] \in 1..Len(stages) /\ stages'[x[1]] = stages[x[1]]
          BY <3>3, <3>4, <3>5, <4>2
        <5> QED  BY <3>1, <3>5, <5>1 DEF PerItemInv, HasSet
      <4> QED  BY <4>1, <4>2
    <3>6. /\ IsFiniteSet(DOMAIN perItem)'
          /\ (\A n \in DOMAIN perItem : \A m \in Compared : perItem[n][m] \in Int)'
      BY <3>1 DEF PerItemInv
    <3> QED  BY <3>1, <3>4, <3>5, <3>6 DEF PerItemInv
  <2> QED  BY <1>6, <2>1, <2>2, <2>3, <2>4, <2>5 DEF RunStep
<1>7. ASSUME NEW i \in Slots, ItemStep(i)
      PROVE  PerItemInv'
  <2>1. /\ pc = "items" /\ UNCHANGED <<pc, set, stageNo, stages, judged>> /\ DOMAIN itemPc = Slots
    BY <1>7 DEF ItemStep, GetSession, BuildFails, ItemRuns, MergeItem, IInv, StageInv
  <2>2. CASE MergeItem(i)
    <3> DEFINE n == result[i].name
               v == Snapshot(result[i].summary)
    <3>1. /\ itemPc[i] = "merge" /\ itemPc' = [itemPc EXCEPT ![i] = "done"] /\ result' = result
          /\ perItem' = Merge(perItem, [x \in {n} |-> v])
      BY <2>2 DEF MergeItem
    <3>2. n = Items(stageNo)[i].name /\ result[i].summary \in Summaries \cup {NoSummary}
      BY <3>1 DEF ResultInv
    <3>3. \A m \in Compared : v[m] \in Int
      BY <3>2, SnapshotIsInt
    <3> HIDE DEF n, v
    <3>4. /\ DOMAIN perItem' = DOMAIN perItem \cup {n} /\ perItem'[n] = v
          /\ \A y \in DOMAIN perItem : y # n => perItem'[y] = perItem[y]
      BY <3>1 DEF Merge
    <3>5. IsFiniteSet(DOMAIN perItem')
      BY <3>4, FS_AddElement DEF PerItemInv
    <3>6. \A y \in DOMAIN perItem' : \A m \in Compared : perItem'[y][m] \in Int
      BY <3>3, <3>4 DEF PerItemInv
    <3>7. ASSUME DistinctNames(set), HasSet
          PROVE  /\ \A x \in Positions(set) : x[1] \in 1..Len(stages) =>
                       /\ NameAt(set, x) \in DOMAIN perItem'
                       /\ perItem'[NameAt(set, x)] = Snapshot(stages[x[1]][x[2]].summary)
                 /\ \A j \in Slots : itemPc'[j] = "done" =>
                       /\ Items(stageNo)[j].name \in DOMAIN perItem'
                       /\ perItem'[Items(stageNo)[j].name] = Snapshot(result[j].summary)
      <4>0. stageNo \in DOMAIN set.stages /\ Len(stages) = stageNo - 1 /\ stageNo \in Nat
        BY <2>1, StoredSetsWellFormed DEF IInv, StageInv, StagesInv, WellFormed
      <4>1. ASSUME NEW j \in Slots, itemPc[j] # "none"
            PROVE  <<stageNo, j>> \in Positions(set) /\ NameAt(set, <<stageNo, j>>) = Items(stageNo)[j].name
        BY <2>1, <4>0, <4>1 DEF IInv, StageInv, Positions, NameAt, Items
      <4>2. \A x, y \in Positions(set) : NameAt(set, x) = NameAt(set, y) => x = y
        BY <3>7 DEF DistinctNames
      <4>3. NameAt(set, <<stageNo, i>>) = n /\ <<stageNo, i>> \in Positions(set)
        BY <3>1, <3>2, <4>1
      <4>4. ASSUME NEW x \in Positions(set), x[1] \in 1..Len(stages)
            PROVE  /\ NameAt(set, x) \in DOMAIN perItem'
                   /\ perItem'[NameAt(set, x)] = Snapshot(stages[x[1]][x[2]].summary)
        <5>1. x # <<stageNo, i>>
          BY <4>0, <4>4
        <5>2. NameAt(set, x) # n
          BY <4>2, <4>3, <5>1
        <5> QED  BY <3>4, <3>7, <4>4, <5>2 DEF PerItemInv
      <4>5. ASSUME NEW j \in Slots, itemPc'[j] = "done"
            PROVE  /\ Items(stageNo)[j].name \in DOMAIN perItem'
                   /\ perItem'[Items(stageNo)[j].name] = Snapshot(result[j].summary)
        <5>1. CASE j = i
          BY <3>2, <3>4, <5>1 DEF v
        <5>2. CASE j # i
          <6>1. itemPc[j] = "done"
            BY <2>1, <3>1, <4>5, <5>2
          <6>2. <<stageNo, j>> \in Positions(set) /\ NameAt(set, <<stageNo, j>>) = Items(stageNo)[j].name
            BY <4>1, <6>1
          <6>3. Items(stageNo)[j].name # n
            BY <4>2, <4>3, <5>2, <6>2
          <6> QED  BY <3>4, <3>7, <6>1, <6>3 DEF PerItemInv
        <5> QED  BY <5>1, <5>2
      <4> QED  BY <4>4, <4>5
    <3>8. Items(stageNo)' = Items(stageNo) /\ (HasSet' => HasSet)
      BY <2>1 DEF Items, HasSet
    <3> QED  BY <2>1, <3>1, <3>5, <3>6, <3>7, <3>8 DEF PerItemInv
  <2>3. CASE ~MergeItem(i)
    <3>1. /\ perItem' = perItem
          /\ \A j \in Slots : itemPc'[j] = "done" => itemPc[j] = "done" /\ result'[j] = result[j]
      BY <1>7, <2>1, <2>3 DEF ItemStep, GetSession, BuildFails, ItemRuns, Ended, ResultInv
    <3>2. Items(stageNo)' = Items(stageNo) /\ (HasSet' => HasSet)
      BY <2>1 DEF Items, HasSet
    <3> QED  BY <2>1, <3>1, <3>2 DEF PerItemInv
  <2> QED  BY <2>2, <2>3
<1> QED  BY <1>1, <1>2, <1>3, <1>4, <1>5, <1>6, <1>7 DEF Next, EditorMoves, MainStores, RunnerSteps, vars

LEMMA WorkInvariance == Spec => [](IInv /\ FlagsInv /\ WorkInv)
<1>1. IInv /\ FlagsInv /\ WorkInv /\ [Next]_vars => WorkInv'
  BY ResultInvStep, StagesInvStep, PerItemInvStep DEF WorkInv
<1> QED  BY <1>1, InitWorkInv, FlagsInvariance, PTL DEF Spec

\* A threshold on the worst of the items is one on each of them.
LEMMA AggregateIsWorst ==
    ASSUME PerItemInv, NEW n \in DOMAIN perItem, NEW t \in Limits,
           t.metric \notin Summed, t.op \in {"lt", "le"}, Holds(t, Aggregate(perItem))
    PROVE  Holds(t, perItem[n])
<1> DEFINE m == t.metric
           S == {0} \cup {perItem[x][m] : x \in DOMAIN perItem}
<1>1. m \in Compared /\ m \in Metrics
  BY DEF Holds, Compared
<1>2. Aggregate(perItem)[m] = Max(S)
  BY <1>1 DEF Aggregate
<1>3. IsFiniteSet(S)
  <2>1. IsFiniteSet({perItem[x][m] : x \in DOMAIN perItem})
    <3> DEFINE f == [x \in DOMAIN perItem |-> perItem[x][m]]
               T == {perItem[x][m] : x \in DOMAIN perItem}
    <3>1. f \in Surjection(DOMAIN perItem, T)
      BY DEF Surjection
    <3> HIDE DEF f, T
    <3>2. IsFiniteSet(T)
      BY <3>1, FS_Surjection DEF PerItemInv
    <3> QED  BY <3>2 DEF T
  <2> QED  BY <2>1, FS_Singleton, FS_Union
<1>4. S \subseteq Int /\ S # {} /\ perItem[n][m] \in S
  BY <1>1 DEF PerItemInv
<1> HIDE DEF S
<1>5. Max(S) \in Int /\ Max(S) >= perItem[n][m] /\ perItem[n][m] \in Int
  BY <1>3, <1>4, MaxExists
<1>6. t.value \in Int
  BY DocsAssumption
<1>7. Compare(Max(S), t.value, t.op)
  BY <1>2 DEF Holds
<1>8. Compare(perItem[n][m], t.value, t.op)
  <2>1. CASE t.op = "lt"
    BY <1>5, <1>6, <1>7, <2>1 DEF Compare
  <2>2. CASE t.op = "le"
    BY <1>5, <1>6, <1>7, <2>2 DEF Compare
  <2> QED  BY <2>1, <2>2
<1> QED  BY <1>1, <1>8 DEF Holds

\* A run that is reported completed went through all its stages without a
\* failure in one that aborts, and each item satisfies the thresholds that
\* speak of it (see VerdictSound), in whatever order the items ended.
THEOREM VerdictCoversAll == Spec => []VerdictSound
<1>1. IInv /\ FlagsInv /\ WorkInv => VerdictSound
  <2> SUFFICES ASSUME IInv, FlagsInv, WorkInv, pc = "returned", status = "completed"
               PROVE  /\ Len(stages) = Len(set.stages)
                      /\ \A k \in DOMAIN stages : Aborts(set.stages[k]) =>
                            \A i \in DOMAIN stages[k] : stages[k][i].status = "completed"
                      /\ DistinctNames(set) => Satisfied(set, stages)
    BY DEF VerdictSound
  <2>1. HasSet /\ set \in StoredSets /\ stageNo = Len(set.stages) /\ MayGoOn /\ Len(stages) = stageNo
    BY DEF WorkInv, StagesInv, HasSet
  <2>2. WellFormed(set)
    BY <2>1, StoredSetsWellFormed
  <2>3. DOMAIN stages = 1..Len(stages)
    <3>1. PICK S : stages \in Seq(S)
      BY DEF WorkInv, StagesInv
    <3> QED  BY <3>1, LenProperties
  <2>4. ASSUME NEW k \in DOMAIN stages, Aborts(set.stages[k])
        PROVE  \A i \in DOMAIN stages[k] : stages[k][i].status = "completed"
    <3>1. k < stageNo \/ ~anyFail
      BY <2>1, <2>2, <2>3, <2>4 DEF MayGoOn, WellFormed
    <3> QED  BY <2>1, <2>3, <2>4, <3>1 DEF WorkInv, StagesInv
  <2>5. ASSUME DistinctNames(set), NEW k \in DOMAIN set.thresholds, NEW x \in Positions(set),
               SpeaksOf(set.thresholds[k], NameAt(set, x))
        PROVE  Holds(set.thresholds[k], Snapshot(stages[x[1]][x[2]].summary))
    <3> DEFINE t == set.thresholds[k]
               n == NameAt(set, x)
    <3>1. x[1] \in 1..Len(stages)
      BY <2>1, <2>2 DEF WellFormed, Positions
    <3>2. n \in DOMAIN perItem /\ perItem[n] = Snapshot(stages[x[1]][x[2]].summary)
      BY <2>1, <2>5, <3>1 DEF WorkInv, PerItemInv
    <3>3. t \in Limits
      BY <2>2, LenProperties DEF WellFormed
    <3>4. judged = EvaluateThresholds(set.thresholds, Aggregate(perItem), perItem) /\ AllPassed(judged)
      BY DEF WorkInv, PerItemInv, FlagsInv, VerdictInv
    <3>5. \A r \in Evaluate(t, Aggregate(perItem), perItem) : r.passed
      BY <3>4 DEF EvaluateThresholds, AllPassed
    <3>6. n \notin {"", "aggregate", "per_item"}
      BY <2>5 DEF DistinctNames
    <3> HIDE DEF t, n
    <3>7. CASE t.scope = "per_item"
      <4> DEFINE r == [scope |-> n, passed |-> Holds(t, perItem[n])]
      <4>1. r \in Evaluate(t, Aggregate(perItem), perItem)
        BY <3>2, <3>7, Zenon DEF Evaluate
      <4>2. r.passed
        BY <3>5, <4>1
      <4> QED  BY <3>2, <4>2 DEF t
    <3>8. CASE t.scope = n
      <4>1. n \in DOMAIN perItem /\ Holds(t, perItem[n])
        BY <3>5, <3>6, <3>8 DEF Evaluate
      <4> QED  BY <3>2, <4>1 DEF t
    <3>9. CASE t.scope \in {"", "aggregate"} /\ t.metric \notin Summed /\ t.op \in {"lt", "le"}
      <4>1. Holds(t, Aggregate(perItem))
        BY <3>5, <3>9 DEF Evaluate
      <4>2. Holds(t, perItem[n])
        BY <3>2, <3>3, <3>9, <4>1, AggregateIsWorst DEF WorkInv
      <4> QED  BY <3>2, <4>2 DEF t
    <3> QED  BY <2>5, <3>2, <3>7, <3>8, <3>9 DEF SpeaksOf, t, n
  <2> QED  BY <2>1, <2>4, <2>5 DEF Satisfied
<1> QED  BY <1>1, WorkInvariance, PTL
=============================================================================
