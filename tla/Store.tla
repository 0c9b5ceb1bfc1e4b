------------------------------- MODULE Store -------------------------------
(***************************************************************************)
(* The files of the data directory (internal/store), as several processes  *)
(* see them: the daemon, the TUI and commands write sets, sessions,        *)
(* templates and run records side by side.  A document is written whole    *)
(* to <path>.tmp and renamed; sets, sessions and templates are written     *)
(* under a lock file, run records without one.                             *)
(*                                                                         *)
(* A lock is held on a file, not on a name: DeleteSession and              *)
(* DeleteTemplate remove the lock file with the document, and whoever      *)
(* opens it next locks another file.  gen counts those removals, and a     *)
(* process remembers the generation that it opened.                        *)
(***************************************************************************)
EXTENDS Naturals

CONSTANTS
    Procs,         \* processes that use the store
    SetPaths,      \* sets/<id>.yaml: DeleteSet leaves the lock file alone
    SessionPaths,  \* sessions and templates: the lock file goes too
    RecordPaths,   \* set-run.json, run.json: written without a lock
    Docs,          \* documents
    Absent,        \* no such file
    Empty,         \* created or truncated, nothing written
    Mixed          \* the bytes of two documents

Paths == SetPaths \cup SessionPaths \cup RecordPaths
Contents == Docs \cup {Absent, Empty, Mixed}

ASSUME StoreAssumption ==
    /\ SetPaths \cap SessionPaths = {}
    /\ RecordPaths \cap (SetPaths \cup SessionPaths) = {}
    /\ Absent \notin Docs /\ Empty \notin Docs /\ Mixed \notin Docs
    /\ Absent # Empty /\ Absent # Mixed /\ Empty # Mixed
    /\ Paths # {} /\ Docs # {}

VARIABLES
    file,    \* what a reader of each path finds
    temp,    \* what <path>.tmp holds
    gen,     \* how often the lock file of each path was removed
    step,    \* what each process does: see Steps
    at,      \* the path it works on
    doc,     \* the document it writes
    opened,  \* the generation of the lock file it opened
    fd       \* where its open descriptor leads: "temp", "file" or "gone"

storeVars == <<file, temp, gen, step, at, doc, opened, fd>>

Steps == {"idle", "open", "lock", "create", "write", "rename", "rmlock", "ok", "err"}

\* Between a lock and its release.
Writing(p) == step[p] \in {"create", "write", "rename"}

StoreTypeOK ==
    /\ file \in [Paths -> Contents]
    /\ temp \in [Paths -> Contents]
    /\ gen \in [Paths -> Nat]
    /\ step \in [Procs -> Steps]
    /\ at \in [Procs -> Paths]
    /\ doc \in [Procs -> Docs]
    /\ opened \in [Procs -> Nat]
    /\ fd \in [Procs -> {"temp", "file", "gone"}]

StoreInit(files) ==
    /\ file = files
    /\ temp = [x \in Paths |-> Absent]
    /\ gen = [x \in Paths |-> 0]
    /\ step = [p \in Procs |-> "idle"]
    /\ at = [p \in Procs |-> CHOOSE x \in Paths : TRUE]
    /\ doc = [p \in Procs |-> CHOOSE d \in Docs : TRUE]
    /\ opened = [p \in Procs |-> 0]
    /\ fd = [p \in Procs |-> "gone"]

Resting(p) == step[p] \in {"idle", "ok", "err"}

---------------------------------------------------------------------------
\* SaveSession, SaveSet and SaveTemplate, once the document has been checked.
BeginSave(p, path, d) ==
    /\ Resting(p)
    /\ path \notin RecordPaths
    /\ step' = [step EXCEPT ![p] = "open"]
    /\ at' = [at EXCEPT ![p] = path]
    /\ doc' = [doc EXCEPT ![p] = d]
    /\ UNCHANGED <<file, temp, gen, opened, fd>>

\* writeRunMeta and writeSetRunJSON.
BeginRecord(p, path, d) ==
    /\ Resting(p)
    /\ path \in RecordPaths
    /\ step' = [step EXCEPT ![p] = "create"]
    /\ at' = [at EXCEPT ![p] = path]
    /\ doc' = [doc EXCEPT ![p] = d]
    /\ UNCHANGED <<file, temp, gen, opened, fd>>

OpenLock(p) ==
    /\ step[p] = "open"
    /\ step' = [step EXCEPT ![p] = "lock"]
    /\ opened' = [opened EXCEPT ![p] = gen[at[p]]]
    /\ UNCHANGED <<file, temp, gen, at, doc, fd>>

SameLock(p, q) == at[p] = at[q] /\ opened[p] = opened[q]

\* A bug that could be: SaveSet and SaveSession without the flock.
MutAcquireLock(p) ==
    /\ step[p] = "lock"
    /\ step' = [step EXCEPT ![p] = "create"]
    /\ UNCHANGED <<file, temp, gen, at, doc, opened, fd>>

AcquireLock(p) ==
    /\ step[p] = "lock"
    /\ \A q \in Procs \ {p} : Writing(q) => ~SameLock(p, q)
    /\ step' = [step EXCEPT ![p] = "create"]
    /\ UNCHANGED <<file, temp, gen, at, doc, opened, fd>>

---------------------------------------------------------------------------
\* writeAtomic.  os.WriteFile creates or truncates the file that is there.
CreateTemp(p) ==
    /\ step[p] = "create"
    /\ step' = [step EXCEPT ![p] = "write"]
    /\ temp' = [temp EXCEPT ![at[p]] = Empty]
    /\ fd' = [fd EXCEPT ![p] = "temp"]
    /\ UNCHANGED <<file, gen, at, doc, opened>>

\* What a file holds after d is written from its start.
Overlay(old, d) == IF old \in {Empty, d} THEN d ELSE Mixed

WriteTemp(p) ==
    /\ step[p] = "write"
    /\ step' = [step EXCEPT ![p] = "rename"]
    /\ temp' = IF fd[p] = "temp" THEN [temp EXCEPT ![at[p]] = Overlay(@, doc[p])] ELSE temp
    /\ file' = IF fd[p] = "file" THEN [file EXCEPT ![at[p]] = Overlay(@, doc[p])] ELSE file
    /\ fd' = [fd EXCEPT ![p] = "gone"]
    /\ UNCHANGED <<gen, at, doc, opened>>

\* Where an open descriptor on path leads once <path>.tmp has become <path>.
Renamed(path) ==
    [q \in Procs |-> IF at[q] # path THEN fd[q]
                     ELSE IF fd[q] = "temp" THEN "file" ELSE "gone"]

RenameTemp(p) ==
    /\ step[p] = "rename"
    /\ temp[at[p]] # Absent
    /\ step' = [step EXCEPT ![p] = "ok"]
    /\ file' = [file EXCEPT ![at[p]] = temp[at[p]]]
    /\ temp' = [temp EXCEPT ![at[p]] = Absent]
    /\ fd' = Renamed(at[p])
    /\ UNCHANGED <<gen, at, doc, opened>>

\* A full disk: the temporary file stays as it is, the old document too.
WriteFails(p) ==
    /\ step[p] \in {"create", "write"}
    /\ step' = [step EXCEPT ![p] = "err"]
    /\ UNCHANGED <<file, temp, gen, at, doc, opened, fd>>

\* The temporary file is removed; without one the rename fails as well.
RenameFails(p) ==
    /\ step[p] = "rename"
    /\ step' = [step EXCEPT ![p] = "err"]
    /\ temp' = [temp EXCEPT ![at[p]] = Absent]
    /\ fd' = [q \in Procs |-> IF at[q] = at[p] /\ fd[q] = "temp" THEN "gone" ELSE fd[q]]
    /\ UNCHANGED <<file, gen, at, doc, opened>>

---------------------------------------------------------------------------
\* Where an open descriptor on path leads once the file is removed.
Unlinked(path) ==
    [q \in Procs |-> IF at[q] = path /\ fd[q] = "file" THEN "gone" ELSE fd[q]]

\* DeleteSet, and the first half of DeleteSession and DeleteTemplate.
Remove(p, path) ==
    /\ Resting(p)
    /\ path \notin RecordPaths
    /\ file[path] # Absent
    /\ step' = [step EXCEPT ![p] = IF path \in SessionPaths THEN "rmlock" ELSE "ok"]
    /\ at' = [at EXCEPT ![p] = path]
    /\ file' = [file EXCEPT ![path] = Absent]
    /\ fd' = Unlinked(path)
    /\ UNCHANGED <<temp, gen, doc, opened>>

RemoveLock(p) ==
    /\ step[p] = "rmlock"
    /\ step' = [step EXCEPT ![p] = "ok"]
    /\ gen' = [gen EXCEPT ![at[p]] = @ + 1]
    /\ UNCHANGED <<file, temp, at, doc, opened, fd>>

\* The process dies: its lock and its descriptor go, the files stay.
Die(p) ==
    /\ step' = [step EXCEPT ![p] = "idle"]
    /\ fd' = [fd EXCEPT ![p] = "gone"]
    /\ UNCHANGED <<file, temp, gen, at, doc, opened>>

\* The steps of an operation under way.
StoreStep(p) ==
    \/ OpenLock(p)
    \/ AcquireLock(p)
    \/ CreateTemp(p)
    \/ WriteTemp(p)
    \/ RenameTemp(p)
    \/ WriteFails(p)
    \/ RenameFails(p)
    \/ RemoveLock(p)

StoreNext ==
    \E p \in Procs :
        \/ StoreStep(p)
        \/ Die(p)
        \/ \E path \in Paths :
              \/ Remove(p, path)
              \/ \E d \in Docs : BeginSave(p, path, d) \/ BeginRecord(p, path, d)

\* Any number of processes, from any whole files.
StoreSpec ==
    /\ \E files \in [Paths -> Docs \cup {Absent}] : StoreInit(files)
    /\ [][StoreNext]_storeVars

---------------------------------------------------------------------------
\* GetSet and GetSession find a document unless the file is missing or does
\* not parse; an empty file parses as a document without content.
Readable(path) == file[path] \notin {Absent, Mixed}

Torn(path) == file[path] \in {Empty, Mixed}

\* A reader never meets half a document or two, whoever writes, fails or dies
\* at the same time: not in a set, whose lock file is never removed, and in a
\* session or template only if it was deleted before (writeAtomic under flock).
NoTornFile == \A path \in Paths \ RecordPaths : Torn(path) => gen[path] > 0
=============================================================================
