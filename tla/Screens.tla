------------------------------ MODULE Screens ------------------------------
(***************************************************************************)
(* The screens of the terminal UI that load and edit what is stored        *)
(* (internal/tui/screens): the list of sessions with its filter bar, the   *)
(* session screens that are pushed on it, and the screens of the sets,     *)
(* most of which replace one another.  The user is patient: every message  *)
(* is delivered before the next key (Tui is about the user who is not, and *)
(* about the Run screen).  Other processes may write the same store, and   *)
(* its files may be unreadable for a while.                                *)
(***************************************************************************)
EXTENDS Integers, Sequences, FiniteSets

CONSTANTS
    Sessions,   \* the sessions that may be in the store
    NoSession,
    TagSets,    \* the sets of tags that a session may have
    Unstored    \* in place of one: no such session, or none that can be read

VARIABLES
    alive,    \* the program has neither quit nor panicked
    stack,    \* the screens [kind, ref, ready], the last one on top
    saved,    \* the tags of every session in the store, or Unstored
    shown,    \* the same as it was when the list was last loaded
    cursor,   \* where the list's cursor is, from 0
    bar,      \* its filter: "off", "on", "prompt" or "prompt again"
    filter,   \* the tags that the filter's expression matches
    mode,     \* of the session editor: "form" or "yaml"
    saveAs    \* the session that the editor's form would save, NoSession for a new one

listVars == <<shown, cursor, bar, filter>>
editVars == <<mode, saveAs>>
vars == <<alive, stack, saved, listVars, editVars>>

\* Screens that are pushed and pop themselves, and those that load something.
Popping == {"detail", "history", "confirm", "edit", "import", "run"}
Loading == {"sets", "set detail", "set history", "set run", "picker"}
Kinds == {"list", "set edit", "set compare", "set diff", "params"} \cup Popping \cup Loading

Screen(kind, ref) == [kind |-> kind, ref |-> ref, ready |-> FALSE]
Top == stack[Len(stack)]

Init ==
    /\ alive = TRUE
    /\ stack = <<Screen("list", NoSession)>>
    /\ saved \in [Sessions -> TagSets \cup {Unstored}]
    /\ shown = saved
    /\ cursor = 0
    /\ bar = "off"
    /\ filter = {}
    /\ mode = "form"
    /\ saveAs = NoSession

---------------------------------------------------------------------------
\* Root: a pushed screen, and the one that a pop uncovers, is initialised; a
\* screen that an update returns in place of its own is not.
Initialised(screen) ==
    [kind |-> screen.kind, ref |-> screen.ref, ready |-> screen.ready \/ screen.kind \in Loading]

Push(kind, ref) ==
    /\ stack' = Append(stack, Initialised(Screen(kind, ref)))
    /\ UNCHANGED <<alive, saved, listVars, editVars>>

Under == stack[Len(stack) - 1]
Pop(store) ==
    /\ Len(stack) > 1
    /\ stack' = [SubSeq(stack, 1, Len(stack) - 1) EXCEPT ![Len(stack) - 1] = Initialised(Under)]
    /\ saved' = store
    /\ shown' = IF Under.kind = "list" THEN store ELSE shown
    /\ UNCHANGED <<alive, cursor, bar, filter, editVars>>

Become(screen) ==
    /\ stack' = [stack EXCEPT ![Len(stack)] = screen]
    /\ UNCHANGED <<alive, saved, listVars, editVars>>

Quit == alive' = FALSE /\ UNCHANGED <<stack, saved, listVars, editVars>>

---------------------------------------------------------------------------
\* The list of sessions and its filter bar.
RowsOf(list, b, f) == {s \in Sessions : list[s] # Unstored /\ (b = "on" => list[s] \in f)}
Rows == RowsOf(shown, bar, filter)
Clamped(n) == IF n = 0 THEN 0 ELSE IF cursor >= n THEN n - 1 ELSE cursor

\* What a key that the bar handles may make of it: an expression is asked
\* for, entered, cleared or given up; one that does not parse is asked for again.
BarNext(b) ==
    CASE b = "off" -> {"prompt"}
      [] b = "on" -> {"off", "prompt again"}
      [] b = "prompt" -> {"off", "on", "prompt"}
      [] b = "prompt again" -> {"off", "on", "prompt again"}

BarKey ==
    /\ Top.kind = "list"
    /\ \E b \in BarNext(bar), f \in SUBSET TagSets :
          /\ b # "on" => f = filter
          /\ bar' = b
          /\ filter' = f
          /\ cursor' = Clamped(Cardinality(RowsOf(shown, b, f)))
    /\ UNCHANGED <<alive, stack, saved, shown, editVars>>

Listening == Top.kind = "list" /\ bar \in {"off", "on"}

Move ==
    /\ Listening
    /\ \/ cursor > 0 /\ cursor' = cursor - 1
       \/ cursor < Cardinality(Rows) - 1 /\ cursor' = cursor + 1
    /\ UNCHANGED <<alive, stack, saved, shown, bar, filter, editVars>>

\* A key for the row at the cursor, which must not be beyond the rows.
Choose ==
    /\ Listening
    /\ Rows # {}
    /\ IF cursor >= Cardinality(Rows) THEN Quit
       ELSE \E s \in Rows, kind \in {"detail", "history", "confirm", "run"} : Push(kind, s)

Open ==
    /\ Listening
    /\ \E kind \in {"import", "sets"} : Push(kind, NoSession)

\* q at the root of the stack, the filter's prompt included.
ListQuit == Top.kind = "list" /\ Quit

---------------------------------------------------------------------------
\* The screens of a session.
Fresh == {s \in Sessions : saved[s] = Unstored}

DetailKey ==
    /\ Top.kind = "detail"
    /\ \/ Pop(saved)
       \/ \E kind \in {"history", "run"} : Push(kind, Top.ref)

Leave == Top.kind \in {"history", "confirm", "run", "import"} /\ Pop(saved)

ConfirmDelete == Top.kind = "confirm" /\ Pop([saved EXCEPT ![Top.ref] = Unstored])

\* The editor of the imported session is pushed and then popped: the import
\* screen, initialised once more, stays.
Import ==
    /\ Top.kind = "import"
    /\ \E s \in Fresh, tags \in TagSets : saved' = [saved EXCEPT ![s] = tags]
    /\ UNCHANGED <<alive, stack, listVars, editVars>>

EditOpen ==
    /\ Listening
    /\ \E s \in Rows \cup {NoSession} :
          /\ s # NoSession => cursor < Cardinality(Rows)
          /\ stack' = Append(stack, Screen("edit", s))
          /\ saveAs' = s
    /\ mode' = "form"
    /\ UNCHANGED <<alive, saved, listVars>>

EditLeave == Top.kind = "edit" /\ Pop(saved)

\* F2.  The way back takes over all that the text says, the ID included.
EditToggle ==
    /\ Top.kind = "edit"
    /\ \/ mode = "form" /\ mode' = "yaml" /\ UNCHANGED saveAs
       \/ mode = "yaml" /\ mode' = "form" /\ \E s \in Sessions \cup {NoSession} : saveAs' = s
    /\ UNCHANGED <<alive, stack, saved, listVars>>

\* Ctrl+S, in either mode.  The text says which tags the session has, and so does
\* the form after a toggle.  A session that is gone is created once more.
EditSave ==
    /\ Top.kind = "edit"
    /\ \E s \in IF saveAs = NoSession THEN Fresh ELSE {saveAs}, tags \in TagSets :
          Pop([saved EXCEPT ![s] = tags])

---------------------------------------------------------------------------
\* The screens of the sets.  The list of sets loads itself anew on r, and after
\* a deletion.
SetsListKey ==
    /\ Top.kind = "sets"
    /\ \/ Quit
       \/ Become(Initialised(Top))
       \/ Become(Screen("picker", NoSession))
       \/ Push("set edit", NoSession)
       \/ Top.ready /\ Push("set detail", NoSession)

SetsDetailKey ==
    /\ Top.kind = "set detail"
    /\ \E kind \in {"sets", "set edit", "set run", "set history"} : Become(Screen(kind, NoSession))

SetsEditKey == Top.kind = "set edit" /\ Become(Screen("sets", NoSession))

\* Compare needs one of the runs that were loaded, diff two.
SetsHistoryKey ==
    /\ Top.kind = "set history"
    /\ \/ Become(Screen("set detail", NoSession))
       \/ /\ Top.ready
          /\ \E kind \in {"set compare", "set diff"} : Become(Screen(kind, NoSession))

SetCompareKey == Top.kind = "set compare" /\ Become(Screen("set detail", NoSession))
SetsDiffKey == Top.kind = "set diff" /\ Become(Screen("set history", NoSession))

\* A set run that was never started has no result to compare.
SetRunKey ==
    /\ Top.kind = "set run"
    /\ \/ Become(Screen("set detail", NoSession))
       \/ Top.ready /\ Become(Screen("set compare", NoSession))

PickerKey ==
    /\ Top.kind = "picker"
    /\ \/ Become(Screen("sets", NoSession))
       \/ Top.ready /\ Become(Screen("params", NoSession))

ParamsKey ==
    /\ Top.kind = "params"
    /\ \/ Become(Initialised(Screen("picker", NoSession)))
       \/ Become(Screen("sets", NoSession))

---------------------------------------------------------------------------
SessionKey ==
    \/ BarKey
    \/ Move
    \/ Choose
    \/ Open
    \/ ListQuit
    \/ DetailKey
    \/ Leave
    \/ ConfirmDelete
    \/ Import
    \/ EditOpen
    \/ EditLeave
    \/ EditToggle
    \/ EditSave

SetKey ==
    \/ SetsListKey
    \/ SetsDetailKey
    \/ SetsEditKey
    \/ SetsHistoryKey
    \/ SetCompareKey
    \/ SetsDiffKey
    \/ SetRunKey
    \/ PickerKey
    \/ ParamsKey

Key == alive /\ (SessionKey \/ SetKey)

\* Other processes save and delete sessions; a file that cannot be read is left
\* out of the list, which is empty if the directory cannot be.
Elsewhere ==
    /\ saved' \in [Sessions -> TagSets \cup {Unstored}]
    /\ UNCHANGED <<alive, stack, listVars, editVars>>

Next == Key \/ Elsewhere

Spec == Init /\ [][Next]_vars

\* The same while nothing else touches the store, which can be read.
AloneSpec == Init /\ [][Key]_vars

---------------------------------------------------------------------------
\* The cursor is on a row of the list, or there is none.
CursorOK == cursor = 0 \/ cursor < Cardinality(Rows)

\* A screen is popped off the list, which is loaded anew and lacks a row it had.
LosesRow ==
    /\ Len(stack') < Len(stack)
    /\ stack'[Len(stack')].kind = "list"
    /\ ~(Rows \subseteq Rows')

\* Neither the keys of the list and its filter bar nor any other screen leave the
\* cursor beyond the last row, where the next key for a row panics: only a load
\* does that does not find a row again (list.go:52-54 does not clamp).
OnlyLoadsStrand == [][CursorOK => CursorOK' \/ LosesRow]_vars

\* While nothing else touches the store, that is a deletion, or a save of a session
\* with other tags under a filter.  Leaving a screen, importing or saving
\* without a filter never does it.
OnlyEditsStrand ==
    [][CursorOK => CursorOK' \/ (LosesRow /\ (ConfirmDelete \/ (EditSave /\ bar = "on")))]_vars

\* What is only ever put in place of another screen is never initialised.  So
\* R on the detail of a set starts nothing, its history shows no run, no
\* template can be picked, and neither comparison nor diff can be reached.
NeverLoaded ==
    \A i \in DOMAIN stack :
        /\ stack[i].kind \in {"set run", "set history", "picker"} => ~stack[i].ready
        /\ stack[i].kind \notin {"set compare", "set diff", "params"}
=============================================================================
