--------------------------- MODULE Screens_proofs ---------------------------
(***************************************************************************)
(* What holds of the screens for any sessions, tags and filters: types,    *)
(* which screens are never initialised, and which steps alone can leave    *)
(* the cursor of the list beyond its rows.                                 *)
(***************************************************************************)
EXTENDS Screens, FiniteSetTheorems, SequenceTheorems, TLAPS

ScreenType == [kind : Kinds, ref : Sessions \cup {NoSession}, ready : BOOLEAN]

Stores == [Sessions -> TagSets \cup {Unstored}]

\* Types of the stack and the list.
TypeOK ==
    /\ stack \in Seq(ScreenType)
    /\ Len(stack) > 0
    /\ saved \in Stores
    /\ shown \in Stores
    /\ filter \in SUBSET TagSets
    /\ saveAs \in Sessions \cup {NoSession}

\* A screen that pops itself lies on the list or on the details of a session,
\* and a confirmation or an editor on the list: its pop will initialise that.
Lies(screen, on) ==
    /\ screen.kind \in Popping => on.kind \in {"list", "detail"}
    /\ screen.kind \in {"confirm", "edit"} => on.kind = "list"

PopsToSession == \A i \in 2..Len(stack) : Lies(stack[i], stack[i - 1])

\* A screen that has nothing to load, or was pushed.
Unloaded(screen) ==
    /\ screen.kind \in {"set run", "set history", "picker"} => ~screen.ready
    /\ screen.kind \notin {"set compare", "set diff", "params"}

Shape == TypeOK /\ PopsToSession /\ NeverLoaded

LEMMA Loads == NeverLoaded <=> \A i \in DOMAIN stack : Unloaded(stack[i])
BY DEF NeverLoaded, Unloaded

LEMMA ScreenFacts ==
    ASSUME NEW kind \in Kinds, NEW ref \in Sessions \cup {NoSession}
    PROVE  /\ Screen(kind, ref) \in ScreenType
           /\ Screen(kind, ref).kind = kind
           /\ Screen(kind, ref).ready = FALSE
BY DEF Screen, ScreenType

LEMMA InitialisedFacts ==
    ASSUME NEW s \in ScreenType
    PROVE  /\ Initialised(s) \in ScreenType
           /\ Initialised(s).kind = s.kind
           /\ s.kind \notin Loading => Initialised(s).ready = s.ready
BY DEF Initialised, ScreenType

LEMMA ReplacedLast ==
    ASSUME NEW seq \in Seq(ScreenType), Len(seq) > 0, NEW s \in ScreenType,
           NEW new, new = [seq EXCEPT ![Len(seq)] = s]
    PROVE  /\ new \in Seq(ScreenType)
           /\ Len(new) = Len(seq)
           /\ \A i \in 1..Len(seq) : new[i] = IF i = Len(seq) THEN s ELSE seq[i]
<1>1. Len(seq) \in 1..Len(seq)
  OBVIOUS
<1> QED
  BY <1>1, ExceptSeq

LEMMA TopType ==
    ASSUME Shape
    PROVE  /\ Top \in ScreenType
           /\ Len(stack) \in 1..Len(stack)
           /\ DOMAIN stack = 1..Len(stack)
BY DEF Shape, TypeOK, Top

\* A screen in place of the top one keeps the shape, if it is none of those
\* that are never loaded and does not pop itself.
LEMMA BecomeKeeps ==
    ASSUME Shape, NEW s \in ScreenType, Become(s), Unloaded(s), s.kind \notin Popping
    PROVE  Shape'
<1>1. PICK n \in 1..Len(stack) : n = Len(stack)
  BY TopType
<1>2. stack \in Seq(ScreenType) /\ stack' = [stack EXCEPT ![Len(stack)] = s] /\ Len(stack) > 0
  BY DEF Become, Shape, TypeOK
<1>3. /\ stack' \in Seq(ScreenType)
      /\ Len(stack') = n
      /\ \A i \in 1..n : stack'[i] = IF i = n THEN s ELSE stack[i]
  BY <1>1, <1>2, ReplacedLast
<1>4. TypeOK'
  BY <1>1, <1>3 DEF Become, Shape, TypeOK, listVars, editVars
<1>5. NeverLoaded'
  <2>1. \A i \in 1..n : Unloaded(stack'[i])
    BY <1>1, <1>3, Loads, TopType DEF Shape
  <2>2. DOMAIN stack' = 1..n
    BY <1>3
  <2> QED
    BY <2>1, <2>2 DEF NeverLoaded, Unloaded
<1>6. PopsToSession'
  <2>1. SUFFICES ASSUME NEW i \in 2..n
                 PROVE  Lies(stack'[i], stack'[i - 1])
    BY <1>3 DEF PopsToSession
  <2>2. n \in Nat /\ i \in 1..n /\ i - 1 \in 1..n /\ i - 1 # n
    BY <1>1
  <2>3. stack'[i - 1] = stack[i - 1]
    BY <1>3, <2>2
  <2>4. CASE i = n
    <3>1. stack'[i] = s
      BY <1>3, <2>2, <2>4
    <3> QED
      BY <3>1 DEF Lies, Popping
  <2>5. CASE i # n
    <3>1. stack'[i] = stack[i]
      BY <1>3, <2>2, <2>5
    <3> QED
      BY <3>1, <2>3, <1>1 DEF Shape, PopsToSession
  <2> QED
    BY <2>4, <2>5
<1> QED
  BY <1>4, <1>5, <1>6 DEF Shape

\* A pushed screen keeps it likewise.
LEMMA PushKeeps ==
    ASSUME Shape, NEW s \in ScreenType, stack' = Append(stack, s), saved' = saved,
           shown' = shown, filter' = filter, saveAs' \in Sessions \cup {NoSession},
           Unloaded(s), Lies(s, Top)
    PROVE  Shape'
<1>1. PICK n \in Nat : n = Len(stack) /\ n > 0
  BY DEF Shape, TypeOK
<1>2. /\ Len(stack') = n + 1
      /\ stack' \in Seq(ScreenType)
      /\ \A i \in 1..n : stack'[i] = stack[i]
      /\ stack'[n + 1] = s
  BY <1>1 DEF Shape, TypeOK
<1>3. TypeOK'
  BY <1>1, <1>2 DEF Shape, TypeOK
<1>4. NeverLoaded'
  <2>1. \A i \in 1..n : Unloaded(stack'[i])
    BY <1>1, <1>2, Loads, TopType DEF Shape
  <2>2. \A i \in 1..(n + 1) : i \in 1..n \/ i = n + 1
    BY <1>1
  <2>3. \A i \in 1..(n + 1) : Unloaded(stack'[i])
    BY <2>1, <2>2, <1>2
  <2>4. DOMAIN stack' = 1..(n + 1)
    BY <1>2
  <2> QED
    BY <2>3, <2>4 DEF NeverLoaded, Unloaded
<1>5. PopsToSession'
  <2>1. SUFFICES ASSUME NEW i \in 2..(n + 1)
                 PROVE  Lies(stack'[i], stack'[i - 1])
    BY <1>2 DEF PopsToSession
  <2>2. i - 1 \in 1..n /\ stack'[i - 1] = stack[i - 1]
    BY <1>1, <1>2
  <2>3. CASE i = n + 1
    <3>1. stack'[i] = s /\ i - 1 = n
      BY <1>2, <2>3, <1>1
    <3> QED
      BY <3>1, <2>2, <1>1 DEF Top
  <2>4. CASE i # n + 1
    <3>1. i \in 2..n /\ stack'[i] = stack[i]
      BY <1>1, <1>2, <2>4
    <3> QED
      BY <3>1, <2>2, <1>1 DEF Shape, PopsToSession
  <2> QED
    BY <2>3, <2>4
<1> QED
  BY <1>3, <1>4, <1>5 DEF Shape

\* A pop uncovers a session screen, which has nothing to load.
LEMMA PopFacts ==
    ASSUME Shape, NEW store \in Stores, Pop(store), Top.kind \in Popping
    PROVE  /\ Shape'
           /\ Under.kind \in {"list", "detail"}
           /\ Top.kind \in {"confirm", "edit"} => Under.kind = "list"
           /\ Len(stack') < Len(stack)
           /\ stack'[Len(stack')].kind = Under.kind
<1>1. PICK n \in Nat : n = Len(stack) - 1 /\ n > 0
  BY DEF Pop, Shape, TypeOK
<1>2. /\ Under = stack[n]
      /\ Under \in ScreenType
      /\ Lies(Top, Under)
  <2>1. n + 1 \in 2..Len(stack) /\ n \in 1..Len(stack) /\ n + 1 = Len(stack)
    BY <1>1 DEF Shape, TypeOK
  <2>2. Lies(stack[n + 1], stack[n + 1 - 1]) /\ n + 1 - 1 = n
    BY <2>1 DEF Shape, PopsToSession
  <2> QED
    BY <2>1, <2>2, <1>1 DEF Under, Top, Shape, TypeOK
<1>3. Under.kind \in {"list", "detail"} /\ (Top.kind \in {"confirm", "edit"} => Under.kind = "list")
  BY <1>2 DEF Lies
<1>4. /\ Initialised(Under) \in ScreenType
      /\ Initialised(Under).kind = Under.kind
      /\ Unloaded(Initialised(Under))
  BY <1>2, <1>3, InitialisedFacts DEF Unloaded
<1>5. /\ SubSeq(stack, 1, n) \in Seq(ScreenType)
      /\ Len(SubSeq(stack, 1, n)) = n
      /\ \A i \in 1..n : SubSeq(stack, 1, n)[i] = stack[i]
  BY <1>1 DEF Shape, TypeOK
<1>6. stack' = [SubSeq(stack, 1, n) EXCEPT ![n] = Initialised(Under)]
  BY <1>1 DEF Pop
<1>7. /\ stack' \in Seq(ScreenType)
      /\ Len(stack') = n
      /\ \A i \in 1..n : stack'[i] = IF i = n THEN Initialised(Under) ELSE stack[i]
  <2>1. PICK seq \in Seq(ScreenType) : seq = SubSeq(stack, 1, n)
    BY <1>5
  <2>2. Len(seq) = n /\ Len(seq) > 0 /\ stack' = [seq EXCEPT ![Len(seq)] = Initialised(Under)]
    BY <2>1, <1>1, <1>5, <1>6
  <2>3. /\ stack' \in Seq(ScreenType)
        /\ Len(stack') = Len(seq)
        /\ \A i \in 1..Len(seq) :
              stack'[i] = IF i = Len(seq) THEN Initialised(Under) ELSE seq[i]
    BY <2>2, <1>4, ReplacedLast
  <2> QED
    BY <2>1, <2>2, <2>3, <1>5
<1>8. TypeOK'
  BY <1>1, <1>7 DEF Shape, TypeOK, Pop, editVars
<1>9. NeverLoaded'
  <2>1. \A i \in 1..n : i \in DOMAIN stack
    BY <1>1, TopType
  <2>2. \A i \in 1..n : Unloaded(stack'[i])
    BY <2>1, <1>4, <1>7, Loads DEF Shape
  <2>3. DOMAIN stack' = 1..n
    BY <1>7
  <2> QED
    BY <2>2, <2>3 DEF NeverLoaded, Unloaded
<1>10. PopsToSession'
  <2>1. \A i \in 1..n : stack'[i].kind = stack[i].kind
    BY <1>2, <1>4, <1>7
  <2>2. \A i \in 2..n : i \in 2..Len(stack) /\ i \in 1..n /\ i - 1 \in 1..n
    BY <1>1
  <2>3. \A i \in 2..n : Lies(stack'[i], stack'[i - 1])
    BY <2>1, <2>2 DEF Shape, PopsToSession, Lies
  <2> QED
    BY <2>3, <1>7 DEF PopsToSession
<1>11. Len(stack') < Len(stack) /\ stack'[Len(stack')].kind = Under.kind
  BY <1>1, <1>4, <1>7
<1> QED
  BY <1>3, <1>8, <1>9, <1>10, <1>11 DEF Shape

LEMMA SameShape ==
    ASSUME Shape, UNCHANGED stack, saved' \in Stores, UNCHANGED shown,
           filter' \in SUBSET TagSets, saveAs' \in Sessions \cup {NoSession}
    PROVE  Shape'
BY DEF Shape, TypeOK, NeverLoaded, PopsToSession

\* Keys push these screens.
LEMMA PushKindKeeps ==
    ASSUME Shape, NEW kind, NEW ref \in Sessions \cup {NoSession}, Push(kind, ref),
           \/ kind \in {"detail", "history", "run", "import"} /\ Top.kind \in {"list", "detail"}
           \/ kind = "confirm" /\ Top.kind = "list"
           \/ kind \in {"sets", "set edit", "set detail"}
    PROVE  Shape'
<1>1. kind \in Kinds
  BY DEF Kinds, Popping, Loading
<1>2. /\ Initialised(Screen(kind, ref)) \in ScreenType
      /\ Initialised(Screen(kind, ref)).kind = kind
  BY <1>1, ScreenFacts, InitialisedFacts
<1>3. Unloaded(Initialised(Screen(kind, ref))) /\ Lies(Initialised(Screen(kind, ref)), Top)
  BY <1>2 DEF Unloaded, Lies, Popping
<1> QED
  BY <1>2, <1>3, PushKeeps DEF Push, listVars, editVars, Shape, TypeOK

\* Keys put these screens in place of the one on top.
LEMMA BecomeKindKeeps ==
    ASSUME Shape, NEW kind, Become(Screen(kind, NoSession)),
           kind \in {"sets", "set edit", "set detail", "set run", "set history", "picker"}
    PROVE  Shape'
<1>1. kind \in Kinds
  BY DEF Kinds, Popping, Loading
<1>2. Screen(kind, NoSession).kind = kind /\ Screen(kind, NoSession) \in ScreenType
  BY <1>1, ScreenFacts
<1>3. Unloaded(Screen(kind, NoSession)) /\ kind \notin Popping
  BY <1>1, ScreenFacts DEF Unloaded, Popping
<1> QED
  BY <1>2, <1>3, BecomeKeeps

\* What a save or a deletion makes of the store.
LEMMA StoreFacts ==
    ASSUME saved \in Stores, NEW s, NEW tags \in TagSets \cup {Unstored}
    PROVE  /\ [saved EXCEPT ![s] = tags] \in Stores
           /\ \A x \in Sessions : [saved EXCEPT ![s] = tags][x] = IF x = s THEN tags ELSE saved[x]
BY DEF Stores

LEMMA TopUnloaded ==
    ASSUME Shape
    PROVE  Unloaded(Top)
BY Loads, TopType DEF Shape, Top

\* Every step keeps the shape.
LEMMA ShapeStep ==
    ASSUME Shape, [Next]_vars
    PROVE  Shape'
<1>1. /\ saved \in Stores /\ shown \in Stores /\ Rows \in SUBSET Sessions
      /\ filter \in SUBSET TagSets /\ saveAs \in Sessions \cup {NoSession}
  BY DEF Shape, TypeOK, Rows, RowsOf
<1>2. Top.ref \in Sessions \cup {NoSession}
  BY TopType DEF ScreenType
<1>3. ASSUME Quit \/ UNCHANGED vars
      PROVE  Shape'
  BY <1>1, <1>3, SameShape DEF Quit, vars, listVars, editVars
<1>4. CASE BarKey \/ Move \/ EditToggle
  BY <1>1, <1>4, SameShape DEF BarKey, Move, EditToggle, listVars, editVars
<1>18. CASE Elsewhere
  BY <1>1, <1>18, SameShape DEF Elsewhere, Stores, listVars, editVars
<1>17. CASE ListQuit
  BY <1>17, <1>3 DEF ListQuit
<1>5. CASE Choose
  <2>1. CASE Quit
    BY <2>1, <1>3
  <2>2. CASE \E s \in Rows, kind \in {"detail", "history", "confirm", "run"} : Push(kind, s)
    BY <1>5, <2>2, <1>1, PushKindKeeps DEF Choose, Listening
  <2> QED
    BY <1>5, <2>1, <2>2 DEF Choose
<1>6. CASE Open
  BY <1>6, PushKindKeeps DEF Open, Listening
<1>7. CASE DetailKey
  <2>1. CASE Pop(saved)
    BY <1>1, <1>7, <2>1, PopFacts DEF DetailKey, Popping
  <2>2. CASE \E kind \in {"history", "run"} : Push(kind, Top.ref)
    BY <1>2, <1>7, <2>2, PushKindKeeps DEF DetailKey
  <2> QED
    BY <1>7, <2>1, <2>2 DEF DetailKey
<1>8. CASE Leave \/ EditLeave
  BY <1>1, <1>8, PopFacts DEF Leave, EditLeave, Popping
<1>9. CASE ConfirmDelete
  <2>1. [saved EXCEPT ![Top.ref] = Unstored] \in Stores
    BY <1>1, StoreFacts
  <2> QED
    BY <2>1, <1>9, PopFacts DEF ConfirmDelete, Popping
<1>10. CASE Import
  <2>1. PICK s \in Fresh, tags \in TagSets : saved' = [saved EXCEPT ![s] = tags]
    BY <1>10 DEF Import
  <2>2. saved' \in Stores
    BY <1>1, <2>1, StoreFacts
  <2> QED
    BY <2>2, <1>1, <1>10, SameShape DEF Import, listVars, editVars
<1>11. CASE EditOpen
  <2>1. PICK s \in Rows \cup {NoSession} : stack' = Append(stack, Screen("edit", s)) /\ saveAs' = s
    BY <1>11 DEF EditOpen
  <2>2. "edit" \in Kinds /\ s \in Sessions \cup {NoSession}
    BY <1>1, <2>1 DEF Kinds, Popping
  <2>3. Screen("edit", s) \in ScreenType /\ Screen("edit", s).kind = "edit"
    BY <2>2, ScreenFacts
  <2>4. Unloaded(Screen("edit", s)) /\ Lies(Screen("edit", s), Top)
    BY <1>11, <2>3 DEF Unloaded, Lies, EditOpen, Listening
  <2>5. /\ saved' = saved /\ shown' = shown /\ filter' = filter
        /\ saveAs' \in Sessions \cup {NoSession}
    BY <1>11, <2>1, <2>2 DEF EditOpen, listVars
  <2> QED
    BY <2>1, <2>3, <2>4, <2>5, PushKeeps
<1>12. CASE EditSave
  <2>1. PICK s \in (IF saveAs = NoSession THEN Fresh ELSE {saveAs}), tags \in TagSets :
            Pop([saved EXCEPT ![s] = tags])
    BY <1>12 DEF EditSave
  <2>2. [saved EXCEPT ![s] = tags] \in Stores
    BY <1>1, StoreFacts
  <2> QED
    BY <2>1, <2>2, <1>12, PopFacts DEF EditSave, Popping
<1>13. CASE SetsListKey
  <2>1. Initialised(Top) \in ScreenType /\ Initialised(Top).kind = Top.kind
    BY TopType, InitialisedFacts
  <2>2. CASE Become(Initialised(Top))
    <3>1. Unloaded(Initialised(Top)) /\ Initialised(Top).kind \notin Popping
      BY <1>13, <2>1 DEF SetsListKey, Unloaded, Popping
    <3> QED
      BY <2>1, <2>2, <3>1, BecomeKeeps
  <2>3. CASE Push("set edit", NoSession) \/ Push("set detail", NoSession)
    BY <2>3, PushKindKeeps
  <2>4. CASE Quit \/ Become(Screen("picker", NoSession))
    BY <2>4, <1>3, BecomeKindKeeps
  <2> QED
    BY <1>13, <2>2, <2>3, <2>4 DEF SetsListKey
<1>14. CASE SetsDetailKey \/ SetsEditKey
  BY <1>14, BecomeKindKeeps DEF SetsDetailKey, SetsEditKey
<1>15. CASE SetsHistoryKey \/ SetRunKey \/ PickerKey
  <2>1. Top.kind \in {"set run", "set history", "picker"} => ~Top.ready
    BY TopUnloaded DEF Unloaded
  <2> QED
    BY <1>15, <2>1, BecomeKindKeeps DEF SetsHistoryKey, SetRunKey, PickerKey
<1>16. ~(SetCompareKey \/ SetsDiffKey \/ ParamsKey)
  BY TopUnloaded DEF Unloaded, SetCompareKey, SetsDiffKey, ParamsKey
<1> QED
  BY <1>3, <1>4, <1>5, <1>6, <1>7, <1>8, <1>9, <1>10, <1>11, <1>12, <1>13, <1>14, <1>15, <1>16, <1>17, <1>18
     DEF Next, Key, SessionKey, SetKey

LEMMA InitShape == Init => Shape
<1> SUFFICES ASSUME Init PROVE Shape
  OBVIOUS
<1>1. "list" \in Kinds
  BY DEF Kinds
<1>2. /\ Screen("list", NoSession) \in ScreenType
      /\ Screen("list", NoSession).kind = "list"
  BY <1>1, ScreenFacts
<1>3. /\ stack \in Seq(ScreenType) /\ Len(stack) = 1
      /\ stack[1].kind = "list"
  BY <1>2 DEF Init
<1>4. TypeOK
  BY <1>3 DEF Init, TypeOK, Stores
<1>5. NeverLoaded /\ PopsToSession
  <2>1. DOMAIN stack = {1} /\ 2..Len(stack) = {}
    BY <1>3
  <2> QED
    BY <2>1, <1>3 DEF NeverLoaded, PopsToSession
<1> QED
  BY <1>4, <1>5 DEF Shape

\* Whatever the sessions, a screen that only ever replaces another is never
\* initialised: no set run starts from the terminal UI, the history of a set
\* stays empty, and comparison, diff and template parameters are out of reach.
THEOREM SetScreensNeverLoad == Spec => []NeverLoaded
<1>1. Init => Shape
  BY InitShape
<1>2. Shape /\ [Next]_vars => Shape'
  BY ShapeStep
<1>3. Shape => NeverLoaded
  BY DEF Shape
<1> QED
  BY <1>1, <1>2, <1>3, PTL DEF Spec

---------------------------------------------------------------------------
\* As long as nothing else touches the store, what the list shows is stored, with
\* the tags it had.
Agrees == \A s \in Sessions : shown[s] # Unstored => saved[s] = shown[s]

LEMMA RowsFinite ==
    ASSUME IsFiniteSet(Sessions), NEW list, NEW b, NEW f
    PROVE  /\ RowsOf(list, b, f) \subseteq Sessions
           /\ IsFiniteSet(RowsOf(list, b, f))
           /\ Cardinality(RowsOf(list, b, f)) \in Nat
<1>1. RowsOf(list, b, f) \subseteq Sessions
  BY DEF RowsOf
<1> QED
  BY <1>1, FS_Subset, FS_CardinalityType

\* A list that keeps its rows never leaves its cursor behind.
LEMMA MoreRows ==
    ASSUME IsFiniteSet(Sessions), cursor \in Nat, CursorOK,
           UNCHANGED cursor, Rows \subseteq Rows'
    PROVE  CursorOK'
<1>1. PICK m, n : m = Rows /\ n = Rows'
  OBVIOUS
<1>2. IsFiniteSet(m) /\ IsFiniteSet(n) /\ Cardinality(m) \in Nat /\ Cardinality(n) \in Nat
  BY <1>1, RowsFinite DEF Rows
<1>3. Cardinality(m) <= Cardinality(n)
  BY <1>1, <1>2, FS_Subset
<1>4. cursor' = cursor /\ Rows' = n /\ Rows = m
  BY <1>1
<1> QED
  BY <1>2, <1>3, <1>4 DEF CursorOK

\* A pop onto the list loads it, another leaves it as it is.
LEMMA PopList ==
    ASSUME IsFiniteSet(Sessions), Shape, cursor \in Nat, NEW store \in Stores,
           Pop(store), Top.kind \in Popping
    PROVE  /\ cursor' \in Nat
           /\ CursorOK => CursorOK' \/ LosesRow
           /\ Under.kind # "list" => Rows' = Rows
           /\ Under.kind = "list" => shown' = store /\ Rows' = RowsOf(store, bar, filter)
<1>1. /\ shown' = (IF Under.kind = "list" THEN store ELSE shown)
      /\ UNCHANGED <<cursor, bar, filter>>
  BY DEF Pop
<1>2. Rows' = RowsOf(shown', bar, filter) /\ Rows = RowsOf(shown, bar, filter)
  BY <1>1 DEF Rows, RowsOf
<1>3. CASE Under.kind # "list"
  BY <1>1, <1>2, <1>3, MoreRows
<1>4. CASE Under.kind = "list"
  <2>1. CursorOK /\ Rows \subseteq Rows' => CursorOK'
    BY <1>1, MoreRows
  <2>2. ~(Rows \subseteq Rows') => LosesRow
    BY <1>4, PopFacts DEF LosesRow
  <2> QED
    BY <1>1, <1>2, <1>4, <2>1, <2>2
<1> QED
  BY <1>3, <1>4

LEMMA SameList ==
    ASSUME cursor \in Nat, UNCHANGED <<shown, cursor, bar, filter>>
    PROVE  cursor' \in Nat /\ (CursorOK => CursorOK')
BY DEF CursorOK, Rows, RowsOf

\* The keys of the list and of its filter bar keep the cursor on a row.
LEMMA BarStep ==
    ASSUME IsFiniteSet(Sessions), cursor \in Nat, BarKey \/ Move
    PROVE  cursor' \in Nat /\ (CursorOK => CursorOK')
<1>1. CASE BarKey
  <2>1. PICK b, f : /\ bar' = b /\ filter' = f
                    /\ cursor' = Clamped(Cardinality(RowsOf(shown, b, f)))
    BY <1>1 DEF BarKey
  <2>2. PICK n \in Nat : n = Cardinality(RowsOf(shown, b, f))
    BY RowsFinite
  <2>3. cursor' \in Nat /\ (cursor' = 0 \/ cursor' < n)
    BY <2>1, <2>2 DEF Clamped
  <2>4. Rows' = RowsOf(shown, b, f)
    BY <1>1, <2>1 DEF BarKey, Rows, RowsOf
  <2> QED
    BY <2>2, <2>3, <2>4 DEF CursorOK
<1>2. CASE Move
  <2>1. PICK n \in Nat : n = Cardinality(Rows)
    BY RowsFinite DEF Rows
  <2>2. Rows' = Rows
    BY <1>2 DEF Move, Rows, RowsOf
  <2>3. /\ cursor' \in Nat
        /\ CursorOK => cursor' = 0 \/ cursor' < n
    BY <1>2, <2>1 DEF Move, CursorOK
  <2> QED
    BY <2>1, <2>2, <2>3 DEF CursorOK
<1> QED
  BY <1>1, <1>2

\* What the pops of Key make of the store.
Popped(store) ==
    \/ store = saved
    \/ ConfirmDelete /\ store = [saved EXCEPT ![Top.ref] = Unstored]
    \/ EditSave /\ \E s : \E tags \in TagSets : store = [saved EXCEPT ![s] = tags]

LEMMA KeyCases ==
    ASSUME Shape, [Key]_vars
    PROVE  \/ BarKey \/ Move
           \/ UNCHANGED <<saved, shown, cursor, bar, filter>>
           \/ Import
           \/ \E store \in Stores : Pop(store) /\ Top.kind \in Popping /\ Popped(store)
<1>1. saved \in Stores
  BY DEF Shape, TypeOK
<1>2. CASE Choose \/ Open \/ ListQuit \/ EditOpen \/ EditToggle
  BY <1>2 DEF Choose, Open, ListQuit, EditOpen, EditToggle, Push, Quit, listVars
<1>3. CASE DetailKey
  <2>1. CASE Pop(saved)
    BY <1>1, <1>3, <2>1 DEF DetailKey, Popping, Popped
  <2> QED
    BY <1>3, <2>1 DEF DetailKey, Push, listVars
<1>4. CASE Leave \/ EditLeave
  BY <1>1, <1>4 DEF Leave, EditLeave, Popping, Popped
<1>5. CASE ConfirmDelete
  <2>1. PICK store : store = [saved EXCEPT ![Top.ref] = Unstored]
    OBVIOUS
  <2>2. store \in Stores /\ Pop(store) /\ Top.kind \in Popping
    BY <1>1, <1>5, <2>1, StoreFacts DEF ConfirmDelete, Popping
  <2> QED
    BY <1>5, <2>1, <2>2 DEF Popped
<1>6. CASE EditSave
  <2>1. PICK s \in (IF saveAs = NoSession THEN Fresh ELSE {saveAs}), tags \in TagSets :
            Pop([saved EXCEPT ![s] = tags])
    BY <1>6 DEF EditSave
  <2>2. PICK store : store = [saved EXCEPT ![s] = tags]
    OBVIOUS
  <2>3. store \in Stores /\ Pop(store) /\ Top.kind \in Popping
    BY <1>1, <1>6, <2>1, <2>2, StoreFacts DEF EditSave, Popping
  <2> QED
    BY <1>6, <2>2, <2>3 DEF Popped
<1>7. CASE SetKey
  BY <1>7
     DEF SetKey, SetsListKey, SetsDetailKey, SetsEditKey, SetsHistoryKey, SetCompareKey,
         SetsDiffKey, SetRunKey, PickerKey, ParamsKey, Push, Become, Quit, listVars
<1>8. CASE UNCHANGED vars
  BY <1>8 DEF vars, listVars
<1> QED
  BY <1>2, <1>3, <1>4, <1>5, <1>6, <1>7, <1>8 DEF Key, SessionKey

LEMMA CursorStep ==
    ASSUME IsFiniteSet(Sessions), Shape, cursor \in Nat, [Next]_vars
    PROVE  cursor' \in Nat /\ (CursorOK => CursorOK' \/ LosesRow)
<1>1. CASE BarKey \/ Move
  BY <1>1, BarStep
<1>2. CASE UNCHANGED <<shown, cursor, bar, filter>>
  BY <1>2, SameList
<1>3. CASE Import \/ Elsewhere
  BY <1>2, <1>3 DEF Import, Elsewhere, listVars
<1>4. CASE \E store \in Stores : Pop(store) /\ Top.kind \in Popping
  BY <1>4, PopList
<1> QED
  BY <1>1, <1>2, <1>3, <1>4, KeyCases DEF Next

\* Whatever other processes do to the store, only a load that does not find a row
\* again can leave the cursor of the list beyond its last row, where the next key
\* for a row panics (list.go indexes its rows by the cursor).
THEOREM OnlyLoadsLose ==
    ASSUME IsFiniteSet(Sessions)
    PROVE  Spec => OnlyLoadsStrand
<1> DEFINE Kept == Shape /\ cursor \in Nat
<1>1. Init => Kept
  BY InitShape DEF Init
<1>2. Kept /\ [Next]_vars => Kept'
  <2>1. Shape /\ cursor \in Nat /\ [Next]_vars => Shape' /\ cursor' \in Nat
    BY ShapeStep, CursorStep
  <2> QED
    BY <2>1
<1>3. Kept /\ [Next]_vars => [CursorOK => CursorOK' \/ LosesRow]_vars
  BY CursorStep
<1> QED
  BY <1>1, <1>2, <1>3, PTL DEF Spec, OnlyLoadsStrand

---------------------------------------------------------------------------
\* A load finds every row again, unless one was deleted or saved under a filter.
LEMMA AloneStep ==
    ASSUME IsFiniteSet(Sessions), Unstored \notin TagSets,
           Shape, cursor \in Nat, Agrees, [Key]_vars
    PROVE  /\ Agrees'
           /\ \/ CursorOK => CursorOK'
              \/ ConfirmDelete
              \/ EditSave /\ bar = "on"
<1>1. saved \in Stores /\ shown \in Stores
  BY DEF Shape, TypeOK
<1>2. CASE BarKey \/ Move
  BY <1>2, BarStep DEF BarKey, Move, Agrees
<1>3. CASE UNCHANGED <<saved, shown, cursor, bar, filter>>
  BY <1>3, SameList DEF Agrees
<1>4. CASE Import
  <2>1. PICK s \in Fresh, tags \in TagSets : saved' = [saved EXCEPT ![s] = tags]
    BY <1>4 DEF Import
  <2>2. UNCHANGED <<shown, cursor, bar, filter>>
    BY <1>4 DEF Import, listVars
  <2>3. \A x \in Sessions : x # s => saved'[x] = saved[x]
    BY <1>1, <2>1, StoreFacts
  <2>4. shown[s] = Unstored
    BY <2>1 DEF Fresh, Agrees
  <2> QED
    BY <2>2, <2>3, <2>4, SameList DEF Agrees
<1>5. ASSUME NEW store \in Stores, Pop(store), Top.kind \in Popping, Popped(store)
      PROVE  /\ Agrees'
             /\ \/ CursorOK => CursorOK'
                \/ ConfirmDelete
                \/ EditSave /\ bar = "on"
  <2>1. saved' = store /\ UNCHANGED <<cursor, bar, filter>>
    BY <1>5 DEF Pop
  <2>2. CASE Under.kind # "list"
    <3>1. store = saved
      BY <1>5, <2>2, PopFacts DEF Popped, ConfirmDelete, EditSave
    <3>2. shown' = shown
      BY <1>5, <2>2 DEF Pop
    <3> QED
      BY <2>1, <3>1, <3>2, SameList DEF Agrees
  <2>3. CASE Under.kind = "list"
    <3>1. shown' = store /\ Rows' = RowsOf(store, bar, filter)
      BY <1>5, <2>3, PopList
    <3>2. Agrees'
      BY <2>1, <3>1 DEF Agrees
    <3>3. ASSUME Rows \subseteq Rows' PROVE CursorOK => CursorOK'
      BY <2>1, <3>3, MoreRows
    <3>4. CASE store = saved
      BY <3>1, <3>2, <3>3, <3>4 DEF Rows, RowsOf, Agrees
    <3>5. CASE EditSave /\ \E s : \E tags \in TagSets : store = [saved EXCEPT ![s] = tags]
      <4>1. PICK s : \E tags \in TagSets : store = [saved EXCEPT ![s] = tags]
        BY <3>5
      <4>2. PICK tags \in TagSets : store = [saved EXCEPT ![s] = tags]
        BY <4>1
      <4>3. \A x \in Sessions : store[x] = IF x = s THEN tags ELSE saved[x]
        BY <1>1, <4>2, StoreFacts
      <4>4. bar # "on" => Rows \subseteq Rows'
        BY <3>1, <4>2, <4>3 DEF Rows, RowsOf, Agrees
      <4> QED
        BY <3>2, <3>3, <3>5, <4>4
    <3> QED
      BY <1>5, <3>2, <3>4, <3>5 DEF Popped
  <2> QED
    BY <2>2, <2>3
<1> QED
  BY <1>2, <1>3, <1>4, <1>5, KeyCases

\* While nothing else touches the store, only a deletion, and a save of a session
\* under a filter that then lacks a row, leave the cursor beyond the last row.
THEOREM OnlyEditsLose ==
    ASSUME IsFiniteSet(Sessions), Unstored \notin TagSets
    PROVE  AloneSpec => OnlyEditsStrand
<1> DEFINE Alone == Shape /\ cursor \in Nat /\ Agrees
<1> DEFINE Strands == CursorOK => CursorOK' \/ (LosesRow /\ (ConfirmDelete \/ (EditSave /\ bar = "on")))
<1>1. Init => Alone
  BY InitShape DEF Init, Agrees
<1>2. [Key]_vars => [Next]_vars
  BY DEF Next
<1>3. Alone /\ [Key]_vars => Shape' /\ cursor' \in Nat /\ Agrees'
  BY <1>2, ShapeStep, CursorStep, AloneStep
<1>4. Alone /\ [Key]_vars => [Strands]_vars
  BY <1>2, CursorStep, AloneStep
<1>5. Alone /\ [Key]_vars => Alone'
  BY <1>3
<1> QED
  BY <1>1, <1>4, <1>5, PTL DEF AloneSpec, OnlyEditsStrand
=============================================================================
