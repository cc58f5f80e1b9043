--------------------------- MODULE DocPageProofs ---------------------------
(***************************************************************************)
(* What the run of MCDocPage checks on small data, proved for every index  *)
(* of sorted data files, every table whose folders come before their       *)
(* contents and every nesting of blocks.                                   *)
(***************************************************************************)
EXTENDS DocPage, SequenceLemmas, FiniteSetTheorems

-----------------------------------------------------------------------------
(***************************************************************************)
(* The search box.  The handlers are made of the same few operators on the *)
(* box: the lemmas say what each of them keeps, the steps put them         *)
(* together.                                                               *)
(***************************************************************************)

IsBox(b) == DOMAIN b = {"field", "focus", "active", "lastSearchValue", "searchIndex",
                        "keyTimeout", "timers", "hideTimeout", "hideTimers",
                        "select", "window", "close"}
            /\ b = [x \in DOMAIN b |-> b[x]]

(* What holds of the box between any two operators, and with the focus in  *)
(* the field.                                                              *)
Steady(b) == /\ IsBox(b)
             /\ ~b.active => b.field = <<>> /\ b.lastSearchValue = <<>>
             /\ b.window = b.close
             /\ b.hideTimers \subseteq {b.hideTimeout}

Sound(b) == Steady(b) /\ (b.focus = "field" => b.active)

(* An operator keeps it, and starts no timer for the selection window.     *)
Keeps(b, c) == Sound(c) /\ c.hideTimers \subseteq b.hideTimers

(* The text of the field has been searched or has its search ahead.        *)
Settled(b) == b.field \notin {<<>>, b.lastSearchValue} /\ HasSection(b)
                => b.keyTimeout \in b.timers

-----------------------------------------------------------------------------
(* The operators.                                                          *)

LEMMA ActivateKeeps ==
  ASSUME NEW b, NEW on \in BOOLEAN, Steady(b), on \/ b.focus # "field"
  PROVE  /\ Keeps(b, Activate(b, on))
         /\ Activate(b, on).focus = b.focus
         /\ Settled(b) => Settled(Activate(b, on))
BY DEF Steady, IsBox, Sound, Keeps, Activate, Settled, HasSection

LEMMA FocusOnKeeps ==
  ASSUME NEW b, NEW element, Sound(b)
  PROVE  /\ Keeps(b, FocusOn(b, element))
         /\ FocusOn(b, element).focus = element
         /\ Settled(b) => Settled(FocusOn(b, element))
<1>. DEFINE moved == [b EXCEPT !.focus = element]
<1>1. /\ Steady(moved) /\ moved.focus = element /\ moved.hideTimers = b.hideTimers
      /\ Settled(b) => Settled(moved)
  BY DEF Sound, Steady, IsBox, Settled, HasSection
<1>2. CASE b.focus = element
  BY <1>2 DEF FocusOn, Keeps
<1>3. CASE b.focus # element /\ "field" \in {b.focus, element}
  BY <1>1, <1>3, ActivateKeeps DEF FocusOn, Keeps
<1>4. CASE b.focus # element /\ "field" \notin {b.focus, element}
  BY <1>1, <1>4 DEF FocusOn, Keeps, Sound
<1>. QED  BY <1>2, <1>3, <1>4

LEMMA UnfocusedKeeps ==
  ASSUME NEW b, NEW element, Sound(b)
  PROVE  /\ Keeps(b, Unfocused(b, element))
         /\ Settled(b) => Settled(Unfocused(b, element))
BY DEF Sound, Steady, IsBox, Keeps, Unfocused, Settled, HasSection

LEMMA CloseResultsKeeps ==
  ASSUME NEW b, IsBox(b), b.focus # "field", b.hideTimers \subseteq {b.hideTimeout}
  PROVE  /\ Keeps(b, CloseResultsWindow(b))
         /\ Settled(CloseResultsWindow(b))
<1>. DEFINE hidden == Unfocused(HideResults(b), "result")
<1>1. /\ IsBox(hidden) /\ ~hidden.window /\ ~hidden.close /\ hidden.focus # "field"
      /\ hidden.hideTimers = b.hideTimers /\ hidden.hideTimeout = b.hideTimeout
      /\ hidden.window = hidden.close
  BY DEF IsBox, HideResults, Unfocused
<1>2. CloseResultsWindow(b) = [hidden EXCEPT !.active = FALSE, !.lastSearchValue = <<>>,
                                             !.field = <<>>]
  BY <1>1 DEF CloseResultsWindow, Activate
<1>. HIDE DEF hidden
<1>. DEFINE closed == CloseResultsWindow(b)
<1>3. /\ IsBox(closed) /\ closed.field = <<>> /\ closed.lastSearchValue = <<>>
      /\ closed.focus # "field" /\ closed.window = closed.close
      /\ closed.hideTimers = b.hideTimers /\ closed.hideTimeout = b.hideTimeout
  <2>1. /\ "active" \in DOMAIN hidden /\ "lastSearchValue" \in DOMAIN hidden
        /\ "field" \in DOMAIN hidden
    BY ONLY <1>1 DEF IsBox
  <2>2. IsBox(closed)
    <3>1. ASSUME NEW c, IsBox(c), NEW v
          PROVE  /\ IsBox([c EXCEPT !.active = v])
                 /\ IsBox([c EXCEPT !.lastSearchValue = v])
                 /\ IsBox([c EXCEPT !.field = v])
      <4>1. IsBox([c EXCEPT !.active = v])
        BY ONLY <3>1 DEF IsBox
      <4>2. IsBox([c EXCEPT !.lastSearchValue = v])
        BY ONLY <3>1 DEF IsBox
      <4>3. IsBox([c EXCEPT !.field = v])
        BY ONLY <3>1 DEF IsBox
      <4>. QED  BY ONLY <4>1, <4>2, <4>3
    <3>. DEFINE one == [hidden EXCEPT !.active = FALSE]
                two == [one EXCEPT !.lastSearchValue = <<>>]
    <3>2. closed = [two EXCEPT !.field = <<>>]
      BY ONLY <1>2
    <3>3. IsBox(one)
      BY ONLY <1>1, <3>1
    <3>. HIDE DEF one, closed
    <3>4. IsBox(two)
      BY ONLY <3>1, <3>3
    <3>. HIDE DEF two
    <3>. QED  BY ONLY <3>1, <3>2, <3>4
  <2>3. closed.field = <<>> /\ closed.lastSearchValue = <<>>
    BY ONLY <1>2, <2>1
  <2>4. /\ closed.focus = hidden.focus
        /\ closed.window = hidden.window /\ closed.close = hidden.close
        /\ closed.hideTimers = hidden.hideTimers
        /\ closed.hideTimeout = hidden.hideTimeout
    BY ONLY <1>1, <1>2 DEF IsBox
  <2>. HIDE DEF closed
  <2>. QED  BY ONLY <1>1, <2>2, <2>3, <2>4
<1>. HIDE DEF closed
<1>4. Keeps(b, closed)
  BY <1>3 DEF Keeps, Sound, Steady
<1>5. Settled(closed)
  BY <1>3 DEF Settled
<1>. QED  BY <1>4, <1>5 DEF closed

LEMMA SelectionKeeps ==
  ASSUME NEW b, Sound(b)
  PROVE  /\ Keeps(b, CloseSelectionWindow(b))
         /\ Settled(b) => Settled(CloseSelectionWindow(b))
         /\ Keeps(b, OnSearchSelectShow(b))
         /\ Settled(b) => Settled(OnSearchSelectShow(b))
         /\ OnSearchSelectShow(b).hideTimers = {}
<1>. DEFINE closed == [b EXCEPT !.select = FALSE]
<1>1. Sound(closed) /\ closed.hideTimers = b.hideTimers /\ (Settled(b) => Settled(closed))
  BY DEF Sound, Steady, IsBox, Settled, HasSection
<1>2. Keeps(b, CloseSelectionWindow(b)) /\ (Settled(b) => Settled(CloseSelectionWindow(b)))
  BY <1>1, UnfocusedKeeps DEF CloseSelectionWindow, Keeps
<1>3. /\ Sound(OnSearchSelectShow(b)) /\ OnSearchSelectShow(b).hideTimers = {}
      /\ Settled(b) => Settled(OnSearchSelectShow(b))
  BY DEF Sound, Steady, IsBox, OnSearchSelectShow, Settled, HasSection
<1>. QED  BY <1>2, <1>3 DEF Keeps

LEMMA TimersKeep ==
  ASSUME NEW b, Sound(b)
  PROVE  Keeps(b, KillTimer(b)) /\ Keeps(b, ArmTimer(b)) /\ Settled(ArmTimer(b))
<1>1. Keeps(b, KillTimer(b))
  BY DEF Sound, Steady, IsBox, Keeps, KillTimer
<1>2. ASSUME NEW id
      PROVE  LET armed == [b EXCEPT !.timers = @ \cup {id}, !.keyTimeout = id]
             IN  Keeps(b, armed) /\ Settled(armed)
  BY DEF Sound, Steady, IsBox, Keeps, Settled
<1>. QED  BY <1>1, <1>2 DEF ArmTimer

LEMMA CheckValueKeeps ==
  ASSUME NEW b, Sound(b)
  PROVE  Keeps(b, CheckValue(b)) /\ Settled(CheckValue(b))
<1>1. CASE b.field = b.lastSearchValue
  BY <1>1 DEF CheckValue, Keeps, Settled
<1>2. CASE b.field # b.lastSearchValue /\ b.field # <<>>
  BY <1>2, TimersKeep DEF CheckValue
<1>3. CASE b.field # b.lastSearchValue /\ b.field = <<>>
  <2>. DEFINE h == HideResults(b)
  <2>1. CheckValue(b) = [h EXCEPT !.lastSearchValue = <<>>]
    BY <1>3 DEF CheckValue
  <2>2. IsBox(h) /\ h.window = h.close
    BY DEF Sound, Steady, IsBox, HideResults
  <2>3. /\ h.active = b.active /\ h.focus = b.focus /\ h.field = b.field
        /\ h.hideTimers = b.hideTimers /\ h.hideTimeout = b.hideTimeout
    BY DEF Sound, Steady, IsBox, HideResults
  <2>. HIDE DEF h
  <2>4. IsBox(CheckValue(b)) /\ CheckValue(b).window = CheckValue(b).close
    BY ONLY <2>1, <2>2 DEF IsBox
  <2>5. CheckValue(b).lastSearchValue = <<>> /\ CheckValue(b).field = <<>>
    BY ONLY <1>3, <2>1, <2>2, <2>3 DEF IsBox
  <2>6. /\ CheckValue(b).active = b.active /\ CheckValue(b).focus = b.focus
        /\ CheckValue(b).hideTimers = b.hideTimers /\ CheckValue(b).hideTimeout = b.hideTimeout
    BY ONLY <2>1, <2>2, <2>3 DEF IsBox
  <2>. DEFINE c == CheckValue(b)
  <2>. HIDE DEF c
  <2>7. /\ IsBox(c) /\ c.window = c.close /\ c.field = <<>> /\ c.lastSearchValue = <<>>
        /\ c.active = b.active /\ c.focus = b.focus
        /\ c.hideTimers = b.hideTimers /\ c.hideTimeout = b.hideTimeout
    BY ONLY <2>4, <2>5, <2>6 DEF c
  <2>8. (b.focus = "field" => b.active) /\ b.hideTimers \subseteq {b.hideTimeout}
    BY DEF Sound, Steady
  <2>9. Keeps(b, c) /\ Settled(c)
    BY ONLY <2>7, <2>8 DEF Sound, Steady, Keeps, Settled
  <2>. QED  BY <2>9 DEF c
<1>. QED  BY <1>1, <1>2, <1>3

LEMMA ShownKeeps ==
  ASSUME NEW b, Sound(b)
  PROVE  Keeps(b, Shown(b)) /\ (Settled(b) => Settled(Shown(b)))
<1>. DEFINE displayed == [b EXCEPT !.close = @ \/ ~b.window, !.window = TRUE]
<1>1. /\ Sound(displayed) /\ displayed.hideTimers = b.hideTimers
      /\ Settled(b) => Settled(displayed)
  BY DEF Sound, Steady, IsBox, Settled, HasSection
<1>. QED  BY <1>1, UnfocusedKeeps DEF Shown, Keeps

LEMMA SearchedKeeps ==
  ASSUME NEW b, Sound(b)
  PROVE  Keeps(b, Searched(b)) /\ Settled(Searched(b))
<1>. DEFINE reset == [b EXCEPT !.keyTimeout = 0]
            done == [reset EXCEPT !.lastSearchValue = b.field]
<1>1. /\ Sound(reset) /\ reset.hideTimers = b.hideTimers
      /\ Sound(done) /\ done.hideTimers = b.hideTimers
      /\ Settled(done)
      /\ ~HasSection(b) => Settled(reset)
  BY DEF Sound, Steady, IsBox, Settled, HasSection
<1>. QED  BY <1>1, ShownKeeps DEF Searched, Keeps

LEMMA SelectedKeeps ==
  ASSUME NEW b, NEW id, Sound(b)
  PROVE  Keeps(b, Selected(b, id)) /\ Settled(Selected(b, id))
<1>1. Sound(Chosen(b, id)) /\ Chosen(b, id).hideTimers = b.hideTimers
  BY DEF Sound, Steady, IsBox, Chosen
<1>2. CASE Searches(Chosen(b, id))
  BY <1>1, <1>2, SearchedKeeps DEF Selected, Keeps
<1>3. CASE ~Searches(Chosen(b, id))
  BY <1>1, <1>3 DEF Selected, Keeps, Searches, Settled, Sound, Steady
<1>. QED  BY <1>2, <1>3

-----------------------------------------------------------------------------
(* The handlers.                                                           *)

SearchInv == /\ Sound(box)
             /\ pointer = "over" => box.hideTimers = {}
             /\ looked => Settled(box)

LEMMA InitSearchInv == Init => SearchInv
BY DEF Init, SearchInv, Sound, Steady, IsBox, Settled

(* What most handlers do to the invariant.                                 *)
Respects == /\ Keeps(box, box')
            /\ pointer' \in {pointer, "away"}
            /\ looked' => Settled(box)'

LEMMA RespectsKeepsInv ==
  ASSUME SearchInv, Respects
  PROVE  SearchInv'
<1>1. Sound(box)'
  BY DEF Respects, Keeps, Sound, Steady, IsBox
<1>2. (pointer = "over" => box.hideTimers = {})'
  BY DEF Respects, Keeps, SearchInv
<1>. QED  BY <1>1, <1>2 DEF Respects, SearchInv

(* A box that is settled in this state is in the next, with the same index. *)
LEMMA SettledNext ==
  ASSUME UNCHANGED index, NEW b, box' = b, Settled(b)
  PROVE  Settled(box)'
BY DEF Settled, HasSection

LEMMA FieldStep ==
  ASSUME SearchInv, Field
  PROVE  SearchInv'
<1>. SUFFICES ASSUME Field PROVE Respects
  BY RespectsKeepsInv
<1>0. Sound(box) /\ (looked => Settled(box)) /\ UNCHANGED <<index, pointer>>
  BY DEF SearchInv, Field, Edit, FocusField, BlurField, FocusButton, KeyUpText, KeyUpDown,
         KeyUpShiftDown, KeyUpEscape, KeyUp, Rest
<1>1. CASE Edit
  BY <1>0, <1>1 DEF Edit, Sound, Steady, IsBox, Respects, Keeps
<1>2. CASE FocusField \/ BlurField \/ FocusButton
  <2>1. PICK element : box' = FocusOn(box, element) /\ UNCHANGED looked
    BY <1>2 DEF FocusField, BlurField, FocusButton
  <2>. QED  BY <1>0, <2>1, FocusOnKeeps, SettledNext DEF Respects
<1>3. CASE KeyUpText
  BY <1>0, <1>3, TimersKeep, CheckValueKeeps, SettledNext DEF KeyUpText, Keeps, Respects
<1>4. CASE KeyUpDown
  <2>. DEFINE b == KillTimer(box)
              c == IF b.window /\ panel.visible # {} THEN FocusOn(b, "result") ELSE b
  <2>1. Keeps(box, b)
    BY <1>0, TimersKeep
  <2>2. Keeps(b, c)
    BY <2>1, FocusOnKeeps DEF Keeps
  <2>3. Keeps(c, CheckValue(c)) /\ Settled(CheckValue(c))
    BY <2>2, CheckValueKeeps DEF Keeps
  <2>4. box' = CheckValue(c)
    BY <1>4 DEF KeyUpDown
  <2>. HIDE DEF b, c
  <2>. QED  BY <1>0, <2>1, <2>2, <2>3, <2>4, SettledNext DEF Keeps, Respects
<1>5. CASE KeyUpShiftDown
  <2>. DEFINE b == OnSearchSelectShow(KillTimer(box))
  <2>1. Keeps(box, b)
    BY <1>0, TimersKeep, SelectionKeeps DEF Keeps
  <2>2. box' \in {b, FocusOn(b, "select")} /\ ~looked'
    BY <1>5 DEF KeyUpShiftDown
  <2>. HIDE DEF b
  <2>. QED  BY <1>0, <2>1, <2>2, FocusOnKeeps DEF Keeps, Respects
<1>6. CASE KeyUpEscape
  <2>. DEFINE b == FocusOn(KillTimer(box), "body")
              c == [HideResults(b) EXCEPT !.lastSearchValue = <<>>]
  <2>1. Keeps(box, b) /\ b.focus = "body"
    BY <1>0, TimersKeep, FocusOnKeeps DEF Keeps
  <2>. HIDE DEF b
  <2>2. Steady(c) /\ c.focus = "body" /\ c.hideTimers = b.hideTimers
    BY <2>1 DEF Keeps, Sound, Steady, IsBox, HideResults
  <2>3. box' = Activate(c, FALSE) /\ ~looked'
    BY <1>6 DEF KeyUpEscape, b
  <2>. HIDE DEF c
  <2>. QED  BY <1>0, <2>1, <2>2, <2>3, ActivateKeeps DEF Keeps, Respects
<1>. QED  BY <1>1, <1>2, <1>3, <1>4, <1>5, <1>6 DEF Field

LEMMA SelectionStep ==
  ASSUME SearchInv, Selection
  PROVE  SearchInv'
<1>0. Sound(box) /\ (looked => Settled(box)) /\ UNCHANGED <<index, looked>>
  BY DEF SearchInv, Selection, MouseOver, MouseOut, ClickItem, SelectDown, SelectUp,
         SelectLeave, ButtonKey, Rest
<1>1. CASE MouseOver
  <2>1. box' = OnSearchSelectShow(box)
    BY <1>1 DEF MouseOver
  <2>. QED  BY <1>0, <2>1, SelectionKeeps, SettledNext DEF SearchInv, Keeps
<1>2. CASE MouseOut
  <2>1. box.hideTimers = {} /\ pointer' = "away"
    BY <1>2 DEF MouseOut, SearchInv
  <2>2. PICK id : box' = [box EXCEPT !.hideTimers = @ \cup {id}, !.hideTimeout = id]
    BY <1>2 DEF MouseOut, OnSearchSelectHide
  <2>3. Sound(box')
    BY <1>0, <2>1, <2>2 DEF Sound, Steady, IsBox
  <2>4. Settled(box) => Settled(box)'
    BY <1>0, <2>2 DEF Settled, HasSection, Sound, Steady, IsBox
  <2>. QED  BY <1>0, <2>1, <2>3, <2>4 DEF SearchInv, Sound, Steady, IsBox
<1>. SUFFICES ASSUME Selection, ~MouseOver, ~MouseOut PROVE Respects
  BY <1>1, <1>2, RespectsKeepsInv
<1>3. UNCHANGED pointer
  BY DEF Selection, ClickItem, SelectDown, SelectUp, SelectLeave, ButtonKey, Rest
<1>4. ASSUME NEW id, ClickItem(id)
      PROVE  Respects
  <2>. DEFINE b == [box EXCEPT !.focus = "select"]
  <2>1. Sound(b) /\ b.hideTimers = box.hideTimers
    BY <1>0 DEF Sound, Steady, IsBox
  <2>2. box' = Selected(b, id)
    BY <1>4 DEF ClickItem
  <2>. HIDE DEF b
  <2>. QED  BY <1>0, <1>3, <2>1, <2>2, SelectedKeeps, SettledNext DEF Keeps, Respects
<1>5. CASE SelectDown \/ SelectUp
  <2>1. PICK id : box' = Selected(box, id)
    BY <1>5 DEF SelectDown, SelectUp
  <2>. QED  BY <1>0, <1>3, <2>1, SelectedKeeps, SettledNext DEF Respects
<1>6. CASE SelectLeave
  <2>. DEFINE b == Selected(box, box.searchIndex)
              c == CloseSelectionWindow(b)
  <2>1. Keeps(box, b) /\ Settled(b)
    BY <1>0, SelectedKeeps
  <2>2. box' \in {b, FocusOn(c, "field")}
    BY <1>6 DEF SelectLeave
  <2>. HIDE DEF b
  <2>3. Keeps(b, c) /\ Settled(c)
    BY <2>1, SelectionKeeps DEF Keeps
  <2>. HIDE DEF c
  <2>4. Keeps(c, FocusOn(c, "field")) /\ Settled(FocusOn(c, "field"))
    BY <2>3, FocusOnKeeps DEF Keeps
  <2>. QED  BY <1>0, <1>3, <2>1, <2>2, <2>3, <2>4, SettledNext DEF Keeps, Respects
<1>7. CASE ButtonKey
  <2>. DEFINE b == OnSearchSelectShow(box)
  <2>1. box' \in {CloseSelectionWindow(box), FocusOn(b, "select")}
    BY <1>7 DEF ButtonKey
  <2>2. Keeps(box, b) /\ (Settled(box) => Settled(b))
    BY <1>0, SelectionKeeps
  <2>. HIDE DEF b
  <2>3. Keeps(b, FocusOn(b, "select")) /\ (Settled(b) => Settled(FocusOn(b, "select")))
    BY <2>2, FocusOnKeeps DEF Keeps
  <2>. QED  BY <1>0, <1>3, <2>1, <2>2, <2>3, SelectionKeeps, SettledNext DEF Keeps, Respects
<1>. QED  BY <1>4, <1>5, <1>6, <1>7 DEF Selection

LEMMA ResultsStep ==
  ASSUME SearchInv, ResultsWindow
  PROVE  SearchInv'
<1>. SUFFICES ASSUME ResultsWindow PROVE Respects
  BY RespectsKeepsInv
<1>0. /\ Sound(box) /\ (looked => Settled(box))
      /\ UNCHANGED <<index, pointer, looked>>
  BY DEF SearchInv, ResultsWindow, CloseClicked, FocusResult, ResultEscape, Rest
<1>1. CASE CloseClicked
  <2>1. box.focus # "field" /\ box' = CloseResultsWindow(box)
    BY <1>1 DEF CloseClicked
  <2>. QED  BY <1>0, <2>1, CloseResultsKeeps, SettledNext DEF Sound, Steady, Respects
<1>2. CASE FocusResult
  <2>1. box' = FocusOn(box, "result")
    BY <1>2 DEF FocusResult
  <2>. QED  BY <1>0, <2>1, FocusOnKeeps, SettledNext DEF Respects
<1>3. CASE ResultEscape
  <2>. DEFINE b == CloseResultsWindow(box)
  <2>1. box.focus # "field" /\ box' = FocusOn(b, "field")
    BY <1>3 DEF ResultEscape
  <2>2. Keeps(box, b) /\ Settled(b)
    BY <1>0, <2>1, CloseResultsKeeps DEF Sound, Steady
  <2>. HIDE DEF b
  <2>. QED  BY <1>0, <2>1, <2>2, FocusOnKeeps, SettledNext DEF Keeps, Respects
<1>. QED  BY <1>1, <1>2, <1>3 DEF ResultsWindow

LEMMA CallbackStep ==
  ASSUME SearchInv, Callbacks
  PROVE  SearchInv'
<1>. SUFFICES ASSUME Callbacks PROVE Respects
  BY RespectsKeepsInv
<1>0. /\ Sound(box) /\ (looked => Settled(box))
      /\ UNCHANGED <<index, looked>> /\ pointer' \in {pointer, "away"}
  BY DEF SearchInv, Callbacks, KeyTimer, HideTimer, Loaded, LoadFails, BoxReplaced, Rest
<1>1. ASSUME NEW id, KeyTimer(id)
      PROVE  Respects
  <2>. DEFINE b == [box EXCEPT !.timers = @ \ {id}]
  <2>1. Sound(b) /\ b.hideTimers = box.hideTimers
    BY <1>0 DEF Sound, Steady, IsBox
  <2>2. box' = Searched(b)
    BY <1>1 DEF KeyTimer
  <2>. HIDE DEF b
  <2>. QED  BY <1>0, <2>1, <2>2, SearchedKeeps, SettledNext DEF Keeps, Respects
<1>2. ASSUME NEW id, HideTimer(id)
      PROVE  Respects
  <2>. DEFINE b == [box EXCEPT !.hideTimers = @ \ {id},
                               !.hideTimeout = IF @ = id THEN 0 ELSE @]
  <2>1. Keeps(box, b) /\ (Settled(box) => Settled(b))
    BY <1>0 DEF Sound, Steady, IsBox, Settled, HasSection, Keeps
  <2>2. box' = CloseSelectionWindow(b)
    BY <1>2 DEF HideTimer
  <2>. HIDE DEF b
  <2>. QED  BY <1>0, <2>1, <2>2, SelectionKeeps, SettledNext DEF Keeps, Respects
<1>3. ASSUME NEW r, Loaded(r)
      PROVE  Respects
  <2>1. box' = Shown(box)
    BY <1>3 DEF Loaded
  <2>. QED  BY <1>0, <2>1, ShownKeeps, SettledNext DEF Respects
<1>4. ASSUME NEW r, LoadFails(r)
      PROVE  Respects
  BY <1>0, <1>4, SettledNext DEF LoadFails, Respects, Keeps
<1>5. CASE BoxReplaced
  <2>. DEFINE b == Unfocused(Unfocused([box EXCEPT !.field = <<>>, !.close = FALSE], "field"),
                             "button")
  <2>1. box' = CloseResultsWindow(b)
    BY <1>5 DEF BoxReplaced
  <2>2. /\ IsBox(b) /\ b.focus # "field"
        /\ b.hideTimers = box.hideTimers /\ b.hideTimeout = box.hideTimeout
    <3>. DEFINE a == [box EXCEPT !.field = <<>>, !.close = FALSE]
                c == Unfocused(a, "field")
    <3>1. /\ IsBox(a) /\ a.hideTimers = box.hideTimers /\ a.hideTimeout = box.hideTimeout
      BY <1>0 DEF Sound, Steady, IsBox
    <3>. HIDE DEF a
    <3>2. /\ IsBox(c) /\ c.focus # "field"
          /\ c.hideTimers = a.hideTimers /\ c.hideTimeout = a.hideTimeout
      BY ONLY <3>1 DEF IsBox, Unfocused
    <3>3. b = Unfocused(c, "button")
      BY DEF a
    <3>. HIDE DEF c, b
    <3>. QED  BY ONLY <3>1, <3>2, <3>3 DEF IsBox, Unfocused
  <2>. HIDE DEF b
  <2>3. Keeps(b, CloseResultsWindow(b)) /\ Settled(CloseResultsWindow(b))
    <3>1. b.hideTimers \subseteq {b.hideTimeout}
      BY <1>0, <2>2 DEF Sound, Steady
    <3>. QED  BY <2>2, <3>1, CloseResultsKeeps
  <2>. QED  BY <1>0, <2>1, <2>2, <2>3, SettledNext DEF Keeps, Respects
<1>. QED  BY <1>1, <1>2, <1>3, <1>4, <1>5 DEF Callbacks

LEMMA SearchStep == SearchInv /\ [Next]_vars => SearchInv'
<1>. SUFFICES ASSUME SearchInv, [Next]_vars PROVE SearchInv'
  OBVIOUS
<1>1. CASE UNCHANGED vars
  BY <1>1 DEF vars, SearchInv, Sound, Steady, IsBox, Settled, HasSection
<1>. QED  BY <1>1, FieldStep, SelectionStep, ResultsStep, CallbackStep DEF Next

-----------------------------------------------------------------------------

(***************************************************************************)
(* A panel that is not active has an empty field and remembers no search   *)
(* (SearchBox.Activate), because the field has the focus only while it is. *)
(***************************************************************************)
THEOREM InactiveReset == Spec => []InactiveIsReset
<1>1. SearchInv => InactiveIsReset
  BY DEF SearchInv, Sound, Steady, InactiveIsReset
<1>. QED  BY <1>1, InitSearchInv, SearchStep, PTL DEF Spec

(***************************************************************************)
(* The button that closes the results is there exactly while they are      *)
(* (OnSearchFieldChange, CloseResultsWindow, Search, resetState).          *)
(***************************************************************************)
THEOREM CloseIsWithWindow == Spec => []CloseWithWindow
<1>1. SearchInv => CloseWithWindow
  BY DEF SearchInv, Sound, Steady, CloseWithWindow
<1>. QED  BY <1>1, InitSearchInv, SearchStep, PTL DEF Spec

(***************************************************************************)
(* No timer is going to close the selection window under the pointer:      *)
(* there never is one that hideTimeout does not know (OnSearchSelectShow,  *)
(* OnSearchSelectHide).                                                    *)
(***************************************************************************)
THEOREM TimerNotUnderPointer == Spec => []NoTimerUnderPointer
<1>1. SearchInv => NoTimerUnderPointer
  BY DEF SearchInv, NoTimerUnderPointer
<1>. QED  BY <1>1, InitSearchInv, SearchStep, PTL DEF Spec

(***************************************************************************)
(* A text that OnSearchFieldChange has looked at has been searched, or has *)
(* its search ahead, although Search forgets timers without clearing them. *)
(***************************************************************************)
THEOREM UnsearchedPending == Spec => []UnsearchedIsPending
<1>1. SearchInv => UnsearchedIsPending
  BY DEF SearchInv, Settled, UnsearchedIsPending
<1>. QED  BY <1>1, InitSearchInv, SearchStep, PTL DEF Spec

-----------------------------------------------------------------------------
(***************************************************************************)
(* Texts and their ids.  No code of a character is the beginning of the    *)
(* code of another, so that the id of a text tells what it begins with -   *)
(* or a row's number, whose first digits are taken for one more character, *)
(* if a character has such a code.                                         *)
(***************************************************************************)

LEMMA HexTells ==
  ASSUME NEW m \in Nat, NEW n \in Nat
  PROVE  Hex(m) \in Nat /\ Hex(m) \in Int /\ (Hex(m) = Hex(n) => m = n)
BY DEF Hex

LEMMA CodeIs ==
  ASSUME NEW c \in Nat
  PROVE  /\ Encoded(c) \in Seq(Nat)
         /\ c \in Plain => Encoded(c) = <<c>> /\ c # Underscore
         /\ c \notin Plain => Encoded(c) = <<Underscore, Hex(c \div 16), Hex(c % 16)>>
<1>1. c \div 16 \in Nat /\ c % 16 \in Nat /\ 48 \in Nat /\ Underscore \in Nat
  BY DEF Underscore
<1>2. Hex(c \div 16) \in Nat /\ Hex(c % 16) \in Nat /\ Hex(c) \in Nat
  BY <1>1, HexTells
<1>3. c < 16 => c \div 16 = 0 /\ c % 16 = c /\ Hex(0) = 48
  BY DEF Hex
<1>4. c \in Plain => c # Underscore
  BY DEF Plain, Underscore
<1>5. CASE c \in Plain
  <2>1. ~(c < 16)
    BY <1>5 DEF Plain
  <2>2. Encoded(c) = <<c>>
    BY <1>5, <2>1 DEF Encoded
  <2>. QED  BY <1>4, <1>5, <2>2
<1>6. CASE c \notin Plain
  <2>1. Encoded(c) = <<Underscore, Hex(c \div 16), Hex(c % 16)>>
    BY <1>3, <1>6 DEF Encoded
  <2>. QED  BY <1>1, <1>2, <1>6, <2>1
<1>. QED  BY <1>5, <1>6

(* Two codes that agree as far as both go are one.                         *)
LEMMA CodeTells ==
  ASSUME NEW c \in Nat, NEW d \in Nat,
         \A x \in 1..Len(Encoded(c)) : x <= Len(Encoded(d)) => Encoded(c)[x] = Encoded(d)[x]
  PROVE  c = d
<1>1. Encoded(c)[1] = Encoded(d)[1]
  <2>1. \A e \in Nat : Len(Encoded(e)) = 1 \/ Len(Encoded(e)) = 3
    <3>. TAKE e \in Nat
    <3>. QED  BY CodeIs
  <2>. QED  BY <2>1
<1>2. CASE c \in Plain \/ d \in Plain
  <2>1. \A e \in Nat : /\ e \in Plain => Encoded(e)[1] = e /\ e # Underscore
                       /\ e \notin Plain => Encoded(e)[1] = Underscore
    <3>. TAKE e \in Nat
    <3>1. CASE e \in Plain
      <4>1. Encoded(e) = <<e>> /\ e # Underscore
        BY <3>1, CodeIs
      <4>. QED  BY ONLY <3>1, <4>1
    <3>2. CASE e \notin Plain
      <4>1. Encoded(e) = <<Underscore, Hex(e \div 16), Hex(e % 16)>>
        BY <3>2, CodeIs
      <4>. QED  BY ONLY <3>2, <4>1
    <3>. QED  BY <3>1, <3>2
  <2>. QED  BY ONLY c \in Nat, d \in Nat, <1>1, <1>2, <2>1
<1>3. CASE c \notin Plain /\ d \notin Plain
  <2>1. Hex(c \div 16) = Hex(d \div 16) /\ Hex(c % 16) = Hex(d % 16)
    <3>1. /\ Encoded(c) = <<Underscore, Hex(c \div 16), Hex(c % 16)>>
          /\ Encoded(d) = <<Underscore, Hex(d \div 16), Hex(d % 16)>>
      BY <1>3, CodeIs
    <3>2. Encoded(c)[2] = Encoded(d)[2] /\ Encoded(c)[3] = Encoded(d)[3]
      BY <3>1
    <3>. QED  BY <3>1, <3>2
  <2>2. c \div 16 \in Nat /\ c % 16 \in Nat /\ d \div 16 \in Nat /\ d % 16 \in Nat
    OBVIOUS
  <2>3. c \div 16 = d \div 16 /\ c % 16 = d % 16
    BY <2>1, <2>2, HexTells
  <2>. QED  BY <2>3
<1>. QED  BY <1>2, <1>3

Codes(text) == [i \in DOMAIN text |-> Encoded(text[i])]

LEMMA CodesAre ==
  ASSUME NEW text, text \in Seq(Nat)
  PROVE  /\ Codes(text) \in Seq(Seq(Nat))
         /\ Len(text) \in Nat /\ Len(Codes(text)) = Len(text)
         /\ \A i \in 1..Len(text) : text[i] \in Nat /\ Codes(text)[i] = Encoded(text[i])
         /\ convertToId(text) = FlattenSeq(Codes(text))
         /\ convertToId(text) \in Seq(Nat)
<1>1. \A i \in 1..Len(text) : text[i] \in Nat /\ Encoded(text[i]) \in Seq(Nat)
  <2>. TAKE i \in 1..Len(text)
  <2>1. text[i] \in Nat
    OBVIOUS
  <2>. QED  BY ONLY <2>1, CodeIs
<1>2. Codes(text) = [i \in 1..Len(text) |-> Encoded(text[i])]
  BY DEF Codes
<1>3. Codes(text) \in Seq(Seq(Nat)) /\ Len(Codes(text)) = Len(text)
  BY <1>1, <1>2
<1>4. convertToId(text) = FlattenSeq(Codes(text))
  BY DEF convertToId, Codes
<1>5. convertToId(text) \in Seq(Nat)
  BY <1>3, <1>4, FlattenType
<1>. QED  BY <1>1, <1>2, <1>3, <1>4, <1>5

(* A prefix, by its symbols.                                               *)
LEMMA PrefixIs ==
  ASSUME NEW S, NEW s, NEW t, s \in Seq(S), t \in Seq(S)
  PROVE  IsPrefix(s, t) <=> Len(s) <= Len(t) /\ \A x \in 1..Len(s) : s[x] = t[x]
<1>. SUFFICES ASSUME Len(s) <= Len(t)
              PROVE  SubSeq(s, 1, Len(s)) = SubSeq(t, 1, Len(s))
                       <=> \A x \in 1..Len(s) : s[x] = t[x]
  BY DEF IsPrefix
<1>. DEFINE a == SubSeq(s, 0 + 1, Len(s))
            b == SubSeq(t, 0 + 1, Len(s))
<1>1. Len(s) \in Nat /\ Len(t) \in Nat
  OBVIOUS
<1>2. a \in Seq(S) /\ Len(a) = Len(s) /\ \A x \in 1..Len(s) : a[x] = s[x]
  <2>1. /\ a \in Seq(S) /\ Len(a) = Len(s) - 0
        /\ \A x \in 1..(Len(s) - 0) : a[x] = s[0 + x]
    BY <1>1, PieceOfSeq
  <2>. QED  BY <1>1, <2>1
<1>3. b \in Seq(S) /\ Len(b) = Len(s) /\ \A x \in 1..Len(s) : b[x] = t[x]
  <2>1. /\ b \in Seq(S) /\ Len(b) = Len(s) - 0
        /\ \A x \in 1..(Len(s) - 0) : b[x] = t[0 + x]
    BY <1>1, PieceOfSeq
  <2>. QED  BY <1>1, <2>1
<1>. HIDE DEF a, b
<1>4. a = b <=> \A x \in 1..Len(s) : s[x] = t[x]
  BY <1>1, <1>2, <1>3, SeqEqual
<1>. QED  BY <1>4 DEF a, b

LEMMA IdOfPrefix ==
  ASSUME NEW a, NEW b, NEW t, a \in Seq(Nat), b \in Seq(Nat), t \in Seq(Nat), IsPrefix(a, b)
  PROVE  IsPrefix(convertToId(a), convertToId(b) \o t)
<1>. DEFINE A == Codes(a)
            B == Codes(b)
            n == Len(a)
<1>1. /\ A \in Seq(Seq(Nat)) /\ B \in Seq(Seq(Nat)) /\ n \in Nat /\ Len(b) \in Nat
      /\ Len(A) = n /\ Len(B) = Len(b) /\ n <= Len(b)
      /\ \A i \in 1..n : A[i] = B[i]
      /\ convertToId(a) = FlattenSeq(A) /\ convertToId(b) = FlattenSeq(B)
      /\ convertToId(a) \in Seq(Nat) /\ convertToId(b) \in Seq(Nat)
  BY CodesAre, PrefixIs
<1>. HIDE DEF A, B, n
<1>2. SubSeq(B, 1, n) = A
  <2>1. /\ SubSeq(B, 0 + 1, n) \in Seq(Seq(Nat)) /\ Len(SubSeq(B, 0 + 1, n)) = n - 0
        /\ \A x \in 1..(n - 0) : SubSeq(B, 0 + 1, n)[x] = B[0 + x]
    BY <1>1, PieceOfSeq
  <2>2. n \in Nat /\ Len(A) = n /\ A \in Seq(Seq(Nat)) /\ \A i \in 1..n : A[i] = B[i]
    BY ONLY <1>1
  <2>3. n - 0 = n /\ 0 + 1 = 1 /\ \A x \in 1..n : 0 + x = x
    BY ONLY <2>2
  <2>. DEFINE P == SubSeq(B, 0 + 1, n)
  <2>4. P = SubSeq(B, 1, n)
    BY <2>3
  <2>. HIDE DEF P
  <2>5. P \in Seq(Seq(Nat)) /\ Len(P) = Len(A) /\ \A x \in 1..Len(P) : P[x] = A[x]
    BY ONLY <2>1, <2>2, <2>3 DEF P
  <2>6. P = A
    BY ONLY <2>2, <2>5, SeqEqual
  <2>. QED  BY ONLY <2>4, <2>6
<1>3. Upto(B, n) = convertToId(a) /\ Upto(B, Len(b)) = convertToId(b)
  BY <1>1, <1>2, FlattenUnfolds DEF Upto
<1>4. /\ Len(convertToId(a)) <= Len(convertToId(b))
      /\ \A x \in 1..Len(convertToId(a)) : convertToId(b)[x] = convertToId(a)[x]
  <2>1. n \in 0..Len(B) /\ Len(b) \in n..Len(B) /\ B \in Seq(Seq(Nat))
    BY <1>1
  <2>2. /\ Len(Upto(B, n)) <= Len(Upto(B, Len(b)))
        /\ \A x \in 1..Len(Upto(B, n)) : Upto(B, Len(b))[x] = Upto(B, n)[x]
    BY ONLY <2>1, FlattenGrows
  <2>. QED  BY ONLY <1>3, <2>2
<1>5. \A u, v, w \in Seq(Nat) :
        Len(u) <= Len(v) /\ (\A x \in 1..Len(u) : v[x] = u[x]) => IsPrefix(u, v \o w)
  <2>. TAKE u, v, w \in Seq(Nat)
  <2>. HAVE Len(u) <= Len(v) /\ \A x \in 1..Len(u) : v[x] = u[x]
  <2>1. /\ Len(u) \in Nat /\ Len(v) \in Nat /\ Len(w) \in Nat
        /\ v \o w \in Seq(Nat) /\ Len(v \o w) = Len(v) + Len(w)
        /\ \A x \in 1..Len(v) : (v \o w)[x] = v[x]
    BY ONLY u \in Seq(Nat), v \in Seq(Nat), w \in Seq(Nat), ConcatParts
  <2>2. Len(u) <= Len(v \o w)
    BY <2>1, AtMostPlus
  <2>3. \A x \in 1..Len(u) : (v \o w)[x] = u[x]
    <3>1. \A x \in 1..Len(u) : x \in 1..Len(v) /\ v[x] = u[x]
      BY <2>1
    <3>. QED  BY ONLY <2>1, <3>1
  <2>. QED  BY <2>1, <2>2, <2>3, PrefixIs
<1>. QED  BY <1>1, <1>4, <1>5

(* The other way: what is not the beginning of the text b is not that of   *)
(* its id, unless a character has a code that the rest t begins with.      *)
LEMMA PrefixOfId ==
  ASSUME NEW a, NEW b, NEW t, a \in Seq(Nat), b \in Seq(Nat), t \in Seq(Nat),
         \A i \in 1..Len(a) : ~IsPrefix(Encoded(a[i]), t),
         IsPrefix(convertToId(a), convertToId(b) \o t)
  PROVE  IsPrefix(a, b)
<1>. DEFINE A == Codes(a)
            B == Codes(b)
            n == Len(a)
            m == Len(b)
            W == convertToId(a)
            V == convertToId(b) \o t
            T == {i \in 0..n : i <= m /\ \A j \in 1..i : a[j] = b[j]}
<1>1. /\ A \in Seq(Seq(Nat)) /\ n \in Nat /\ Len(A) = n
      /\ \A i \in 1..n : a[i] \in Nat /\ A[i] = Encoded(a[i])
      /\ W = FlattenSeq(A) /\ W \in Seq(Nat)
  BY CodesAre
<1>2. /\ B \in Seq(Seq(Nat)) /\ m \in Nat /\ Len(B) = m
      /\ \A i \in 1..m : b[i] \in Nat /\ B[i] = Encoded(b[i])
      /\ convertToId(b) = FlattenSeq(B) /\ convertToId(b) \in Seq(Nat)
  BY CodesAre
<1>3. /\ Len(convertToId(b)) \in Nat /\ Len(t) \in Nat
      /\ V \in Seq(Nat) /\ Len(V) = Len(convertToId(b)) + Len(t)
      /\ \A x \in 1..Len(convertToId(b)) : V[x] = convertToId(b)[x]
      /\ \A x \in 1..Len(t) : V[Len(convertToId(b)) + x] = t[x]
  BY <1>2, ConcatParts
<1>0. IsPrefix(W, V)
  OBVIOUS
<1>. HIDE DEF A, B, n, m, W, V
<1>4. Len(W) <= Len(V) /\ \A x \in 1..Len(W) : W[x] = V[x]
  <2>1. W \in Seq(Nat) /\ V \in Seq(Nat)
    BY <1>1, <1>3
  <2>. QED  BY ONLY <1>0, <2>1, PrefixIs
<1>5. ASSUME NEW i \in 1..n, i - 1 \in T PROVE i \in T
  <2>. DEFINE L == Len(Upto(A, i - 1))
              code == Encoded(a[i])
  <2>1. i \in Nat /\ i - 1 <= m /\ \A j \in 1..(i - 1) : a[j] = b[j]
    BY <1>5
  <2>2. Upto(A, i - 1) = Upto(B, i - 1)
    <3>1. i - 1 \in Nat /\ i - 1 <= Len(A) /\ i - 1 <= Len(B)
      BY <1>1, <1>2, <2>1
    <3>. DEFINE k == i - 1
                P == SubSeq(A, 0 + 1, k)
                Q == SubSeq(B, 0 + 1, k)
    <3>. HIDE DEF k
    <3>2. /\ P \in Seq(Seq(Nat)) /\ Len(P) = k - 0
          /\ \A x \in 1..(k - 0) : P[x] = A[0 + x]
      BY <1>1, <3>1, PieceOfSeq DEF k
    <3>3. /\ Q \in Seq(Seq(Nat)) /\ Len(Q) = k - 0
          /\ \A x \in 1..(k - 0) : Q[x] = B[0 + x]
      BY <1>2, <3>1, PieceOfSeq DEF k
    <3>4. \A x \in 1..k : A[x] = B[x]
      BY <1>1, <1>2, <2>1, <3>1 DEF k
    <3>5. k \in Nat /\ k - 0 = k /\ \A x \in 1..k : 0 + x = x
      BY <3>1 DEF k
    <3>. HIDE DEF P, Q
    <3>6. Len(P) = k /\ Len(Q) = k /\ \A x \in 1..k : P[x] = Q[x]
      BY <3>2, <3>3, <3>4, <3>5
    <3>7. P = Q
      BY <3>2, <3>3, <3>6, SeqEqual
    <3>8. 0 + 1 = 1
      OBVIOUS
    <3>9. SubSeq(A, 1, i - 1) = SubSeq(B, 1, i - 1)
      BY <3>7, <3>8 DEF P, Q, k
    <3>. QED  BY <3>9 DEF Upto
  <2>3. /\ L \in Nat /\ code \in Seq(Nat) /\ Len(code) \in Nat /\ Len(W) \in Nat
        /\ L + Len(code) <= Len(W)
        /\ \A x \in 1..Len(code) : W[L + x] = code[x]
    <3>1. ElementIsThere(Nat, A, i)
      BY <1>1, FlattenElement
    <3>2. A[i] = code
      BY <1>1
    <3>. QED  BY <1>1, <3>1, <3>2 DEF ElementIsThere
  <2>. HIDE DEF L, code
  <2>4. \A x \in 1..Len(code) : /\ L + x <= Len(V)
                                /\ V[L + x] = code[x]
    <3>. TAKE x \in 1..Len(code)
    <3>0. Len(W) <= Len(V) /\ Len(V) \in Nat
      BY <1>3, <1>4
    <3>1. L + x \in 1..Len(W) /\ L + x <= Len(V)
      BY ONLY <3>0, <2>3, x \in 1..Len(code)
    <3>. QED  BY <1>4, <2>3, <3>1
  <2>5. CASE i <= m
    <3>. DEFINE own == Encoded(b[i])
    <3>1. i \in 1..Len(B)
      BY <1>2, <2>1, <2>5
    <3>2. /\ own \in Seq(Nat) /\ Len(own) \in Nat
          /\ L + Len(own) <= Len(convertToId(b))
          /\ \A x \in 1..Len(own) : convertToId(b)[L + x] = own[x]
      <4>1. ElementIsThere(Nat, B, i)
        BY <1>2, <3>1, FlattenElement
      <4>2. B[i] = own /\ L = Len(Upto(B, i - 1))
        BY <1>2, <2>2, <3>1 DEF L
      <4>. QED  BY <1>2, <4>1, <4>2 DEF ElementIsThere
    <3>. HIDE DEF own
    <3>3. \A x \in 1..Len(code) : x <= Len(own) => code[x] = own[x]
      <4>. TAKE x \in 1..Len(code)
      <4>. HAVE x <= Len(own)
      <4>1. x \in 1..Len(own) /\ L + x \in 1..Len(convertToId(b))
        BY <1>3, <2>3, <3>2
      <4>. QED  BY <1>3, <2>4, <3>2, <4>1
    <3>4. a[i] \in Nat /\ b[i] \in Nat
      BY <1>1, <1>2, <3>1
    <3>5. a[i] = b[i]
      BY <3>3, <3>4, CodeTells DEF own, code
    <3>6. \A j \in 1..i : j \in 1..(i - 1) \/ j = i
      BY <2>1
    <3>7. \A j \in 1..i : a[j] = b[j]
      BY <2>1, <3>5, <3>6
    <3>8. i \in 0..n
      BY <1>1, <2>1
    <3>. QED  BY <2>5, <3>7, <3>8
  <2>6. CASE ~(i <= m)
    <3>1. i - 1 = m
      BY <1>2, <2>1, <2>6
    <3>2. L = Len(convertToId(b))
      <4>1. Upto(B, Len(B)) = FlattenSeq(B)
        BY <1>2, FlattenUnfolds
      <4>. QED  BY <1>2, <2>2, <3>1, <4>1 DEF L
    <3>3. \A x \in 1..Len(code) : x <= Len(t) /\ code[x] = t[x]
      <4>. TAKE x \in 1..Len(code)
      <4>1. x <= Len(t)
        <5>1. L + x <= L + Len(t) /\ x \in Nat
          BY <1>3, <2>3, <2>4, <3>2
        <5>. QED  BY ONLY <1>3, <2>3, <5>1
      <4>2. x \in 1..Len(t)
        BY <1>3, <4>1
      <4>. QED  BY <1>3, <2>4, <3>2, <4>1, <4>2
    <3>4. Len(code) <= Len(t)
      <4>1. CASE Len(code) = 0
        BY <1>3, <4>1
      <4>2. CASE Len(code) # 0
        BY <2>3, <3>3, <4>2
      <4>. QED  BY <4>1, <4>2
    <3>5. \A x \in 1..Len(code) : t[x] = code[x]
      BY <3>3
    <3>6. IsPrefix(code, t)
      BY <2>3, <3>4, <3>5, PrefixIs
    <3>. QED  BY <1>5, <3>6 DEF code, n
  <2>. QED  BY <2>5, <2>6
<1>6. 0 \in T
  BY <1>1, <1>2
<1>7. 0..n \subseteq T
  <2>. HIDE DEF T
  <2>. QED  BY <1>1, <1>5, <1>6, BoundedInduction
<1>8. n <= m /\ \A j \in 1..n : a[j] = b[j]
  BY <1>1, <1>7
<1>. QED  BY <1>8, PrefixIs DEF n, m

-----------------------------------------------------------------------------
(***************************************************************************)
(* The answers.                                                            *)
(***************************************************************************)

LEMMA CodesAreNumbers == Seq(Character) \subseteq Seq(Nat) /\ Seq(Digit) \subseteq Seq(Nat)
<1>1. ASSUME NEW S, S \subseteq Nat, NEW s \in Seq(S)
      PROVE  s \in Seq(Nat)
  <2>1. s \in [1..Len(s) -> S] /\ Len(s) \in Nat
    BY LenProperties
  <2>. DEFINE n == Len(s)
  <2>. HIDE DEF n
  <2>2. s \in [1..n -> Nat] /\ n \in Nat
    BY <1>1, <2>1 DEF n
  <2>3. s \in UNION {[1..k -> Nat] : k \in Nat}
    BY ONLY <2>2
  <2>. QED  BY <2>3, SeqDef
<1>2. Character \subseteq Nat /\ Digit \subseteq Nat
  BY DEF Character, Digit
<1>. QED  BY <1>1, <1>2

LEMMA EntryIs ==
  ASSUME NEW e \in Entry
  PROVE  e.name \in Seq(Nat) /\ e.number \in Seq(Nat) /\ e.number \in Seq(Digit)
BY CodesAreNumbers DEF Entry

LEMMA LowerIs ==
  ASSUME NEW text, text \in Seq(Nat)
  PROVE  /\ ToLower(text) \in Seq(Nat) /\ Len(ToLower(text)) = Len(text)
         /\ text # <<>> => ToLower(text) # <<>>
<1>1. ToLower(text) = [i \in 1..Len(text) |-> IF text[i] \in 65..90 THEN text[i] + 32 ELSE text[i]]
  BY DEF ToLower
<1>2. \A i \in 1..Len(text) : text[i] \in Nat
  OBVIOUS
<1>3. \A i \in 1..Len(text) : ToLower(text)[i] \in Nat
  BY <1>1, <1>2
<1>4. ToLower(text) \in Seq(Nat) /\ Len(ToLower(text)) = Len(text)
  BY <1>1, <1>3
<1>. QED  BY <1>4

(* "=" is "_3d", which no number begins like.                              *)
LEMMA NumberIs ==
  ASSUME NEW d \in Seq(Digit)
  PROVE  ~IsPrefix(Encoded(61), <<Underscore>> \o d)
<1>. DEFINE u == <<Underscore>>
            code == Encoded(61)
<1>1. /\ d \in Seq(Nat) /\ Len(d) \in Nat /\ \A x \in 1..Len(d) : d[x] < 100
      /\ u \in Seq(Nat) /\ Len(u) = 1
  <2>1. \A x \in 1..Len(d) : d[x] \in Digit
    OBVIOUS
  <2>2. \A x \in Digit : x < 100
    BY DEF Digit
  <2>3. d \in Seq(Nat) /\ Len(d) \in Nat
    BY CodesAreNumbers
  <2>4. u \in Seq(Nat) /\ Len(u) = 1
    BY DEF Underscore
  <2>. QED  BY ONLY <2>1, <2>2, <2>3, <2>4
<1>2. code \in Seq(Nat) /\ Len(code) = 3 /\ code[3] = 100
  <2>1. Encoded(61) = <<Underscore, Hex(3), Hex(13)>> /\ Hex(3) = 51 /\ Hex(13) = 100
    BY DEF Encoded, Hex, Plain
  <2>2. <<Underscore, 51, 100>> \in Seq(Nat)
    BY DEF Underscore
  <2>3. Len(<<Underscore, 51, 100>>) = 3 /\ <<Underscore, 51, 100>>[3] = 100
    OBVIOUS
  <2>4. Encoded(61) = <<Underscore, 51, 100>>
    BY ONLY <2>1
  <2>. QED  BY ONLY <2>2, <2>3, <2>4
<1>. DEFINE t == u \o d
<1>. HIDE DEF u, code
<1>3. /\ t \in Seq(Nat) /\ Len(t) = Len(u) + Len(d)
      /\ \A x \in 1..Len(d) : t[Len(u) + x] = d[x]
  <2>1. u \in Seq(Nat) /\ d \in Seq(Nat)
    BY <1>1
  <2>. QED  BY ONLY <2>1, ConcatParts
<1>. HIDE DEF t
<1>4. ASSUME IsPrefix(code, t) PROVE FALSE
  <2>1. Len(code) <= Len(t) /\ \A x \in 1..Len(code) : code[x] = t[x]
    <3>1. code \in Seq(Nat) /\ t \in Seq(Nat)
      BY <1>2, <1>3
    <3>. QED  BY ONLY <1>4, <3>1, PrefixIs
  <2>2. 2 \in 1..Len(d) /\ 3 \in 1..Len(code) /\ Len(u) + 2 = 3
    BY <1>1, <1>2, <1>3, <2>1
  <2>3. t[3] = 100 /\ t[3] = d[2] /\ d[2] < 100
    BY <1>1, <1>2, <1>3, <2>1, <2>2
  <2>4. ~(100 < 100)
    OBVIOUS
  <2>. QED  BY ONLY <2>3, <2>4
<1>. QED  BY <1>4 DEF t, u, code

(* A row shows itself for a text that its name begins with.                *)
LEMMA RowTells ==
  ASSUME NEW e \in Entry, NEW text, text \in Seq(Nat),
         \A i \in DOMAIN text : ~IsPrefix(Encoded(ToLower(text)[i]), <<Underscore>> \o e.number)
  PROVE  RowMatches(e, text) <=> IsPrefix(ToLower(text), ToLower(e.name))
<1>. DEFINE a == ToLower(text)
            b == ToLower(e.name)
            t == <<Underscore>> \o e.number
<1>1. a \in Seq(Nat) /\ b \in Seq(Nat) /\ \A i \in 1..Len(a) : ~IsPrefix(Encoded(a[i]), t)
  <2>1. e.name \in Seq(Nat)
    BY EntryIs
  <2>2. a \in Seq(Nat) /\ Len(a) = Len(text) /\ b \in Seq(Nat)
    BY <2>1, LowerIs
  <2>3. DOMAIN text = 1..Len(text)
    OBVIOUS
  <2>. HIDE DEF t, b
  <2>4. \A i \in 1..Len(text) : ~IsPrefix(Encoded(a[i]), t)
    BY <2>3 DEF t
  <2>. QED  BY <2>2, <2>4
<1>2. t \in Seq(Nat)
  BY EntryIs DEF Underscore
<1>3. RowId(e) = convertToId(b) \o t
  <2>1. convertToId(b) \in Seq(Nat) /\ <<Underscore>> \in Seq(Nat) /\ e.number \in Seq(Nat)
    BY <1>1, EntryIs, CodesAre DEF Underscore
  <2>. DEFINE x == convertToId(b)
              u == <<Underscore>>
              n == e.number
  <2>. HIDE DEF x, u, n
  <2>2. (x \o u) \o n = x \o (u \o n)
    <3>1. x \in Seq(Nat) /\ u \in Seq(Nat) /\ n \in Seq(Nat)
      BY ONLY <2>1 DEF x, u, n
    <3>. QED  BY ONLY <3>1, ConcatAssociative
  <2>. QED  BY ONLY <2>2 DEF RowId, b, t, x, u, n
<1>. HIDE DEF a, b, t
<1>4. IsPrefix(a, b) => IsPrefix(convertToId(a), convertToId(b) \o t)
  BY <1>1, <1>2, IdOfPrefix
<1>5. IsPrefix(convertToId(a), convertToId(b) \o t) => IsPrefix(a, b)
  BY <1>1, <1>2, PrefixOfId
<1>. QED  BY <1>3, <1>4, <1>5 DEF RowMatches, a, b

FileOrNone(x) == x = <<>> \/ \E s \in DOMAIN index : \E f \in DOMAIN index[s] : x = index[s][f]

(* What the window shows is complete, for any window p.                    *)
CompleteFor(p) ==
  p.answered.search # <<>> =>
    /\ {p.rows[i] : i \in p.visible}
         = SectionMatches(index[p.answered.section], p.answered.search)
    /\ p.noMatches <=> p.visible = {}

IsPanel(p) == /\ {"searchData", "rows", "visible", "noMatches", "answered"} \subseteq DOMAIN p
              /\ FileOrNone(p.searchData) /\ FileOrNone(p.rows)

Asked(r) == /\ r.section \in DOMAIN index /\ r.search \in Texts
            /\ r.file \in FileFor(index[r.section], r.search)

HasText(b) == "field" \in DOMAIN b /\ b.field \in Texts

AnswerInv == /\ index \in Indexes
             /\ HasText(box)
             /\ \A r \in DOMAIN loading : Asked(r)
             /\ IsPanel(panel)
             /\ CompleteFor(panel)

(* Files and entries of the index.                                         *)
LEMMA FileIs ==
  ASSUME index \in Indexes, NEW s \in DOMAIN index, NEW f \in DOMAIN index[s]
  PROVE  /\ f \in Nat \ {0} /\ index[s][f] # <<>> /\ index[s][f] \in Seq(Entry)
         /\ \A g \in DOMAIN index[s] : FirstChar(index[s][f]) = FirstChar(index[s][g]) => f = g
         /\ \A i \in DOMAIN index[s][f] :
              /\ index[s][f][i] \in Entry
              /\ ToLower(index[s][f][i].name) \in Seq(Nat)
              /\ ToLower(index[s][f][i].name) # <<>>
              /\ ToLower(index[s][f][i].name)[1] = FirstChar(index[s][f])
              /\ ~IsPrefix(NoSuchText, ToLower(index[s][f][i].name))
<1>1. index \in Seq(Seq(Seq(Entry)))
  BY IndexAssumption
<1>2. index[s] \in Seq(Seq(Entry)) /\ f \in Nat \ {0} /\ index[s][f] \in Seq(Entry)
  <2>1. index[s] \in Seq(Seq(Entry))
    BY <1>1
  <2>. QED  BY <2>1
<1>3. \A i \in DOMAIN index[s][f] : /\ index[s][f][i] \in Entry
                                    /\ ToLower(index[s][f][i].name) \in Seq(Nat)
  <2>. TAKE i \in DOMAIN index[s][f]
  <2>1. index[s][f][i] \in Entry
    BY <1>2
  <2>2. index[s][f][i].name \in Seq(Nat)
    BY <2>1, EntryIs
  <2>. QED  BY <2>1, <2>2, LowerIs
<1>. QED  BY <1>2, <1>3, IndexAssumption

(* What begins with a text that is not empty is in the file of its first   *)
(* character.                                                              *)
LEMMA InItsFile ==
  ASSUME index \in Indexes, NEW s \in DOMAIN index, NEW f \in DOMAIN index[s],
         NEW i \in DOMAIN index[s][f], NEW text, text \in Seq(Nat), text # <<>>,
         IsPrefix(ToLower(text), ToLower(index[s][f][i].name))
  PROVE  f \in FileFor(index[s], text)
<1>. DEFINE a == ToLower(text)
            b == ToLower(index[s][f][i].name)
<1>1. a \in Seq(Nat) /\ a # <<>> /\ b \in Seq(Nat) /\ b[1] = FirstChar(index[s][f])
  BY LowerIs, FileIs
<1>. HIDE DEF a, b
<1>2. IsPrefix(a, b)
  BY DEF a, b
<1>3. a[1] = b[1]
  <2>1. \A x \in 1..Len(a) : a[x] = b[x]
    BY <1>1, <1>2, PrefixIs
  <2>2. 1 \in 1..Len(a)
    BY <1>1
  <2>. QED  BY <2>1, <2>2
<1>. QED  BY <1>1, <1>3 DEF FileFor, a

LEMMA TextTells ==
  ASSUME NumbersNotTyped, index \in Indexes, NEW s \in DOMAIN index, NEW f \in DOMAIN index[s],
         NEW i \in DOMAIN index[s][f], NEW text \in Texts
  PROVE  RowMatches(index[s][f][i], text)
           <=> IsPrefix(ToLower(text), ToLower(index[s][f][i].name))
<1>1. text \in Seq(Nat) /\ index[s][f][i] \in Entry
  BY CodesAssumption, CodesAreNumbers, FileIs
<1>2. \A j \in DOMAIN text :
        ~IsPrefix(Encoded(ToLower(text)[j]), <<Underscore>> \o index[s][f][i].number)
  BY DEF NumbersNotTyped
<1>. QED  BY <1>1, <1>2, RowTells

(* No row shows itself when nothing is to be found.                        *)
LEMMA NothingTells ==
  ASSUME index \in Indexes, NEW s \in DOMAIN index, NEW f \in DOMAIN index[s],
         NEW i \in DOMAIN index[s][f]
  PROVE  ~RowMatches(index[s][f][i], NoSuchText)
<1>1. index[s][f][i] \in Entry /\ ~IsPrefix(NoSuchText, ToLower(index[s][f][i].name))
  BY FileIs
<1>2. NoSuchText \in Seq(Nat) /\ ToLower(NoSuchText) = NoSuchText
      /\ \A j \in DOMAIN NoSuchText : NoSuchText[j] = 61
  BY DEF NoSuchText, ToLower
<1>3. index[s][f][i].number \in Seq(Digit)
  BY <1>1, EntryIs
<1>4. \A j \in DOMAIN NoSuchText :
        ~IsPrefix(Encoded(ToLower(NoSuchText)[j]), <<Underscore>> \o index[s][f][i].number)
  <2>1. ~IsPrefix(Encoded(61), <<Underscore>> \o index[s][f][i].number)
    BY ONLY <1>3, NumberIs
  <2>. QED  BY ONLY <1>2, <2>1
<1>5. RowMatches(index[s][f][i], NoSuchText)
        <=> IsPrefix(ToLower(NoSuchText), ToLower(index[s][f][i].name))
  <2>. DEFINE e == index[s][f][i]
  <2>1. e \in Entry
    BY <1>1
  <2>. HIDE DEF e
  <2>2. NoSuchText \in Seq(Nat)
        /\ \A j \in DOMAIN NoSuchText :
             ~IsPrefix(Encoded(ToLower(NoSuchText)[j]), <<Underscore>> \o e.number)
    BY <1>2, <1>4 DEF e
  <2>3. RowMatches(e, NoSuchText) <=> IsPrefix(ToLower(NoSuchText), ToLower(e.name))
    BY ONLY <2>1, <2>2, RowTells
  <2>. QED  BY <2>3 DEF e
<1>. QED  BY <1>1, <1>2, <1>5

(* A search whose text no data file of the section has.                    *)
LEMMA NothingIsComplete ==
  ASSUME index \in Indexes, NEW p, IsPanel(p), NEW r,
         r.file = 0, r.section \in DOMAIN index, r.search \in Texts,
         FileFor(index[r.section], r.search) = {}
  PROVE  IsPanel(Results(p, r)) /\ CompleteFor(Results(p, r))
<1>. DEFINE list == IF p.searchData = <<>> THEN p.rows ELSE p.searchData
            c == Results(p, r)
<1>1. FileOrNone(list)
  BY DEF IsPanel
<1>2. Matches(list, NoSuchText) = {}
  <2>1. CASE list = <<>>
    BY <2>1 DEF Matches
  <2>2. ASSUME NEW s \in DOMAIN index, NEW f \in DOMAIN index[s], list = index[s][f]
        PROVE  Matches(list, NoSuchText) = {}
    BY <2>2, NothingTells DEF Matches
  <2>. QED  BY <1>1, <2>1, <2>2 DEF FileOrNone
<1>3. /\ {"searchData", "rows", "visible", "noMatches", "answered"} \subseteq DOMAIN c
      /\ c.searchData = p.searchData /\ c.rows = list /\ c.visible = {}
      /\ c.noMatches = TRUE /\ c.answered = r
  <2>. HIDE DEF list
  <2>1. c = [p EXCEPT !.rows = list, !.visible = {}, !.noMatches = TRUE, !.answered = r]
    BY <1>2 DEF Results, list
  <2>. HIDE DEF c
  <2>. QED  BY <2>1 DEF IsPanel
<1>4. r.search # <<>> => SectionMatches(index[r.section], r.search) = {}
  <2>. SUFFICES ASSUME r.search # <<>>,
                       NEW e \in SectionMatches(index[r.section], r.search)
                PROVE  FALSE
    OBVIOUS
  <2>1. PICK f \in DOMAIN index[r.section] : \E i \in DOMAIN index[r.section][f] :
               e = index[r.section][f][i]
    BY DEF SectionMatches
  <2>0. PICK i \in DOMAIN index[r.section][f] : e = index[r.section][f][i]
    BY <2>1
  <2>2. IsPrefix(ToLower(r.search), ToLower(index[r.section][f][i].name))
    BY <2>0 DEF SectionMatches
  <2>. QED  BY <2>2, CodesAssumption, CodesAreNumbers, InItsFile
<1>. HIDE DEF c, list
<1>5. IsPanel(c)
  BY <1>1, <1>3 DEF IsPanel
<1>6. CompleteFor(c)
  BY <1>3, <1>4 DEF CompleteFor
<1>. QED  BY <1>5, <1>6 DEF c

(* A search whose data file has come.                                      *)
LEMMA FileIsComplete ==
  ASSUME NumbersNotTyped, index \in Indexes, NEW p, IsPanel(p), NEW r, Asked(r),
         p.searchData = FileOf(r)
  PROVE  IsPanel(Results(p, r)) /\ CompleteFor(Results(p, r))
<1>. DEFINE list == index[r.section][r.file]
            c == Results(p, r)
            found == {i \in DOMAIN list : IsPrefix(ToLower(r.search), ToLower(list[i].name))}
<1>1. r.section \in DOMAIN index /\ r.search \in Texts /\ r.search \in Seq(Nat)
      /\ r.file \in FileFor(index[r.section], r.search)
      /\ r.file \in DOMAIN index[r.section]
  BY CodesAssumption, CodesAreNumbers DEF Asked, FileFor
<1>2. list # <<>> /\ r.file # 0
  BY <1>1, FileIs
<1>3. Matches(list, r.search) = found
  BY <1>1, TextTells DEF Matches
<1>4. /\ {"searchData", "rows", "visible", "noMatches", "answered"} \subseteq DOMAIN c
      /\ c.searchData = list /\ c.rows = list /\ c.visible = found
      /\ c.noMatches = (found = {}) /\ c.answered = r
  <2>. HIDE DEF list, found
  <2>0. p.searchData = list
    BY DEF list, FileOf
  <2>1. c = [p EXCEPT !.rows = list, !.visible = found, !.noMatches = (found = {}), !.answered = r]
    BY <1>2, <1>3, <2>0 DEF Results
  <2>. HIDE DEF c
  <2>. QED  BY <2>0, <2>1 DEF IsPanel
<1>5. r.search # <<>> =>
        {list[i] : i \in found} = SectionMatches(index[r.section], r.search)
  <2>. SUFFICES ASSUME r.search # <<>>
                PROVE  {list[i] : i \in found} = SectionMatches(index[r.section], r.search)
    OBVIOUS
  <2>1. ASSUME NEW i \in found PROVE list[i] \in SectionMatches(index[r.section], r.search)
    BY <1>1, <2>1 DEF SectionMatches
  <2>2. ASSUME NEW e \in SectionMatches(index[r.section], r.search)
        PROVE  \E i \in found : e = list[i]
    <3>1. PICK f \in DOMAIN index[r.section] : \E i \in DOMAIN index[r.section][f] :
                 e = index[r.section][f][i]
      BY <2>2 DEF SectionMatches
    <3>0. PICK i \in DOMAIN index[r.section][f] : e = index[r.section][f][i]
      BY <3>1
    <3>2. IsPrefix(ToLower(r.search), ToLower(index[r.section][f][i].name))
      BY <2>2, <3>0 DEF SectionMatches
    <3>3. f \in FileFor(index[r.section], r.search)
      BY <1>1, <3>2, InItsFile
    <3>4. FirstChar(index[r.section][f]) = FirstChar(index[r.section][r.file])
      BY <1>1, <3>3 DEF FileFor
    <3>5. f = r.file
      BY <1>1, <3>4, FileIs
    <3>. QED  BY <3>0, <3>2, <3>5
  <2>. QED  BY <2>1, <2>2
<1>. HIDE DEF c, found
<1>6. IsPanel(c)
  BY <1>1, <1>4 DEF IsPanel, FileOrNone
<1>. HIDE DEF list
<1>7. CompleteFor(c)
  BY <1>4, <1>5 DEF CompleteFor
<1>. QED  BY <1>6, <1>7 DEF c

-----------------------------------------------------------------------------
(* Whatever a handler does to the box, its text is one that can be typed.  *)

LEMMA TextStays ==
  ASSUME NEW b, HasText(b)
  PROVE  /\ \A on : HasText(Activate(b, on))
         /\ \A x : HasText(FocusOn(b, x)) /\ HasText(Unfocused(b, x))
         /\ \A x : HasText(Chosen(b, x))
         /\ HasText(HideResults(b)) /\ HasText(CloseSelectionWindow(b))
         /\ HasText(CloseResultsWindow(b))
         /\ HasText(KillTimer(b)) /\ HasText(ArmTimer(b))
         /\ HasText(OnSearchSelectShow(b)) /\ HasText(OnSearchSelectHide(b))
         /\ HasText(CheckValue(b)) /\ HasText(Shown(b)) /\ HasText(Searched(b))
         /\ \A x : HasText([b EXCEPT !.lastSearchValue = x])
<1>. USE TextsAssumption
<1>1. ASSUME NEW d, HasText(d) PROVE \A on : HasText(Activate(d, on))
  BY <1>1 DEF HasText, Activate
<1>2. ASSUME NEW d, HasText(d), NEW x PROVE HasText(FocusOn(d, x))
  <2>1. HasText([d EXCEPT !.focus = x])
    BY <1>2 DEF HasText
  <2>. QED  BY <1>1, <1>2, <2>1 DEF FocusOn
<1>3. ASSUME NEW d, HasText(d), NEW x PROVE HasText(Unfocused(d, x))
  BY <1>3 DEF HasText, Unfocused
<1>4. \A x : HasText(Chosen(b, x)) /\ HasText([b EXCEPT !.lastSearchValue = x])
  BY DEF HasText, Chosen
<1>5. HasText(HideResults(b)) /\ HasText([b EXCEPT !.select = FALSE])
  BY DEF HasText, HideResults
<1>6. HasText(CloseSelectionWindow(b)) /\ HasText(CloseResultsWindow(b))
  BY <1>1, <1>3, <1>5 DEF CloseSelectionWindow, CloseResultsWindow
<1>7. /\ HasText(KillTimer(b)) /\ HasText(ArmTimer(b))
      /\ HasText(OnSearchSelectShow(b)) /\ HasText(OnSearchSelectHide(b))
  BY DEF HasText, KillTimer, ArmTimer, OnSearchSelectShow, OnSearchSelectHide
<1>8. HasText(CheckValue(b))
  <2>1. HasText([HideResults(b) EXCEPT !.lastSearchValue = <<>>])
    BY <1>5 DEF HasText
  <2>. QED  BY <1>7, <2>1 DEF CheckValue
<1>9. ASSUME NEW d, HasText(d) PROVE HasText(Shown(d))
  <2>1. HasText([d EXCEPT !.close = @ \/ ~d.window, !.window = TRUE])
    BY <1>9 DEF HasText
  <2>. QED  BY <1>3, <2>1 DEF Shown
<1>10. HasText(Searched(b))
  <2>1. HasText([b EXCEPT !.keyTimeout = 0])
    BY DEF HasText
  <2>2. HasText([[b EXCEPT !.keyTimeout = 0] EXCEPT !.lastSearchValue = b.field])
    BY <2>1 DEF HasText
  <2>. QED  BY <1>9, <2>1, <2>2 DEF Searched
<1>. QED  BY <1>1, <1>2, <1>3, <1>4, <1>5, <1>6, <1>7, <1>8, <1>9, <1>10

LEMMA SelectedHasText ==
  ASSUME NEW b, HasText(b), NEW id
  PROVE  HasText(Selected(b, id)) /\ HasText(Chosen(b, id))
<1>1. HasText(Chosen(b, id))
  BY TextStays
<1>2. HasText(Searched(Chosen(b, id)))
  BY <1>1, TextStays
<1>. QED  BY <1>1, <1>2 DEF Selected

-----------------------------------------------------------------------------
(* The steps.                                                              *)

LEMMA AnswerStays ==
  ASSUME AnswerInv, UNCHANGED <<index, panel>>, HasText(box'),
         \A r \in DOMAIN loading' : r \in DOMAIN loading \/ Asked(r)
  PROVE  AnswerInv'
<1>1. \A r : Asked(r) => Asked(r)'
  BY DEF Asked
<1>2. IsPanel(panel)' /\ CompleteFor(panel)'
  BY DEF AnswerInv, IsPanel, FileOrNone, CompleteFor
<1>. QED  BY <1>1, <1>2 DEF AnswerInv, HasText

LEMMA AnswerShown ==
  ASSUME AnswerInv, UNCHANGED index, HasText(box'), NEW p, panel' = p,
         IsPanel(p), CompleteFor(p), DOMAIN loading' \subseteq DOMAIN loading
  PROVE  AnswerInv'
<1>1. \A r \in DOMAIN loading' : Asked(r)'
  BY DEF AnswerInv, Asked
<1>2. IsPanel(panel)' /\ CompleteFor(panel)'
  BY DEF IsPanel, FileOrNone, CompleteFor
<1>. QED  BY <1>1, <1>2 DEF AnswerInv, HasText

LEMMA FetchKeeps ==
  ASSUME AnswerInv, UNCHANGED index, HasText(box'), NEW b, HasText(b), Fetch(b)
  PROVE  AnswerInv'
<1>. DEFINE r == Request(b)
            files == FileFor(index[r.section], r.search)
<1>1. CASE ~HasSection(b)
  BY <1>1, AnswerStays DEF Fetch
<1>2. CASE HasSection(b)
  <2>1. /\ r.search = b.field /\ r.section = b.searchIndex + 1
        /\ r.file = IF files = {} THEN 0 ELSE CHOOSE f \in files : TRUE
    BY DEF Request
  <2>. HIDE DEF r
  <2>2. r.section \in DOMAIN index /\ r.search \in Texts
    BY <1>2, <2>1 DEF HasSection, HasText
  <2>3. files # {} => Asked(r) /\ r.file # 0
    <3>. SUFFICES ASSUME files # {} PROVE Asked(r) /\ r.file # 0
      OBVIOUS
    <3>1. r.file \in files
      <4>. HIDE DEF files
      <4>. QED  BY <2>1
    <3>2. r.file \in DOMAIN index[r.section]
      BY <3>1 DEF FileFor
    <3>3. r.file # 0
      BY <2>2, <3>2, FileIs DEF AnswerInv
    <3>. QED  BY <2>2, <3>1, <3>3 DEF Asked
  <2>4. CASE r.file = 0
    <3>1. files = {}
      BY <2>3, <2>4
    <3>2. panel' = Results(panel, r) /\ UNCHANGED loading
      BY <1>2, <2>4 DEF Fetch, r
    <3>3. IsPanel(Results(panel, r)) /\ CompleteFor(Results(panel, r))
      BY <2>2, <2>4, <3>1, NothingIsComplete DEF AnswerInv
    <3>. QED  BY <3>2, <3>3, AnswerShown
  <2>5. CASE r.file # 0
    <3>1. Asked(r)
      BY <2>1, <2>3, <2>5
    <3>2. loading' = loading (+) SetToBag({r}) /\ UNCHANGED panel
      BY <1>2, <2>5 DEF Fetch, r
    <3>3. DOMAIN loading' = DOMAIN loading \cup {r}
      BY <3>2 DEF (+), SetToBag
    <3>. QED  BY <3>1, <3>2, <3>3, AnswerStays
  <2>. QED  BY <2>4, <2>5
<1>. QED  BY <1>1, <1>2

LEMMA SelectKeeps ==
  ASSUME AnswerInv, UNCHANGED index, HasText(box'), NEW b, HasText(b), NEW id, SelectFetch(b, id)
  PROVE  AnswerInv'
<1>1. CASE Searches(Chosen(b, id))
  BY <1>1, SelectedHasText, FetchKeeps DEF SelectFetch
<1>2. CASE ~Searches(Chosen(b, id))
  BY <1>2, AnswerStays DEF SelectFetch
<1>. QED  BY <1>1, <1>2

LEMMA AnswerField ==
  ASSUME AnswerInv, Field
  PROVE  AnswerInv'
<1>1. HasText(box) /\ HasText(KillTimer(box))
  BY TextStays DEF AnswerInv
<1>2. CASE Edit
  <2>1. HasText(box')
    BY <1>1, <1>2 DEF Edit, HasText
  <2>. QED  BY <1>2, <2>1, AnswerStays DEF Edit, Rest
<1>3. CASE FocusField \/ BlurField \/ FocusButton
  BY <1>1, <1>3, TextStays, AnswerStays DEF FocusField, BlurField, FocusButton, Rest
<1>4. CASE KeyUpText
  BY <1>1, <1>4, TextStays, AnswerStays DEF KeyUpText, KeyUp, Rest
<1>5. CASE KeyUpDown
  <2>. DEFINE b == KillTimer(box)
              c == IF b.window /\ panel.visible # {} THEN FocusOn(b, "result") ELSE b
  <2>1. HasText(c)
    BY <1>1, TextStays
  <2>2. box' = CheckValue(c)
    BY <1>5 DEF KeyUpDown
  <2>. HIDE DEF b, c
  <2>3. HasText(box')
    BY <2>1, <2>2, TextStays
  <2>. QED  BY <1>5, <2>3, AnswerStays DEF KeyUpDown, KeyUp, Rest
<1>6. CASE KeyUpShiftDown
  <2>. DEFINE b == OnSearchSelectShow(KillTimer(box))
  <2>1. HasText(b) /\ HasText(FocusOn(b, "select"))
    <3>1. HasText(b)
      BY <1>1, TextStays
    <3>. HIDE DEF b
    <3>. QED  BY <3>1, TextStays
  <2>2. HasText(box')
    BY <1>6, <2>1 DEF KeyUpShiftDown
  <2>. QED  BY <1>6, <2>2, AnswerStays DEF KeyUpShiftDown, Rest
<1>7. CASE KeyUpEscape
  <2>. DEFINE b == FocusOn(KillTimer(box), "body")
              c == [HideResults(b) EXCEPT !.lastSearchValue = <<>>]
  <2>1. HasText(HideResults(b))
    <3>1. HasText(b)
      BY <1>1, TextStays
    <3>. HIDE DEF b
    <3>. QED  BY <3>1, TextStays
  <2>2. HasText(c)
    <3>. HIDE DEF b
    <3>. QED  BY <2>1, TextStays
  <2>3. box' = Activate(c, FALSE)
    BY <1>7 DEF KeyUpEscape
  <2>. HIDE DEF c
  <2>4. HasText(box')
    BY <2>2, <2>3, TextStays
  <2>. QED  BY <1>7, <2>4, AnswerStays DEF KeyUpEscape, Rest
<1>. QED  BY <1>2, <1>3, <1>4, <1>5, <1>6, <1>7 DEF Field

LEMMA AnswerSelection ==
  ASSUME AnswerInv, Selection
  PROVE  AnswerInv'
<1>1. HasText(box)
  BY DEF AnswerInv
<1>2. CASE MouseOver \/ MouseOut
  BY <1>1, <1>2, TextStays, AnswerStays DEF MouseOver, MouseOut
<1>3. ASSUME NEW s \in DOMAIN index, ClickItem(s - 1) PROVE AnswerInv'
  <2>. DEFINE b == [box EXCEPT !.focus = "select"]
  <2>1. HasText(b)
    BY <1>1 DEF HasText
  <2>2. box' = Selected(b, s - 1) /\ SelectFetch(b, s - 1) /\ UNCHANGED index
    BY <1>3 DEF ClickItem
  <2>. HIDE DEF b
  <2>. QED  BY <2>1, <2>2, SelectedHasText, SelectKeeps
<1>4. CASE SelectDown
  BY <1>1, <1>4, SelectedHasText, SelectKeeps DEF SelectDown
<1>5. CASE SelectUp
  BY <1>1, <1>5, SelectedHasText, SelectKeeps DEF SelectUp
<1>6. CASE SelectLeave
  <2>. DEFINE b == Selected(box, box.searchIndex)
              c == CloseSelectionWindow(b)
  <2>1. HasText(b)
    BY <1>1, SelectedHasText
  <2>2. HasText(c)
    <3>. HIDE DEF b
    <3>. QED  BY <2>1, TextStays
  <2>3. HasText(FocusOn(c, "field"))
    <3>. HIDE DEF c
    <3>. QED  BY <2>2, TextStays
  <2>4. box' = b \/ box' = FocusOn(c, "field")
    BY <1>6 DEF SelectLeave
  <2>5. SelectFetch(box, box.searchIndex) /\ UNCHANGED index
    BY <1>6 DEF SelectLeave
  <2>. QED  BY <1>1, <2>1, <2>3, <2>4, <2>5, SelectKeeps
<1>7. CASE ButtonKey
  <2>1. HasText(OnSearchSelectShow(box)) /\ HasText(CloseSelectionWindow(box))
    BY <1>1, TextStays
  <2>2. HasText(FocusOn(OnSearchSelectShow(box), "select"))
    BY <2>1, TextStays
  <2>. QED  BY <1>7, <2>1, <2>2, AnswerStays DEF ButtonKey, Rest
<1>. QED  BY <1>2, <1>3, <1>4, <1>5, <1>6, <1>7 DEF Selection

LEMMA AnswerWindow ==
  ASSUME AnswerInv, ResultsWindow
  PROVE  AnswerInv'
<1>1. HasText(box)
  BY DEF AnswerInv
<1>2. HasText(CloseResultsWindow(box)) /\ HasText(FocusOn(box, "result"))
  BY <1>1, TextStays
<1>3. HasText(FocusOn(CloseResultsWindow(box), "field"))
  BY <1>2, TextStays
<1>. QED  BY <1>2, <1>3, AnswerStays DEF ResultsWindow, CloseClicked, FocusResult, ResultEscape, Rest

LEMMA AnswerCallback ==
  ASSUME NumbersNotTyped, AnswerInv, Callbacks
  PROVE  AnswerInv'
<1>1. HasText(box)
  BY DEF AnswerInv
<1>2. ASSUME NEW id, KeyTimer(id) PROVE AnswerInv'
  <2>. DEFINE b == [box EXCEPT !.timers = @ \ {id}]
  <2>1. HasText(b)
    BY <1>1 DEF HasText
  <2>2. box' = Searched(b) /\ Fetch(b) /\ UNCHANGED index
    BY <1>2 DEF KeyTimer
  <2>. HIDE DEF b
  <2>. QED  BY <2>1, <2>2, TextStays, FetchKeeps
<1>3. ASSUME NEW id, HideTimer(id) PROVE AnswerInv'
  <2>. DEFINE b == [box EXCEPT !.hideTimers = @ \ {id},
                               !.hideTimeout = IF @ = id THEN 0 ELSE @]
  <2>1. HasText(b)
    BY <1>1 DEF HasText
  <2>2. box' = CloseSelectionWindow(b) /\ Rest
    BY <1>3 DEF HideTimer
  <2>. HIDE DEF b
  <2>. QED  BY <2>1, <2>2, TextStays, AnswerStays DEF Rest
<1>4. ASSUME NEW r \in BagToSet(loading), Loaded(r) PROVE AnswerInv'
  <2>. DEFINE p == [panel EXCEPT !.searchData = FileOf(r)]
  <2>1. Asked(r)
    BY <1>4 DEF AnswerInv, BagToSet
  <2>2. IsPanel(p) /\ p.searchData = FileOf(r)
    <3>1. r.section \in DOMAIN index /\ r.file \in DOMAIN index[r.section]
      BY <2>1 DEF Asked, FileFor
    <3>2. FileOrNone(FileOf(r))
      BY <3>1 DEF FileOrNone, FileOf
    <3>3. IsPanel(panel)
      BY DEF AnswerInv
    <3>. HIDE DEF FileOf, FileOrNone
    <3>. QED  BY <3>2, <3>3 DEF IsPanel
  <2>3. box' = Shown(box) /\ panel' = Results(p, r) /\ UNCHANGED index
        /\ loading' = loading (-) SetToBag({r})
    BY <1>4 DEF Loaded
  <2>4. DOMAIN loading' \subseteq DOMAIN loading
    BY <2>3 DEF (-)
  <2>. HIDE DEF p
  <2>5. IsPanel(Results(p, r)) /\ CompleteFor(Results(p, r))
    BY <2>1, <2>2, FileIsComplete DEF AnswerInv
  <2>. QED  BY <1>1, <2>3, <2>4, <2>5, TextStays, AnswerShown
<1>5. ASSUME NEW r, LoadFails(r) PROVE AnswerInv'
  <2>1. DOMAIN loading' \subseteq DOMAIN loading
    BY <1>5 DEF LoadFails, (-)
  <2>. QED  BY <1>1, <1>5, <2>1, AnswerStays DEF LoadFails
<1>6. CASE BoxReplaced
  <2>. DEFINE b == [box EXCEPT !.field = <<>>, !.close = FALSE]
              c == Unfocused(Unfocused(b, "field"), "button")
  <2>1. HasText(b)
    BY <1>1, TextsAssumption DEF HasText
  <2>2. HasText(c)
    <3>. HIDE DEF b
    <3>1. HasText(Unfocused(b, "field"))
      BY <2>1, TextStays
    <3>. QED  BY <3>1, TextStays
  <2>3. box' = CloseResultsWindow(c) /\ UNCHANGED <<index, panel, loading>>
    BY <1>6 DEF BoxReplaced
  <2>. HIDE DEF c
  <2>. QED  BY <2>2, <2>3, TextStays, AnswerStays
<1>. QED  BY <1>2, <1>3, <1>4, <1>5, <1>6 DEF Callbacks

LEMMA AnswerInit == Init => AnswerInv
<1>. SUFFICES ASSUME Init PROVE AnswerInv
  OBVIOUS
<1>1. index \in Indexes /\ HasText(box)
  BY TextsAssumption DEF Init, HasText
<1>2. \A r \in DOMAIN loading : Asked(r)
  BY DEF Init, EmptyBag, SetToBag
<1>3. IsPanel(panel)
  BY DEF Init, IsPanel, FileOrNone
<1>4. CompleteFor(panel)
  BY DEF Init, CompleteFor, NoRequest
<1>. QED  BY <1>1, <1>2, <1>3, <1>4 DEF AnswerInv

(***************************************************************************)
(* What the window shows for a text is what the section has for it, in     *)
(* whatever order keys, timers and data files come (SearchBox.Search,      *)
(* createResults, SearchResults.Search), as long as no character that is   *)
(* typed has a code that a row's number begins with.                       *)
(***************************************************************************)
THEOREM AnswersComplete ==
  ASSUME NumbersNotTyped
  PROVE  Spec => []AnswerComplete
<1>1. AnswerInv /\ [Next]_vars => AnswerInv'
  <2>. SUFFICES ASSUME AnswerInv, [Next]_vars PROVE AnswerInv'
    OBVIOUS
  <2>1. CASE UNCHANGED vars
    BY <2>1, AnswerStays DEF vars, AnswerInv, HasText
  <2>. QED  BY <2>1, AnswerField, AnswerSelection, AnswerWindow, AnswerCallback DEF Next
<1>2. AnswerInv => AnswerComplete
  BY DEF AnswerInv, CompleteFor, AnswerComplete
<1>. QED  BY <1>1, <1>2, AnswerInit, PTL DEF Spec

-----------------------------------------------------------------------------
(***************************************************************************)
(* The table of folders.  TreeShown and ArrowTells hold each other up: what*)
(* is below a folder that is shown again has right arrows because it was   *)
(* not shown before, and it was not because the arrow told so.             *)
(***************************************************************************)

TreeInv == TreeTypeOK /\ TreeShown /\ ArrowTells

-----------------------------------------------------------------------------
(* Facts about the paths.                                                  *)

LEMMA RowsArePaths ==
  /\ Row \subseteq Nat
  /\ \A r \in Row : /\ Rows[r] \in Seq(Nat)
                    /\ Depth(r) \in Nat
                    /\ DOMAIN Rows[r] = 1..Depth(r)
<1>1. Rows \in Seq(Seq(Nat))
  BY RowsAssumption
<1>2. Row = 1..Len(Rows) /\ Len(Rows) \in Nat
  BY <1>1 DEF Row
<1>3. \A r \in Row : Rows[r] \in Seq(Nat)
  BY <1>1, <1>2
<1>. QED  BY <1>2, <1>3 DEF Depth

LEMMA ChildrenAreRows ==
  ASSUME NEW f
  PROVE  Children(f) \subseteq Below(f) /\ Below(f) \subseteq Row
BY DEF Children, Below

(* A row has one parent.                                                   *)
LEMMA OneParent ==
  ASSUME NEW f \in Row, NEW g \in Row, NEW r \in Children(f), r \in Children(g)
  PROVE  f = g
<1>1. /\ r \in Row
      /\ Extends(r, f) /\ Depth(r) = Depth(f) + 1
      /\ Extends(r, g) /\ Depth(r) = Depth(g) + 1
  BY DEF Children, Below
<1>2. Depth(f) = Depth(g)
  BY <1>1, RowsArePaths
<1>3. \A i \in 1..Depth(f) : Rows[f][i] = Rows[g][i]
  BY <1>1, <1>2 DEF Extends
<1>4. Rows[f] \in Seq(Nat) /\ Rows[g] \in Seq(Nat) /\ Len(Rows[f]) = Len(Rows[g])
  BY <1>2, RowsArePaths DEF Depth
<1>5. Rows[f] = Rows[g]
  BY <1>3, <1>4, SeqEqual DEF Depth
<1>. QED  BY <1>5, RowsAssumption

(* What is below a folder that is below f is below f.                      *)
LEMMA BelowBelow ==
  ASSUME NEW f \in Row, NEW g \in Below(f), NEW r \in Below(g)
  PROVE  r \in Below(f)
<1>1. g \in Row /\ r \in Row /\ g > f /\ r > g /\ Extends(g, f) /\ Extends(r, g)
  BY DEF Below
<1>2. r > f
  <2>1. f \in Nat /\ g \in Nat /\ r \in Nat
    BY <1>1, RowsArePaths
  <2>. QED  BY <1>1, <2>1
<1>3. Depth(r) > Depth(f) /\ 1..Depth(f) \subseteq 1..Depth(g)
  BY <1>1, RowsArePaths DEF Extends
<1>4. \A i \in 1..Depth(f) : Rows[r][i] = Rows[f][i]
  BY <1>1, <1>3 DEF Extends
<1>. QED  BY <1>1, <1>2, <1>3, <1>4 DEF Below, Extends

(* The parent of what is below f is f, or below f itself.                  *)
LEMMA ParentOfBelow ==
  ASSUME NEW f \in Row, NEW g \in Row, NEW r \in Below(f), r \in Children(g)
  PROVE  g = f \/ g \in Below(f)
<1>1. /\ r \in Row /\ r > f
      /\ Extends(r, f)
      /\ Extends(r, g) /\ Depth(r) = Depth(g) + 1
  BY DEF Below, Children
<1>2. Depth(f) <= Depth(g)
  BY <1>1, RowsArePaths DEF Extends
<1>3. CASE Depth(f) = Depth(g)
  <2>1. r \in Children(f)
    BY <1>1, <1>3 DEF Children
  <2>. QED  BY <2>1, OneParent
<1>4. CASE Depth(f) < Depth(g)
  <2>1. 1..Depth(f) \subseteq 1..Depth(g)
    BY <1>4, RowsArePaths
  <2>2. \A i \in 1..Depth(f) : Rows[g][i] = Rows[f][i]
    BY <1>1, <2>1 DEF Extends
  <2>3. Extends(g, f)
    BY <1>4, <2>2, RowsArePaths DEF Extends
  <2>. QED  BY <2>3, RowsAssumption DEF Below
<1>. QED  BY <1>2, <1>3, <1>4, RowsArePaths

(* The code looks at the first child only, which must exist.               *)
LEMMA LeastNumber ==
  ASSUME NEW S, S \subseteq Nat, S # {}
  PROVE  \E n \in S : \A k \in S : n <= k
BY MinIsLeast

LEMMA FirstChildTells ==
  ASSUME TreeInv, NEW f \in Folder, f \in shown
  PROVE  IF FirstChildShown(f) THEN Children(f) \subseteq shown
                               ELSE Children(f) \cap shown = {}
<1>1. Children(f) # {} /\ Children(f) \subseteq Nat
  BY ChildrenAreRows, RowsArePaths DEF Folder
<1>2. PICK r \in Children(f) : \A q \in Children(f) : r <= q
  BY <1>1, LeastNumber
<1>3. CASE f \in open
  BY <1>2, <1>3 DEF TreeInv, ArrowTells, FirstChildShown
<1>4. CASE f \notin open
  BY <1>4 DEF TreeInv, ArrowTells, FirstChildShown
<1>. QED  BY <1>3, <1>4

-----------------------------------------------------------------------------
(* The actions.                                                            *)

LEMMA InitInv == TreeInit => TreeInv
<1>. HAVE TreeInit
<1>1. TreeTypeOK /\ TreeShown
  BY ChildrenAreRows DEF TreeInit, TreeTypeOK, TreeShown, Folder
<1>2. ArrowTells
  BY ChildrenAreRows DEF TreeInit, ArrowTells
<1>. QED  BY <1>1, <1>2 DEF TreeInv

LEMMA LevelInv ==
  ASSUME TreeInv, NEW level \in Levels, toggleLevel(level)
  PROVE  TreeInv'
<1>1. level \in Nat
  BY LevelsAssumption
<1>2. /\ shown' = {r \in Row : Depth(r) <= level}
      /\ open' = {f \in Folder : \/ Depth(f) < level
                                 \/ Depth(f) > level /\ f \in open}
  BY DEF toggleLevel
<1>3. \A f \in Folder : /\ f \in Row /\ Depth(f) \in Nat
                        /\ \A r \in Children(f) : r \in Row /\ Depth(r) = Depth(f) + 1
  BY RowsArePaths DEF Folder, Children, Below
<1>4. TreeTypeOK'
  BY <1>2 DEF TreeTypeOK
<1>5. TreeShown'
  BY <1>1, <1>2, <1>3 DEF TreeShown
<1>6. ArrowTells'
  <2>. SUFFICES ASSUME NEW f \in Folder, f \in shown'
                PROVE  IF f \in open' THEN Children(f) \subseteq shown'
                                      ELSE Children(f) \cap shown' = {}
    BY DEF ArrowTells
  <2>1. CASE Depth(f) < level
    BY <1>1, <1>2, <1>3, <2>1
  <2>2. CASE Depth(f) = level
    BY <1>1, <1>2, <1>3, <2>2
  <2>. QED  BY <1>1, <1>2, <1>3, <2>1, <2>2
<1>. QED  BY <1>4, <1>5, <1>6 DEF TreeInv

LEMMA HideInv ==
  ASSUME TreeInv, NEW f \in Folder, f \in shown, Hide(f)
  PROVE  TreeInv'
<1>1. shown' = shown \ Below(f) /\ open' = open \ {f}
  BY DEF Hide
<1>2. f \in Row /\ Folder \subseteq Row
  BY DEF Folder
<1>3. TreeTypeOK'
  BY <1>1 DEF TreeInv, TreeTypeOK
<1>4. TreeShown'
  <2>. SUFFICES ASSUME NEW r \in shown', NEW g \in Folder, r \in Children(g)
                PROVE  g \in shown'
    BY DEF TreeShown
  <2>1. g \in shown
    BY <1>1 DEF TreeInv, TreeShown
  <2>2. g \notin Below(f)
    BY <1>1, <1>2, BelowBelow, ChildrenAreRows
  <2>. QED  BY <1>1, <2>1, <2>2
<1>5. ArrowTells'
  <2>. SUFFICES ASSUME NEW g \in Folder, g \in shown'
                PROVE  IF g \in open' THEN Children(g) \subseteq shown'
                                      ELSE Children(g) \cap shown' = {}
    BY DEF ArrowTells
  <2>1. g \in shown /\ g \notin Below(f)
    BY <1>1
  <2>2. CASE g = f
    BY <1>1, <2>2, ChildrenAreRows
  <2>3. CASE g # f
    <3>1. Children(g) \cap Below(f) = {}
      BY <1>2, <2>1, <2>3, ParentOfBelow
    <3>. QED  BY <1>1, <2>1, <2>3, <3>1 DEF TreeInv, ArrowTells
  <2>. QED  BY <2>2, <2>3
<1>. QED  BY <1>3, <1>4, <1>5 DEF TreeInv

LEMMA ShowInv ==
  ASSUME TreeInv, NEW f \in Folder, f \in shown, ~FirstChildShown(f), Show(f)
  PROVE  TreeInv'
<1>1. shown' = shown \cup Children(f) /\ open' = (open \cup {f}) \ Children(f)
  BY DEF Show
<1>2. f \in Row /\ Folder \subseteq Row
  BY DEF Folder
<1>3. Children(f) \cap shown = {}
  BY FirstChildTells
<1>4. TreeTypeOK'
  BY <1>1, ChildrenAreRows DEF TreeInv, TreeTypeOK
<1>5. \A g \in Folder : g # f => Children(g) \cap Children(f) = {}
  BY <1>2, OneParent
<1>6. TreeShown'
  <2>. SUFFICES ASSUME NEW r \in shown', NEW g \in Folder, r \in Children(g)
                PROVE  g \in shown
    BY <1>1 DEF TreeShown
  <2>1. CASE r \in shown
    BY <2>1 DEF TreeInv, TreeShown
  <2>2. CASE r \in Children(f)
    BY <1>5, <2>2
  <2>. QED  BY <1>1, <2>1, <2>2
<1>7. ArrowTells'
  <2>. SUFFICES ASSUME NEW g \in Folder, g \in shown'
                PROVE  IF g \in open' THEN Children(g) \subseteq shown'
                                      ELSE Children(g) \cap shown' = {}
    BY DEF ArrowTells
  <2>1. CASE g = f
    <3>1. f \notin Children(f)
      BY <1>3
    <3>. QED  BY <1>1, <2>1, <3>1
  <2>2. CASE g \in Children(f)
    <3>1. g \notin shown /\ g # f /\ g \notin open'
      BY <1>1, <1>3, <2>2
    <3>2. Children(g) \cap shown = {}
      BY <3>1 DEF TreeInv, TreeShown
    <3>. QED  BY <1>1, <1>5, <3>1, <3>2
  <2>3. CASE g # f /\ g \notin Children(f)
    <3>1. g \in shown /\ (g \in open' <=> g \in open)
      BY <1>1, <2>3
    <3>2. IF g \in open THEN Children(g) \subseteq shown ELSE Children(g) \cap shown = {}
      BY <3>1 DEF TreeInv, ArrowTells
    <3>. QED  BY <1>1, <1>5, <2>3, <3>1, <3>2
  <2>. QED  BY <2>1, <2>2, <2>3
<1>. QED  BY <1>4, <1>6, <1>7 DEF TreeInv

LEMMA TreeStep == TreeInv /\ [TreeNext]_treeVars => TreeInv'
<1>. SUFFICES ASSUME TreeInv, [TreeNext]_treeVars PROVE TreeInv'
  OBVIOUS
<1>1. ASSUME NEW level \in Levels, toggleLevel(level) PROVE TreeInv'
  BY <1>1, LevelInv
<1>2. ASSUME NEW f \in Folder, toggleFolder(f) PROVE TreeInv'
  <2>1. CASE FirstChildShown(f)
    BY <1>2, <2>1, HideInv DEF toggleFolder
  <2>2. CASE ~FirstChildShown(f)
    BY <1>2, <2>2, ShowInv DEF toggleFolder
  <2>. QED  BY <2>1, <2>2
<1>3. CASE UNCHANGED treeVars
  BY <1>3 DEF treeVars, TreeInv, TreeTypeOK, TreeShown, ArrowTells
<1>. QED  BY <1>1, <1>2, <1>3 DEF TreeNext

(***************************************************************************)
(* A row is only seen below folders that are seen (toggleFolder hides      *)
(* everything below a folder, and shows only what is directly in it).      *)
(***************************************************************************)
THEOREM TreeIsShown == TreeSpec => []TreeShown
<1>1. TreeInv => TreeShown
  BY DEF TreeInv
<1>. QED  BY <1>1, InitInv, TreeStep, PTL DEF TreeSpec

(***************************************************************************)
(* The arrow of every folder one sees is right (toggleFolder turns the     *)
(* arrows of the folders it shows, toggleLevel those of most).             *)
(***************************************************************************)
THEOREM ArrowsTell == TreeSpec => []ArrowTells
<1>1. TreeInv => ArrowTells
  BY DEF TreeInv
<1>. QED  BY <1>1, InitInv, TreeStep, PTL DEF TreeSpec

-----------------------------------------------------------------------------
(* The stripes: a row has "even" if an even number of rows is seen above.  *)

StripesRight == /\ shown \subseteq Row
                /\ \A r \in shown : stripe[r] = "even" <=> Rank(r) % 2 = 0

LEMMA NextRank ==
  ASSUME StripesRight, NEW r \in shown, NEW q \in shown, r < q,
         \A s \in shown : ~(r < s /\ s < q)
  PROVE  Rank(r) \in Nat /\ Rank(q) = Rank(r) + 1
<1>. DEFINE above == {s \in shown : s < r}
<1>1. shown \subseteq Nat
  BY RowsArePaths DEF StripesRight
<1>2. above \in SUBSET Nat /\ \A s \in above : s <= r
  <2>1. \A s \in above : s \in Nat /\ r \in Nat /\ s < r
    BY <1>1 DEF above
  <2>. QED  BY <2>1
<1>3. IsFiniteSet(above)
  BY <1>1, <1>2, FS_BoundedSetOfNaturals
<1>4. {s \in shown : s < q} = above \cup {r} /\ r \notin above
  <2>1. \A s \in shown : s \in Nat /\ (s < q <=> s < r \/ s = r)
    BY <1>1
  <2>. QED  BY <2>1, <1>1 DEF above
<1>5. Cardinality(above) \in Nat /\ Cardinality(above \cup {r}) = Cardinality(above) + 1
  BY <1>3, <1>4, FS_AddElement, FS_CardinalityType
<1>. QED  BY <1>4, <1>5 DEF Rank, above

LEMMA StripesStep == StripesRight /\ [TreeNext]_treeVars => StripesRight'
<1>. SUFFICES ASSUME StripesRight, [TreeNext]_treeVars PROVE StripesRight'
  OBVIOUS
<1>1. ASSUME updateStripes, shown' \subseteq Row PROVE StripesRight'
  BY <1>1 DEF updateStripes, StripesRight
<1>2. ASSUME NEW level \in Levels, toggleLevel(level) PROVE StripesRight'
  BY <1>1, <1>2 DEF toggleLevel
<1>3. ASSUME NEW f \in Folder, toggleFolder(f) PROVE StripesRight'
  BY <1>1, <1>3, ChildrenAreRows DEF toggleFolder, Hide, Show, StripesRight
<1>4. CASE UNCHANGED treeVars
  BY <1>4 DEF treeVars, StripesRight, Rank
<1>. QED  BY <1>2, <1>3, <1>4 DEF TreeNext

(***************************************************************************)
(* Neighbours on the screen differ in their stripes (updateStripes).       *)
(***************************************************************************)
THEOREM StripesDoAlternate == TreeSpec => []StripesAlternate
<1>1. TreeInit => StripesRight
  BY DEF TreeInit, StripesRight
<1>2. StripesRight => StripesAlternate
  <2>. SUFFICES ASSUME StripesRight, NEW r \in shown, NEW q \in shown, r < q,
                       \A s \in shown : ~(r < s /\ s < q)
                PROVE  stripe[r] # stripe[q]
    BY DEF StripesAlternate
  <2>1. Rank(r) \in Nat /\ Rank(q) = Rank(r) + 1
    BY NextRank
  <2>2. (Rank(r) % 2 = 0) # (Rank(q) % 2 = 0)
    BY <2>1
  <2>. QED  BY <2>2 DEF StripesRight
<1>. QED  BY <1>1, <1>2, StripesStep, PTL DEF TreeSpec

-----------------------------------------------------------------------------
(***************************************************************************)
(* The folds.  The two sets of the listing stay complements, whatever the  *)
(* flag of toggle-all says; of the closed blocks around a line the         *)
(* outermost one has its placeholder seen.                                 *)
(***************************************************************************)

FoldInv == /\ fold.foldopen \subseteq Folds
           /\ fold.foldclosed = Folds \ fold.foldopen
           /\ fold = [ready |-> fold.ready, opened |-> fold.opened,
                      foldopen |-> fold.foldopen, foldclosed |-> fold.foldclosed]

LEMMA FoldStep == FoldInv /\ [Fold!Next]_(Fold!vars) => FoldInv'
<1>. SUFFICES ASSUME FoldInv, [Fold!Next]_(Fold!vars) PROVE FoldInv'
  OBVIOUS
<1>1. CASE Fold!toggleVisibility \/ Fold!toggleInherit \/ UNCHANGED Fold!vars
  BY <1>1 DEF FoldInv, Fold!toggleVisibility, Fold!toggleInherit, Fold!vars
<1>2. CASE Fold!init_codefold
  BY <1>2 DEF FoldInv, Fold!init_codefold
<1>3. CASE Fold!codefold_toggle_all
  BY <1>3 DEF FoldInv, Fold!codefold_toggle_all, Fold!ToggledAll
<1>4. ASSUME NEW f \in Folds, Fold!codefold_toggle(f) PROVE FoldInv'
  BY <1>4 DEF FoldInv, Fold!codefold_toggle, Fold!Toggled
<1>. QED  BY <1>1, <1>2, <1>3, <1>4 DEF Fold!Next

(* A line that is not seen has an outermost closed block around it.        *)
LEMMA OutermostClosed ==
  ASSUME FoldInv, NEW f \in Folds, ~Fold!Seen(f)
  PROVE  \E g \in Enclosing[f] : Fold!PlaceholderSeen(g)
<1>. DEFINE Closed == Enclosing[f] \cap fold.foldclosed
            Sizes == {Cardinality(Enclosing[g]) : g \in Closed}
<1>1. Closed # {} /\ Closed \subseteq Folds
  BY NestingAssumption DEF FoldInv, Fold!Seen
<1>2. \A g \in Folds : IsFiniteSet(Enclosing[g]) /\ Cardinality(Enclosing[g]) \in Nat
  BY NestingAssumption, FS_CardinalityType
<1>3. Sizes # {} /\ Sizes \subseteq Nat
  BY <1>1, <1>2
<1>4. PICK g \in Closed : \A h \in Closed : Cardinality(Enclosing[g]) <= Cardinality(Enclosing[h])
  <2>. HIDE DEF Sizes
  <2>1. \E n \in Sizes : \A k \in Sizes : n <= k
    BY <1>3, LeastNumber
  <2>. USE DEF Sizes
  <2>. QED  BY ONLY <2>1, Zenon
<1>. HIDE DEF Sizes
<1>5. g \in Folds /\ g \in Enclosing[f] /\ g \in fold.foldclosed
  BY <1>1
<1>6. ASSUME NEW h \in Enclosing[g], h # g PROVE h \in fold.foldopen
  <2>1. h \in Folds /\ Enclosing[h] \subseteq Enclosing[g] /\ g \notin Enclosing[h] /\ h \in Enclosing[f]
    BY <1>5, <1>6, NestingAssumption
  <2>2. Enclosing[h] # Enclosing[g]
    BY <1>5, <2>1, NestingAssumption
  <2>3. Cardinality(Enclosing[h]) < Cardinality(Enclosing[g])
    BY <1>2, <1>5, <2>1, <2>2, FS_Subset
  <2>4. h \notin Closed
    BY <1>2, <1>4, <1>5, <2>1, <2>3
  <2>. QED  BY <2>1, <2>4 DEF FoldInv
<1>. QED  BY <1>5, <1>6 DEF Fold!PlaceholderSeen, Fold!Outer

(***************************************************************************)
(* Every line of a listing is there once, by itself or in the placeholder  *)
(* of one block, however its blocks are nested (codefold_toggle,           *)
(* codefold_toggle_all).                                                   *)
(***************************************************************************)
THEOREM LinesThereOnce == Fold!Spec => []LinesOnce
<1>1. Fold!Init => FoldInv
  BY DEF Fold!Init, FoldInv
<1>2. FoldInv => LinesOnce
  <2>. SUFFICES ASSUME FoldInv, NEW f \in Folds
                PROVE  Cardinality({g \in Enclosing[f] : Fold!PlaceholderSeen(g)})
                         = IF Fold!Seen(f) THEN 0 ELSE 1
    <3>1. \A S : Fold!Cardinality(S) = Cardinality(S)
      BY DEF Fold!Cardinality, Cardinality, Fold!IsFiniteSet, IsFiniteSet
    <3>. QED  BY <3>1, Zenon DEF LinesOnce, Fold!LinesOnce
  <2>. DEFINE Placeholders == {g \in Enclosing[f] : Fold!PlaceholderSeen(g)}
  <2>1. CASE Fold!Seen(f)
    <3>1. Placeholders = {}
      BY <2>1 DEF FoldInv, Fold!Seen, Fold!PlaceholderSeen
    <3>. QED  BY <2>1, <3>1, FS_EmptySet
  <2>2. CASE ~Fold!Seen(f)
    <3>1. PICK g \in Enclosing[f] : Fold!PlaceholderSeen(g)
      BY <2>2, OutermostClosed
    <3>2. ASSUME NEW h \in Enclosing[f], Fold!PlaceholderSeen(h) PROVE h = g
      <4>1. g \in Enclosing[h] \/ h \in Enclosing[g]
        BY NestingAssumption
      <4>2. g \notin fold.foldopen /\ h \notin fold.foldopen
        BY <3>1, <3>2 DEF FoldInv, Fold!PlaceholderSeen
      <4>. QED  BY <3>1, <3>2, <4>1, <4>2 DEF Fold!PlaceholderSeen, Fold!Outer
    <3>3. Placeholders = {g}
      BY <3>1, <3>2
    <3>. QED  BY <2>2, <3>3, FS_Singleton
  <2>. QED  BY <2>1, <2>2
<1>. QED  BY <1>1, <1>2, FoldStep, PTL DEF Fold!Spec

-----------------------------------------------------------------------------
(* The images.                                                             *)

ImageInv == /\ section.content \in BOOLEAN /\ inherit.rows \in BOOLEAN
            /\ ImageTells

LEMMA ReplacedSwitches ==
  /\ Fold!Replaced(Fold!OpenPng, TRUE) = Fold!ClosedPng
  /\ Fold!Replaced(Fold!ClosedPng, FALSE) = Fold!OpenPng
<1>1. Len(Fold!OpenPng) = 8 /\ Len(Fold!ClosedPng) = 10
  BY DEF Fold!OpenPng, Fold!ClosedPng
<1>2. SubSeq(Fold!OpenPng, 1, 0) = <<>> /\ <<>> \o Fold!OpenPng = Fold!OpenPng
  BY DEF Fold!OpenPng
<1>3. SubSeq(Fold!ClosedPng, 1, 0) = <<>> /\ <<>> \o Fold!ClosedPng = Fold!ClosedPng
  BY DEF Fold!ClosedPng
<1>4. Fold!Cut(Fold!OpenPng, Len(Fold!OpenPng)) = <<>>
  BY <1>1, <1>2 DEF Fold!Cut
<1>5. Fold!Cut(Fold!ClosedPng, Len(Fold!ClosedPng)) = <<>>
  BY <1>1, <1>3 DEF Fold!Cut
<1>. QED  BY <1>2, <1>3, <1>4, <1>5 DEF Fold!Replaced

(***************************************************************************)
(* The images tell what is shown, after any number of replacements at the  *)
(* end of their names (toggleVisibility, toggleInherit).                   *)
(***************************************************************************)
THEOREM ImagesTell == Fold!Spec => []ImageTells
<1>1. Fold!Init => ImageInv
  BY DEF Fold!Init, ImageInv, ImageTells, Fold!ImageTells
<1>2. ImageInv => ImageTells
  BY DEF ImageInv
<1>3. ImageInv /\ [Fold!Next]_(Fold!vars) => ImageInv'
  <2>. SUFFICES ASSUME ImageInv, [Fold!Next]_(Fold!vars) PROVE ImageInv'
    OBVIOUS
  <2>1. CASE Fold!toggleVisibility
    BY <2>1, ReplacedSwitches DEF ImageInv, ImageTells, Fold!ImageTells, Fold!toggleVisibility
  <2>2. CASE Fold!toggleInherit
    BY <2>2, ReplacedSwitches DEF ImageInv, ImageTells, Fold!ImageTells, Fold!toggleInherit
  <2>3. CASE UNCHANGED <<section, inherit>>
    BY <2>3 DEF ImageInv, ImageTells, Fold!ImageTells
  <2>. QED  BY <2>1, <2>2, <2>3 DEF Fold!Next, Fold!vars, Fold!init_codefold, Fold!codefold_toggle,
                                   Fold!codefold_toggle_all
<1>. QED  BY <1>1, <1>2, <1>3, PTL DEF Fold!Spec

-----------------------------------------------------------------------------
(***************************************************************************)
(* The menu.  Whatever is before it in the queue, the last animation ends  *)
(* as the last toggle wanted it; a reset that comes while there is none    *)
(* does what it wants at once.                                             *)
(***************************************************************************)

Animation(down) == IF down THEN "slideDown" ELSE "slideUp"

MenuInv == /\ queue \in Seq({"slideDown", "slideUp"})
           /\ menu \in BOOLEAN /\ asked \in BOOLEAN /\ checked \in BOOLEAN
           /\ ~overtaken => IF queue = <<>> THEN menu = asked
                            ELSE queue[Len(queue)] = Animation(asked)

LEMMA MenuStep == MenuInv /\ [Menu!Next]_(Menu!vars) => MenuInv'
<1>. SUFFICES ASSUME MenuInv, [Menu!Next]_(Menu!vars) PROVE MenuInv'
  OBVIOUS
<1>. USE DEF MenuInv
<1>1. CASE Menu!Resize \/ UNCHANGED Menu!vars
  BY <1>1 DEF Menu!Resize, Menu!vars
<1>2. CASE Menu!Toggle
  <2>1. /\ checked' \in BOOLEAN /\ asked' = checked' /\ menu' \in BOOLEAN
        /\ queue' = Append(queue, Animation(asked'))
    BY <1>2 DEF Menu!Toggle, Menu!Change, Menu!Begins, Animation
  <2>2. Animation(asked') \in {"slideDown", "slideUp"}
    BY DEF Animation
  <2>3. /\ queue' \in Seq({"slideDown", "slideUp"}) /\ queue' # <<>>
        /\ queue'[Len(queue')] = Animation(asked')
    BY <2>1, <2>2
  <2>. QED  BY <2>1, <2>3
<1>3. CASE Menu!AnimationEnds
  <2>1. /\ queue # <<>> /\ queue' = Tail(queue)
        /\ menu' = ((Head(queue) = "slideDown") \/ (queue' # <<>> /\ Head(queue') = "slideDown"))
        /\ UNCHANGED <<checked, asked, overtaken>>
    BY <1>3 DEF Menu!AnimationEnds, Menu!Begins
  <2>2. menu' \in BOOLEAN /\ queue' \in Seq({"slideDown", "slideUp"})
    BY <2>1
  <2>3. CASE queue' = <<>>
    <3>1. Len(queue) = 1
      <4>1. Len(Tail(queue)) = Len(queue) - 1 /\ Len(queue) \in Nat
        BY <2>1
      <4>2. Tail(queue) = <<>> /\ Len(<<>>) = 0
        BY <2>1, <2>3
      <4>3. Len(queue) - 1 = 0
        BY <4>1, <4>2, Zenon
      <4>. QED  BY ONLY <4>1, <4>3
    <3>2. ~overtaken => Head(queue) = Animation(asked)
      BY <2>1, <3>1
    <3>. QED  BY <2>1, <2>2, <2>3, <3>2 DEF Animation
  <2>4. CASE queue' # <<>>
    <3>1. queue'[Len(queue')] = queue[Len(queue)]
      BY <2>1, <2>4
    <3>. QED  BY <2>1, <2>2, <2>4, <3>1
  <2>. QED  BY <2>3, <2>4
<1>4. CASE Menu!resetState
  BY <1>4 DEF Menu!resetState, Menu!Wide, Menu!Narrow
<1>. QED  BY <1>1, <1>2, <1>3, <1>4 DEF Menu!Next

(***************************************************************************)
(* The menu ends as the last toggle or reset wanted it, however long the   *)
(* queue of animations has been (initMenu's change handler).               *)
(***************************************************************************)
THEOREM MenuEndsAsAsked == Menu!Spec => []MenuAsAsked
<1>1. Menu!Init => MenuInv
  <2>1. ASSUME Menu!Init PROVE menu \in BOOLEAN
    BY <2>1, Zenon DEF Menu!Init
  <2>2. <<>> \in Seq({"slideDown", "slideUp"})
    OBVIOUS
  <2>. QED  BY <2>1, <2>2 DEF Menu!Init, MenuInv
<1>2. MenuInv => MenuAsAsked
  BY DEF MenuInv, MenuAsAsked, Menu!MenuAsAsked
<1>. QED  BY <1>1, <1>2, MenuStep, PTL DEF Menu!Spec

-----------------------------------------------------------------------------
(***************************************************************************)
(* The keyboard in the results.  As the rows that match follow each other, *)
(* the row above or below one in the window is the one of the next number; *)
(* from this the targets of the arrow keys are the neighbours in reading   *)
(* order, and the focus that moves to them stays on what one sees.         *)
(***************************************************************************)

KeyInv == /\ Len(rows) \in Nat /\ DOMAIN rows = 1..Len(rows)
          /\ \A i \in DOMAIN rows : rows[i].children \in Nat /\ rows[i].children <= MaxChildren
          /\ visible \subseteq DOMAIN rows
          /\ \A i, k \in visible : \A j \in DOMAIN rows : i <= j /\ j <= k => j \in visible

SeenAt(i, c) == /\ window /\ i \in visible /\ c \in Nat /\ c <= rows[i].children
                /\ c > 0 => i \in expanded

LEMMA SeenByPlace ==
  ASSUME KeyInv
  PROVE  /\ \A i, c : SeenAt(i, c) => Keys!Child(i, c) \in Keys!SeenLinks
         /\ \A link \in Keys!SeenLinks : /\ link = Keys!Child(link.item, link.child)
                                         /\ SeenAt(link.item, link.child)
         /\ \A i, c : SeenAt(i, c) => i \in Nat \ {0} /\ c \in Nat /\ rows[i].children \in Nat
<1>1. ASSUME NEW i, NEW c, SeenAt(i, c)
      PROVE  /\ Keys!Child(i, c) \in Keys!SeenLinks
             /\ i \in Nat \ {0} /\ c \in Nat /\ rows[i].children \in Nat
  <2>1. i \in DOMAIN rows /\ i \in Nat \ {0} /\ rows[i].children \in Nat
    BY <1>1 DEF KeyInv, SeenAt
  <2>2. c \in Nat /\ c <= rows[i].children /\ rows[i].children <= MaxChildren
    BY <1>1, <2>1 DEF KeyInv, SeenAt
  <2>3. c \in 0..MaxChildren
    BY <2>1, <2>2, ChildrenAssumption
  <2>. QED  BY <1>1, <2>1, <2>2, <2>3 DEF SeenAt, Keys!SeenLinks, Keys!Links, Keys!Child, Keys!Exists,
                                         Keys!Rendered
<1>2. ASSUME NEW link \in Keys!SeenLinks
      PROVE  link = Keys!Child(link.item, link.child) /\ SeenAt(link.item, link.child)
  BY <1>2 DEF Keys!SeenLinks, Keys!Links, Keys!Child, Keys!Exists, Keys!Rendered, SeenAt
<1>. QED  BY <1>1, <1>2

LEMMA NextRow ==
  ASSUME KeyInv, NEW i \in visible
  PROVE  /\ Keys!NavNext(i + 1) = IF i + 1 \in visible THEN {Keys!Item(i + 1)} ELSE {}
         /\ Keys!NavPrev(i - 1) = IF i - 1 \in visible THEN {Keys!Item(i - 1)} ELSE {}
<1>1. visible \subseteq Nat /\ \A j \in visible : j \in 1..Len(rows)
  BY DEF KeyInv
<1>2. ASSUME NEW j \in visible, j >= i + 1 PROVE i + 1 \in visible
  <2>1. i + 1 \in DOMAIN rows /\ i <= i + 1 /\ i + 1 <= j
    BY <1>1, <1>2 DEF KeyInv
  <2>. QED  BY <1>2, <2>1 DEF KeyInv
<1>3. ASSUME NEW j \in visible, j <= i - 1 PROVE i - 1 \in visible
  <2>1. i - 1 \in DOMAIN rows /\ j <= i - 1 /\ i - 1 <= i
    BY <1>1, <1>3 DEF KeyInv
  <2>. QED  BY <1>3, <2>1 DEF KeyInv
<1>4. ASSUME NEW j \in visible
      PROVE  (j >= i + 1 /\ \A k \in visible : k >= i + 1 => j <= k) <=> j = i + 1
  <2>1. j \in Nat /\ i \in Nat
    BY <1>1
  <2>2. j = i + 1 => j >= i + 1
    BY <2>1
  <2>3. CASE j >= i + 1 /\ \A k \in visible : k >= i + 1 => j <= k
    <3>1. i + 1 \in visible /\ i + 1 >= i + 1
      BY <1>2, <2>1, <2>3
    <3>2. j <= i + 1
      BY <2>3, <3>1
    <3>. QED  BY <2>1, <2>3, <3>2
  <2>4. ASSUME NEW k \in visible, k >= i + 1, j = i + 1 PROVE j <= k
    BY <2>1, <2>4, <1>1
  <2>. QED  BY <2>2, <2>3, <2>4
<1>5. ASSUME NEW j \in visible
      PROVE  (j <= i - 1 /\ \A k \in visible : k <= i - 1 => k <= j) <=> j = i - 1
  <2>1. j \in Nat /\ i \in Nat /\ i >= 1
    BY <1>1
  <2>2. j = i - 1 => j <= i - 1
    BY <2>1
  <2>3. CASE j <= i - 1 /\ \A k \in visible : k <= i - 1 => k <= j
    <3>1. i - 1 \in visible /\ i - 1 <= i - 1
      BY <1>3, <2>1, <2>3
    <3>2. i - 1 <= j
      BY <2>3, <3>1
    <3>. QED  BY <2>1, <2>3, <3>2
  <2>4. ASSUME NEW k \in visible, k <= i - 1, j = i - 1 PROVE k <= j
    BY <2>1, <2>4, <1>1
  <2>. QED  BY <2>2, <2>3, <2>4
<1>6. {j \in visible : j >= i + 1 /\ \A k \in visible : k >= i + 1 => j <= k}
        = IF i + 1 \in visible THEN {i + 1} ELSE {}
  BY <1>4, Zenon
<1>7. {j \in visible : j <= i - 1 /\ \A k \in visible : k <= i - 1 => k <= j}
        = IF i - 1 \in visible THEN {i - 1} ELSE {}
  BY <1>5, Zenon
<1>. QED  BY <1>6, <1>7 DEF Keys!NavNext, Keys!NavPrev

(* Where Down and Up go from what one sees.                                *)
LEMMA DownGoes ==
  ASSUME KeyInv, NEW i, NEW c, SeenAt(i, c)
  PROVE  Keys!DownFrom(Keys!Child(i, c))
           = IF c < rows[i].children /\ i \in expanded THEN {Keys!Child(i, c + 1)}
             ELSE IF i + 1 \in visible THEN {Keys!Child(i + 1, 0)} ELSE {}
<1>1. /\ i \in visible /\ i \in DOMAIN rows /\ i \in Nat /\ c \in Nat /\ rows[i].children \in Nat
      /\ c > 0 => i \in expanded
  BY SeenByPlace DEF SeenAt, KeyInv
<1>2. Keys!NavNext(i + 1) = IF i + 1 \in visible THEN {Keys!Child(i + 1, 0)} ELSE {}
  BY <1>1, NextRow DEF Keys!Item, Keys!Child
<1>3. CASE c = 0
  BY <1>1, <1>2, <1>3 DEF Keys!DownFrom, Keys!DownTargets, Keys!ChildrenShown,
                          Keys!FindChildElement, Keys!Child
<1>4. CASE c # 0
  <2>1. Keys!Exists(Keys!Child(i, c + 1)) <=> c < rows[i].children
    BY <1>1 DEF Keys!Exists, Keys!Child
  <2>2. Keys!DownFrom(Keys!Child(i, c)) = Keys!ChildDownTargets(i, c)
    BY <1>4 DEF Keys!DownFrom, Keys!Child
  <2>. QED  BY <1>1, <1>2, <1>4, <2>1, <2>2 DEF Keys!ChildDownTargets
<1>. QED  BY <1>3, <1>4

LEMMA UpGoes ==
  ASSUME KeyInv, NEW i, NEW c, SeenAt(i, c)
  PROVE  Keys!UpFrom(Keys!Child(i, c))
           = IF c > 0 THEN Keys!Child(i, c - 1)
             ELSE IF i - 1 \notin visible THEN Keys!Field
             ELSE IF i - 1 \in expanded THEN Keys!Child(i - 1, rows[i - 1].children)
             ELSE Keys!Child(i - 1, 0)
<1>1. i \in visible /\ i \in Nat /\ c \in Nat
  BY SeenByPlace DEF SeenAt
<1>2. Keys!NavPrev(i - 1) = IF i - 1 \in visible THEN {Keys!Child(i - 1, 0)} ELSE {}
  BY <1>1, NextRow DEF Keys!Item, Keys!Child
<1>3. CASE c > 0
  BY <1>1, <1>3 DEF Keys!UpFrom, Keys!ChildUpTarget, Keys!Child, Keys!Item
<1>4. CASE c = 0
  <2>1. Keys!UpFrom(Keys!Child(i, c)) = Keys!UpTarget(i)
    BY <1>4 DEF Keys!UpFrom, Keys!Child
  <2>2. CASE i - 1 \notin visible
    BY <1>2, <1>4, <2>1, <2>2 DEF Keys!UpTarget
  <2>3. CASE i - 1 \in visible
    <3>1. Keys!NavPrev(i - 1) # {} /\ (CHOOSE link \in Keys!NavPrev(i - 1) : TRUE) = Keys!Child(i - 1, 0)
      BY <1>2, <2>3
    <3>2. Keys!Child(i - 1, 0).item = i - 1 /\ rows[i - 1].children \in Nat
      BY <2>3 DEF Keys!Child, KeyInv
    <3>3. Keys!UpTarget(i) = IF i - 1 \in expanded /\ rows[i - 1].children > 0
                             THEN Keys!Child(i - 1, rows[i - 1].children) ELSE Keys!Child(i - 1, 0)
      BY <3>1, <3>2 DEF Keys!UpTarget, Keys!ChildrenShown, Keys!FindChildElement
    <3>. QED  BY <1>4, <2>1, <2>3, <3>2, <3>3
  <2>. QED  BY <2>2, <2>3
<1>. QED  BY <1>1, <1>3, <1>4
(* Down goes to the next of what one sees, Up to the one before.           *)
Follows(next, link) ==
  /\ next \in Keys!SeenLinks /\ Keys!Before(link, next)
  /\ \A seen \in Keys!SeenLinks : Keys!Before(link, seen) => seen = next \/ Keys!Before(next, seen)
Precedes(last, link) ==
  /\ last \in Keys!SeenLinks /\ Keys!Before(last, link)
  /\ \A seen \in Keys!SeenLinks : Keys!Before(seen, link) => seen = last \/ Keys!Before(seen, last)

LEMMA DownFollows ==
  ASSUME KeyInv, NEW link \in Keys!SeenLinks
  PROVE  /\ \A next \in Keys!DownFrom(link) : Follows(next, link)
         /\ Keys!DownFrom(link) = {} => \A seen \in Keys!SeenLinks : ~Keys!Before(link, seen)
<1>. DEFINE i == link.item
            c == link.child
            Place(next) == \A j, d : SeenAt(j, d) /\ (i < j \/ (i = j /\ c < d))
                                       => \/ j = next.item /\ d = next.child
                                          \/ next.item < j \/ (next.item = j /\ next.child < d)
<1>1. /\ link = Keys!Child(i, c) /\ SeenAt(i, c)
      /\ i \in visible /\ i \in Nat /\ c \in Nat /\ rows[i].children \in Nat
      /\ c > 0 => i \in expanded
  BY SeenByPlace DEF SeenAt
<1>2. \A j, d : SeenAt(j, d) => /\ j \in Nat /\ d \in Nat /\ d <= rows[j].children
                                /\ j \in visible /\ (d > 0 => j \in expanded)
  BY SeenByPlace DEF SeenAt
<1>3. \A j, d : SeenAt(j, d) /\ i < j => i + 1 \in visible
  <2>. SUFFICES ASSUME NEW j, NEW d, SeenAt(j, d), i < j PROVE i + 1 \in visible
    OBVIOUS
  <2>1. j \in visible /\ j \in Nat /\ i \in DOMAIN rows /\ j \in DOMAIN rows
    BY <1>1, <1>2 DEF KeyInv
  <2>2. i + 1 \in DOMAIN rows /\ i <= i + 1 /\ i + 1 <= j
    BY <1>1, <2>1 DEF KeyInv
  <2>. QED  BY <1>1, <2>1, <2>2 DEF KeyInv
<1>4. ASSUME NEW next, SeenAt(next.item, next.child), next = Keys!Child(next.item, next.child),
             i < next.item \/ (i = next.item /\ c < next.child), Place(next)
      PROVE  Follows(next, link)
  BY <1>4, SeenByPlace DEF Follows, Keys!Before
<1>5. CASE c < rows[i].children /\ i \in expanded
  <2>. DEFINE next == Keys!Child(i, c + 1)
  <2>1. Keys!DownFrom(link) = {next} /\ next.item = i /\ next.child = c + 1
    BY <1>1, <1>5, DownGoes DEF Keys!Child
  <2>2. SeenAt(i, c + 1)
    BY <1>1, <1>5 DEF SeenAt
  <2>3. Place(next)
    BY <1>1, <1>2, <2>1
  <2>. QED  BY <1>1, <1>4, <2>1, <2>2, <2>3
<1>6. CASE ~(c < rows[i].children /\ i \in expanded) /\ i + 1 \in visible
  <2>. DEFINE next == Keys!Child(i + 1, 0)
  <2>1. Keys!DownFrom(link) = {next} /\ next.item = i + 1 /\ next.child = 0
    BY <1>1, <1>6, DownGoes DEF Keys!Child
  <2>2. SeenAt(i + 1, 0)
    BY <1>1, <1>6 DEF SeenAt, KeyInv
  <2>3. Place(next)
    BY <1>1, <1>2, <1>6, <2>1
  <2>. QED  BY <1>1, <1>4, <2>1, <2>2, <2>3
<1>7. CASE ~(c < rows[i].children /\ i \in expanded) /\ i + 1 \notin visible
  <2>1. Keys!DownFrom(link) = {}
    BY <1>1, <1>7, DownGoes
  <2>2. ASSUME NEW seen \in Keys!SeenLinks, Keys!Before(link, seen) PROVE FALSE
    <3>1. SeenAt(seen.item, seen.child) /\ (i < seen.item \/ (i = seen.item /\ c < seen.child))
      BY <2>2, SeenByPlace DEF Keys!Before
    <3>. QED  BY <1>1, <1>2, <1>3, <1>7, <3>1
  <2>. QED  BY <2>1, <2>2
<1>. QED  BY <1>5, <1>6, <1>7

LEMMA UpPrecedes ==
  ASSUME KeyInv, NEW link \in Keys!SeenLinks
  PROVE  IF Keys!UpFrom(link) = Keys!Field
         THEN \A seen \in Keys!SeenLinks : ~Keys!Before(seen, link)
         ELSE Precedes(Keys!UpFrom(link), link)
<1>. DEFINE i == link.item
            c == link.child
            Place(last) == \A j, d : SeenAt(j, d) /\ (j < i \/ (j = i /\ d < c))
                                       => \/ j = last.item /\ d = last.child
                                          \/ j < last.item \/ (j = last.item /\ d < last.child)
<1>1. /\ link = Keys!Child(i, c) /\ SeenAt(i, c)
      /\ i \in visible /\ i \in Nat \ {0} /\ c \in Nat /\ rows[i].children \in Nat
      /\ c <= rows[i].children /\ (c > 0 => i \in expanded)
  BY SeenByPlace DEF SeenAt
<1>2. \A j, d : SeenAt(j, d) => /\ j \in Nat /\ d \in Nat /\ d <= rows[j].children
                                /\ rows[j].children \in Nat
                                /\ j \in visible /\ (d > 0 => j \in expanded)
  BY SeenByPlace DEF SeenAt
<1>3. \A j, d : SeenAt(j, d) /\ j < i => i - 1 \in visible
  <2>. SUFFICES ASSUME NEW j, NEW d, SeenAt(j, d), j < i PROVE i - 1 \in visible
    OBVIOUS
  <2>1. j \in visible /\ j \in Nat /\ i \in DOMAIN rows /\ j \in DOMAIN rows
    BY <1>1, <1>2 DEF KeyInv
  <2>2. i - 1 \in DOMAIN rows /\ j <= i - 1 /\ i - 1 <= i
    BY <1>1, <2>1 DEF KeyInv
  <2>. QED  BY <1>1, <2>1, <2>2 DEF KeyInv
<1>4. ASSUME NEW last, SeenAt(last.item, last.child), last = Keys!Child(last.item, last.child),
             last.item < i \/ (last.item = i /\ last.child < c), Place(last),
             Keys!UpFrom(link) = last
      PROVE  IF Keys!UpFrom(link) = Keys!Field
             THEN \A seen \in Keys!SeenLinks : ~Keys!Before(seen, link)
             ELSE Precedes(Keys!UpFrom(link), link)
  <2>1. last.item # 0 /\ last # Keys!Field
    BY <1>4, SeenByPlace DEF Keys!Field
  <2>2. Precedes(last, link)
    BY <1>4, SeenByPlace DEF Precedes, Keys!Before
  <2>. QED  BY <1>4, <2>1, <2>2
<1>5. CASE c > 0
  <2>. DEFINE last == Keys!Child(i, c - 1)
  <2>1. Keys!UpFrom(link) = last /\ last.item = i /\ last.child = c - 1
    BY <1>1, <1>5, UpGoes DEF Keys!Child
  <2>2. SeenAt(i, c - 1)
    BY <1>1, <1>5 DEF SeenAt
  <2>3. Place(last)
    BY <1>1, <1>2, <1>5, <2>1
  <2>. QED  BY <1>1, <1>4, <1>5, <2>1, <2>2, <2>3
<1>6. CASE c = 0 /\ i - 1 \in visible
  <2>. DEFINE d == IF i - 1 \in expanded THEN rows[i - 1].children ELSE 0
              last == Keys!Child(i - 1, d)
  <2>1. Keys!UpFrom(link) = last /\ last.item = i - 1 /\ last.child = d
    <3>1. Keys!UpFrom(Keys!Child(i, c)) = last
      <4>. HIDE DEF i, c
      <4>1. Keys!UpFrom(Keys!Child(i, c))
              = IF i - 1 \in expanded THEN Keys!Child(i - 1, rows[i - 1].children)
                ELSE Keys!Child(i - 1, 0)
        BY <1>1, <1>6, UpGoes
      <4>. QED  BY <4>1
    <3>. QED  BY <1>1, <3>1 DEF Keys!Child
  <2>2. SeenAt(i - 1, d) /\ d \in Nat
    <3>1. rows[i - 1].children \in Nat /\ window
      BY <1>1, <1>6 DEF KeyInv, SeenAt
    <3>. QED  BY <1>6, <3>1 DEF SeenAt
  <2>3. \A e : SeenAt(i - 1, e) => e \in Nat /\ e <= d
    BY <1>2, <2>2
  <2>4. Place(last)
    <3>. HIDE DEF d
    <3>. QED  BY <1>1, <1>2, <1>6, <2>1, <2>2, <2>3
  <2>. QED  BY <1>1, <1>4, <1>6, <2>1, <2>2, <2>4
<1>7. CASE c = 0 /\ i - 1 \notin visible
  <2>1. Keys!UpFrom(link) = Keys!Field
    BY <1>1, <1>7, UpGoes
  <2>2. ASSUME NEW seen \in Keys!SeenLinks, Keys!Before(seen, link) PROVE FALSE
    <3>1. SeenAt(seen.item, seen.child) /\ (seen.item < i \/ (seen.item = i /\ seen.child < c))
      BY <2>2, SeenByPlace DEF Keys!Before
    <3>. QED  BY <1>1, <1>2, <1>3, <1>7, <3>1
  <2>. QED  BY <2>1, <2>2
<1>. QED  BY <1>1, <1>5, <1>6, <1>7

-----------------------------------------------------------------------------
(* The handlers of the keyboard.                                           *)

ResultsInv == KeyInv /\ FocusSeen

(* What one sees is seen while the window, the rows and the children are   *)
(* left alone; more children do not hide what has the focus.               *)
LEMMA SeenNext ==
  ASSUME KeyInv, UNCHANGED <<rows, visible, window>>, NEW link \in Keys!SeenLinks,
         link.child = 0 \/ expanded \subseteq expanded', focus' = link
  PROVE  ResultsInv'
<1>1. KeyInv'
  BY DEF KeyInv
<1>2. link \in Keys!SeenLinks'
  BY DEF Keys!SeenLinks, Keys!Links, Keys!Exists, Keys!Rendered
<1>. QED  BY <1>1, <1>2 DEF ResultsInv, FocusSeen, Keys!FocusSeen

LEMMA FocusAway ==
  ASSUME KeyInv, UNCHANGED <<rows, visible>>, focus'.item = 0
  PROVE  ResultsInv'
BY DEF KeyInv, ResultsInv, FocusSeen, Keys!FocusSeen, Keys!OnLink

LEMMA ObeyStep ==
  ASSUME ResultsInv, Keys!OnLink, NEW key, Keys!Obey(key), UNCHANGED <<rows, visible>>
  PROVE  ResultsInv'
<1>1. KeyInv /\ focus \in Keys!SeenLinks
  BY DEF ResultsInv, FocusSeen, Keys!FocusSeen
<1>2. CASE key = "Up"
  <2>1. UNCHANGED <<window, expanded>>
    BY <1>2 DEF Keys!Obey, Keys!Shows, Keys!Hides
  <2>2. CASE Keys!UpFrom(focus) = Keys!Field
    <3>1. focus'.item = 0
      BY <1>2, <2>2 DEF Keys!Obey, Keys!Field, Keys!Shows, Keys!Hides
    <3>. QED  BY <1>1, <3>1, FocusAway
  <2>3. CASE Keys!UpFrom(focus) # Keys!Field
    <3>1. Keys!UpFrom(focus) \in Keys!SeenLinks
      BY <1>1, <2>3, UpPrecedes DEF Precedes
    <3>2. focus' \in {focus, Keys!UpFrom(focus)}
      BY <1>2, <2>3 DEF Keys!Obey, Keys!FocusOn, Keys!Shows, Keys!Hides
    <3>3. focus' \in Keys!SeenLinks
      BY <1>1, <3>1, <3>2
    <3>. QED  BY <1>1, <2>1, <3>3, SeenNext
  <2>. QED  BY <2>2, <2>3
<1>3. CASE key = "Down"
  <2>1. UNCHANGED <<window, expanded>>
    BY <1>3 DEF Keys!Obey, Keys!Shows, Keys!Hides
  <2>2. focus' \in {focus} \cup Keys!DownFrom(focus)
    BY <1>3 DEF Keys!Obey, Keys!FocusOn, Keys!Shows, Keys!Hides
  <2>3. focus' \in Keys!SeenLinks
    BY <1>1, <2>2, DownFollows DEF Follows
  <2>. QED  BY <1>1, <2>1, <2>3, SeenNext
<1>4. CASE key = "Escape"
  <2>1. focus'.item = 0
    BY <1>4 DEF Keys!Obey, Keys!Field, Keys!Shows, Keys!Hides
  <2>. QED  BY <1>1, <2>1, FocusAway
<1>5. CASE key \notin {"Up", "Down", "Escape"}
  <2>1. /\ UNCHANGED <<window, focus>>
        /\ expanded \subseteq expanded' \/ focus.child = 0
    BY <1>5 DEF Keys!Obey, Keys!Shows, Keys!Hides
  <2>. QED  BY <1>1, <2>1, SeenNext
<1>. QED  BY <1>2, <1>3, <1>4, <1>5

LEMMA ResultsNext == ResultsInv /\ [Keys!Next]_(Keys!vars) => ResultsInv'
<1>. SUFFICES ASSUME ResultsInv, [Keys!Next]_(Keys!vars) PROVE ResultsInv'
  OBVIOUS
<1>0. KeyInv /\ (focus.item # 0 => focus \in Keys!SeenLinks)
  BY DEF ResultsInv, FocusSeen, Keys!FocusSeen, Keys!OnLink
<1>1. CASE Keys!createResults
  <2>1. KeyInv'
    <3>0. PICK file \in DataFiles, text \in Queries : rows' = file /\ visible' = Keys!Matches(file, text)
      BY <1>1 DEF Keys!createResults
    <3>1. file \in Seq(Entry)
      BY ChildrenAssumption
    <3>2. /\ Len(file) \in Nat /\ DOMAIN file = 1..Len(file)
          /\ \A i \in DOMAIN file : file[i].children \in Nat
      <4>1. Len(file) \in Nat /\ DOMAIN file = 1..Len(file)
        BY <3>1
      <4>2. \A i \in DOMAIN file : file[i] \in Entry
        BY <3>1, <4>1, ElementOfSeq
      <4>3. \A e \in Entry : e.children \in Nat
        BY DEF Entry
      <4>. QED  BY <4>1, <4>2, <4>3
    <3>3. \A i \in DOMAIN file : file[i].children <= MaxChildren
      BY ChildrenAssumption
    <3>4. /\ Keys!Matches(file, text) \subseteq DOMAIN file
          /\ \A i, k \in Keys!Matches(file, text) : \A j \in DOMAIN file :
               i <= j /\ j <= k => j \in Keys!Matches(file, text)
      BY SortedAssumption DEF Keys!Matches
    <3>. QED  BY <3>0, <3>2, <3>3, <3>4 DEF KeyInv
  <2>2. focus'.item = 0
    BY <1>1 DEF Keys!createResults, Keys!OnLink, Keys!Elsewhere
  <2>. QED  BY <2>1, <2>2 DEF ResultsInv, FocusSeen, Keys!FocusSeen, Keys!OnLink
<1>2. ASSUME NEW i \in DOMAIN rows, Keys!Toggle(i) PROVE ResultsInv'
  <2>1. /\ UNCHANGED <<rows, visible, window>> /\ focus' = Keys!Child(i, 0)
        /\ window /\ i \in visible
    BY <1>2 DEF Keys!Toggle, Keys!Rendered, Keys!Item, Keys!Child
  <2>2. SeenAt(i, 0)
    BY <1>0, <2>1 DEF SeenAt, KeyInv
  <2>3. Keys!Child(i, 0) \in Keys!SeenLinks /\ Keys!Child(i, 0).child = 0
    BY <1>0, <2>2, SeenByPlace DEF Keys!Child
  <2>. QED  BY <1>0, <2>1, <2>3, SeenNext
<1>3. CASE Keys!Close
  <2>1. focus'.item = 0 /\ UNCHANGED <<rows, visible>>
    BY <1>3 DEF Keys!Close, Keys!OnLink, Keys!Elsewhere
  <2>. QED  BY <1>0, <2>1, FocusAway
<1>4. CASE Keys!Click
  <2>1. UNCHANGED <<window, rows, visible, expanded>> /\ focus' \in {Keys!Field} \cup Keys!SeenLinks
    BY <1>4 DEF Keys!Click
  <2>2. CASE focus' = Keys!Field
    BY <1>0, <2>1, <2>2, FocusAway DEF Keys!Field
  <2>3. CASE focus' \in Keys!SeenLinks
    BY <1>0, <2>1, <2>3, SeenNext
  <2>. QED  BY <2>1, <2>2, <2>3
<1>5. CASE UNCHANGED <<window, rows, visible, expanded, focus>>
  <2>1. CASE focus.item = 0
    BY <1>0, <1>5, <2>1, FocusAway
  <2>2. CASE focus.item # 0
    BY <1>0, <1>5, <2>2, SeenNext
  <2>. QED  BY <2>1, <2>2
<1>6. ASSUME NEW key \in Keys!Key, Keys!KeyDown(key) PROVE ResultsInv'
  BY <1>6, ObeyStep DEF Keys!KeyDown
<1>7. CASE Keys!KeyPress
  <2>1. CASE repeatOn
    BY <1>7, <2>1, ObeyStep DEF Keys!KeyPress
  <2>2. CASE ~repeatOn
    BY <1>5, <1>7, <2>2 DEF Keys!KeyPress
  <2>. QED  BY <2>1, <2>2
<1>8. CASE Keys!KeyUp
  BY <1>5, <1>8 DEF Keys!KeyUp
<1>9. CASE UNCHANGED Keys!vars
  BY <1>5, <1>9 DEF Keys!vars
<1>. QED  BY <1>1, <1>2, <1>3, <1>4, <1>6, <1>7, <1>8, <1>9 DEF Keys!Next

LEMMA ResultsInit == Keys!Init => ResultsInv
<1>. SUFFICES ASSUME Keys!Init PROVE ResultsInv
  OBVIOUS
<1>1. rows = <<>> /\ visible = {} /\ focus.item = 0
  BY DEF Keys!Init, Keys!Field
<1>2. KeyInv
  BY <1>1 DEF KeyInv
<1>. QED  BY <1>1, <1>2 DEF ResultsInv, FocusSeen, Keys!FocusSeen, Keys!OnLink

(***************************************************************************)
(* The focus is never on a link one cannot see, whatever was searched,     *)
(* shown and hidden by keys and clicks in any order (Nav, NavChild,        *)
(* Toggle, createResults).                                                 *)
(***************************************************************************)
THEOREM FocusIsSeen == Keys!Spec => []FocusSeen
<1>1. ResultsInv => FocusSeen
  BY DEF ResultsInv
<1>. QED  BY <1>1, ResultsInit, ResultsNext, PTL DEF Keys!Spec

(***************************************************************************)
(* From wherever the focus may be, Down goes to the next link one sees and *)
(* Up to the one before (NavNext, NavPrev, NavChild), for every data file  *)
(* whose rows are sorted.                                                  *)
(***************************************************************************)
THEOREM ArrowsDoFollowReading == Keys!Spec => []ArrowsFollowReading
<1>1. ResultsInv => ArrowsFollowReading
  <2>. SUFFICES ASSUME KeyInv, NEW link \in Keys!SeenLinks
                PROVE  LET after  == {other \in Keys!SeenLinks : Keys!Before(link, other)}
                           before == {other \in Keys!SeenLinks : Keys!Before(other, link)}
                       IN  /\ Keys!DownFrom(link)
                                = {next \in after : \A other \in after : ~Keys!Before(other, next)}
                           /\ IF before = {} THEN Keys!UpFrom(link) = Keys!Field
                              ELSE Keys!UpFrom(link)
                                     = CHOOSE last \in before : \A other \in before : ~Keys!Before(last, other)
    BY Zenon DEF ResultsInv, ArrowsFollowReading, Keys!ArrowsFollowReading
  <2>. DEFINE after  == {other \in Keys!SeenLinks : Keys!Before(link, other)}
              before == {other \in Keys!SeenLinks : Keys!Before(other, link)}
  <2>1. \A a, b \in Keys!SeenLinks : ~(Keys!Before(a, b) /\ (a = b \/ Keys!Before(b, a)))
    BY SeenByPlace DEF Keys!Before
  <2>2. \A next \in Keys!DownFrom(link) : Follows(next, link)
    BY DownFollows
  <2>3. Keys!DownFrom(link) = {next \in after : \A other \in after : ~Keys!Before(other, next)}
    <3>1. \A next \in Keys!DownFrom(link) : next \in after /\ \A other \in after : ~Keys!Before(other, next)
      BY <2>1, <2>2 DEF Follows
    <3>2. ASSUME NEW next \in after, \A other \in after : ~Keys!Before(other, next)
          PROVE  next \in Keys!DownFrom(link)
      <4>1. PICK n \in Keys!DownFrom(link) : TRUE
        BY DownFollows
      <4>2. Follows(n, link)
        BY <2>2, <4>1
      <4>. QED  BY <3>2, <4>1, <4>2 DEF Follows
    <3>. QED  BY <3>1, <3>2
  <2>4. ASSUME before = {} PROVE Keys!UpFrom(link) = Keys!Field
    <3>1. Keys!UpFrom(link) # Keys!Field => Precedes(Keys!UpFrom(link), link)
      BY UpPrecedes
    <3>2. \A seen \in Keys!SeenLinks : ~Keys!Before(seen, link)
      BY <2>4, Zenon
    <3>. QED  BY <3>1, <3>2, Zenon DEF Precedes
  <2>5. ASSUME before # {}
        PROVE  Keys!UpFrom(link)
                 = CHOOSE last \in before : \A other \in before : ~Keys!Before(last, other)
    <3>1. Precedes(Keys!UpFrom(link), link)
      BY <2>5, UpPrecedes
    <3>2. Keys!UpFrom(link) \in before /\ \A other \in before : ~Keys!Before(Keys!UpFrom(link), other)
      BY <2>1, <3>1 DEF Precedes
    <3>3. \A last \in before : (\A other \in before : ~Keys!Before(last, other)) => last = Keys!UpFrom(link)
      BY <3>1, <3>2 DEF Precedes
    <3>. DEFINE chosen == CHOOSE last \in before : \A other \in before : ~Keys!Before(last, other)
    <3>. HIDE DEF before
    <3>4. chosen \in before /\ \A other \in before : ~Keys!Before(chosen, other)
      BY <3>2, Zenon
    <3>. QED  BY <3>3, <3>4, Zenon
  <2>. QED  BY <2>3, <2>4, <2>5, Zenon
<1>. QED  BY <1>1, ResultsInit, ResultsNext, PTL DEF Keys!Spec
=============================================================================
