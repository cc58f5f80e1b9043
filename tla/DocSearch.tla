----------------------------- MODULE DocSearch ------------------------------
(***************************************************************************)
(* The search box of a page of the generated documentation:                *)
(* docs/html/search/search.js on a page like docs/html/index.html.         *)
(*                                                                         *)
(* Everything happens in the page's event loop: a handler is one step, and *)
(* between two of them come the user, the timers and the scripts that      *)
(* searches load, in any order.  The keyboard inside the results is        *)
(* DocResults; here one only knows whether a result has the focus.         *)
(*                                                                         *)
(* The index that Doxygen writes into searchdata.js is an input.  The      *)
(* committed one is empty; the data files beside it are those of a fuller  *)
(* one.                                                                    *)
(***************************************************************************)
EXTENDS DocIndex

CONSTANTS Indexes,    \* the indexes there may be: sequences of sections
          Texts,      \* what may be typed
          MaxTimers,  \* bound: key timers, and selection timers, at a time
          MaxLoads    \* bound: scripts on their way at a time

ASSUME BoundsAssumption == MaxTimers \in Nat \ {0} /\ MaxLoads \in Nat
ASSUME TextsAssumption == <<>> \in Texts

VARIABLES
  index,     \* indexSectionsWithContent and the data files
  box,       \* the SearchBox object and the elements it controls
  panel,     \* the rows of the results window
  loading,   \* the bag of requests whose scripts are on their way
  pointer,   \* "over" MSearchSelect or its window, or "away"
  looked     \* OnSearchFieldChange has looked at the field as it is

vars == <<index, box, panel, loading, pointer, looked>>

NoRequest == [search |-> <<>>, section |-> 0, file |-> 0]

(* focus: "body", "field", "button" (MSearchSelect), "select" (its window) *)
(* or "result".  A timer id of 0 is none.                                  *)
Init == /\ index \in Indexes
        /\ box = [field |-> <<>>, focus |-> "body", active |-> FALSE,
                  lastSearchValue |-> <<>>, searchIndex |-> 0,
                  keyTimeout |-> 0, timers |-> {},
                  hideTimeout |-> 0, hideTimers |-> {},
                  select |-> FALSE, window |-> FALSE, close |-> FALSE]
        /\ panel = [searchData |-> <<>>, rows |-> <<>>, visible |-> {},
                    noMatches |-> TRUE, answered |-> NoRequest]
        /\ loading = EmptyBag
        /\ pointer = "away"
        /\ looked = FALSE

-----------------------------------------------------------------------------
(* What the handlers are made of.                                          *)

(* Mutant: the field keeps its text.                                       *)
ActivateKeepsText(b, isActive) ==
  IF isActive \/ b.window
  THEN [b EXCEPT !.active = TRUE]
  ELSE [b EXCEPT !.active = FALSE, !.lastSearchValue = <<>>]

Activate(b, isActive) ==
  IF isActive \/ b.window
  THEN [b EXCEPT !.active = TRUE]
  ELSE [b EXCEPT !.active = FALSE, !.lastSearchValue = <<>>, !.field = <<>>]

(* The focus moves to an element; the field has onfocus and onblur.        *)
FocusOn(b, element) ==
  LET moved == [b EXCEPT !.focus = element]
  IN  IF b.focus = element THEN b
      ELSE IF "field" \in {b.focus, element} THEN Activate(moved, element = "field")
      ELSE moved

(* An element that is hidden or removed loses the focus.                   *)
Unfocused(b, element) == [b EXCEPT !.focus = IF @ = element THEN "body" ELSE @]

HideResults(b) == [b EXCEPT !.window = FALSE, !.close = FALSE]

CloseResultsWindow(b) == Activate(Unfocused(HideResults(b), "result"), FALSE)
CloseSelectionWindow(b) == Unfocused([b EXCEPT !.select = FALSE], "select")

KillTimer(b) == [b EXCEPT !.timers = @ \ {b.keyTimeout}, !.keyTimeout = 0]

FreshIn(timers) == CHOOSE id \in 1..MaxTimers : id \notin timers

ArmTimer(b) == LET id == FreshIn(b.timers)
               IN  [b EXCEPT !.timers = @ \cup {id}, !.keyTimeout = id]

(* Mutant: the timer that hides the window goes on.                        *)
ShowOnly(b) == [b EXCEPT !.select = TRUE]

OnSearchSelectShow(b) ==
  [b EXCEPT !.select = TRUE, !.hideTimers = @ \ {b.hideTimeout}, !.hideTimeout = 0]

OnSearchSelectHide(b) == LET id == FreshIn(b.hideTimers)
                         IN  [b EXCEPT !.hideTimers = @ \cup {id}, !.hideTimeout = id]

-----------------------------------------------------------------------------
(* SearchBox.Search.  For a section that is not in the index, indexOf of   *)
(* undefined throws, after keyTimeout has been reset and before anything   *)
(* else.  A search without a data file shows its (empty) result at once;   *)
(* one with a data file loads it, and shows what it has when it is there.  *)

HasSection(b) == b.searchIndex + 1 \in DOMAIN index

Request(b) == LET section == b.searchIndex + 1
                  files   == FileFor(index[section], b.field)
              IN  [search  |-> b.field,
                   section |-> section,
                   file    |-> IF files = {} THEN 0 ELSE CHOOSE f \in files : TRUE]

(* handleResults: createResults, SearchResults.Search and the window.      *)
Shown(b) == Unfocused([b EXCEPT !.close = @ \/ ~b.window, !.window = TRUE], "result")

NoSuchText == <<61, 61, 61, 61>>      \* four equals signs

Results(p, r) ==
  LET rows  == IF p.searchData = <<>> THEN p.rows ELSE p.searchData
      found == Matches(rows, IF r.file = 0 THEN NoSuchText ELSE r.search)
  IN  [p EXCEPT !.rows = rows, !.visible = found, !.noMatches = found = {}, !.answered = r]

Searched(b) ==
  LET reset == [b EXCEPT !.keyTimeout = 0]
      done  == [reset EXCEPT !.lastSearchValue = b.field]
  IN  IF ~HasSection(b) THEN reset
      ELSE IF Request(b).file = 0 THEN Shown(done) ELSE done

Fetch(b) ==
  IF ~HasSection(b) THEN UNCHANGED <<panel, loading>>
  ELSE IF Request(b).file = 0 THEN panel' = Results(panel, Request(b)) /\ UNCHANGED loading
  ELSE /\ BagCardinality(loading) < MaxLoads
       /\ loading' = loading (+) SetToBag({Request(b)})
       /\ UNCHANGED panel

(* OnSelectItem: an item chosen while there is text is a search.           *)
Chosen(b, id) == [b EXCEPT !.searchIndex = id]
Searches(b) == b.field # <<>> /\ b.active

Selected(b, id) == IF Searches(Chosen(b, id)) THEN Searched(Chosen(b, id)) ELSE Chosen(b, id)

SelectFetch(b, id) == IF Searches(Chosen(b, id)) THEN Fetch(Chosen(b, id))
                      ELSE UNCHANGED <<panel, loading>>

-----------------------------------------------------------------------------
(* The user.  What the browser does to the field before a handler runs is  *)
(* a step of its own (Edit).                                               *)

Rest == UNCHANGED <<index, panel, loading, pointer>>

Edit == /\ box.focus = "field"
        /\ \E text \in Texts \ {box.field} : box' = [box EXCEPT !.field = text]
        /\ looked' = FALSE
        /\ Rest

FocusField == /\ box.focus # "field"
              /\ box' = FocusOn(box, "field")
              /\ UNCHANGED looked
              /\ Rest

BlurField == /\ box.focus = "field"
             /\ box' = FocusOn(box, "body")
             /\ UNCHANGED looked
             /\ Rest

FocusButton == /\ box.focus # "button"
               /\ box' = FocusOn(box, "button")
               /\ UNCHANGED looked
               /\ Rest

(* OnSearchFieldChange, by key.  The four begin with the killing of the    *)
(* running timer.                                                          *)

(* The end of the handler: a changed text is searched when the timer is    *)
(* up, an empty one closes the results.                                    *)
CheckValue(b) == IF b.field = b.lastSearchValue THEN b
                 ELSE IF b.field # <<>> THEN ArmTimer(b)
                 ELSE [HideResults(b) EXCEPT !.lastSearchValue = <<>>]

KeyUp == /\ box.focus = "field"
         /\ Cardinality(box.timers) < MaxTimers
         /\ looked' = TRUE
         /\ Rest

(* Mutant: only the first search has to wait for its timer.                *)
KeyUpWhenClosed == KeyUp /\ box' = IF box.window THEN KillTimer(box)
                                   ELSE CheckValue(KillTimer(box))

KeyUpText == KeyUp /\ box' = CheckValue(KillTimer(box))

(* Down or Enter: NavNext(0), which cannot be focused while it is hidden.  *)
KeyUpDown == /\ KeyUp
             /\ box' = LET b == KillTimer(box)
                       IN  CheckValue(IF b.window /\ panel.visible # {}
                                      THEN FocusOn(b, "result") ELSE b)

(* With shift, to the first item of the selection window, if there is one. *)
KeyUpShiftDown == /\ box.focus = "field"
                  /\ box' = LET b == OnSearchSelectShow(KillTimer(box))
                            IN  IF index = <<>> THEN b ELSE FocusOn(b, "select")
                  /\ looked' = FALSE
                  /\ Rest

(* Mutant: the button that closes the results stays.                       *)
EscapeLeavesButton ==
  /\ box.focus = "field"
  /\ box' = LET b == FocusOn(KillTimer(box), "body")
            IN  Activate([b EXCEPT !.window = FALSE, !.lastSearchValue = <<>>], FALSE)
  /\ looked' = FALSE
  /\ Rest

KeyUpEscape ==
  /\ box.focus = "field"
  /\ box' = LET b == FocusOn(KillTimer(box), "body")
            IN  Activate([HideResults(b) EXCEPT !.lastSearchValue = <<>>], FALSE)
  /\ looked' = FALSE
  /\ Rest

-----------------------------------------------------------------------------
(* The selection window.                                                   *)

MouseOver == /\ pointer = "away"
             /\ pointer' = "over"
             /\ box' = OnSearchSelectShow(box)
             /\ UNCHANGED <<index, panel, loading, looked>>

MouseOut == /\ pointer = "over"
            /\ Cardinality(box.hideTimers) < MaxTimers
            /\ pointer' = "away"
            /\ box' = OnSearchSelectHide(box)
            /\ UNCHANGED <<index, panel, loading, looked>>

(* onclick of an item: the field has lost the focus before.                *)
ClickItem(id) == /\ box.select
                 /\ box.focus # "field"
                 /\ LET b == [box EXCEPT !.focus = "select"]
                    IN  box' = Selected(b, id) /\ SelectFetch(b, id)
                 /\ UNCHANGED <<index, pointer, looked>>

(* OnSearchSelectKey: Down, Up, and Enter or Escape.  The last two go on   *)
(* when the search has not thrown.                                         *)
SelectDown == /\ box.focus = "select"
              /\ box.searchIndex < Len(index)
              /\ box' = Selected(box, box.searchIndex + 1)
              /\ SelectFetch(box, box.searchIndex + 1)
              /\ UNCHANGED <<index, pointer, looked>>

SelectUp == /\ box.focus = "select"
            /\ box.searchIndex > 0
            /\ box' = Selected(box, box.searchIndex - 1)
            /\ SelectFetch(box, box.searchIndex - 1)
            /\ UNCHANGED <<index, pointer, looked>>

SelectLeave == /\ box.focus = "select"
               /\ LET b == Selected(box, box.searchIndex)
                  IN  box' = IF Searches(box) /\ ~HasSection(box) THEN b
                             ELSE FocusOn(CloseSelectionWindow(b), "field")
               /\ SelectFetch(box, box.searchIndex)
               /\ UNCHANGED <<index, pointer, looked>>

(* Enter or Down on MSearchSelect: the listener of init_search.            *)
ButtonKey == /\ box.focus = "button"
             /\ box' = IF box.select THEN CloseSelectionWindow(box)
                       ELSE FocusOn(OnSearchSelectShow(box), "select")
             /\ UNCHANGED looked
             /\ Rest

-----------------------------------------------------------------------------
(* The results window.                                                     *)

(* The button with the cross, or a link to what has been found.            *)
CloseClicked == /\ box.close
                /\ box.focus # "field"
                /\ box' = CloseResultsWindow(box)
                /\ UNCHANGED looked
                /\ Rest

FocusResult == /\ box.window
               /\ panel.visible # {}
               /\ box.focus # "result"
               /\ box' = FocusOn(box, "result")
               /\ UNCHANGED looked
               /\ Rest

(* Nav and NavChild: Escape in the results; Up from the first one is       *)
(* FocusField.                                                             *)
ResultEscape == /\ box.focus = "result"
                /\ box' = FocusOn(CloseResultsWindow(box), "field")
                /\ UNCHANGED looked
                /\ Rest

-----------------------------------------------------------------------------
(* What comes back.                                                        *)

KeyTimer(id) == LET b == [box EXCEPT !.timers = @ \ {id}]
                IN  /\ id \in box.timers
                    /\ box' = Searched(b)
                    /\ Fetch(b)
                    /\ UNCHANGED <<index, pointer, looked>>

(* Its id stays in hideTimeout; one that is over is as good as none.       *)
HideTimer(id) == /\ id \in box.hideTimers
                 /\ box' = CloseSelectionWindow([box EXCEPT !.hideTimers = @ \ {id},
                                                            !.hideTimeout = IF @ = id THEN 0 ELSE @])
                 /\ UNCHANGED looked
                 /\ Rest

(* A data file sets searchData and its onload calls handleResults, in one  *)
(* task of the event loop.  One that does not arrive calls nothing.        *)
FileOf(r) == index[r.section][r.file]

Loaded(r) ==
  /\ loading' = loading (-) SetToBag({r})
  /\ panel' = Results([panel EXCEPT !.searchData = FileOf(r)], r)
  /\ box' = Shown(box)
  /\ UNCHANGED <<index, pointer, looked>>

LoadFails(r) == /\ loading' = loading (-) SetToBag({r})
                /\ UNCHANGED <<index, box, panel, pointer, looked>>

(* resetState in menu.js: the box is made anew, its results are closed.    *)
BoxReplaced ==
  /\ box' = CloseResultsWindow(
              Unfocused(Unfocused([box EXCEPT !.field = <<>>, !.close = FALSE], "field"), "button"))
  /\ pointer' \in {pointer, "away"}      \* over the button, or over the window
  /\ UNCHANGED <<index, panel, loading, looked>>

-----------------------------------------------------------------------------

Field == Edit \/ FocusField \/ BlurField \/ FocusButton
         \/ KeyUpText \/ KeyUpDown \/ KeyUpShiftDown \/ KeyUpEscape

Selection == \/ MouseOver \/ MouseOut
             \/ \E section \in DOMAIN index : ClickItem(section - 1)
             \/ SelectDown \/ SelectUp \/ SelectLeave \/ ButtonKey

ResultsWindow == CloseClicked \/ FocusResult \/ ResultEscape

Callbacks == \/ \E id \in 1..MaxTimers : KeyTimer(id) \/ HideTimer(id)
             \/ \E r \in BagToSet(loading) : Loaded(r) \/ LoadFails(r)
             \/ BoxReplaced

Next == Field \/ Selection \/ ResultsWindow \/ Callbacks

Spec == Init /\ [][Next]_vars

-----------------------------------------------------------------------------
(* Properties.                                                             *)

(***************************************************************************)
(* "Activates or deactivates the search panel, resetting things to their   *)
(* default values if necessary": a panel that is not active has an empty   *)
(* field and remembers no search, whatever timer or script comes late.     *)
(***************************************************************************)
InactiveIsReset == ~box.active => box.field = <<>> /\ box.lastSearchValue = <<>>

(***************************************************************************)
(* The button that closes the results is there exactly while they are:     *)
(* six handlers change the two, in different orders.                       *)
(***************************************************************************)
CloseWithWindow == box.window = box.close

(***************************************************************************)
(* What the results window shows for a text is everything the section has  *)
(* for it and nothing else, although only the data file for the first      *)
(* character is loaded, rows are those of whatever file came last, and     *)
(* files come in any order; and it says "No Matches" exactly if there are  *)
(* none.                                                                   *)
(***************************************************************************)
AnswerComplete ==
  LET r == panel.answered
  IN  r.search # <<>> =>
        /\ {panel.rows[i] : i \in panel.visible} = SectionMatches(index[r.section], r.search)
        /\ panel.noMatches <=> panel.visible = {}

(***************************************************************************)
(* "stop selection hide timer": the selection window is not closed under   *)
(* the pointer.                                                            *)
(***************************************************************************)
NoTimerUnderPointer == pointer = "over" => box.hideTimers = {}

(***************************************************************************)
(* A text that was looked at and is not the one of the last search has its *)
(* search ahead, on a timer that the next key will kill - unless the       *)
(* search of a section that does not exist has thrown.                     *)
(***************************************************************************)
UnsearchedIsPending ==
  looked /\ box.field \notin {<<>>, box.lastSearchValue} /\ HasSection(box)
    => box.keyTimeout \in box.timers
=============================================================================
