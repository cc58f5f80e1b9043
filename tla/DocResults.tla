----------------------------- MODULE DocResults -----------------------------
(***************************************************************************)
(* The results of a search and the keyboard in them: SearchResults and     *)
(* createResults in docs/html/search/search.js.                            *)
(*                                                                         *)
(* A row has a link, "ItemE" for row E (E is counted from 1 here), and, if *)
(* there are several results under one name, a div SRChildren of links     *)
(* "ItemE_cN".  The focus is on such a link, written [item, child] with    *)
(* child 0 for the row itself, on the search field, or elsewhere.          *)
(***************************************************************************)
EXTENDS DocIndex

CONSTANTS Files,        \* the data files there are
          Texts,        \* what is searched for
          MaxChildren   \* bound: children of a row

VARIABLES
  window,     \* the results window is displayed
  rows,       \* the rows of SRResults, entries of a data file
  visible,    \* rows whose display is 'block'
  expanded,   \* rows whose SRChildren have display 'block'
  focus,
  lastKey,    \* "none" for 0
  repeatOn

vars == <<window, rows, visible, expanded, focus, lastKey, repeatOn>>

Field == [item |-> 0, child |-> 0]
Elsewhere == [item |-> 0, child |-> 1]
Key == {"Up", "Down", "Left", "Right", "Escape", "other"}

Init == /\ window = FALSE
        /\ rows = <<>>
        /\ visible = {}
        /\ expanded = {}
        /\ focus = Field
        /\ lastKey = "none"
        /\ repeatOn = FALSE

Item(i) == [item |-> i, child |-> 0]
Child(i, c) == [item |-> i, child |-> c]
OnLink == focus.item # 0

(* The element with an id, if there is one.                                *)
Exists(link) == /\ link.item \in DOMAIN rows
                /\ link.child <= rows[link.item].children

(* A result of several, whose children are shown: the test of              *)
(* FindChildElement and its display.                                       *)
FindChildElement(i) == rows[i].children > 0
ChildrenShown(i) == FindChildElement(i) /\ i \in expanded

(* An element can be focused while it is rendered; focus() of another one  *)
(* does nothing.                                                           *)
Rendered(link) == /\ window
                  /\ link.item \in visible
                  /\ link.child > 0 => link.item \in expanded
FocusOn(link) == focus' = IF Rendered(link) THEN link ELSE focus

(* The links one can see.                                                  *)
Links == [item : DOMAIN rows, child : 0..MaxChildren]
SeenLinks == {link \in Links : Exists(link) /\ Rendered(link)}

-----------------------------------------------------------------------------
(* handleResults: the rows of a data file, then those that match.  The     *)
(* links that had the focus are gone.                                      *)
createResults == /\ \E file \in Files, text \in Texts : /\ rows' = file
                                                        /\ visible' = Matches(file, text)
                 /\ window' = TRUE
                 /\ expanded' = {}
                 /\ focus' = IF OnLink THEN Elsewhere ELSE focus
                 /\ UNCHANGED <<lastKey, repeatOn>>

(* The link of a row with children; a click also gives it the focus.       *)
Toggle(i) == /\ Rendered(Item(i))
             /\ FindChildElement(i)
             /\ expanded' = IF i \in expanded THEN expanded \ {i} ELSE expanded \cup {i}
             /\ focus' = Item(i)
             /\ UNCHANGED <<window, rows, visible, lastKey, repeatOn>>

(* CloseResultsWindow, from a link that is followed or from elsewhere.     *)
Close == /\ window
         /\ window' = FALSE
         /\ focus' = IF OnLink THEN Elsewhere ELSE focus
         /\ UNCHANGED <<rows, visible, expanded, lastKey, repeatOn>>

(* A click on a link or in the field, or Down in the field.                *)
Click == /\ focus' \in {Field} \cup SeenLinks
         /\ focus' # focus
         /\ UNCHANGED <<window, rows, visible, expanded, lastKey, repeatOn>>

-----------------------------------------------------------------------------
(* NavNext, NavPrev: the next visible row from an index on, or none.       *)

NavNext(index) == {Item(i) : i \in {i \in visible : /\ i >= index
                                                    /\ \A j \in visible : j >= index => i <= j}}
NavPrev(index) == {Item(i) : i \in {i \in visible : /\ i <= index
                                                    /\ \A j \in visible : j <= index => j <= i}}

(* Nav, Up: to the last child of the row above if its children are shown,  *)
(* else to that row, else to the field.  The children are those of the row *)
(* with the next smaller index, whichever row NavPrev has found.           *)
UpTarget(i) ==
  LET above == NavPrev(i - 1)
      row   == CHOOSE link \in above : TRUE
      last  == Child(i - 1, rows[i - 1].children)
  IN  IF above = {} THEN Field
      ELSE IF ChildrenShown(row.item) /\ FindChildElement(i - 1) THEN last
      ELSE row

(* Nav, Down: to the first child if there are any to see, else to the next *)
(* row, else nowhere.                                                      *)
DownTargets(i) == IF ChildrenShown(i) THEN {Child(i, 1)} ELSE NavNext(i + 1)

(* NavChild.                                                               *)
ChildUpTarget(i, c) == IF c > 1 THEN Child(i, c - 1) ELSE Item(i)

(* Mutant: the last child is the end.                                      *)
StopsAtLast(i, c) == {link \in {Child(i, c + 1)} : Exists(link)}

ChildDownTargets(i, c) == IF Exists(Child(i, c + 1)) THEN {Child(i, c + 1)}
                          ELSE NavNext(i + 1)

UpFrom(link) == IF link.child = 0 THEN UpTarget(link.item)
                ELSE ChildUpTarget(link.item, link.child)
DownFrom(link) == IF link.child = 0 THEN DownTargets(link.item)
                  ELSE ChildDownTargets(link.item, link.child)

(* Mutant: Left works on a child, too, and hides it with its siblings.     *)
HidesFromChild(key) == key = "Left" /\ FindChildElement(focus.item)

Shows(key) == key = "Right" /\ focus.child = 0 /\ FindChildElement(focus.item)
Hides(key) == key = "Left" /\ focus.child = 0 /\ FindChildElement(focus.item)

(* What a key does once ProcessKeys has let it through.                    *)
Obey(key) ==
  CASE key = "Up" ->
         /\ IF UpFrom(focus) = Field THEN focus' = Field ELSE FocusOn(UpFrom(focus))
         /\ UNCHANGED <<window, expanded>>
    [] key = "Down" ->
         /\ IF DownFrom(focus) = {} THEN UNCHANGED focus
            ELSE \E link \in DownFrom(focus) : FocusOn(link)
         /\ UNCHANGED <<window, expanded>>
    [] Shows(key) -> expanded' = expanded \cup {focus.item} /\ UNCHANGED <<window, focus>>
    [] Hides(key) -> expanded' = expanded \ {focus.item} /\ UNCHANGED <<window, focus>>
    [] key = "Escape" -> window' = FALSE /\ focus' = Field /\ UNCHANGED expanded
    [] OTHER -> UNCHANGED <<window, focus, expanded>>

-----------------------------------------------------------------------------
(* Nav and NavChild with ProcessKeys, by type of event.  Enter is left to  *)
(* the link before lastKey is touched.                                     *)

KeyDown(key) == /\ OnLink
                /\ repeatOn' = FALSE
                /\ lastKey' = key
                /\ Obey(key)
                /\ UNCHANGED <<rows, visible>>

(* The first keypress after a keydown is ignored; the further ones of a    *)
(* key that is held repeat it.                                             *)
KeyPress == /\ OnLink
            /\ IF repeatOn
               THEN Obey(lastKey) /\ UNCHANGED repeatOn
               ELSE repeatOn' = (lastKey # "none") /\ UNCHANGED <<window, focus, expanded>>
            /\ UNCHANGED <<rows, visible, lastKey>>

(* A key may be released here that was pressed elsewhere, and the reverse. *)
KeyUp == /\ OnLink
         /\ lastKey' = "none"
         /\ repeatOn' = FALSE
         /\ UNCHANGED <<window, rows, visible, expanded, focus>>

Next == \/ createResults
        \/ \E i \in DOMAIN rows : Toggle(i)
        \/ Close \/ Click
        \/ \E key \in Key : KeyDown(key)
        \/ KeyPress \/ KeyUp

Spec == Init /\ [][Next]_vars

-----------------------------------------------------------------------------
(* Properties.                                                             *)

(* Reading order.                                                          *)
Before(link, other) == \/ link.item < other.item
                       \/ link.item = other.item /\ link.child < other.child

(***************************************************************************)
(* The focus is never on a link that cannot be seen: not after a search    *)
(* that hides its row, and not after the children of a row were hidden.    *)
(***************************************************************************)
FocusSeen == OnLink => focus \in SeenLinks

(***************************************************************************)
(* The arrow keys go through the links in the order in which they are      *)
(* read, leaving none out: Down to the next one, if there is one, Up to    *)
(* the one before, and from the first one to the field.                    *)
(***************************************************************************)
ArrowsFollowReading ==
  \A link \in SeenLinks :
    LET after  == {other \in SeenLinks : Before(link, other)}
        before == {other \in SeenLinks : Before(other, link)}
    IN  /\ DownFrom(link) = {next \in after : \A other \in after : ~Before(other, next)}
        /\ IF before = {} THEN UpFrom(link) = Field
           ELSE UpFrom(link) = CHOOSE last \in before : \A other \in before : ~Before(last, other)
=============================================================================
