------------------------------ MODULE DocMenu -------------------------------
(***************************************************************************)
(* The menu of a page of the generated documentation: initMenu in          *)
(* docs/html/menu.js.                                                      *)
(*                                                                         *)
(* On a narrow window the menu is shown and hidden with a check box, by    *)
(* animations that jQuery puts in a queue; the first in the queue is       *)
(* running.  When the window changes its width, resetState shows or hides  *)
(* the menu, without regard to the queue, and moves the search box.        *)
(***************************************************************************)
EXTENDS Naturals, Sequences

CONSTANTS Widths,     \* the widths the window can have
          MaxQueue    \* bound: animations in the queue

VARIABLES
  width,       \* of the window; a change of it is handled later
  prevWidth,
  checked,     \* main-menu-state
  menu,        \* main-menu is displayed
  queue,       \* of animations: "slideDown", "slideUp"
  pos1,        \* searchBoxPos1 has a search box
  pos2,        \* searchBoxPos2 has one, and is displayed
  asked,       \* what the last toggle or reset wanted menu to be
  overtaken    \* that was a reset while an animation was running

vars == <<width, prevWidth, checked, menu, queue, pos1, pos2, asked, overtaken>>

IsNarrow(w) == w < 768

(* The page has been read; the check box works, resetState comes next.     *)
Init == /\ width \in Widths
        /\ prevWidth = 0
        /\ checked = FALSE
        /\ menu = ~IsNarrow(width)      \* by the style sheet
        /\ queue = <<>>
        /\ pos1 = FALSE
        /\ pos2 = [box |-> FALSE, displayed |-> TRUE]
        /\ asked = menu
        /\ overtaken = FALSE

(* A "slideDown" that begins displays the menu, a "slideUp" hides it when  *)
(* it ends, and the complete callbacks do both again.                      *)
Begins(displayed, animations) ==
  displayed \/ (animations # <<>> /\ Head(animations) = "slideDown")

-----------------------------------------------------------------------------
Resize == /\ \E w \in Widths \ {width} : width' = w
          /\ UNCHANGED <<prevWidth, checked, menu, queue, pos1, pos2, asked, overtaken>>

(* Mutant: the animations go on from what is there.                        *)
ChangeAsIs == LET animation == IF checked' THEN "slideDown" ELSE "slideUp"
              IN  /\ queue' = IF queue = <<>> THEN <<animation>> ELSE queue
                  /\ menu' = Begins(menu, queue')

(* $menu.hide().slideDown(options) or $menu.show().slideUp(options).       *)
Change == LET animation == IF checked' THEN "slideDown" ELSE "slideUp"
          IN  /\ queue' = Append(queue, animation)
              /\ menu' = IF queue = <<>> THEN Begins(~checked', <<animation>>) ELSE ~checked'

(* The check box cannot be seen on a wide window, but has the keyboard.    *)
Toggle == /\ Len(queue) < MaxQueue
          /\ checked' = ~checked
          /\ Change
          /\ asked' = checked'
          /\ overtaken' = FALSE
          /\ UNCHANGED <<width, prevWidth, pos1, pos2>>

AnimationEnds == /\ queue # <<>>
                 /\ queue' = Tail(queue)
                 /\ menu' = Begins(Head(queue) = "slideDown", queue')
                 /\ UNCHANGED <<width, prevWidth, checked, pos1, pos2, asked, overtaken>>

Wide == /\ pos1' = FALSE
        /\ pos2' = [box |-> TRUE, displayed |-> TRUE]

Narrow == /\ pos1' = TRUE
          /\ pos2' = [pos2 EXCEPT !.displayed = FALSE]

(* At the end of loading and after a resize.  The results window that it   *)
(* closes is in DocSearch.                                                 *)
resetState == /\ width # prevWidth
              /\ prevWidth' = width
              /\ IF IsNarrow(width)
                 THEN checked' = FALSE /\ menu' = FALSE /\ Narrow
                 ELSE UNCHANGED checked /\ menu' = TRUE /\ Wide
              /\ asked' = menu'
              /\ overtaken' = (queue # <<>>)
              /\ UNCHANGED <<width, queue>>

Next == Resize \/ Toggle \/ AnimationEnds \/ resetState

Spec == Init /\ [][Next]_vars

-----------------------------------------------------------------------------
(* Properties.                                                             *)

(***************************************************************************)
(* When the last animation has ended the menu is what the last toggle or   *)
(* reset wanted, however fast the box was toggled - unless a reset has     *)
(* come while an animation was running, whose end then undoes it.          *)
(***************************************************************************)
MenuAsAsked == queue = <<>> /\ ~overtaken => menu = asked
=============================================================================
