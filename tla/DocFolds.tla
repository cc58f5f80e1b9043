------------------------------ MODULE DocFolds ------------------------------
(***************************************************************************)
(* What can be folded on a page of the generated documentation, in         *)
(* docs/html/dynsections.js: a dynamic section (toggleVisibility), the     *)
(* inherited members of a class (toggleInherit), and blocks of a source    *)
(* listing (init_codefold, codefold_toggle, codefold_toggle_all).          *)
(***************************************************************************)
EXTENDS Naturals, Sequences, FiniteSets

CONSTANTS Folds,       \* the foldable blocks
          Enclosing,   \* for each the blocks it is in, itself included
          NoFold

VARIABLES
  first,      \* the block that begins on the first line, if one does
  fold,       \* the listing
  section,    \* a dynamic section
  inherit     \* the inherited members

vars == <<first, fold, section, inherit>>

(* An image is a file name, of which the code replaces the end.            *)
OpenPng == <<"o", "p", "e", "n", ".", "p", "n", "g">>
ClosedPng == <<"c", "l", "o", "s", "e", "d", ".", "p", "n", "g">>
Cut(src, n) == SubSeq(src, 1, Len(src) - n)

(* Doxygen writes sections and inherited members closed.                   *)
Init == /\ first \in Folds \cup {NoFold}
        /\ fold = [ready |-> FALSE, opened |-> TRUE, foldopen |-> Folds, foldclosed |-> {}]
        /\ section = [content |-> FALSE, summary |-> TRUE, class |-> "closed", src |-> ClosedPng]
        /\ inherit = [rows |-> FALSE, src |-> ClosedPng]

-----------------------------------------------------------------------------
(* Mutant: what is cut off is not what was there.                          *)
CutsTheOther(src, shows) == IF shows THEN Cut(src, Len(ClosedPng)) \o ClosedPng
                            ELSE Cut(src, Len(OpenPng)) \o OpenPng

Replaced(src, shows) == IF shows THEN Cut(src, Len(OpenPng)) \o ClosedPng
                        ELSE Cut(src, Len(ClosedPng)) \o OpenPng

toggleVisibility ==
  /\ section' = [content |-> ~section.content,
                 summary |-> section.content,
                 class   |-> IF section.content THEN "closed" ELSE "opened",
                 src     |-> Replaced(section.src, section.content)]
  /\ UNCHANGED <<first, fold, inherit>>

toggleInherit ==
  /\ inherit' = [rows |-> ~inherit.rows, src |-> Replaced(inherit.src, inherit.rows)]
  /\ UNCHANGED <<first, fold, section>>

-----------------------------------------------------------------------------
(* The listing.  What is inside a block that is not displayed is not seen. *)

Outer(f) == Enclosing[f] \ {f}
Seen(f) == Enclosing[f] \subseteq fold.foldopen
PlaceholderSeen(f) == f \in fold.foldclosed /\ Outer(f) \subseteq fold.foldopen

(* The placeholders are made, hidden, and the controls.                    *)
init_codefold == /\ ~fold.ready
                 /\ fold' = [fold EXCEPT !.ready = TRUE]
                 /\ UNCHANGED <<first, section, inherit>>

Toggled(set, f) == IF f \in set THEN set \ {f} ELSE set \cup {f}

(* From the first line of a block or from its placeholder.                 *)
codefold_toggle(f) ==
  /\ fold.ready
  /\ Seen(f) \/ PlaceholderSeen(f)
  /\ fold' = [fold EXCEPT !.foldopen = Toggled(@, f), !.foldclosed = Toggled(@, f)]
  /\ UNCHANGED <<first, section, inherit>>

(* Mutant: every block is turned over.                                     *)
TurnsOver == [opened     |-> ~fold.opened,
              ready      |-> TRUE,
              foldopen   |-> Folds \ fold.foldopen,
              foldclosed |-> IF fold.opened THEN Folds ELSE {}]

ToggledAll == [opened     |-> ~fold.opened,
               ready      |-> TRUE,
               foldopen   |-> IF fold.opened THEN {} ELSE Folds,
               foldclosed |-> IF fold.opened THEN Folds ELSE {}]

(* From the control that init_codefold appends to the first line, unless a *)
(* block begins there: its own control replaces that one.                  *)
codefold_toggle_all == /\ fold.ready
                       /\ first = NoFold
                       /\ fold' = ToggledAll
                       /\ UNCHANGED <<first, section, inherit>>

Next == \/ toggleVisibility \/ toggleInherit
        \/ init_codefold \/ codefold_toggle_all
        \/ \E f \in Folds : codefold_toggle(f)

Spec == Init /\ [][Next]_vars

-----------------------------------------------------------------------------
(* Properties.                                                             *)

(***************************************************************************)
(* Every line of the listing is there once: its block is seen, or the      *)
(* placeholder of exactly one block around it - after any mixture of       *)
(* toggling one block and toggling all, of which the two kinds of element  *)
(* and the flag "opened" know nothing of each other.                       *)
(***************************************************************************)
LinesOnce ==
  \A f \in Folds : Cardinality({g \in Enclosing[f] : PlaceholderSeen(g)}) = IF Seen(f) THEN 0 ELSE 1

(***************************************************************************)
(* The image beside a section or a list tells which of its two forms is    *)
(* shown; its file name survives any number of replacements at its end.    *)
(***************************************************************************)
ImageTells ==
  /\ section.src = IF section.content THEN OpenPng ELSE ClosedPng
  /\ inherit.src = IF inherit.rows THEN OpenPng ELSE ClosedPng
=============================================================================
