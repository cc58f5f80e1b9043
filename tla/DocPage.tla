------------------------------ MODULE DocPage -------------------------------
(***************************************************************************)
(* A page of the generated documentation: the search box, the directory    *)
(* table, the keyboard in the results, what can be folded, and the menu.   *)
(* They share no state - what the menu does to the search box and the      *)
(* keyboard in the results are in DocSearch too, as far as they matter     *)
(* there.                                                                  *)
(***************************************************************************)
EXTENDS DocSearch, DocTree

(* Doxygen puts the entries of a section whose names begin with the same    *)
(* character into one data file, which is not empty.  No name is what      *)
(* Search looks for when it wants to find nothing.                         *)
ASSUME IndexAssumption ==
  \A sections \in Indexes :
    /\ sections \in Seq(Seq(Seq(Entry)))
    /\ \A s \in DOMAIN sections : \A f \in DOMAIN sections[s] :
         /\ sections[s][f] # <<>>
         /\ \A g \in DOMAIN sections[s] :
              FirstChar(sections[s][f]) = FirstChar(sections[s][g]) => f = g
         /\ \A i \in DOMAIN sections[s][f] :
              LET name == ToLower(sections[s][f][i].name)
              IN  /\ name # <<>>
                  /\ name[1] = FirstChar(sections[s][f])
                  /\ ~IsPrefix(NoSuchText, name)

(* A text is a sequence of character codes.                                *)
ASSUME CodesAssumption == Texts \subseteq Seq(Character)

(* The id of a row ends in its number, which may begin like the code of a  *)
(* character: "!" is "_21", and so is the beginning of "_210".  Nobody     *)
(* types such a character.                                                 *)
NumbersNotTyped ==
  \A text \in Texts : \A i \in DOMAIN text :
    \A sections \in Indexes : \A s \in DOMAIN sections : \A f \in DOMAIN sections[s] :
      \A k \in DOMAIN sections[s][f] :
        ~IsPrefix(Encoded(ToLower(text)[i]), <<Underscore>> \o sections[s][f][k].number)

(* The keyboard.                                                           *)
CONSTANTS DataFiles,    \* the data files there are
          Queries,      \* what is searched for
          MaxChildren   \* bound: children of a row
VARIABLES window, rows, visible, expanded, focus, lastKey, repeatOn
keysVars == <<window, rows, visible, expanded, focus, lastKey, repeatOn>>
Keys == INSTANCE DocResults WITH Files <- DataFiles, Texts <- Queries

(* createResults numbers the children of a row from 0 to their number.     *)
ASSUME ChildrenAssumption ==
  /\ MaxChildren \in Nat
  /\ \A file \in DataFiles : /\ file \in Seq(Entry)
                             /\ \A i \in DOMAIN file : file[i].children <= MaxChildren

(* Doxygen sorts the rows of a data file, so that those that begin with    *)
(* the same text follow each other.                                        *)
ASSUME SortedAssumption ==
  \A file \in DataFiles, text \in Queries :
    \A i, k \in Keys!Matches(file, text) : \A j \in DOMAIN file :
      i <= j /\ j <= k => j \in Keys!Matches(file, text)

(* The listing.                                                            *)
CONSTANTS Folds, Enclosing, NoFold
VARIABLES first, fold, section, inherit
foldVars == <<first, fold, section, inherit>>
Fold == INSTANCE DocFolds

(* Blocks are nested as the braces of the listing are: of two blocks       *)
(* around a third, one is around the other.                                *)
ASSUME NestingAssumption ==
  \A f \in Folds :
    /\ f \in Enclosing[f] /\ Enclosing[f] \subseteq Folds /\ IsFiniteSet(Enclosing[f])
    /\ \A g \in Enclosing[f] : /\ Enclosing[g] \subseteq Enclosing[f]
                               /\ f \in Enclosing[g] => f = g
    /\ \A g, h \in Enclosing[f] : g \in Enclosing[h] \/ h \in Enclosing[g]

(* The menu.                                                               *)
CONSTANTS Widths, MaxQueue
VARIABLES width, prevWidth, checked, menu, queue, pos1, pos2, asked, overtaken
menuVars == <<width, prevWidth, checked, menu, queue, pos1, pos2, asked, overtaken>>
Menu == INSTANCE DocMenu

-----------------------------------------------------------------------------
(* The properties of the modules that are instantiated.                    *)

(* The focus in the results is on a link one sees (SearchResults.Nav).     *)
FocusSeen == Keys!FocusSeen

(* The arrow keys go through the links in reading order (Nav, NavChild).   *)
ArrowsFollowReading == Keys!ArrowsFollowReading

(* Every line of a listing is shown once, itself or in a placeholder       *)
(* (codefold_toggle, codefold_toggle_all).                                 *)
LinesOnce == Fold!LinesOnce

(* Images tell what is shown (toggleVisibility, toggleInherit).            *)
ImageTells == Fold!ImageTells

(* The menu ends as the last toggle wanted it (initMenu's change handler). *)
MenuAsAsked == Menu!MenuAsAsked
=============================================================================
