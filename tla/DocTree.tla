------------------------------ MODULE DocTree -------------------------------
(***************************************************************************)
(* The table of folders and files of docs/html/files.html: toggleLevel,    *)
(* toggleFolder and updateStripes in docs/html/dynsections.js.             *)
(*                                                                         *)
(* A row is its number in the table.  Its id "row_0_1_" is the path        *)
(* <<0, 1>>.  A folder has an arrow and an icon, which the code changes    *)
(* together.                                                               *)
(***************************************************************************)
EXTENDS Naturals, Sequences, FiniteSets

CONSTANTS Rows,     \* the paths, in the order of the table
          Levels    \* the levels of "detail level"

Row == DOMAIN Rows
Depth(r) == Len(Rows[r])

(* The rows whose id begins with that of f, and those one level down.      *)
Extends(r, f) == /\ Depth(r) > Depth(f)
                 /\ \A i \in 1..Depth(f) : Rows[r][i] = Rows[f][i]
Below(f) == {r \in Row : r > f /\ Extends(r, f)}
Children(f) == {r \in Below(f) : Depth(r) = Depth(f) + 1}
Folder == {f \in Row : Children(f) # {}}

(* Doxygen numbers the rows of a folder and puts them behind it.           *)
ASSUME RowsAssumption ==
  /\ Rows \in Seq(Seq(Nat))
  /\ \A r, f \in Row : Rows[r] = Rows[f] => r = f
  /\ \A r, f \in Row : Extends(r, f) => r > f
ASSUME LevelsAssumption == Levels \subseteq Nat

VARIABLES
  shown,     \* rows that are displayed
  open,      \* folders with a down arrow and iconfopen
  stripe     \* the class of a row

treeVars == <<shown, open, stripe>>

Rank(r) == Cardinality({q \in shown : q < r})

TreeInit == /\ shown = Row
            /\ open = Folder
            /\ stripe = [r \in Row |-> IF Rank(r) % 2 = 0 THEN "even" ELSE "none"]

(* Mutant: hidden rows count, as in nth-child(even).                       *)
StripesCountHidden ==
  stripe' = [r \in Row |-> IF r \notin shown' THEN "none"
                           ELSE IF r % 2 = 1 THEN "even" ELSE "odd"]

updateStripes ==
  stripe' = [r \in Row |-> IF r \notin shown' THEN "none"
                           ELSE IF Rank(r)' % 2 = 0 THEN "even" ELSE "odd"]

toggleLevel(level) ==
  /\ shown' = {r \in Row : Depth(r) <= level}
  /\ open' = {f \in Folder : \/ Depth(f) < level
                             \/ Depth(f) > level /\ f \in open}
  /\ updateStripes

-----------------------------------------------------------------------------
(* toggleFolder, from the arrow or the icon of a row one sees.             *)

FirstChildShown(f) == \E r \in Children(f) \cap shown : \A q \in Children(f) : r <= q

(* Mutant: only the children are hidden, as only they are shown.           *)
HideChildren(f) == /\ shown' = shown \ Children(f)
                   /\ open' = open \ {f}

Hide(f) == /\ shown' = shown \ Below(f)
           /\ open' = open \ {f}

(* Mutant: a folder that is shown again keeps its arrow.                   *)
ShowAsLeft(f) == /\ shown' = shown \cup Children(f)
                 /\ open' = open \cup {f}

Show(f) == /\ shown' = shown \cup Children(f)
           /\ open' = (open \cup {f}) \ Children(f)

toggleFolder(f) == /\ f \in shown
                   /\ IF FirstChildShown(f) THEN Hide(f) ELSE Show(f)
                   /\ updateStripes

TreeNext == \/ \E level \in Levels : toggleLevel(level)
            \/ \E f \in Folder : toggleFolder(f)

TreeSpec == TreeInit /\ [][TreeNext]_treeVars

-----------------------------------------------------------------------------
(* Properties.                                                             *)

TreeTypeOK == shown \subseteq Row /\ open \subseteq Folder

(***************************************************************************)
(* One sees a row only below a folder that one sees too: nothing is left   *)
(* behind of what was open deeper down when a folder is hidden.            *)
(***************************************************************************)
TreeShown == \A r \in shown : \A f \in Folder : r \in Children(f) => f \in shown

(***************************************************************************)
(* The arrow of a folder one sees tells whether its content is shown, all  *)
(* of it or none, however levels and folders have been toggled before: the *)
(* arrows of hidden folders go stale, and must be right again when one     *)
(* sees them.                                                              *)
(***************************************************************************)
ArrowTells == \A f \in Folder \cap shown : IF f \in open
                                           THEN Children(f) \subseteq shown
                                           ELSE Children(f) \cap shown = {}

(***************************************************************************)
(* Rows that follow each other on the screen differ in their stripes.      *)
(***************************************************************************)
StripesAlternate ==
  \A r, q \in shown :
    r < q /\ (\A s \in shown : ~(r < s /\ s < q)) => stripe[r] # stripe[q]
=============================================================================
