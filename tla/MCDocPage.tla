----------------------------- MODULE MCDocPage -----------------------------
(***************************************************************************)
(* Model-checking instance of a page of the generated documentation.  Its  *)
(* widgets share no state, so that a behaviour uses one of them.           *)
(*                                                                         *)
(* The index is the committed one, which is empty, or one of two sections, *)
(* of names like those of the committed data files all_1.js and all_2.js.  *)
(***************************************************************************)
EXTENDS DocPage

(* The ids are d_2, d_5fl_14, d_5fm_15, d_5fmo_16 and c_210.               *)
device == [name |-> <<100>>, number |-> <<50>>, children |-> 2]
device_light == [name |-> <<100, 95, 108>>, number |-> <<49, 52>>, children |-> 0]
device_manager == [name |-> <<100, 95, 109>>, number |-> <<49, 53>>, children |-> 2]
device_motor == [name |-> <<100, 95, 109, 111>>, number |-> <<49, 54>>, children |-> 0]
count == [name |-> <<99>>, number |-> <<50, 49, 48>>, children |-> 0]

Committed == <<>>
Generated == << << <<count>>, <<device, device_light>> >>, << <<device_light>> >> >>
IndexChoices == {Committed, Generated}

(* "", "D_" and "c"                                                        *)
Typed == {<<>>, <<68, 95>>, <<99>>}

(* What the theorem about answers assumes.                                 *)
ASSUME TypedAssumption == NumbersNotTyped

(* The table of files.html, and beside its folders two more, one of them   *)
(* within another.                                                         *)
FilesTable == << <<0>>, <<0, 0>>, <<0, 0, 0>>, <<0, 0, 1>>, <<0, 1>>, <<0, 1, 0>>,
                 <<1>>, <<1, 0>>, <<1, 0, 0>>, <<2>> >>
DetailLevels == 1..3

(* The keyboard: two data files, and searches that find all, three, two    *)
(* and none of the rows of the larger.                                     *)
TwoFiles == {<<device, device_light, device_manager, device_motor>>, <<count>>}
FourQueries == {<<>>, <<68, 95>>, <<68, 95, 109>>, <<122>>}

(* A listing: a block within another, and one behind them.                 *)
CONSTANTS outer, inner, other
Blocks == {outer, inner, other}
Nesting == [f \in Blocks |-> IF f = inner THEN {inner, outer} ELSE {f}]

(* Two widths of each layout.                                              *)
FourWidths == {600, 700, 1000, 1200}

-----------------------------------------------------------------------------
VARIABLE widget

mcvars == <<widget, vars, treeVars, keysVars, foldVars, menuVars>>

(* A widget that is not used is as it was when the page had been read, on  *)
(* one page - or not on it.                                                *)
NoTable == shown = {} /\ open = {} /\ stripe = <<>>

MCInit == /\ widget \in {"search", "keys", "table", "folds", "menu"}
          /\ Init /\ (widget # "search" => index = Committed)
          /\ IF widget = "table" THEN TreeInit ELSE NoTable
          /\ Keys!Init
          /\ Fold!Init /\ (widget # "folds" => first = NoFold)
          /\ Menu!Init /\ (widget # "menu" => width = 1000)

OnlySearch == UNCHANGED <<widget, treeVars, keysVars, foldVars, menuVars>>
OnlyTable == UNCHANGED <<widget, vars, keysVars, foldVars, menuVars>>
OnlyKeys == UNCHANGED <<widget, vars, treeVars, foldVars, menuVars>>
OnlyFolds == UNCHANGED <<widget, vars, treeVars, keysVars, menuVars>>
OnlyMenu == UNCHANGED <<widget, vars, treeVars, keysVars, foldVars>>

MCNext == \/ widget = "search" /\ Next /\ OnlySearch
          \/ widget = "table" /\ TreeNext /\ OnlyTable
          \/ widget = "keys" /\ Keys!Next /\ OnlyKeys
          \/ widget = "folds" /\ Fold!Next /\ OnlyFolds
          \/ widget = "menu" /\ Menu!Next /\ OnlyMenu

MCSpec == MCInit /\ [][MCNext]_mcvars
=============================================================================
