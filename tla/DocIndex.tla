------------------------------ MODULE DocIndex ------------------------------
(***************************************************************************)
(* What the search of the generated documentation (docs/html/search) looks *)
(* things up in: the sections of searchdata.js, the data files of each     *)
(* section, the rows that are built from a data file, and the test whether *)
(* a row matches what was typed.                                           *)
(*                                                                         *)
(* A text is a sequence of character codes, of ASCII alone: what           *)
(* toLowerCase does to other characters is left out.  An entry of a data   *)
(* file has the name it stands for, its number, as the digits its id ends  *)
(* in, and the number of children it has (0 if it is a single result).     *)
(***************************************************************************)
EXTENDS Naturals, SequencesExt

Character == 0..127
Digit == 48..57
Entry == [name : Seq(Character), number : Seq(Digit), children : Nat]

Underscore == 95
Plain == (48..57) \cup (97..122)      \* [a-z0-9]

ToLower(text) ==
  [i \in DOMAIN text |-> IF text[i] \in 65..90 THEN text[i] + 32 ELSE text[i]]

Hex(n) == IF n < 10 THEN n + 48 ELSE n + 87

(* convertToId: _0h, _hh or the character itself.                          *)
Encoded(c) == CASE c \in Plain -> <<c>>
                [] c < 16      -> <<Underscore, 48, Hex(c)>>
                [] OTHER       -> <<Underscore, Hex(c \div 16), Hex(c % 16)>>
convertToId(search) == FlattenSeq([i \in DOMAIN search |-> Encoded(search[i])])

(* The id of a row without its "SR_", which is in the data file: Doxygen   *)
(* has encoded the name the same way and put its number behind it.         *)
RowId(entry) == convertToId(ToLower(entry.name)) \o <<Underscore>> \o entry.number

(* Mutant: what is typed is compared as it is.                             *)
CaseSensitive(entry, search) == IsPrefix(convertToId(search), RowId(entry))

RowMatches(entry, search) == IsPrefix(convertToId(ToLower(search)), RowId(entry))

(* SearchResults.Search: the rows it shows.                                *)
Matches(rows, search) == {i \in DOMAIN rows : RowMatches(rows[i], search)}

(* A section is a sequence of files, one per first character, in the order *)
(* of indexSectionsWithContent; indexOf finds "" at the start.             *)
FirstChar(file) == ToLower(file[1].name)[1]
FileFor(section, search) ==
  {f \in DOMAIN section : /\ search = <<>> \/ ToLower(search)[1] = FirstChar(section[f])
                          /\ search = <<>> => f = 1}

(* What a search of a section should find, data files aside.               *)
SectionMatches(section, search) ==
  {e \in UNION {{section[f][i] : i \in DOMAIN section[f]} : f \in DOMAIN section} :
     IsPrefix(ToLower(search), ToLower(e.name))}
=============================================================================
