--------------------------- MODULE CircularBuffer ---------------------------
(***************************************************************************)
(* struct aesd_circular_buffer and its four operations                     *)
(* (aesd-char-driver/circular-buffer).  The buffer is an array of Capacity *)
(* entries, the index of the next entry to write, the index of the oldest  *)
(* entry, and a flag that tells a full buffer from an empty one, in both   *)
(* of which the two indices are equal.                                     *)
(*                                                                         *)
(* The operations take no lock: whoever owns the struct serialises them    *)
(* (AesdChar does it with dev->lock).  Each one is one action.  NULL       *)
(* buffer pointers and the debug log are left out.                         *)
(***************************************************************************)
EXTENDS Naturals, SequencesExt

CONSTANTS Capacity,  \* AESDCHAR_MAX_WRITE_OPERATIONS_SUPPORTED
          Ptr,       \* the non-NULL values of buffptr
          Size,      \* the values of size
          NULL

ASSUME CapacityAssumption == Capacity \in 1..255     \* the indices are uint8_t
ASSUME PtrAssumption      == NULL \notin Ptr
ASSUME SizeAssumption     == Size \subseteq Nat /\ 0 \in Size

VARIABLES entry,     \* the array
          in_offs,   \* where the next entry goes
          out_offs,  \* the oldest entry
          full

vars == <<entry, in_offs, out_offs, full>>

Slots == 0..(Capacity - 1)

(* struct aesd_buffer_entry                                                *)
Entry == [buffptr : Ptr \cup {NULL}, size : Size]
NullEntry == [buffptr |-> NULL, size |-> 0]

TypeOK == /\ entry \in [Slots -> Entry]
          /\ in_offs \in Slots
          /\ out_offs \in Slots
          /\ full \in BOOLEAN

-----------------------------------------------------------------------------

(* aesd_circular_buffer_init: memset of the whole struct.                  *)
Zeroed(e, i, o, f) == /\ e = [s \in Slots |-> NullEntry]
                      /\ i = 0
                      /\ o = 0
                      /\ f = FALSE

aesd_circular_buffer_init == Zeroed(entry', in_offs', out_offs', full')

(* Mutant: the index runs off the array.                                   *)
NoWrap(i) == i + 1

(* The successor of an index, with wrap-around.                            *)
Advance(i) == (i + 1) % Capacity

(* Mutant: full, but the output index is left behind.                      *)
AddKeepsOutOffs(e) ==
  /\ e.buffptr # NULL
  /\ entry' = [entry EXCEPT ![in_offs] = e]
  /\ UNCHANGED out_offs
  /\ in_offs' = Advance(in_offs)
  /\ full' = (in_offs' = out_offs)

(* aesd_circular_buffer_add_entry: an entry with no data is refused; when  *)
(* the buffer is full the oldest entry is the one overwritten, so the      *)
(* output index moves on with the input index.                             *)
aesd_circular_buffer_add_entry(e) ==
  \/ /\ e.buffptr = NULL
     /\ UNCHANGED vars
  \/ /\ e.buffptr # NULL
     /\ entry' = [entry EXCEPT ![in_offs] = e]
     /\ out_offs' = IF full THEN Advance(out_offs) ELSE out_offs
     /\ in_offs' = Advance(in_offs)
     /\ full' = (in_offs' = out_offs')

Empty == ~full /\ in_offs = out_offs

(* Mutant: the removed entry keeps its pointer.                            *)
RemoveKeepsPointer ==
  /\ ~Empty
  /\ out_offs' = Advance(out_offs)
  /\ full' = FALSE
  /\ UNCHANGED <<entry, in_offs>>

(* aesd_circular_buffer_remove_entry: a no-op on an empty buffer.          *)
aesd_circular_buffer_remove_entry ==
  \/ /\ Empty
     /\ UNCHANGED vars
  \/ /\ ~Empty
     /\ entry' = [entry EXCEPT ![out_offs] = NullEntry]
     /\ out_offs' = Advance(out_offs)
     /\ full' = FALSE
     /\ UNCHANGED in_offs

(* total_entries, computed from the indices and the flag at the head of    *)
(* every loop over the live entries.                                       *)
TotalEntries == IF full THEN Capacity
                ELSE IF in_offs >= out_offs
                     THEN in_offs - out_offs
                     ELSE (Capacity - out_offs) + in_offs

(* The i-th live slot, 0 being the oldest.                                 *)
Slot(i) == (out_offs + i) % Capacity

(* The bytes that precede the i-th live entry: current_pos of the loops    *)
(* in find_entry_offset_for_fpos, aesd_get_total_buffer_size and ioctl.    *)
StartOf(i) ==
  LET pos[n \in 0..Capacity] ==
        IF n = 0 THEN 0 ELSE pos[n - 1] + entry[Slot(n - 1)].size
  IN  pos[i]

TotalSize == StartOf(TotalEntries)

(* Mutant: the byte after an entry is taken for a byte of it.              *)
FindOneTooFar(char_offset) ==
  LET ends == {i \in 0..(TotalEntries - 1) : char_offset <= StartOf(i + 1)}
  IN  IF ends = {}
      THEN NULL
      ELSE LET first == CHOOSE i \in ends : \A j \in ends : i <= j
           IN  [slot |-> Slot(first), offset |-> char_offset - StartOf(first)]

(* aesd_circular_buffer_find_entry_offset_for_fpos: the first live entry   *)
(* that ends beyond char_offset, and the offset inside it.                 *)
aesd_circular_buffer_find_entry_offset_for_fpos(char_offset) ==
  LET ends == {i \in 0..(TotalEntries - 1) : char_offset < StartOf(i + 1)}
  IN  IF ends = {}
      THEN NULL
      ELSE LET first == CHOOSE i \in ends : \A j \in ends : i <= j
           IN  [slot |-> Slot(first), offset |-> char_offset - StartOf(first)]

-----------------------------------------------------------------------------

Init == Zeroed(entry, in_offs, out_offs, full)

Next == \/ aesd_circular_buffer_init
        \/ \E e \in Entry : aesd_circular_buffer_add_entry(e)
        \/ aesd_circular_buffer_remove_entry

Spec == Init /\ [][Next]_vars

-----------------------------------------------------------------------------

LiveSlots == {Slot(i) : i \in 0..(TotalEntries - 1)}

(***************************************************************************)
(* A slot holds a pointer exactly when it is live.  aesd_cleanup_device    *)
(* walks ALL slots (AESD_CIRCULAR_BUFFER_FOREACH) and tells the live ones  *)
(* by buffptr, the other loops walk out_offs .. in_offs: they agree on     *)
(* which entries exist only while this holds.                              *)
(***************************************************************************)
PointersAreLive ==
  \A s \in Slots : entry[s].buffptr # NULL <=> s \in LiveSlots

(* The two index conventions that the next insertion relies on: a full     *)
(* buffer overwrites the oldest entry and no other.                        *)
IndexInv == full => in_offs = out_offs

(* The live entries, oldest first.                                         *)
Contents == [i \in 1..TotalEntries |-> entry[Slot(i - 1)]]

(* Every byte of the log, in order, as the slot and the offset it is       *)
(* stored at.                                                              *)
EveryByte ==
  FlattenSeq([i \in 1..TotalEntries |->
                [k \in 1..entry[Slot(i - 1)].size |->
                   [slot |-> Slot(i - 1), offset |-> k - 1]]])

(***************************************************************************)
(* aesd_circular_buffer_find_entry_offset_for_fpos(pos) is the place of    *)
(* byte pos of the concatenated entries, and NULL exactly from the end on, *)
(* in every state of wrap-around and with entries of size 0 in between.    *)
(***************************************************************************)
FindIsByteLookup ==
  \A pos \in 0..(TotalSize + 1) :
    aesd_circular_buffer_find_entry_offset_for_fpos(pos) =
      IF pos < Len(EveryByte) THEN EveryByte[pos + 1] ELSE NULL

(***************************************************************************)
(* The buffer implements a bounded first-in first-out log of the entries   *)
(* that carry data: wrap-around, the full flag and the reuse of slots      *)
(* never lose, duplicate or reorder an entry.                              *)
(***************************************************************************)
Log == INSTANCE CommandLog WITH Element <- {e \in Entry : e.buffptr # NULL},
                                log <- Contents
ImplementsCommandLog == Log!Spec

=============================================================================
