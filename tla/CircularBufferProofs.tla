------------------------ MODULE CircularBufferProofs ------------------------
(***************************************************************************)
(* What the runs of MCCircularBuffer check for three slots, proved for     *)
(* every Capacity, every set of pointers and every set of sizes.           *)
(***************************************************************************)
EXTENDS CircularBuffer, SequenceLemmas

(* The remainder of a sum of two indices, without a division: what makes   *)
(* the steps below linear.                                                 *)
LEMMA Remainder ==
  \A a \in Nat : a < 2 * Capacity =>
    a % Capacity = IF a < Capacity THEN a ELSE a - Capacity
<1>. TAKE a \in Nat
<1>. HAVE a < 2 * Capacity
<1>1. Capacity \in Nat /\ Capacity > 0
  BY CapacityAssumption
<1>2. CASE a < Capacity
  BY <1>1, <1>2
<1>3. CASE ~(a < Capacity)
  BY <1>1, <1>3
<1>. QED  BY <1>2, <1>3

(* The successor of an index is an index.                                  *)
LEMMA AdvanceIsSlot ==
  ASSUME NEW i \in Slots
  PROVE  /\ Advance(i) \in Slots
         /\ Advance(i) = IF i = Capacity - 1 THEN 0 ELSE i + 1
<1>1. Capacity \in Nat /\ Capacity > 0
  BY CapacityAssumption
<1>2. i + 1 \in Nat /\ i + 1 < 2 * Capacity
  BY <1>1 DEF Slots
<1>3. (i + 1) % Capacity = IF i + 1 < Capacity THEN i + 1 ELSE (i + 1) - Capacity
  BY <1>1, <1>2, Remainder
<1>. QED  BY <1>1, <1>3 DEF Slots, Advance

(***************************************************************************)
(* Type correctness: neither index ever leaves the array.                  *)
(***************************************************************************)
LEMMA TypeStep ==
  ASSUME TypeOK, [Next]_vars
  PROVE  TypeOK'
<1>. USE DEF TypeOK
<1>1. 0 \in Slots
  BY CapacityAssumption DEF Slots
<1>2. NullEntry \in Entry
  BY SizeAssumption DEF NullEntry, Entry
<1>3. CASE aesd_circular_buffer_init
  BY <1>1, <1>2, <1>3 DEF aesd_circular_buffer_init, Zeroed
<1>4. ASSUME NEW e \in Entry, aesd_circular_buffer_add_entry(e)
      PROVE  TypeOK'
  BY <1>4, AdvanceIsSlot DEF aesd_circular_buffer_add_entry, vars
<1>5. CASE aesd_circular_buffer_remove_entry
  BY <1>2, <1>5, AdvanceIsSlot DEF aesd_circular_buffer_remove_entry, vars
<1>6. CASE UNCHANGED vars
  BY <1>6 DEF vars
<1>. QED  BY <1>3, <1>4, <1>5, <1>6 DEF Next

THEOREM TypeCorrect == Spec => []TypeOK
<1>1. Init => TypeOK
  <2>1. 0 \in Slots
    BY CapacityAssumption DEF Slots
  <2>2. NullEntry \in Entry
    BY SizeAssumption DEF NullEntry, Entry
  <2>. QED  BY <2>1, <2>2 DEF Init, Zeroed, TypeOK
<1>2. TypeOK /\ [Next]_vars => TypeOK'
  BY TypeStep
<1>. QED  BY <1>1, <1>2, PTL DEF Spec

-----------------------------------------------------------------------------

(***************************************************************************)
(* The live slots, said with comparisons only: all of them in a full       *)
(* buffer, else those from out_offs up to in_offs, round the end.          *)
(***************************************************************************)
Live(s) == \/ full
           \/ out_offs <= s /\ s < in_offs
           \/ in_offs < out_offs /\ (out_offs <= s \/ s < in_offs)

(* The inductive invariant.  IndexInv is what makes "full" mean that every *)
(* slot is taken: without it an addition to a full buffer could move the   *)
(* two indices apart and leave live entries outside out_offs .. in_offs.   *)
PointerLiveness == \A s \in Slots : entry[s].buffptr # NULL <=> Live(s)

IInv == TypeOK /\ IndexInv /\ PointerLiveness

LEMMA TotalEntriesRange ==
  ASSUME TypeOK
  PROVE  /\ TotalEntries \in 0..Capacity
         /\ IndexInv => in_offs = Slot(TotalEntries)
<1>1. Capacity \in Nat /\ Capacity > 0
  BY CapacityAssumption
<1>2. TotalEntries \in 0..Capacity
  BY <1>1 DEF TypeOK, TotalEntries, Slots
<1>3. out_offs + TotalEntries \in Nat /\ out_offs + TotalEntries < 2 * Capacity
  BY <1>1, <1>2 DEF TypeOK, Slots
<1>4. Slot(TotalEntries) = IF out_offs + TotalEntries < Capacity
                           THEN out_offs + TotalEntries
                           ELSE (out_offs + TotalEntries) - Capacity
  BY <1>1, <1>3, Remainder DEF Slot
<1>5. IndexInv => in_offs = Slot(TotalEntries)
  BY <1>1, <1>4 DEF TypeOK, IndexInv, TotalEntries, Slots
<1>. QED  BY <1>2, <1>5

(* Where the i-th live entry is.                                           *)
LEMMA SlotValue ==
  ASSUME TypeOK, NEW i \in 0..(Capacity - 1)
  PROVE  /\ Slot(i) \in Slots
         /\ Slot(i) = IF out_offs + i < Capacity THEN out_offs + i
                                                 ELSE (out_offs + i) - Capacity
<1>1. Capacity \in Nat /\ Capacity > 0
  BY CapacityAssumption
<1>2. out_offs + i \in Nat /\ out_offs + i < 2 * Capacity
  BY <1>1 DEF TypeOK, Slots
<1>3. Slot(i) = IF out_offs + i < Capacity THEN out_offs + i
                                           ELSE (out_offs + i) - Capacity
  BY <1>1, <1>2, Remainder DEF Slot
<1>. QED  BY <1>1, <1>2, <1>3 DEF TypeOK, Slots

LEMMA LiveSlotsAreLive ==
  ASSUME TypeOK, IndexInv, NEW s \in Slots
  PROVE  s \in LiveSlots <=> Live(s)
<1>1. Capacity \in Nat /\ Capacity > 0
  BY CapacityAssumption
<1>2. TotalEntries \in 0..Capacity
  BY TotalEntriesRange
<1>3. ASSUME NEW i \in 0..(TotalEntries - 1), s = Slot(i)
      PROVE  Live(s)
  <2>1. i \in 0..(Capacity - 1)
    BY <1>1, <1>2
  <2>2. Slot(i) = IF out_offs + i < Capacity THEN out_offs + i
                                             ELSE (out_offs + i) - Capacity
    BY <2>1, SlotValue
  <2>. QED  BY <1>1, <1>3, <2>2 DEF TypeOK, Live, TotalEntries, Slots
<1>4. ASSUME Live(s)
      PROVE  \E i \in 0..(TotalEntries - 1) : s = Slot(i)
  <2>. DEFINE i == IF out_offs <= s THEN s - out_offs
                                    ELSE s + Capacity - out_offs
  <2>1. i \in 0..(TotalEntries - 1)
    BY <1>1, <1>4 DEF TypeOK, IndexInv, Live, TotalEntries, Slots
  <2>2. i \in 0..(Capacity - 1)
    BY <1>1, <1>2, <2>1
  <2>3. Slot(i) = IF out_offs + i < Capacity THEN out_offs + i
                                             ELSE (out_offs + i) - Capacity
    BY <2>2, SlotValue
  <2>4. s = Slot(i)
    BY <1>1, <2>3 DEF TypeOK, Slots
  <2>. QED  BY <2>1, <2>4
<1>. QED  BY <1>3, <1>4 DEF LiveSlots

(***************************************************************************)
(* The inductive step.  The one slot that changes hands is in_offs for an  *)
(* addition (it was the oldest live one already if the buffer was full)    *)
(* and out_offs for a removal.                                             *)
(***************************************************************************)
LEMMA IInvInit == Init => IInv
<1>. SUFFICES ASSUME Init PROVE IInv
  OBVIOUS
<1>1. 0 \in Slots
  BY CapacityAssumption DEF Slots
<1>2. NullEntry \in Entry
  BY SizeAssumption DEF NullEntry, Entry
<1>3. TypeOK /\ IndexInv
  BY <1>1, <1>2 DEF Init, Zeroed, TypeOK, IndexInv
<1>4. PointerLiveness
  BY DEF Init, Zeroed, PointerLiveness, Live, Slots, NullEntry
<1>. QED  BY <1>3, <1>4 DEF IInv

LEMMA IInvStep ==
  ASSUME IInv, [Next]_vars
  PROVE  IInv'
<1>. USE DEF IInv
<1>0. TypeOK'
  BY TypeStep
<1>1. Capacity \in Nat /\ Capacity > 0
  BY CapacityAssumption
<1>2. CASE aesd_circular_buffer_init
  <2>1. IndexInv'
    BY <1>2 DEF aesd_circular_buffer_init, Zeroed, IndexInv
  <2>2. PointerLiveness'
    BY <1>2 DEF aesd_circular_buffer_init, Zeroed, PointerLiveness, Live,
                Slots, NullEntry
  <2>. QED  BY <1>0, <2>1, <2>2
<1>3. ASSUME NEW e \in Entry, aesd_circular_buffer_add_entry(e)
      PROVE  IInv'
  <2>1. CASE e.buffptr = NULL
    BY <1>0, <1>3, <2>1 DEF aesd_circular_buffer_add_entry, vars, IndexInv,
                            PointerLiveness, Live
  <2>2. CASE e.buffptr # NULL
    <3>1. /\ entry' = [entry EXCEPT ![in_offs] = e]
          /\ out_offs' = IF full THEN Advance(out_offs) ELSE out_offs
          /\ in_offs' = Advance(in_offs)
          /\ full' = (in_offs' = out_offs')
      BY <1>3, <2>2 DEF aesd_circular_buffer_add_entry
    <3>2. IndexInv'
      BY <3>1 DEF IndexInv
    <3>3. /\ Advance(in_offs) = IF in_offs = Capacity - 1 THEN 0 ELSE in_offs + 1
          /\ Advance(out_offs) = IF out_offs = Capacity - 1 THEN 0 ELSE out_offs + 1
      BY AdvanceIsSlot DEF TypeOK
    <3>4. ASSUME NEW s \in Slots
          PROVE  Live(s)' <=> s = in_offs \/ Live(s)
      <4>1. /\ in_offs \in 0..(Capacity - 1) /\ out_offs \in 0..(Capacity - 1)
            /\ s \in 0..(Capacity - 1)
            /\ full => in_offs = out_offs
            /\ full' <=> in_offs' = out_offs'
        BY <3>1 DEF TypeOK, IndexInv, Slots
      <4>2. CASE full
        BY <1>1, <3>1, <3>3, <4>1, <4>2 DEF Live
      <4>3. CASE ~full
        <5>1. out_offs' = out_offs
          BY <3>1, <4>3
        <5>. QED  BY <1>1, <3>1, <3>3, <4>1, <4>3, <5>1 DEF Live
      <4>. QED  BY <4>2, <4>3
    <3>5. ASSUME NEW s \in Slots
          PROVE  entry'[s].buffptr # NULL <=> s = in_offs \/ entry[s].buffptr # NULL
      BY <2>2, <3>1 DEF TypeOK
    <3>6. PointerLiveness'
      BY <3>4, <3>5 DEF PointerLiveness
    <3>. QED  BY <1>0, <3>2, <3>6
  <2>. QED  BY <2>1, <2>2
<1>4. CASE aesd_circular_buffer_remove_entry
  <2>1. CASE Empty
    BY <1>0, <1>4, <2>1 DEF aesd_circular_buffer_remove_entry, vars, IndexInv,
                            PointerLiveness, Live
  <2>2. CASE ~Empty
    <3>1. /\ entry' = [entry EXCEPT ![out_offs] = NullEntry]
          /\ out_offs' = Advance(out_offs)
          /\ full' = FALSE
          /\ in_offs' = in_offs
      BY <1>4, <2>2 DEF aesd_circular_buffer_remove_entry
    <3>2. IndexInv'
      BY <3>1 DEF IndexInv
    <3>3. Advance(out_offs) = IF out_offs = Capacity - 1 THEN 0 ELSE out_offs + 1
      BY AdvanceIsSlot DEF TypeOK
    <3>4. ASSUME NEW s \in Slots
          PROVE  Live(s)' <=> s # out_offs /\ Live(s)
      BY <1>1, <2>2, <3>1, <3>3 DEF TypeOK, IndexInv, Live, Slots, Empty
    <3>5. ASSUME NEW s \in Slots
          PROVE  entry'[s].buffptr # NULL <=> s # out_offs /\ entry[s].buffptr # NULL
      BY <3>1 DEF TypeOK, NullEntry
    <3>6. PointerLiveness'
      BY <3>4, <3>5 DEF PointerLiveness
    <3>. QED  BY <1>0, <3>2, <3>6
  <2>. QED  BY <2>1, <2>2
<1>5. CASE UNCHANGED vars
  BY <1>0, <1>5 DEF vars, IndexInv, PointerLiveness, Live
<1>. QED  BY <1>2, <1>3, <1>4, <1>5 DEF Next

LEMMA IInvCorrect == Spec => []IInv
<1>. QED  BY IInvInit, IInvStep, PTL DEF Spec

(***************************************************************************)
(* The pointers are exactly those of the live entries: the walk over all   *)
(* slots in aesd_cleanup_device and the walk from out_offs in the readers  *)
(* see the same entries.                                                   *)
(***************************************************************************)
THEOREM PointersCorrect == Spec => []PointersAreLive
<1>1. IInv => PointersAreLive
  BY LiveSlotsAreLive DEF IInv, PointerLiveness, PointersAreLive
<1>. QED  BY <1>1, IInvCorrect, PTL

-----------------------------------------------------------------------------

(***************************************************************************)
(* Refinement.  The live entries form a sequence of entries with data, and *)
(* two sequences of the same length with the same elements are equal.      *)
(***************************************************************************)
Element == {e \in Entry : e.buffptr # NULL}

LEMMA ContentsType ==
  ASSUME TypeOK
  PROVE  /\ Contents \in Seq(Entry)
         /\ Len(Contents) = TotalEntries
         /\ \A i \in 1..TotalEntries : Contents[i] = entry[Slot(i - 1)]
<1>1. TotalEntries \in 0..Capacity /\ Capacity \in Nat
  BY TotalEntriesRange, CapacityAssumption
<1>2. \A i \in 1..TotalEntries : entry[Slot(i - 1)] \in Entry
  <2>. TAKE i \in 1..TotalEntries
  <2>1. i - 1 \in 0..(Capacity - 1)
    BY <1>1
  <2>2. Slot(i - 1) \in Slots
    BY <2>1, SlotValue
  <2>. QED  BY <2>2 DEF TypeOK
<1>. QED  BY <1>1, <1>2 DEF Contents

LEMMA AppendIsFunction ==
  ASSUME NEW S, NEW q \in Seq(S), NEW x \in S
  PROVE  Append(q, x) = [i \in 1..(Len(q) + 1) |-> IF i <= Len(q) THEN q[i] ELSE x]
<1>1. /\ Append(q, x) \in Seq(S)
      /\ Len(Append(q, x)) = Len(q) + 1
      /\ \A i \in 1..Len(q) : Append(q, x)[i] = q[i]
      /\ Append(q, x)[Len(q) + 1] = x
  BY AppendProperties
<1>2. Append(q, x) \in [1..(Len(q) + 1) -> S]
  BY <1>1, LenProperties
<1>3. ASSUME NEW i \in 1..(Len(q) + 1)
      PROVE  Append(q, x)[i] = IF i <= Len(q) THEN q[i] ELSE x
  BY <1>1, LenProperties
<1>. QED  BY <1>2, <1>3

(* An addition with room to spare appends. *)
LEMMA AddAppends ==
  ASSUME TypeOK, IndexInv, NEW e \in Entry, e.buffptr # NULL, ~full,
         aesd_circular_buffer_add_entry(e)
  PROVE  Contents' = Append(Contents, e)
<1>. DEFINE n == TotalEntries
<1>0. TypeOK /\ IndexInv
  OBVIOUS
<1>1. Capacity \in Nat /\ Capacity > 0
  BY CapacityAssumption
<1>2. /\ entry' = [entry EXCEPT ![in_offs] = e]
      /\ out_offs' = out_offs
      /\ in_offs' = IF in_offs = Capacity - 1 THEN 0 ELSE in_offs + 1
      /\ full' <=> in_offs' = out_offs
  BY <1>0, AdvanceIsSlot DEF aesd_circular_buffer_add_entry, TypeOK
<1>3. n \in 0..(Capacity - 1) /\ n' = n + 1 /\ in_offs = Slot(n)
  <2>1. in_offs \in 0..(Capacity - 1) /\ out_offs \in 0..(Capacity - 1)
    BY <1>0 DEF TypeOK, Slots
  <2>2. n \in 0..(Capacity - 1)
    BY <1>1, <2>1 DEF TotalEntries
  <2>3. n' = n + 1
    BY <1>1, <1>2, <2>1 DEF TotalEntries
  <2>. QED  BY <1>0, <2>2, <2>3, TotalEntriesRange
<1>4. ASSUME NEW i \in 0..n
      PROVE  /\ Slot(i)' = Slot(i)
             /\ Slot(i) \in Slots
             /\ i # n => Slot(i) # in_offs
  <2>1. i \in 0..(Capacity - 1)
    BY <1>1, <1>3
  <2>2. /\ Slot(i) \in Slots
        /\ Slot(i) = IF out_offs + i < Capacity THEN out_offs + i
                                                ELSE (out_offs + i) - Capacity
    BY <1>0, <2>1, SlotValue
  <2>3. Slot(n) = IF out_offs + n < Capacity THEN out_offs + n
                                            ELSE (out_offs + n) - Capacity
    BY <1>0, <1>3, SlotValue
  <2>4. i # n => Slot(i) # Slot(n)
    BY <1>0, <1>1, <1>3, <2>1, <2>2, <2>3 DEF TypeOK, Slots
  <2>5. Slot(i)' = Slot(i)
    BY <1>2 DEF Slot
  <2>. QED  BY <1>3, <2>2, <2>4, <2>5
<1>5. /\ Contents \in Seq(Entry) /\ Len(Contents) = n
      /\ \A i \in 1..n : Contents[i] = entry[Slot(i - 1)]
  BY <1>0, ContentsType
<1>6. Contents' = [i \in 1..(n + 1) |-> entry'[Slot(i - 1)']]
  BY <1>3 DEF Contents
<1>7. ASSUME NEW i \in 1..(n + 1)
      PROVE  entry'[Slot(i - 1)'] = IF i <= n THEN Contents[i] ELSE e
  <2>1. i - 1 \in 0..n
    BY <1>3
  <2>2. /\ Slot(i - 1)' = Slot(i - 1) /\ Slot(i - 1) \in Slots
        /\ i - 1 # n => Slot(i - 1) # in_offs
    BY <1>4, <2>1
  <2>3. CASE i <= n
    <3>1. i - 1 # n /\ i \in 1..n
      BY <1>3, <2>3
    <3>. QED  BY <1>0, <1>2, <1>5, <2>2, <2>3, <3>1 DEF TypeOK
  <2>4. CASE ~(i <= n)
    <3>1. i - 1 = n
      BY <1>3, <2>4
    <3>. QED  BY <1>0, <1>2, <1>3, <2>2, <2>4, <3>1 DEF TypeOK
  <2>. QED  BY <2>3, <2>4
<1>8. Append(Contents, e) = [i \in 1..(n + 1) |-> IF i <= n THEN Contents[i] ELSE e]
  BY <1>5, AppendIsFunction
<1>. QED  BY <1>6, <1>7, <1>8

LEMMA TailIsFunction ==
  ASSUME NEW S, NEW q \in Seq(S), Len(q) > 0
  PROVE  Tail(q) = [i \in 1..(Len(q) - 1) |-> q[i + 1]]
<1>1. q # <<>>
  BY EmptySeq
<1>2. /\ Tail(q) \in Seq(S)
      /\ Len(Tail(q)) = Len(q) - 1
      /\ \A i \in 1..Len(Tail(q)) : Tail(q)[i] = q[i + 1]
  BY <1>1, HeadTailProperties
<1>3. Tail(q) \in [1..(Len(q) - 1) -> S]
  BY <1>2, LenProperties
<1>. QED  BY <1>2, <1>3

(* The live slots after the oldest: those of the buffer one place on.      *)
LEMMA SlotShift ==
  ASSUME TypeOK, NEW o \in Slots, o = Advance(out_offs),
         NEW i \in 0..(Capacity - 2)
  PROVE  /\ (o + i) % Capacity = Slot(i + 1)
         /\ Slot(i + 1) \in Slots
         /\ Slot(i + 1) # out_offs
<1>1. Capacity \in Nat /\ Capacity > 0
  BY CapacityAssumption
<1>2. o = IF out_offs = Capacity - 1 THEN 0 ELSE out_offs + 1
  BY AdvanceIsSlot DEF TypeOK
<1>3. o + i \in Nat /\ o + i < 2 * Capacity
  BY <1>1 DEF Slots
<1>4. (o + i) % Capacity = IF o + i < Capacity THEN o + i ELSE (o + i) - Capacity
  BY <1>3, Remainder
<1>5. i + 1 \in 0..(Capacity - 1)
  BY <1>1
<1>6. /\ Slot(i + 1) \in Slots
      /\ Slot(i + 1) = IF out_offs + (i + 1) < Capacity
                       THEN out_offs + (i + 1)
                       ELSE (out_offs + (i + 1)) - Capacity
  BY <1>5, SlotValue
<1>. QED  BY <1>1, <1>2, <1>4, <1>6 DEF TypeOK, Slots

(* A removal takes the oldest entry off, and so does the overwriting half  *)
(* of an addition to a full buffer, before the new entry goes last.        *)
LEMMA RemoveTails ==
  ASSUME IInv, ~Empty, aesd_circular_buffer_remove_entry
  PROVE  Contents # <<>> /\ Contents' = Tail(Contents)
<1>. DEFINE n == TotalEntries
<1>0. TypeOK /\ IndexInv
  BY DEF IInv
<1>1. Capacity \in Nat /\ Capacity > 0
  BY CapacityAssumption
<1>2. /\ entry' = [entry EXCEPT ![out_offs] = NullEntry]
      /\ out_offs' = Advance(out_offs)
      /\ in_offs' = in_offs
      /\ ~full'
      /\ out_offs' \in Slots
      /\ out_offs' = IF out_offs = Capacity - 1 THEN 0 ELSE out_offs + 1
  BY <1>0, AdvanceIsSlot DEF aesd_circular_buffer_remove_entry, TypeOK
<1>3. n \in 1..Capacity /\ n' = n - 1
  <2>1. in_offs \in 0..(Capacity - 1) /\ out_offs \in 0..(Capacity - 1)
    BY <1>0 DEF TypeOK, Slots
  <2>2. CASE full
    BY <1>0, <1>1, <1>2, <2>1, <2>2 DEF TotalEntries, IndexInv
  <2>3. CASE ~full
    <3>1. in_offs # out_offs
      BY <2>3 DEF Empty
    <3>2. CASE in_offs > out_offs
      BY <1>1, <1>2, <2>1, <2>3, <3>2 DEF TotalEntries
    <3>3. CASE in_offs < out_offs
      BY <1>1, <1>2, <2>1, <2>3, <3>3 DEF TotalEntries
    <3>. QED  BY <2>1, <3>1, <3>2, <3>3
  <2>. QED  BY <2>2, <2>3
<1>4. /\ Contents \in Seq(Entry) /\ Len(Contents) = n
      /\ \A i \in 1..n : Contents[i] = entry[Slot(i - 1)]
  BY <1>0, ContentsType
<1>5. Contents' = [i \in 1..(n - 1) |-> entry'[(out_offs' + (i - 1)) % Capacity]]
  BY <1>3 DEF Contents, Slot
<1>6. ASSUME NEW i \in 1..(n - 1)
      PROVE  entry'[(out_offs' + (i - 1)) % Capacity] = Contents[i + 1]
  <2>1. i - 1 \in 0..(Capacity - 2) /\ (i - 1) + 1 = i /\ i + 1 \in 1..n
        /\ (i + 1) - 1 = i
    BY <1>1, <1>3
  <2>2. /\ (out_offs' + (i - 1)) % Capacity = Slot(i)
        /\ Slot(i) \in Slots
        /\ Slot(i) # out_offs
    BY <1>0, <1>2, <2>1, SlotShift
  <2>3. Contents[i + 1] = entry[Slot(i)]
    BY <1>4, <2>1
  <2>. QED  BY <1>0, <1>2, <2>2, <2>3 DEF TypeOK
<1>7. Tail(Contents) = [i \in 1..(n - 1) |-> Contents[i + 1]]
  BY <1>3, <1>4, TailIsFunction
<1>8. Contents # <<>>
  BY <1>3, <1>4
<1>. QED  BY <1>5, <1>6, <1>7, <1>8

LEMMA AddReplacesOldest ==
  ASSUME TypeOK, IndexInv, NEW e \in Entry, e.buffptr # NULL, full,
         aesd_circular_buffer_add_entry(e)
  PROVE  /\ Len(Contents) = Capacity
         /\ Contents' = Append(Tail(Contents), e)
<1>0. TypeOK /\ IndexInv /\ in_offs = out_offs /\ TotalEntries = Capacity
  BY DEF IndexInv, TotalEntries
<1>1. Capacity \in Nat /\ Capacity > 0
  BY CapacityAssumption
<1>2. /\ entry' = [entry EXCEPT ![out_offs] = e]
      /\ out_offs' = Advance(out_offs)
      /\ in_offs' = Advance(out_offs)
      /\ full'
      /\ out_offs' \in Slots
  BY <1>0, AdvanceIsSlot DEF aesd_circular_buffer_add_entry, TypeOK
<1>3. /\ Contents \in Seq(Entry) /\ Len(Contents) = Capacity
      /\ \A i \in 1..Capacity : Contents[i] = entry[Slot(i - 1)]
  BY <1>0, ContentsType
<1>4. Contents' = [i \in 1..Capacity |-> entry'[(out_offs' + (i - 1)) % Capacity]]
  BY <1>2 DEF Contents, Slot, TotalEntries
<1>5. ASSUME NEW i \in 1..(Capacity - 1)
      PROVE  entry'[(out_offs' + (i - 1)) % Capacity] = Contents[i + 1]
  <2>1. i - 1 \in 0..(Capacity - 2) /\ (i - 1) + 1 = i
        /\ i + 1 \in 1..Capacity /\ (i + 1) - 1 = i
    BY <1>1
  <2>2. /\ (out_offs' + (i - 1)) % Capacity = Slot(i)
        /\ Slot(i) \in Slots
        /\ Slot(i) # out_offs
    BY <1>0, <1>2, <2>1, SlotShift
  <2>3. Contents[i + 1] = entry[Slot(i)]
    BY <1>3, <2>1
  <2>. QED  BY <1>0, <1>2, <2>2, <2>3 DEF TypeOK
<1>6. entry'[(out_offs' + (Capacity - 1)) % Capacity] = e
  <2>. DEFINE o == out_offs'
  <2>1. o = IF out_offs = Capacity - 1 THEN 0 ELSE out_offs + 1
    BY <1>0, <1>2, AdvanceIsSlot DEF TypeOK
  <2>2. o + (Capacity - 1) \in Nat /\ o + (Capacity - 1) < 2 * Capacity
    BY <1>1, <1>2 DEF Slots
  <2>3. (o + (Capacity - 1)) % Capacity =
          IF o + (Capacity - 1) < Capacity THEN o + (Capacity - 1)
                                           ELSE (o + (Capacity - 1)) - Capacity
    BY <2>2, Remainder
  <2>4. (o + (Capacity - 1)) % Capacity = out_offs
    BY <1>0, <1>1, <2>1, <2>3 DEF TypeOK, Slots
  <2>. QED  BY <1>0, <1>2, <2>4 DEF TypeOK
<1>7. /\ Tail(Contents) \in Seq(Entry)
      /\ Len(Tail(Contents)) = Capacity - 1
      /\ \A i \in 1..(Capacity - 1) : Tail(Contents)[i] = Contents[i + 1]
  BY <1>1, <1>3, EmptySeq, HeadTailProperties
<1>8. Append(Tail(Contents), e) =
        [i \in 1..Capacity |-> IF i <= Capacity - 1 THEN Contents[i + 1] ELSE e]
  <2>1. Append(Tail(Contents), e) =
          [i \in 1..(Len(Tail(Contents)) + 1) |->
             IF i <= Len(Tail(Contents)) THEN Tail(Contents)[i] ELSE e]
    <3>. DEFINE t == Tail(Contents)
    <3>1. t \in Seq(Entry)
      BY <1>7
    <3>. HIDE DEF t
    <3>2. Append(t, e) = [i \in 1..(Len(t) + 1) |-> IF i <= Len(t) THEN t[i] ELSE e]
      BY <3>1, AppendIsFunction
    <3>. QED  BY <3>2 DEF t
  <2>2. Len(Tail(Contents)) + 1 = Capacity
    BY <1>1, <1>7
  <2>3. \A i \in 1..Capacity : i <= Capacity - 1 => i \in 1..(Capacity - 1)
    BY <1>1
  <2>. QED  BY <1>7, <2>1, <2>2, <2>3
<1>9. ASSUME NEW i \in 1..Capacity
      PROVE  entry'[(out_offs' + (i - 1)) % Capacity] =
               IF i <= Capacity - 1 THEN Contents[i + 1] ELSE e
  <2>1. CASE i <= Capacity - 1
    BY <1>1, <1>5, <2>1
  <2>2. CASE ~(i <= Capacity - 1)
    <3>1. i = Capacity
      BY <1>1, <2>2
    <3>. QED  BY <1>6, <2>2, <3>1
  <2>. QED  BY <2>1, <2>2
<1>. QED  BY <1>3, <1>4, <1>8, <1>9

LEMMA LogInit == Init => Log!Init
<1>. SUFFICES ASSUME Init PROVE Contents = <<>>
  BY DEF Log!Init
<1>1. TotalEntries = 0
  BY DEF Init, Zeroed, TotalEntries
<1>. QED  BY <1>1 DEF Contents

LEMMA LogStep ==
  ASSUME IInv, [Next]_vars
  PROVE  [Log!Next]_Contents
<1>0. TypeOK /\ IndexInv
  BY DEF IInv
<1>1. CASE aesd_circular_buffer_init
  <2>1. TotalEntries' = 0
    BY <1>1 DEF aesd_circular_buffer_init, Zeroed, TotalEntries
  <2>2. Contents' = <<>>
    BY <2>1 DEF Contents
  <2>. QED  BY <2>2 DEF Log!Next, Log!Clear
<1>2. ASSUME NEW e \in Entry, aesd_circular_buffer_add_entry(e)
      PROVE  [Log!Next]_Contents
  <2>1. CASE e.buffptr = NULL
    BY <1>2, <2>1 DEF aesd_circular_buffer_add_entry, vars, Contents,
                      TotalEntries, Slot
  <2>2. CASE e.buffptr # NULL
    <3>1. Contents' = Log!Pushed(e)
      <4>1. CASE full
        BY <1>0, <1>2, <2>2, <4>1, AddReplacesOldest DEF Log!Pushed
      <4>2. CASE ~full
        <5>1. Len(Contents) # Capacity
          BY <1>0, <4>2, ContentsType, CapacityAssumption
             DEF TypeOK, TotalEntries, Slots
        <5>. QED  BY <1>0, <1>2, <2>2, <4>2, <5>1, AddAppends DEF Log!Pushed
      <4>. QED  BY <4>1, <4>2
    <3>. QED  BY <1>2, <2>2, <3>1 DEF Log!Next, Log!Push
  <2>. QED  BY <2>1, <2>2
<1>3. CASE aesd_circular_buffer_remove_entry
  <2>1. CASE Empty
    BY <1>3, <2>1 DEF aesd_circular_buffer_remove_entry, vars, Contents,
                      TotalEntries, Slot
  <2>2. CASE ~Empty
    BY <1>3, <2>2, RemoveTails DEF Log!Next, Log!DropOldest
  <2>. QED  BY <2>1, <2>2
<1>4. CASE UNCHANGED vars
  BY <1>4 DEF vars, Contents, TotalEntries, Slot
<1>. QED  BY <1>1, <1>2, <1>3, <1>4 DEF Next

(***************************************************************************)
(* The buffer implements the bounded first-in first-out log: every entry   *)
(* with data goes in behind the others, the oldest one makes way when      *)
(* there is no room, and a removal takes the oldest one, wherever the two  *)
(* indices are in the array.                                               *)
(***************************************************************************)
THEOREM BufferImplementsLog == Spec => ImplementsCommandLog
<1>. QED  BY LogInit, LogStep, IInvCorrect, PTL
          DEF Spec, ImplementsCommandLog, Log!Spec

-----------------------------------------------------------------------------

(***************************************************************************)
(* The search.  What StartOf says is known once its equation is: the sizes *)
(* of the live entries are summed in order, and so the starts only grow.   *)
(***************************************************************************)
LEMMA StartOfUnfolds ==
  ASSUME TypeOK
  PROVE  /\ StartOf(0) = 0
         /\ \A n \in 1..Capacity : /\ entry[Slot(n - 1)].size \in Nat
                                   /\ StartOf(n) = StartOf(n - 1) + entry[Slot(n - 1)].size
         /\ \A n \in 0..Capacity : StartOf(n) \in Nat
<1>. DEFINE Is(f) == f = [n \in 0..Capacity |->
                            IF n = 0 THEN 0 ELSE f[n - 1] + entry[Slot(n - 1)].size]
            pos == CHOOSE f : Is(f)
            size == [n \in 1..Capacity |-> entry[Slot(n - 1)].size]
<1>1. Capacity \in Nat /\ 0 \in 0..Capacity
  BY CapacityAssumption
<1>2. \A n \in 1..Capacity : entry[Slot(n - 1)].size \in Nat
  <2>. TAKE n \in 1..Capacity
  <2>1. n - 1 \in 0..(Capacity - 1)
    BY <1>1
  <2>2. Slot(n - 1) \in Slots
    BY <2>1, SlotValue
  <2>. QED  BY <2>2, SizeAssumption DEF TypeOK, Entry
<1>3. size \in [1..Capacity -> Nat]
  BY <1>2
<1>4. PICK g \in [0..Capacity -> Nat] :
        g[0] = 0 /\ \A n \in 1..Capacity : g[n] = g[n - 1] + size[n]
  <2>. HIDE DEF size
  <2>. QED  BY ONLY <1>1, <1>3, SumsExist
<1>5. \A n \in 0..Capacity : n # 0 => n \in 1..Capacity /\ n - 1 \in 0..Capacity
  BY <1>1
<1>6. ASSUME NEW n \in 0..Capacity
      PROVE  g[n] = IF n = 0 THEN 0 ELSE g[n - 1] + entry[Slot(n - 1)].size
  BY <1>4, <1>5
<1>7. Is(g)
  <2>. HIDE DEF size
  <2>. QED  BY <1>6
<1>8. Is(pos)
  <2>. HIDE DEF Is
  <2>. QED  BY <1>7
<1>9. \A n \in 0..Capacity : pos[n] = IF n = 0 THEN 0 ELSE pos[n - 1] + entry[Slot(n - 1)].size
  <2>. HIDE DEF pos
  <2>. QED  BY <1>8
<1>10. \A n \in 0..Capacity : StartOf(n) = pos[n]
  BY DEF StartOf
<1>. HIDE DEF pos, size, Is
<1>11. StartOf(0) = 0
  BY <1>1, <1>9, <1>10
<1>12. ASSUME NEW n \in 1..Capacity
       PROVE  StartOf(n) = StartOf(n - 1) + entry[Slot(n - 1)].size
  <2>1. n \in 0..Capacity /\ n - 1 \in 0..Capacity /\ n # 0
    BY <1>1
  <2>. QED  BY <1>9, <1>10, <2>1
<1>13. \A n \in 0..Capacity : StartOf(n) \in Nat
  <2>. DEFINE T == {n \in 0..Capacity : StartOf(n) \in Nat}
  <2>1. 0 \in T
    BY <1>1, <1>11
  <2>2. ASSUME NEW n \in 1..Capacity, n - 1 \in T PROVE n \in T
    <3>1. n \in 0..Capacity
      BY <1>1
    <3>. QED  BY <3>1, <2>2, <1>2, <1>12
  <2>3. 0..Capacity \subseteq T
    <3>. HIDE DEF T
    <3>. QED  BY ONLY <1>1, <2>1, <2>2, BoundedInduction
  <2>. QED  BY <2>3
<1>. QED  BY <1>2, <1>11, <1>12, <1>13

LEMMA StartOfGrows ==
  ASSUME TypeOK, NEW i \in 0..Capacity, NEW j \in i..Capacity
  PROVE  StartOf(i) <= StartOf(j)
<1>. DEFINE g == [n \in 0..Capacity |-> StartOf(n)]
            size == [n \in 1..Capacity |-> entry[Slot(n - 1)].size]
<1>1. Capacity \in Nat /\ i \in 0..Capacity /\ j \in 0..Capacity
  BY CapacityAssumption
<1>2. \A n \in 0..Capacity : g[n] \in Nat
  BY StartOfUnfolds
<1>3. \A n \in 1..Capacity : size[n] \in Nat /\ g[n] = g[n - 1] + size[n]
  <2>1. \A n \in 1..Capacity : n \in 0..Capacity /\ n - 1 \in 0..Capacity
    BY <1>1
  <2>. QED  BY <2>1, StartOfUnfolds
<1>4. g[i] <= g[j]
  <2>1. i \in 0..Capacity /\ j \in i..Capacity
    OBVIOUS
  <2>. HIDE DEF g, size
  <2>. QED  BY ONLY <1>1, <1>2, <1>3, <2>1, SumsGrow
<1>. QED  BY <1>1, <1>4

(* The bytes of the live entries, one sequence for each entry.             *)
Place == [slot : Slots, offset : Nat]
Pieces == [i \in 1..TotalEntries |->
             [k \in 1..entry[Slot(i - 1)].size |->
                [slot |-> Slot(i - 1), offset |-> k - 1]]]

LEMMA PiecesType ==
  ASSUME TypeOK
  PROVE  /\ Pieces \in Seq(Seq(Place))
         /\ Len(Pieces) = TotalEntries
         /\ \A i \in 1..TotalEntries : Len(Pieces[i]) = entry[Slot(i - 1)].size
<1>1. TotalEntries \in 0..Capacity /\ Capacity \in Nat
  BY TotalEntriesRange, CapacityAssumption
<1>2. ASSUME NEW i \in 1..TotalEntries
      PROVE  /\ Pieces[i] \in Seq(Place)
             /\ Len(Pieces[i]) = entry[Slot(i - 1)].size
  <2>1. i - 1 \in 0..(Capacity - 1) /\ i \in 1..Capacity
    BY <1>1
  <2>2. Slot(i - 1) \in Slots
    BY <2>1, SlotValue
  <2>3. entry[Slot(i - 1)].size \in Nat
    BY <2>1, StartOfUnfolds
  <2>4. Pieces[i] = [k \in 1..entry[Slot(i - 1)].size |->
                       [slot |-> Slot(i - 1), offset |-> k - 1]]
    BY DEF Pieces
  <2>5. \A k \in 1..entry[Slot(i - 1)].size :
          [slot |-> Slot(i - 1), offset |-> k - 1] \in Place
    BY <2>2, <2>3 DEF Place
  <2>. QED  BY <2>3, <2>4, <2>5
<1>3. \A i \in 1..TotalEntries : Pieces[i] \in Seq(Place)
  BY <1>2
<1>4. Pieces = [i \in 1..TotalEntries |-> Pieces[i]]
  BY DEF Pieces
<1>5. TotalEntries \in Nat
  BY ONLY <1>1
<1>6. Pieces \in Seq(Seq(Place)) /\ Len(Pieces) = TotalEntries
  <2>. DEFINE P == Pieces
              n == TotalEntries
  <2>1. n \in Nat /\ P = [i \in 1..n |-> P[i]] /\ \A i \in 1..n : P[i] \in Seq(Place)
    BY <1>3, <1>4, <1>5
  <2>. HIDE DEF P, n
  <2>2. P \in Seq(Seq(Place)) /\ Len(P) = n
    BY ONLY <2>1
  <2>. QED  BY <2>2 DEF P, n
<1>. QED  BY <1>2, <1>6

(* An entry's bytes begin in the log where StartOf says.                   *)
LEMMA StartIsLength ==
  ASSUME TypeOK, NEW i \in 0..TotalEntries
  PROVE  Len(Upto(Pieces, i)) = StartOf(i)
<1>. DEFINE n == TotalEntries
            T == {k \in 0..n : Len(Upto(Pieces, k)) = StartOf(k)}
<1>1. n \in Nat /\ Capacity \in Nat /\ n <= Capacity /\ n \in 0..Capacity
  BY TotalEntriesRange, CapacityAssumption
<1>2. Pieces \in Seq(Seq(Place)) /\ Len(Pieces) = n
  BY PiecesType
<1>3. Upto(Pieces, 0) = <<>>
  BY ONLY <1>2, FlattenUnfolds
<1>4. 0 \in T
  BY <1>1, <1>3, StartOfUnfolds
<1>5. ASSUME NEW k \in 1..n, k - 1 \in T PROVE k \in T
  <2>1. k \in 0..n /\ k \in 1..Capacity
    BY <1>1
  <2>2. ElementIsThere(Place, Pieces, k)
    <3>1. k \in 1..Len(Pieces)
      BY <1>2
    <3>2. Pieces \in Seq(Seq(Place))
      BY <1>2
    <3>. QED  BY ONLY <3>1, <3>2, FlattenElement
  <2>3. Len(Upto(Pieces, k)) = Len(Upto(Pieces, k - 1)) + Len(Pieces[k])
    BY ONLY <2>2 DEF ElementIsThere
  <2>4. Len(Pieces[k]) = entry[Slot(k - 1)].size
    BY PiecesType
  <2>5. StartOf(k) = StartOf(k - 1) + entry[Slot(k - 1)].size
    BY <2>1, StartOfUnfolds
  <2>6. Len(Upto(Pieces, k - 1)) = StartOf(k - 1)
    BY <1>5
  <2>. QED  BY <2>1, <2>3, <2>4, <2>5, <2>6
<1>6. 0..n \subseteq T
  <2>. HIDE DEF T, n
  <2>. QED  BY ONLY <1>1, <1>4, <1>5, BoundedInduction
<1>. QED  BY <1>6

(***************************************************************************)
(* The search stops at the first entry that ends beyond the position.      *)
(* Since the starts only grow, that is the entry the position is in, and   *)
(* there is none exactly if the position is beyond them all.               *)
(***************************************************************************)
LEMMA FindsEntry ==
  ASSUME TypeOK, NEW pos \in Nat
  PROVE  \/ /\ aesd_circular_buffer_find_entry_offset_for_fpos(pos) = NULL
            /\ StartOf(TotalEntries) <= pos
         \/ \E i \in 0..(TotalEntries - 1) :
              /\ aesd_circular_buffer_find_entry_offset_for_fpos(pos)
                   = [slot |-> Slot(i), offset |-> pos - StartOf(i)]
              /\ StartOf(i) <= pos
              /\ pos < StartOf(i + 1)
<1>. DEFINE n == TotalEntries
            ends == {i \in 0..(n - 1) : pos < StartOf(i + 1)}
            least == CHOOSE i \in ends : \A j \in ends : i <= j
<1>1. n \in Nat /\ Capacity \in Nat /\ n <= Capacity
  BY TotalEntriesRange, CapacityAssumption
<1>2. \A i \in 0..n : StartOf(i) \in Nat
  BY <1>1, StartOfUnfolds
<1>3. StartOf(0) = 0
  BY StartOfUnfolds
<1>4. \A i \in 1..n : i - 1 \in 0..(n - 1) /\ (i - 1) + 1 = i /\ i \in 0..n
  BY <1>1
<1>5. CASE ends = {}
  <2>1. aesd_circular_buffer_find_entry_offset_for_fpos(pos) = NULL
    BY <1>5 DEF aesd_circular_buffer_find_entry_offset_for_fpos
  <2>2. CASE n = 0
    BY <1>3, <2>1, <2>2
  <2>3. CASE n # 0
    <3>1. n \in 1..n
      BY <1>1, <2>3
    <3>2. ~(pos < StartOf(n)) /\ StartOf(n) \in Nat
      BY <1>2, <1>4, <1>5, <3>1
    <3>. QED  BY <2>1, <3>2
  <2>. QED  BY <2>2, <2>3
<1>6. CASE ends # {}
  <2>1. least \in ends /\ \A j \in ends : least <= j
    <3>1. ends \subseteq Nat
      BY <1>1
    <3>. HIDE DEF ends
    <3>2. \E i \in ends : \A j \in ends : i <= j
      BY <1>6, <3>1, MinIsLeast
    <3>. QED  BY <3>2
  <2>2. aesd_circular_buffer_find_entry_offset_for_fpos(pos)
          = [slot |-> Slot(least), offset |-> pos - StartOf(least)]
    BY <1>6 DEF aesd_circular_buffer_find_entry_offset_for_fpos
  <2>. HIDE DEF least
  <2>3. least \in 0..(n - 1) /\ pos < StartOf(least + 1) /\ least \in 0..n
    BY <1>1, <2>1
  <2>4. StartOf(least) <= pos
    <3>1. CASE least = 0
      BY <1>3, <3>1
    <3>2. CASE least # 0
      <4>1. least \in 1..n /\ ~(least <= least - 1)
        BY <1>1, <2>3, <3>2
      <4>2. least - 1 \notin ends
        BY <2>1, <4>1
      <4>3. ~(pos < StartOf(least))
        BY <1>4, <4>1, <4>2
      <4>. QED  BY <1>2, <2>3, <4>3
    <3>. QED  BY <3>1, <3>2
  <2>. QED  BY <2>2, <2>3, <2>4
<1>. QED  BY <1>5, <1>6

(* The flat file ends where the last entry does.                           *)
LEMMA EveryByteEnds ==
  ASSUME TypeOK
  PROVE  Len(EveryByte) = StartOf(TotalEntries) /\ StartOf(TotalEntries) \in Nat
<1>. DEFINE n == TotalEntries
<1>1. n \in 0..n /\ n \in 0..Capacity
  BY TotalEntriesRange, CapacityAssumption
<1>2. Pieces \in Seq(Seq(Place)) /\ Len(Pieces) = n /\ EveryByte = FlattenSeq(Pieces)
  BY PiecesType DEF EveryByte, Pieces
<1>3. Upto(Pieces, n) = EveryByte
  <2>1. Upto(Pieces, Len(Pieces)) = FlattenSeq(Pieces)
    BY ONLY <1>2, FlattenUnfolds
  <2>. QED  BY <1>2, <2>1
<1>. QED  BY <1>1, <1>3, StartIsLength, StartOfUnfolds

(* The byte that is found is the one the flat file has at the position.    *)
LEMMA FindsTheByte ==
  ASSUME TypeOK, NEW pos \in Nat, pos < Len(EveryByte)
  PROVE  aesd_circular_buffer_find_entry_offset_for_fpos(pos) = EveryByte[pos + 1]
<1>. DEFINE n == TotalEntries
            find == aesd_circular_buffer_find_entry_offset_for_fpos(pos)
<1>1. n \in Nat /\ Capacity \in Nat /\ n <= Capacity
  BY TotalEntriesRange, CapacityAssumption
<1>2. Pieces \in Seq(Seq(Place)) /\ Len(Pieces) = n /\ EveryByte = FlattenSeq(Pieces)
  BY PiecesType DEF EveryByte, Pieces
<1>3. PICK i \in 1..n : /\ find = [slot |-> Slot(i - 1), offset |-> pos - StartOf(i - 1)]
                        /\ StartOf(i - 1) <= pos /\ pos < StartOf(i)
  <2>1. ~(StartOf(n) <= pos)
    BY EveryByteEnds
  <2>2. \A j \in 0..(n - 1) : j + 1 \in 1..n /\ (j + 1) - 1 = j
    BY <1>1
  <2>3. \E j \in 0..(n - 1) : /\ find = [slot |-> Slot(j), offset |-> pos - StartOf(j)]
                              /\ StartOf(j) <= pos /\ pos < StartOf(j + 1)
    BY <2>1, FindsEntry
  <2>. HIDE DEF n, find
  <2>. QED  BY <2>2, <2>3
<1>. HIDE DEF find
<1>4. /\ i - 1 \in 0..n /\ i \in 1..Capacity /\ i - 1 \in 0..Capacity
  BY <1>1
<1>5. StartOf(i - 1) <= pos /\ pos < StartOf(i) /\ StartOf(i - 1) \in Nat
  BY <1>3, <1>4, StartOfUnfolds
<1>10. ElementIsThere(Place, Pieces, i)
  <2>1. i \in 1..Len(Pieces) /\ Pieces \in Seq(Seq(Place))
    BY <1>2
  <2>. QED  BY ONLY <2>1, FlattenElement
<1>. DEFINE k == pos - StartOf(i - 1) + 1
<1>11. k \in 1..entry[Slot(i - 1)].size
  BY <1>4, <1>5, StartOfUnfolds
<1>12. Len(Upto(Pieces, i - 1)) = StartOf(i - 1) /\ Len(Pieces[i]) = entry[Slot(i - 1)].size
  BY <1>4, StartIsLength, PiecesType
<1>13. FlattenSeq(Pieces)[StartOf(i - 1) + k] = Pieces[i][k]
  <2>. HIDE DEF k
  <2>1. \A x \in 1..Len(Pieces[i]) :
          FlattenSeq(Pieces)[Len(Upto(Pieces, i - 1)) + x] = Pieces[i][x]
    BY ONLY <1>10 DEF ElementIsThere
  <2>. QED  BY ONLY <2>1, <1>11, <1>12
<1>14. Pieces[i][k] = [slot |-> Slot(i - 1), offset |-> k - 1]
  <2>. HIDE DEF k
  <2>. QED  BY <1>11 DEF Pieces
<1>15. StartOf(i - 1) + k = pos + 1 /\ k - 1 = pos - StartOf(i - 1)
  BY <1>5
<1>. HIDE DEF k
<1>16. find = EveryByte[pos + 1]
  BY ONLY <1>2, <1>3, <1>13, <1>14, <1>15
<1>. QED  BY <1>16 DEF find

LEMMA FindsNothingBeyond ==
  ASSUME TypeOK, NEW pos \in Nat, ~(pos < Len(EveryByte))
  PROVE  aesd_circular_buffer_find_entry_offset_for_fpos(pos) = NULL
<1>. DEFINE n == TotalEntries
<1>1. n \in 0..Capacity /\ Capacity \in Nat
  BY TotalEntriesRange, CapacityAssumption
<1>2. ASSUME NEW i \in 0..(n - 1) PROVE ~(pos < StartOf(i + 1))
  <2>1. i + 1 \in 0..Capacity /\ n \in (i + 1)..Capacity
    BY <1>1
  <2>2. StartOf(i + 1) <= StartOf(n) /\ StartOf(i + 1) \in Nat /\ StartOf(n) \in Nat
    BY <1>1, <2>1, StartOfGrows, StartOfUnfolds
  <2>. QED  BY EveryByteEnds, <2>2
<1>. QED  BY <1>2 DEF aesd_circular_buffer_find_entry_offset_for_fpos

(***************************************************************************)
(* aesd_circular_buffer_find_entry_offset_for_fpos agrees with the flat    *)
(* file that the live entries make up, in every state of the buffer.       *)
(***************************************************************************)
THEOREM FindCorrect == Spec => []FindIsByteLookup
<1>1. TypeOK => FindIsByteLookup
  <2>1. SUFFICES ASSUME TypeOK, NEW pos \in 0..(TotalSize + 1)
                 PROVE  aesd_circular_buffer_find_entry_offset_for_fpos(pos) =
                          IF pos < Len(EveryByte) THEN EveryByte[pos + 1] ELSE NULL
    BY DEF FindIsByteLookup
  <2>2. pos \in Nat
    <3>1. TotalEntries \in 0..Capacity
      BY <2>1, TotalEntriesRange
    <3>2. TotalSize \in Nat
      BY <2>1, <3>1, StartOfUnfolds DEF TotalSize
    <3>. QED  BY <2>1, <3>2
  <2>. QED  BY <2>1, <2>2, FindsTheByte, FindsNothingBeyond
<1>. QED  BY <1>1, TypeCorrect, PTL

=============================================================================
