----------------------------- MODULE CommandLog -----------------------------
(***************************************************************************)
(* The promise of the aesdchar command store, with no trace of the array,  *)
(* the two indices and the flag that implement it: a first-in first-out    *)
(* log of at most Capacity entries, in which a new entry pushes out the    *)
(* oldest one when there is no room left, and nothing else ever does.      *)
(***************************************************************************)
EXTENDS Naturals, Sequences

CONSTANTS Capacity,  \* AESDCHAR_MAX_WRITE_OPERATIONS_SUPPORTED
          Element    \* what one place of the log holds

VARIABLE log         \* oldest entry first

Init == log = <<>>

(* The log after e arrives: the newest Capacity entries of log \o <<e>>.   *)
Pushed(e) == IF Len(log) = Capacity THEN Append(Tail(log), e)
                                    ELSE Append(log, e)

Push(e) == log' = Pushed(e)

DropOldest == log # <<>> /\ log' = Tail(log)

Clear == log' = <<>>

Next == \/ \E e \in Element : Push(e)
        \/ DropOldest
        \/ Clear

Spec == Init /\ [][Next]_log

=============================================================================
