----------------------------- MODULE MCExamples -----------------------------
(***************************************************************************)
(* Model-checking instances of the examples: two calls of Systemcalls one  *)
(* after the other, or three threads of Threading.                         *)
(***************************************************************************)
EXTENDS MCSystemcalls, Examples

CONSTANTS t1, t2, t3
ThreeThreads == {t1, t2, t3}

-----------------------------------------------------------------------------
VARIABLE program

MCInit == Init /\ Threads!Init /\ program \in {"systemcalls", "threading"}

MCNext == \/ program = "systemcalls" /\ Next /\ UNCHANGED <<program, threadVars>>
          \/ program = "threading" /\ Threads!Next /\ UNCHANGED <<program, vars>>

MCSpec == /\ MCInit
          /\ [][MCNext]_<<program, vars, threadVars>>
          /\ program = "threading" => Threads!Fairness
=============================================================================
