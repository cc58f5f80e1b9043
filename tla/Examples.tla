------------------------------ MODULE Examples ------------------------------
(***************************************************************************)
(* The two examples beside each other: the caller of Systemcalls, and the  *)
(* threads of Threading, which are a program of their own.                 *)
(***************************************************************************)
EXTENDS Systemcalls

CONSTANTS Thread,   \* the threads that are started
          Nobody    \* who holds a mutex that is free

ASSUME NobodyAssumption == Nobody \notin Thread

VARIABLES tpc, data, success, tresult, mutex
threadVars == <<tpc, data, success, tresult, mutex>>
Threads == INSTANCE Threading WITH NULL <- Nobody, pc <- tpc, result <- tresult

-----------------------------------------------------------------------------
(* The property of the module that is instantiated.                        *)

(* Threads that were started finish (threadfunc).                          *)
ThreadsFinish == Threads!ThreadsFinish
=============================================================================
