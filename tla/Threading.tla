----------------------------- MODULE Threading ------------------------------
(***************************************************************************)
(* src/examples/threading: threads that sleep, obtain a mutex, hold it for *)
(* a while and release it, and a caller that starts and joins them.        *)
(* pthread_mutex_lock and pthread_mutex_unlock may fail.                   *)
(***************************************************************************)

CONSTANTS Thread,   \* the calls of start_thread_obtaining_mutex, all for one mutex
          NULL

VARIABLES
  pc,       \* "unborn", "wait", "hold", "done" or "joined"
  data,     \* the thread_data: "none", "live" or "freed"
  success,  \* data->thread_complete_success
  result,   \* what start_thread_obtaining_mutex has returned: "none", "true", "false"
  mutex     \* the holder

vars == <<pc, data, success, result, mutex>>

Init == /\ pc = [t \in Thread |-> "unborn"]
        /\ data = [t \in Thread |-> "none"]
        /\ success = [t \in Thread |-> FALSE]
        /\ result = [t \in Thread |-> "none"]
        /\ mutex = NULL

Goto(t, step) == pc' = [pc EXCEPT ![t] = step]

-----------------------------------------------------------------------------
(* start_thread_obtaining_mutex, with thread_data_create.                  *)

NoMemory(t) == /\ result' = [result EXCEPT ![t] = "false"]
               /\ UNCHANGED <<pc, data>>

NoThread(t) == /\ result' = [result EXCEPT ![t] = "false"]
               /\ data' = [data EXCEPT ![t] = "freed"]
               /\ UNCHANGED pc

Started(t) == /\ result' = [result EXCEPT ![t] = "true"]
              /\ data' = [data EXCEPT ![t] = "live"]
              /\ Goto(t, "wait")

Start(t) == /\ result[t] = "none"
            /\ NoMemory(t) \/ NoThread(t) \/ Started(t)
            /\ UNCHANGED <<success, mutex>>

(* main joins the thread.  Its data stays.                                 *)
Join(t) == /\ pc[t] = "done"
           /\ Goto(t, "joined")
           /\ UNCHANGED <<data, success, result, mutex>>

-----------------------------------------------------------------------------
(* threadfunc                                                              *)

Lock(t) == /\ pc[t] = "wait"
           /\ mutex = NULL
           /\ mutex' = t
           /\ Goto(t, "hold")
           /\ UNCHANGED <<data, success, result>>

LockFails(t) == /\ pc[t] = "wait"
                /\ Goto(t, "done")
                /\ UNCHANGED <<data, success, result, mutex>>

(* Mutant: the success is noted, and the mutex kept.                       *)
KeepsMutex(t) == /\ pc[t] = "hold"
                 /\ success' = [success EXCEPT ![t] = TRUE]
                 /\ Goto(t, "done")
                 /\ UNCHANGED <<data, result, mutex>>

Unlock(t) == /\ pc[t] = "hold"
             /\ mutex' = NULL
             /\ success' = [success EXCEPT ![t] = TRUE]
             /\ Goto(t, "done")
             /\ UNCHANGED <<data, result>>

UnlockFails(t) == /\ pc[t] = "hold"
                  /\ Goto(t, "done")
                  /\ UNCHANGED <<data, success, result, mutex>>

threadfunc(t) == Lock(t) \/ LockFails(t) \/ Unlock(t) \/ UnlockFails(t)

Next == \E t \in Thread : Start(t) \/ Join(t) \/ threadfunc(t)

(* Threads run, and get a mutex that is free; nothing makes anybody start  *)
(* or join one.                                                            *)
Fairness == \A t \in Thread : WF_vars(Lock(t)) /\ WF_vars(Unlock(t) \/ UnlockFails(t))

Spec == Init /\ [][Next]_vars /\ Fairness

-----------------------------------------------------------------------------
(* Property.                                                               *)

(***************************************************************************)
(* Every thread that was started finishes, unless one has had to report    *)
(* that it could not release the mutex: one that reports success has.      *)
(***************************************************************************)
ThreadsFinish ==
  \A t \in Thread :
    pc[t] = "wait" ~> \/ pc[t] = "done"
                      \/ \E u \in Thread : /\ pc[u] \in {"done", "joined"}
                                           /\ mutex = u
                                           /\ ~success[u]
=============================================================================
