----------------------------- MODULE AesdSocket -----------------------------
(***************************************************************************)
(* The threads of aesdsocket: main accepts connections, starts one thread  *)
(* per client and joins those that have finished; every client thread puts *)
(* a node for itself on the list and marks it when it is done; a signal    *)
(* makes the thread it is delivered to run the whole shutdown inside its   *)
(* handler, on top of whatever that thread was doing.  In the build for a  *)
(* regular file there is a timer thread as well.                           *)
(*                                                                         *)
(* What clients send and receive is not modelled here: a client thread is  *)
(* in recv, or in the section it protects with file_mutex, until its       *)
(* connection ends.  The process stops where main returns.                 *)
(***************************************************************************)
EXTENDS Naturals, Sequences, FiniteSets

CONSTANTS Client,        \* client threads; each serves one connection
          Main, Timer,
          UseDevice,     \* USE_AESD_CHAR_DEVICE
          SignalTarget,  \* the threads that SIGINT or SIGTERM may be delivered to
          MaxSignals,    \* bound: signals sent to the process
          NULL

ASSUME UseDeviceAssumption == UseDevice \in BOOLEAN
ASSUME SignalTargetAssumption == SignalTarget \subseteq Client \cup {Main}
ASSUME ThreadAssumption == Main \notin Client /\ Timer \notin Client /\ Main # Timer
                           /\ NULL \notin Client \cup {Main, Timer}

VARIABLES
  keep_running,
  server_socket,      \* "open" or "closed"; the variable is never set back to -1
  thread_list,        \* the clients whose nodes are linked, head first
  node,               \* per client: no node, "live" or "freed"
  completed,          \* node->completed
  thread_list_mutex,  \* the holder
  file_mutex,
  cancelled,          \* the timer has a cancellation request
  signals,            \* signals delivered
  pc,                 \* where a thread is ...
  frame,              \* ... and where it is in cleanup_on_signal, if in it
  cur                 \* per thread: the client of the node it is looking at

vars == <<keep_running, server_socket, thread_list, node, completed,
          thread_list_mutex, file_mutex, cancelled, signals, pc, frame, cur>>
globals == <<keep_running, server_socket, cancelled, signals>>

Thread == {Main} \cup Client \cup (IF UseDevice THEN {} ELSE {Timer})

Init == /\ keep_running = TRUE
        /\ server_socket = "open"
        /\ thread_list = <<>>
        /\ node = [c \in Client |-> "none"]
        /\ completed = [c \in Client |-> FALSE]
        /\ thread_list_mutex = NULL
        /\ file_mutex = NULL
        /\ cancelled = FALSE
        /\ signals = 0
        /\ pc = [t \in Thread |-> CASE t = Main  -> "accept"
                                    [] t = Timer -> "tick"
                                    [] OTHER     -> "unborn"]
        /\ frame = [t \in Thread |-> "none"]
        /\ cur = [t \in Thread |-> NULL]

-----------------------------------------------------------------------------

(* A thread executes its own code while it is not in a signal handler, and *)
(* anything only while the process exists.                                 *)
At(t, step) == pc[t] = step /\ frame[t] = "none" /\ pc[Main] # "exited"
Goto(t, step) == pc' = [pc EXCEPT ![t] = step] /\ UNCHANGED frame

InCleanup(t, step) == frame[t] = step /\ pc[Main] # "exited"
CleanupGoto(t, step) == frame' = [frame EXCEPT ![t] = step] /\ UNCHANGED pc

-----------------------------------------------------------------------------
(* main                                                                    *)

(* accept returns a connection.  (When it fails while keep_running the loop*)
(* just calls it again.)                                                   *)
Accept == /\ At(Main, "accept")
          /\ keep_running
          /\ server_socket = "open"
          /\ \E c \in Client : pc[c] = "unborn"
          /\ Goto(Main, "create")
          /\ UNCHANGED <<globals, thread_list, node, completed, thread_list_mutex,
                         file_mutex, cur>>

(* malloc and pthread_create: a thread for the new client, or, when either *)
(* fails, a closed connection.                                             *)
Create == /\ At(Main, "create")
          /\ \/ \E c \in Client :
                  /\ pc[c] = "unborn"
                  /\ pc' = [pc EXCEPT ![c] = "start", ![Main] = "reap_lock"]
             \/ pc' = [pc EXCEPT ![Main] = "accept"]
          /\ UNCHANGED <<globals, thread_list, node, completed, thread_list_mutex,
                         file_mutex, frame, cur>>

(* The loop ends; EINTR, or an error once the socket is shut, wakes accept.*)
Stop == /\ At(Main, "accept")
        /\ ~keep_running
        /\ pc' = [pc EXCEPT ![Main] = "returning"]
        /\ frame' = [frame EXCEPT ![Main] = "timer"]
        /\ UNCHANGED <<globals, thread_list, node, completed, thread_list_mutex,
                       file_mutex, cur>>

Exit == /\ At(Main, "returning")
        /\ Goto(Main, "exited")
        /\ UNCHANGED <<globals, thread_list, node, completed, thread_list_mutex,
                       file_mutex, cur>>

(* remove_completed_threads: one pass over the list under its mutex; a     *)
(* completed node is unlinked, its thread joined and the node freed.       *)
ReapLock == /\ At(Main, "reap_lock")
            /\ thread_list_mutex = NULL
            /\ thread_list_mutex' = Main
            /\ cur' = [cur EXCEPT ![Main] = IF thread_list = <<>> THEN NULL
                                            ELSE Head(thread_list)]
            /\ Goto(Main, "reap")
            /\ UNCHANGED <<globals, thread_list, node, completed, file_mutex>>

(* current->next, and the list once prev->next, or thread_list, points     *)
(* there.                                                                  *)
Position(c) == CHOOSE i \in 1..Len(thread_list) : thread_list[i] = c
After(c) == IF Position(c) = Len(thread_list) THEN NULL
                                              ELSE thread_list[Position(c) + 1]
Remove(c) == SubSeq(thread_list, 1, Position(c) - 1)
               \o SubSeq(thread_list, Position(c) + 1, Len(thread_list))

(* The test of current->completed, and a mutant that joins every thread.   *)
Whoever(c) == TRUE
Finished(c) == completed[c]

ReapKeep == /\ At(Main, "reap")
            /\ cur[Main] # NULL
            /\ ~Finished(cur[Main])
            /\ cur' = [cur EXCEPT ![Main] = After(cur[Main])]
            /\ UNCHANGED <<globals, thread_list, node, completed, thread_list_mutex,
                           file_mutex, pc, frame>>

(* Mutants: one that frees without the test and the join; one that steps   *)
(* over the node after the one it unlinks.                                 *)
ReapFreesAny == /\ At(Main, "reap")
                /\ cur[Main] # NULL
                /\ thread_list' = Remove(cur[Main])
                /\ cur' = [cur EXCEPT ![Main] = After(cur[Main])]
                /\ node' = [node EXCEPT ![cur[Main]] = "freed"]
                /\ UNCHANGED <<globals, completed, thread_list_mutex, file_mutex, pc, frame>>

ReapSkips == /\ At(Main, "reap")
             /\ cur[Main] # NULL
             /\ Finished(cur[Main])
             /\ pc[cur[Main]] = "done"
             /\ thread_list' = Remove(cur[Main])
             /\ cur' = [cur EXCEPT ![Main] = IF After(cur[Main]) = NULL THEN NULL
                                             ELSE After(After(cur[Main]))]
             /\ node' = [node EXCEPT ![cur[Main]] = "freed"]
             /\ UNCHANGED <<globals, completed, thread_list_mutex, file_mutex, pc, frame>>

(* The join: the thread has nothing left to do but to return.              *)
ReapJoin == /\ At(Main, "reap")
            /\ cur[Main] # NULL
            /\ Finished(cur[Main])
            /\ pc[cur[Main]] = "done"
            /\ thread_list' = Remove(cur[Main])
            /\ cur' = [cur EXCEPT ![Main] = After(cur[Main])]
            /\ node' = [node EXCEPT ![cur[Main]] = "freed"]
            /\ UNCHANGED <<globals, completed, thread_list_mutex, file_mutex, pc, frame>>

ReapUnlock == /\ At(Main, "reap")
              /\ cur[Main] = NULL
              /\ thread_list_mutex' = NULL
              /\ Goto(Main, "accept")
              /\ UNCHANGED <<globals, thread_list, node, completed, file_mutex, cur>>

-----------------------------------------------------------------------------
(* handle_client                                                           *)

(* add_thread_to_list; without memory for a node there is none.            *)
NewNode(c) == /\ At(c, "start")
              /\ \/ node' = [node EXCEPT ![c] = "live"] /\ Goto(c, "link")
                 \/ UNCHANGED node /\ Goto(c, "serve")
              /\ UNCHANGED <<globals, thread_list, completed, thread_list_mutex,
                             file_mutex, cur>>

(* Mutants: the rest of the list is lost; an unset pointer is linked.      *)
LinkDropsNext(c) == /\ At(c, "link")
                    /\ thread_list_mutex = NULL
                    /\ thread_list_mutex' = c
                    /\ thread_list' = <<c>>
                    /\ Goto(c, "linked")
                    /\ UNCHANGED <<globals, node, completed, file_mutex, cur>>

LinkUnset(c) == /\ At(c, "link")
                /\ thread_list_mutex = NULL
                /\ thread_list_mutex' = c
                /\ thread_list' = <<cur[c]>> \o thread_list
                /\ Goto(c, "linked")
                /\ UNCHANGED <<globals, node, completed, file_mutex, cur>>

Link(c) == /\ At(c, "link")
           /\ thread_list_mutex = NULL
           /\ thread_list_mutex' = c
           /\ thread_list' = <<c>> \o thread_list
           /\ Goto(c, "linked")
           /\ UNCHANGED <<globals, node, completed, file_mutex, cur>>

Linked(c) == /\ At(c, "linked")
             /\ thread_list_mutex' = NULL
             /\ Goto(c, "serve")
             /\ UNCHANGED <<globals, thread_list, node, completed, file_mutex, cur>>

(* The receive loop: one chunk after another goes through the section that *)
(* file_mutex protects, until the connection is over.                      *)
FileLock(c) == /\ At(c, "serve")
               /\ file_mutex = NULL
               /\ file_mutex' = c
               /\ Goto(c, "file")
               /\ UNCHANGED <<globals, thread_list, node, completed,
                              thread_list_mutex, cur>>

FileUnlock(c) == /\ At(c, "file")
                 /\ file_mutex' = NULL
                 /\ \E next \in {"serve", "cleanup"} : Goto(c, next)
                 /\ UNCHANGED <<globals, thread_list, node, completed,
                                thread_list_mutex, cur>>

(* recv returns 0 or fails.                                                *)
ConnectionEnds(c) == /\ At(c, "serve")
                     /\ Goto(c, "cleanup")
                     /\ UNCHANGED <<globals, thread_list, node, completed,
                                    thread_list_mutex, file_mutex, cur>>

(* The label cleanup: a thread without a node just returns.                *)
NoNode(c) == /\ At(c, "cleanup")
             /\ node[c] = "none"
             /\ Goto(c, "done")
             /\ UNCHANGED <<globals, thread_list, node, completed,
                            thread_list_mutex, file_mutex, cur>>

Complete(c) == /\ At(c, "cleanup")
               /\ node[c] # "none"
               /\ thread_list_mutex = NULL
               /\ thread_list_mutex' = c
               /\ Goto(c, "completing")
               /\ UNCHANGED <<globals, thread_list, node, completed, file_mutex, cur>>

SetCompleted(c) == /\ At(c, "completing")
                   /\ completed' = [completed EXCEPT ![c] = TRUE]
                   /\ Goto(c, "completed")
                   /\ UNCHANGED <<globals, thread_list, node, thread_list_mutex,
                                  file_mutex, cur>>

CompleteUnlock(c) == /\ At(c, "completed")
                     /\ thread_list_mutex' = NULL
                     /\ Goto(c, "done")
                     /\ UNCHANGED <<globals, thread_list, node, completed,
                                    file_mutex, cur>>

-----------------------------------------------------------------------------
(* timestamp_thread.  A cancellation request is obeyed in open, write,     *)
(* close or nanosleep: the first three are inside the locked section, and  *)
(* nothing unlocks the mutex of a thread that is cancelled there.          *)

TimerTick == /\ At(Timer, "tick")
             /\ Goto(Timer, IF keep_running THEN "lock" ELSE "done")
             /\ UNCHANGED <<globals, thread_list, node, completed,
                            thread_list_mutex, file_mutex, cur>>

TimerLock == /\ At(Timer, "lock")
             /\ file_mutex = NULL
             /\ file_mutex' = Timer
             /\ Goto(Timer, "write")
             /\ UNCHANGED <<globals, thread_list, node, completed,
                            thread_list_mutex, cur>>

TimerUnlock == /\ At(Timer, "write")
               /\ file_mutex' = NULL
               /\ Goto(Timer, "sleep")
               /\ UNCHANGED <<globals, thread_list, node, completed,
                              thread_list_mutex, cur>>

TimerWakes == /\ At(Timer, "sleep")
              /\ Goto(Timer, "tick")
              /\ UNCHANGED <<globals, thread_list, node, completed,
                             thread_list_mutex, file_mutex, cur>>

TimerCancelled == /\ At(Timer, "write") \/ At(Timer, "sleep")
                  /\ cancelled
                  /\ Goto(Timer, "done")
                  /\ UNCHANGED <<globals, thread_list, node, completed,
                                 thread_list_mutex, file_mutex, cur>>

-----------------------------------------------------------------------------
(* Shutdown.                                                               *)

(* A signal that a live thread takes: signal_handler.  A thread does not   *)
(* take one while it is in the handler for it.                             *)
Signal(t) == /\ signals < MaxSignals
             /\ frame[t] = "none"
             /\ pc[t] \notin {"unborn", "done", "exited"}
             /\ pc[Main] # "exited"
             /\ signals' = signals + 1
             /\ keep_running' = FALSE
             /\ frame' = [frame EXCEPT ![t] = "timer"]
             /\ UNCHANGED <<server_socket, cancelled, thread_list, node, completed,
                            thread_list_mutex, file_mutex, pc, cur>>

(* cleanup_on_signal, from here to the end of the section; called by the   *)
(* handler and once more by main before it returns.                        *)

(* pthread_cancel, pthread_join of the timer.  For a timer that has been   *)
(* joined before both calls fail.                                          *)
CancelTimer(t) == /\ InCleanup(t, "timer")
                  /\ cancelled' = ~UseDevice
                  /\ CleanupGoto(t, IF UseDevice THEN "socket" ELSE "join_timer")
                  /\ UNCHANGED <<keep_running, server_socket, signals, thread_list, node,
                                 completed, thread_list_mutex, file_mutex, cur>>

JoinTimer(t) == /\ InCleanup(t, "join_timer")
                /\ pc[Timer] = "done"
                /\ CleanupGoto(t, "socket")
                /\ UNCHANGED <<globals, thread_list, node, completed,
                               thread_list_mutex, file_mutex, cur>>

CloseSocket(t) == /\ InCleanup(t, "socket")
                  /\ server_socket' = "closed"
                  /\ CleanupGoto(t, "list_lock")
                  /\ UNCHANGED <<keep_running, cancelled, signals, thread_list, node,
                                 completed, thread_list_mutex, file_mutex, cur>>

(* cleanup_thread_list: the mutex is kept until every thread is joined.    *)
CleanupLock(t) == /\ InCleanup(t, "list_lock")
                  /\ thread_list_mutex = NULL
                  /\ thread_list_mutex' = t
                  /\ CleanupGoto(t, "pop")
                  /\ UNCHANGED <<globals, thread_list, node, completed, file_mutex, cur>>

CleanupPop(t) == /\ InCleanup(t, "pop")
                 /\ thread_list # <<>>
                 /\ cur' = [cur EXCEPT ![t] = Head(thread_list)]
                 /\ thread_list' = Tail(thread_list)
                 /\ CleanupGoto(t, "join")
                 /\ UNCHANGED <<globals, node, completed, thread_list_mutex,
                                file_mutex>>

(* A thread that joins itself gets EDEADLK at once.                        *)
CleanupJoin(t) == /\ InCleanup(t, "join")
                  /\ cur[t] = t \/ pc[cur[t]] = "done"
                  /\ node' = [node EXCEPT ![cur[t]] = "freed"]
                  /\ cur' = [cur EXCEPT ![t] = NULL]
                  /\ CleanupGoto(t, "pop")
                  /\ UNCHANGED <<globals, thread_list, completed, thread_list_mutex,
                                 file_mutex>>

(* Mutant: the mutex stays locked.                                         *)
CleanupKeepsLock(t) == /\ InCleanup(t, "pop")
                       /\ thread_list = <<>>
                       /\ CleanupGoto(t, "none")
                       /\ UNCHANGED <<globals, thread_list, node, completed,
                                      thread_list_mutex, file_mutex, cur>>

(* The unlock, the destruction of the mutexes, unlink, and back to where   *)
(* the thread was.                                                         *)
CleanupEnds(t) == /\ InCleanup(t, "pop")
                  /\ thread_list = <<>>
                  /\ thread_list_mutex' = NULL
                  /\ CleanupGoto(t, "none")
                  /\ UNCHANGED <<globals, thread_list, node, completed, file_mutex, cur>>

-----------------------------------------------------------------------------

main == \/ Accept \/ Create \/ Stop \/ Exit
        \/ ReapLock \/ ReapKeep \/ ReapJoin \/ ReapUnlock

handle_client(c) == \/ NewNode(c) \/ Link(c) \/ Linked(c)
                    \/ FileLock(c) \/ FileUnlock(c) \/ ConnectionEnds(c)
                    \/ NoNode(c) \/ Complete(c) \/ SetCompleted(c) \/ CompleteUnlock(c)

timestamp_thread == /\ ~UseDevice
                    /\ (\/ TimerTick \/ TimerLock \/ TimerUnlock
                        \/ TimerWakes \/ TimerCancelled)

cleanup_on_signal(t) == \/ CancelTimer(t) \/ JoinTimer(t) \/ CloseSocket(t)
                        \/ CleanupLock(t) \/ CleanupPop(t) \/ CleanupJoin(t)
                        \/ CleanupEnds(t)

Next == \/ main
        \/ \E c \in Client : handle_client(c)
        \/ timestamp_thread
        \/ \E t \in SignalTarget : Signal(t)
        \/ \E t \in Thread : cleanup_on_signal(t)

Spec == Init /\ [][Next]_vars

(* Threads are scheduled, and every peer closes its connection some day.   *)
(* (Nobody locks a mutex for ever again and again, so weak fairness is     *)
(* enough to get one.)  No client need ever come, and no signal.           *)
Fairness ==
  /\ WF_vars(Create \/ Stop \/ Exit \/ ReapLock \/ ReapKeep \/ ReapJoin \/ ReapUnlock)
  /\ \A c \in Client : WF_vars(handle_client(c)) /\ SF_vars(ConnectionEnds(c))
  /\ WF_vars(timestamp_thread)
  /\ \A t \in Thread : WF_vars(cleanup_on_signal(t))

FairSpec == Spec /\ Fairness

-----------------------------------------------------------------------------
(* Properties.                                                             *)

TypeOK == /\ keep_running \in BOOLEAN
          /\ server_socket \in {"open", "closed"}
          /\ thread_list \in Seq(Client)
          /\ node \in [Client -> {"none", "live", "freed"}]
          /\ completed \in [Client -> BOOLEAN]
          /\ thread_list_mutex \in Thread \cup {NULL}
          /\ file_mutex \in Thread \cup {NULL}
          /\ \A t \in Thread : cur[t] \in Client \cup {NULL}

(***************************************************************************)
(* Every node that exists is on the list exactly once, or on its way onto  *)
(* it, or in the hands of the thread that joins its owner: no node is lost *)
(* by concurrent insertions and removals, and none is freed and kept.      *)
(***************************************************************************)
NodesAccounted ==
  /\ Cardinality({thread_list[i] : i \in DOMAIN thread_list}) = Len(thread_list)
  /\ {c \in Client : node[c] = "live"} =
       {thread_list[i] : i \in DOMAIN thread_list}
         \cup {c \in Client : pc[c] = "link"}
         \cup {cur[t] : t \in {u \in Thread : frame[u] = "join"}}

(***************************************************************************)
(* A client thread marks its node while it still exists: nobody frees the  *)
(* node of a thread that has yet to use it.                                *)
(***************************************************************************)
NodeUse == \A c \in Client :
             pc[c] \notin {"unborn", "start", "done"} => node[c] # "freed"

(***************************************************************************)
(* A pass over the list leaves no node of a thread that has finished.      *)
(***************************************************************************)
ReapCollects == pc[Main] = "reap" /\ cur[Main] = NULL =>
                  \A i \in DOMAIN thread_list : ~completed[thread_list[i]]

(***************************************************************************)
(* Main gets out of remove_completed_threads, unless a signal comes: the   *)
(* joins it makes under the list mutex never wait for a thread that needs  *)
(* that mutex.                                                             *)
(***************************************************************************)
ReapReturns == pc[Main] \in {"reap_lock", "reap"} ~> pc[Main] = "accept" \/ signals > 0

(***************************************************************************)
(* A signal that main takes while it waits in accept, with no connection   *)
(* open, ends the process, although cleanup_on_signal then runs twice.     *)
(***************************************************************************)
Idle == \A c \in Client : pc[c] \in {"unborn", "done"}
IdleSignalTerminates ==
  (frame[Main] = "timer" /\ pc[Main] = "accept" /\ Idle) ~> pc[Main] = "exited"

(***************************************************************************)
(* "Graceful handling of signals for program termination": a process that  *)
(* has taken a signal terminates, once its peers have closed.              *)
(***************************************************************************)
SignalTerminates == signals > 0 ~> pc[Main] = "exited"

=============================================================================
