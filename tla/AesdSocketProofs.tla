-------------------------- MODULE AesdSocketProofs --------------------------
(***************************************************************************)
(* What the run of MCAesdSocket checks of the list of thread nodes for     *)
(* three clients and one signal to main, proved for any number of clients  *)
(* and signals, in both builds and, but for NodeUse, whichever threads     *)
(* take the signals.                                                       *)
(***************************************************************************)
EXTENDS AesdSocket, FiniteSetTheorems, SequenceTheorems, TLAPS

Listed == {thread_list[i] : i \in DOMAIN thread_list}

(* The places of the three kinds of threads.                               *)
MainPlace == {"accept", "create", "reap_lock", "reap", "returning", "exited"}
ClientPlace == {"unborn", "start", "link", "linked", "serve", "file", "cleanup",
                "completing", "completed", "done"}
TimerPlace == {"tick", "lock", "write", "sleep", "done"}
Frame == {"none", "timer", "join_timer", "socket", "list_lock", "pop", "join"}

Places == /\ pc \in [Thread -> MainPlace \cup ClientPlace \cup TimerPlace]
          /\ frame \in [Thread -> Frame]
          /\ cur \in [Thread -> Client \cup {NULL}]
          /\ pc[Main] \in MainPlace
          /\ \A c \in Client : pc[c] \in ClientPlace
          /\ \A t \in Thread \ (Client \cup {Main}) : pc[t] \in TimerPlace

(* Who is between a lock and an unlock of the list's mutex, in its own     *)
(* code or in the shutdown, has it, and is not in both.                    *)
OwnSection == {"reap", "linked", "completing", "completed"}
Shutdown == {"pop", "join"}
Locked == \A t \in Thread :
            /\ pc[t] \in OwnSection \/ frame[t] \in Shutdown => thread_list_mutex = t
            /\ pc[t] \in OwnSection => frame[t] \notin Shutdown

Distinct == \A i, j \in DOMAIN thread_list : thread_list[i] = thread_list[j] => i = j

(* Where the nodes are: what NodesAccounted says, and that a linked node   *)
(* is not linked again, nor a node made twice.                             *)
Unlinked == {"unborn", "start", "link"}
Owned ==
  /\ \A c \in Listed : node[c] = "live" /\ pc[c] \notin Unlinked
  /\ \A t \in Thread : frame[t] = "join" =>
       /\ cur[t] \in Client \ Listed
       /\ node[cur[t]] = "live"
       /\ pc[cur[t]] \notin Unlinked
  /\ \A c \in Client : /\ pc[c] = "link" => node[c] = "live"
                       /\ pc[c] \in {"unborn", "start"} => node[c] = "none"
                       /\ node[c] = "live" =>
                            \/ c \in Listed
                            \/ pc[c] = "link"
                            \/ \E t \in Thread : frame[t] = "join" /\ cur[t] = c

(* Main's pass over the list is at a node of the list, or at its end, and  *)
(* no thread that has finished is behind it.                               *)
Passed ==
  pc[Main] = "reap" =>
    /\ cur[Main] \in Listed \cup {NULL}
    /\ \A i \in DOMAIN thread_list : completed[thread_list[i]] =>
         \E j \in 1..i : thread_list[j] = cur[Main]

ListInv == TypeOK /\ Places /\ Locked /\ Distinct /\ Owned /\ Passed

USE UseDeviceAssumption, SignalTargetAssumption, ThreadAssumption

LEMMA InitList == Init => ListInv
BY DEF Init, ListInv, TypeOK, Places, Locked, Distinct, Owned, Passed, Listed, Thread,
       MainPlace, ClientPlace, TimerPlace, Frame, OwnSection, Shutdown, Unlinked

(***************************************************************************)
(* A place in the list.                                                    *)
(***************************************************************************)
LEMMA PositionIsThere ==
  ASSUME thread_list \in Seq(Client), NEW c \in Listed
  PROVE  Position(c) \in 1..Len(thread_list) /\ thread_list[Position(c)] = c
<1>1. \E i \in 1..Len(thread_list) : thread_list[i] = c
  BY DEF Listed
<1>. QED  BY <1>1 DEF Position

LEMMA RemovedFrom ==
  ASSUME NEW S, NEW s \in Seq(S), NEW p \in 1..Len(s)
  PROVE  LET r == SubSeq(s, 1, p - 1) \o SubSeq(s, p + 1, Len(s))
         IN  /\ r \in Seq(S) /\ Len(r) = Len(s) - 1
             /\ \A i \in 1..(p - 1) : r[i] = s[i]
             /\ \A i \in p..(Len(s) - 1) : r[i] = s[i + 1]
<1>. DEFINE n == Len(s)
            a == SubSeq(s, 1, p - 1)
            b == SubSeq(s, p + 1, n)
            r == a \o b
<1>1. n \in Nat /\ p \in 1..n /\ \A i \in 1..n : s[i] \in S
  OBVIOUS
<1>2. a \in Seq(S) /\ Len(a) = p - 1 /\ \A i \in 1..(p - 1) : a[i] = s[i]
  BY <1>1, SubSeqProperties
<1>3. b \in Seq(S) /\ Len(b) = n - p /\ \A i \in 1..(n - p) : b[i] = s[p + i]
  BY <1>1, SubSeqProperties
<1>. HIDE DEF a, b, n
<1>4. /\ r \in Seq(S) /\ Len(r) = Len(a) + Len(b)
      /\ \A i \in 1..(Len(a) + Len(b)) : r[i] = IF i <= Len(a) THEN a[i] ELSE b[i - Len(a)]
  <2>1. a \in Seq(S) /\ b \in Seq(S)
    BY ONLY <1>2, <1>3
  <2>. QED  BY ONLY <2>1, ConcatProperties
<1>. HIDE DEF r
<1>5. Len(r) = n - 1 /\ \A i \in 1..(p - 1) : r[i] = s[i]
  BY <1>1, <1>2, <1>3, <1>4
<1>6. ASSUME NEW i \in p..(n - 1) PROVE r[i] = s[i + 1]
  <2>1. i - (p - 1) \in 1..(n - p) /\ r[i] = b[i - (p - 1)]
    BY <1>1, <1>2, <1>3, <1>4
  <2>. QED  BY <1>1, <1>3, <2>1
<1>. QED  BY <1>4, <1>5, <1>6 DEF r, a, b, n

(***************************************************************************)
(* The list without the node at a place: the one of a client that is on it *)
(* once.                                                                   *)
(***************************************************************************)
LEMMA RemoveIsThere ==
  ASSUME thread_list \in Seq(Client), Distinct, NEW c \in Listed, thread_list' = Remove(c)
  PROVE  /\ thread_list' \in Seq(Client)
         /\ Distinct'
         /\ Listed' = Listed \ {c}
         /\ Len(thread_list') = Len(thread_list) - 1
         /\ \A i \in 1..(Position(c) - 1) : thread_list'[i] = thread_list[i]
         /\ \A i \in Position(c)..(Len(thread_list) - 1) :
              thread_list'[i] = thread_list[i + 1]
<1>. DEFINE p == Position(c)
            n == Len(thread_list)
<1>1. p \in 1..n /\ thread_list[p] = c /\ n \in Nat
  BY PositionIsThere
<1>2. /\ thread_list' \in Seq(Client) /\ Len(thread_list') = n - 1
      /\ \A i \in 1..(p - 1) : thread_list'[i] = thread_list[i]
      /\ \A i \in p..(n - 1) : thread_list'[i] = thread_list[i + 1]
  <2>. DEFINE r == SubSeq(thread_list, 1, p - 1)
                     \o SubSeq(thread_list, p + 1, Len(thread_list))
  <2>1. /\ r \in Seq(Client) /\ Len(r) = Len(thread_list) - 1
        /\ \A i \in 1..(p - 1) : r[i] = thread_list[i]
        /\ \A i \in p..(Len(thread_list) - 1) : r[i] = thread_list[i + 1]
    <3>. HIDE DEF p
    <3>. QED  BY ONLY <1>1, thread_list \in Seq(Client), RemovedFrom
  <2>2. thread_list' = r
    BY DEF Remove
  <2>. HIDE DEF r
  <2>. QED  BY ONLY <2>1, <2>2
<1>3. DOMAIN thread_list = 1..n /\ DOMAIN thread_list' = 1..(n - 1)
  BY <1>1, <1>2
<1>. HIDE DEF p, n
<1>4. \A i \in 1..(n - 1) : LET j == IF i < p THEN i ELSE i + 1
                            IN  j \in (1..n) \ {p} /\ thread_list'[i] = thread_list[j]
  <2>1. ASSUME NEW i \in 1..(n - 1), i < p
        PROVE  i \in (1..n) \ {p} /\ thread_list'[i] = thread_list[i]
    <3>1. i \in 1..(p - 1) /\ i \in 1..n /\ i # p
      BY ONLY <1>1, <2>1
    <3>. QED  BY ONLY <1>2, <3>1
  <2>2. ASSUME NEW i \in 1..(n - 1), ~(i < p)
        PROVE  i + 1 \in (1..n) \ {p} /\ thread_list'[i] = thread_list[i + 1]
    <3>1. i \in p..(n - 1) /\ i + 1 \in 1..n /\ i + 1 # p
      BY ONLY <1>1, <2>2
    <3>. QED  BY ONLY <1>2, <3>1
  <2>. QED  BY ONLY <2>1, <2>2
<1>5. Distinct'
  BY <1>1, <1>3, <1>4 DEF Distinct
<1>6. Listed' \subseteq Listed \ {c}
  <2>1. ASSUME NEW i \in 1..(n - 1) PROVE thread_list'[i] \in Listed \ {c}
    <3>1. PICK j \in (1..n) \ {p} : thread_list'[i] = thread_list[j]
      BY ONLY <1>4, i \in 1..(n - 1)
    <3>2. thread_list[j] # thread_list[p]
      BY <1>1, <1>3 DEF Distinct
    <3>. QED  BY <1>1, <1>3, <3>1, <3>2 DEF Listed
  <2>. QED  BY ONLY <1>3, <2>1 DEF Listed
<1>7. ASSUME NEW d \in Listed, d # c PROVE d \in Listed'
  <2>1. PICK j \in 1..n : d = thread_list[j] /\ j # p
    BY <1>1, <1>3, <1>7 DEF Listed
  <2>2. CASE j < p
    BY <1>1, <1>2, <1>3, <2>1, <2>2 DEF Listed
  <2>3. CASE j > p
    <3>1. j - 1 \in 1..(n - 1) /\ thread_list'[j - 1] = d
      BY <1>1, <1>2, <2>1, <2>3
    <3>. QED  BY <1>3, <3>1 DEF Listed
  <2>. QED  BY <1>1, <2>1, <2>2, <2>3
<1>. QED  BY <1>2, <1>5, <1>6, <1>7 DEF p, n

(* A step of a thread that takes it from one of its places to another,     *)
(* neither of them in the section of the mutex, and leaves the list alone. *)
QuietPlace == (MainPlace \cup ClientPlace \cup TimerPlace) \ (OwnSection \cup Unlinked)
Elsewhere ==
  \A t \in Thread : /\ \/ pc'[t] = pc[t]
                       \/ {pc[t], pc'[t]} \subseteq QuietPlace
                       \/ pc[t] = "unborn" /\ pc'[t] = "start"
                    /\ frame'[t] = frame[t] \/ {frame[t], frame'[t]} \cap Shutdown = {}

LEMMA StepElsewhere ==
  ASSUME ListInv, TypeOK', Places',
         UNCHANGED <<thread_list, node, completed, thread_list_mutex, cur>>,
         Elsewhere
  PROVE  ListInv'
<1>1. Locked'
  BY DEF Elsewhere, ListInv, Locked, OwnSection, QuietPlace, Shutdown
<1>2. Distinct'
  BY DEF ListInv, Distinct
<1>3. Owned'
  <2>1. \A c \in Client : c \in Thread
    BY DEF Thread
  <2>2. Listed' = Listed /\ Listed \subseteq Client
    BY DEF ListInv, TypeOK, Listed
  <2>3. \A t \in Thread : frame'[t] = "join" <=> frame[t] = "join"
    BY DEF Elsewhere, Shutdown
  <2>4. \A c \in Client : pc[c] \notin Unlinked => pc'[c] \notin Unlinked
    BY <2>1 DEF Elsewhere, QuietPlace, Unlinked
  <2>5. \A c \in Client : /\ pc'[c] = "link" <=> pc[c] = "link"
                          /\ pc'[c] \in {"unborn", "start"} => pc[c] \in {"unborn", "start"}
    BY <2>1 DEF Elsewhere, QuietPlace, Unlinked
  <2>. QED  BY <2>1, <2>2, <2>3, <2>4, <2>5 DEF ListInv, Owned
<1>4. Passed'
  <2>1. Main \in Thread
    BY DEF Thread
  <2>2. pc'[Main] = "reap" => pc[Main] = "reap"
    BY <2>1 DEF Elsewhere, QuietPlace, OwnSection
  <2>3. Listed' = Listed
    BY DEF Listed
  <2>. QED  BY <2>2, <2>3 DEF ListInv, Passed
<1>. QED  BY <1>1, <1>2, <1>3, <1>4 DEF ListInv

Quiet ==
  \/ Accept \/ Create \/ Stop \/ Exit
  \/ \E c \in Client : FileLock(c) \/ FileUnlock(c) \/ ConnectionEnds(c) \/ NoNode(c)
  \/ timestamp_thread
  \/ \E t \in SignalTarget : Signal(t)
  \/ \E t \in Thread : CancelTimer(t) \/ JoinTimer(t) \/ CloseSocket(t)

LEMMA QuietTypes ==
  ASSUME ListInv, Quiet
  PROVE  TypeOK' /\ Places'
<1>. USE DEF ListInv, TypeOK, Places, MainPlace, ClientPlace, TimerPlace, Frame, Thread,
             globals, At, Goto, InCleanup, CleanupGoto
<1>1. CASE Accept \/ Create \/ Stop \/ Exit
  BY <1>1 DEF Accept, Create, Stop, Exit
<1>2. ASSUME NEW c \in Client, FileLock(c) \/ FileUnlock(c) \/ ConnectionEnds(c) \/ NoNode(c)
      PROVE  TypeOK' /\ Places'
  BY <1>2 DEF FileLock, FileUnlock, ConnectionEnds, NoNode
<1>3. CASE timestamp_thread
  BY <1>3 DEF timestamp_thread, TimerTick, TimerLock, TimerUnlock, TimerWakes, TimerCancelled
<1>4. ASSUME NEW t \in SignalTarget, Signal(t) PROVE TypeOK' /\ Places'
  BY <1>4 DEF Signal
<1>5. ASSUME NEW t \in Thread, CancelTimer(t) \/ JoinTimer(t) \/ CloseSocket(t)
      PROVE  TypeOK' /\ Places'
  BY <1>5 DEF CancelTimer, JoinTimer, CloseSocket
<1>. QED  BY <1>1, <1>2, <1>3, <1>4, <1>5 DEF Quiet

LEMMA QuietKeeps ==
  ASSUME ListInv, Quiet
  PROVE  ListInv'
<1>1. TypeOK' /\ Places'
  BY QuietTypes
<1>2. UNCHANGED <<thread_list, node, completed, thread_list_mutex, cur>>
  BY DEF Quiet, Accept, Create, Stop, Exit, FileLock, FileUnlock, ConnectionEnds, NoNode,
         timestamp_thread, TimerTick, TimerLock, TimerUnlock, TimerWakes, TimerCancelled,
         Signal, CancelTimer, JoinTimer, CloseSocket, Goto, CleanupGoto
<1>3. Elsewhere
  <2>. USE DEF Elsewhere, ListInv, Places, At, Goto, InCleanup, CleanupGoto, QuietPlace, MainPlace,
               ClientPlace, TimerPlace, OwnSection, Unlinked, Shutdown
  <2>1. CASE Accept \/ Create \/ Stop \/ Exit
    BY <2>1 DEF Accept, Create, Stop, Exit
  <2>2. ASSUME NEW c \in Client, FileLock(c) \/ FileUnlock(c) \/ ConnectionEnds(c) \/ NoNode(c)
        PROVE  Elsewhere
    BY <2>2 DEF FileLock, FileUnlock, ConnectionEnds, NoNode
  <2>3. CASE timestamp_thread
    BY <2>3 DEF timestamp_thread, TimerTick, TimerLock, TimerUnlock, TimerWakes, TimerCancelled
  <2>4. ASSUME NEW t \in SignalTarget, Signal(t) PROVE Elsewhere
    BY <2>4 DEF Signal
  <2>5. ASSUME NEW t \in Thread, CancelTimer(t) \/ JoinTimer(t) \/ CloseSocket(t)
        PROVE  Elsewhere
    BY <2>5 DEF CancelTimer, JoinTimer, CloseSocket
  <2>. QED  BY <2>1, <2>2, <2>3, <2>4, <2>5 DEF Quiet
<1>. QED  BY <1>1, <1>2, <1>3, StepElsewhere

(***************************************************************************)
(* The steps that lock or unlock the list's mutex and leave the list.      *)
(***************************************************************************)
LockStep == \/ \E c \in Client : \/ Linked(c) \/ Complete(c) \/ CompleteUnlock(c)
            \/ \E t \in Thread : CleanupLock(t) \/ CleanupEnds(t)

LEMMA LockKeeps ==
  ASSUME ListInv, LockStep
  PROVE  ListInv'
<1>1. PICK t \in Thread : /\ \/ t \in Client /\ (Linked(t) \/ Complete(t) \/ CompleteUnlock(t))
                             \/ CleanupLock(t) \/ CleanupEnds(t)
  BY DEF LockStep, Thread
<1>2. UNCHANGED <<thread_list, node, completed, cur>>
  BY <1>1 DEF Linked, Complete, CompleteUnlock, CleanupLock, CleanupEnds
<1>3. /\ pc' = [pc EXCEPT ![t] = pc'[t]] /\ frame' = [frame EXCEPT ![t] = frame'[t]]
      /\ (pc[t] \notin Unlinked /\ pc'[t] \notin Unlinked) \/ pc'[t] = pc[t]
      /\ (frame[t] # "join" /\ frame'[t] # "join") \/ frame'[t] = frame[t]
      /\ t = Main => pc'[t] = pc[t]
  BY <1>1 DEF Linked, Complete, CompleteUnlock, CleanupLock, CleanupEnds, Goto, CleanupGoto,
              At, InCleanup, ListInv, Places, Unlinked
<1>4. TypeOK' /\ Places'
  BY <1>1 DEF Linked, Complete, CompleteUnlock, CleanupLock, CleanupEnds, Goto, CleanupGoto,
              At, InCleanup, ListInv, TypeOK, Places, MainPlace, ClientPlace, TimerPlace,
              Frame, Thread, globals
<1>5. Locked'
  BY <1>1 DEF Linked, Complete, CompleteUnlock, CleanupLock, CleanupEnds, Goto, CleanupGoto,
              At, InCleanup, ListInv, Places, Locked, OwnSection, Shutdown, Thread
<1>6. Distinct'
  BY <1>2 DEF ListInv, Distinct
<1>7. Owned'
  <2>1. Client \subseteq Thread /\ Listed' = Listed /\ Listed \subseteq Client
    BY <1>2 DEF Thread, Listed, ListInv, TypeOK
  <2>2. \A u \in Thread : /\ pc'[u] = pc[u] \/ {pc[u], pc'[u]} \cap Unlinked = {}
                          /\ frame'[u] = "join" <=> frame[u] = "join"
    BY <1>3 DEF ListInv, Places
  <2>3. Owned
    BY DEF ListInv
  <2>4. \A c \in Listed : node[c] = "live" /\ pc'[c] \notin Unlinked
    BY ONLY <2>1, <2>2, <2>3 DEF Owned
  <2>5. \A u \in Thread : frame'[u] = "join" =>
          cur[u] \in Client \ Listed /\ node[cur[u]] = "live" /\ pc'[cur[u]] \notin Unlinked
    BY ONLY <2>1, <2>2, <2>3 DEF Owned
  <2>6. \A c \in Client : \A at \in Unlinked : pc'[c] = at <=> pc[c] = at
    BY ONLY <2>1, <2>2
  <2>7. \A c \in Client : /\ pc'[c] = "link" => node[c] = "live"
                          /\ pc'[c] \in {"unborn", "start"} => node[c] = "none"
    BY ONLY <2>3, <2>6 DEF Owned, Unlinked
  <2>8. \A c \in Client : node[c] = "live" =>
          c \in Listed \/ pc'[c] = "link" \/ \E u \in Thread : frame'[u] = "join" /\ cur[u] = c
    BY ONLY <2>2, <2>3, <2>6 DEF Owned, Unlinked
  <2>. QED  BY ONLY <1>2, <2>1, <2>4, <2>5, <2>7, <2>8 DEF Owned
<1>8. Passed'
  <2>1. pc'[Main] = pc[Main] /\ Listed' = Listed
    BY <1>2, <1>3 DEF Thread, ListInv, Places, Listed
  <2>. QED  BY <1>2, <2>1 DEF ListInv, Passed
<1>. QED  BY <1>4, <1>5, <1>6, <1>7, <1>8 DEF ListInv

(***************************************************************************)
(* A client's steps on its node.                                           *)
(***************************************************************************)
LEMMA NewNodeKeeps ==
  ASSUME ListInv, NEW c \in Client, NewNode(c)
  PROVE  ListInv'
<1>1. c \in Thread /\ c # Main /\ c # NULL
  BY DEF Thread
<1>2. PICK place \in {"link", "serve"} :
        /\ pc[c] = "start" /\ pc' = [pc EXCEPT ![c] = place]
        /\ node' = IF place = "link" THEN [node EXCEPT ![c] = "live"] ELSE node
        /\ UNCHANGED <<frame, thread_list, completed, thread_list_mutex, file_mutex, cur,
                       keep_running, server_socket>>
  BY DEF NewNode, At, Goto, globals
<1>3. TypeOK' /\ Places'
  BY <1>2 DEF ListInv, TypeOK, Places, MainPlace, ClientPlace, TimerPlace, Frame, Thread
<1>4. Locked' /\ Distinct'
  BY <1>1, <1>2 DEF ListInv, Places, Locked, Distinct, OwnSection, Shutdown
<1>5. Owned'
  <2>1. Client \subseteq Thread /\ Listed' = Listed /\ Listed \subseteq Client
    BY <1>2 DEF Thread, Listed, ListInv, TypeOK
  <2>2. node[c] = "none" /\ c \notin Listed /\ \A t \in Thread : frame[t] = "join" => cur[t] # c
    BY <1>2 DEF ListInv, Owned, Unlinked
  <2>. QED  BY <1>2, <2>1, <2>2 DEF ListInv, TypeOK, Places, Owned, Unlinked
<1>6. Passed'
  BY <1>1, <1>2 DEF ListInv, Places, Passed, Listed
<1>. QED  BY <1>3, <1>4, <1>5, <1>6 DEF ListInv

LEMMA LinkKeeps ==
  ASSUME ListInv, NEW c \in Client, Link(c)
  PROVE  ListInv'
<1>1. /\ c \in Thread /\ c # Main /\ c # NULL
      /\ pc[c] = "link" /\ pc' = [pc EXCEPT ![c] = "linked"]
      /\ thread_list_mutex = NULL /\ thread_list_mutex' = c
      /\ thread_list' = <<c>> \o thread_list
      /\ thread_list \in Seq(Client)
      /\ UNCHANGED <<frame, node, completed, file_mutex, cur, keep_running, server_socket>>
  BY DEF Link, At, Goto, globals, Thread, ListInv, TypeOK
<1>2. c \notin Listed
  BY <1>1 DEF ListInv, Owned, Unlinked
<1>3. /\ Len(thread_list') = Len(thread_list) + 1
      /\ thread_list'[1] = c
      /\ \A i \in 1..Len(thread_list) : thread_list'[i + 1] = thread_list[i]
      /\ \A i \in 2..Len(thread_list') : thread_list'[i] = thread_list[i - 1]
  BY <1>1
<1>4. Listed' = Listed \cup {c}
  <2>1. /\ Len(thread_list) \in Nat
        /\ DOMAIN thread_list = 1..Len(thread_list)
        /\ DOMAIN thread_list' = 1..(Len(thread_list) + 1)
    BY <1>1, <1>3
  <2>2. ASSUME NEW d \in Listed PROVE d \in Listed'
    <3>1. PICK i \in 1..Len(thread_list) : d = thread_list[i]
      BY <2>1 DEF Listed
    <3>2. i + 1 \in DOMAIN thread_list' /\ thread_list'[i + 1] = d
      BY <1>3, <2>1, <3>1
    <3>. QED  BY <3>2 DEF Listed
  <2>3. ASSUME NEW i \in DOMAIN thread_list' PROVE thread_list'[i] \in Listed \cup {c}
    <3>1. CASE i = 1
      BY <1>3, <3>1
    <3>2. CASE i # 1
      BY <1>3, <2>1, <3>2 DEF Listed
    <3>. QED  BY <3>1, <3>2
  <2>4. c \in Listed'
    BY <1>3, <2>1 DEF Listed
  <2>. QED  BY <2>2, <2>3, <2>4 DEF Listed
<1>5. TypeOK' /\ Places'
  BY <1>1 DEF ListInv, TypeOK, Places, MainPlace, ClientPlace, TimerPlace, Frame, Thread
<1>6. \A t \in Thread : pc[t] \notin OwnSection /\ frame[t] \notin Shutdown
  BY <1>1 DEF ListInv, Locked, Thread
<1>7. Locked'
  BY <1>1, <1>6 DEF ListInv, Places, Locked, OwnSection
<1>8. Distinct'
  BY <1>1, <1>2, <1>3 DEF ListInv, Distinct, Listed
<1>9. Owned'
  <2>1. Client \subseteq Thread /\ Listed \subseteq Client
    BY <1>1 DEF Thread, Listed
  <2>2. \A t \in Thread : frame[t] # "join"
    BY <1>6 DEF Shutdown
  <2>. QED  BY <1>1, <1>4, <2>1, <2>2 DEF ListInv, TypeOK, Places, Owned, Unlinked
<1>10. pc'[Main] # "reap"
  BY <1>1, <1>6 DEF Thread, OwnSection
<1>. QED  BY <1>5, <1>7, <1>8, <1>9, <1>10 DEF ListInv, Passed

LEMMA SetCompletedKeeps ==
  ASSUME ListInv, NEW c \in Client, SetCompleted(c)
  PROVE  ListInv'
<1>1. /\ c \in Thread /\ c # Main
      /\ pc[c] = "completing" /\ pc' = [pc EXCEPT ![c] = "completed"]
      /\ completed' = [completed EXCEPT ![c] = TRUE]
      /\ UNCHANGED <<frame, thread_list, thread_list_mutex, node, file_mutex, cur,
                     keep_running, server_socket>>
  BY DEF SetCompleted, At, Goto, globals, Thread
<1>2. TypeOK' /\ Places'
  BY <1>1 DEF ListInv, TypeOK, Places, MainPlace, ClientPlace, TimerPlace, Frame, Thread
<1>3. Locked' /\ Distinct'
  BY <1>1 DEF ListInv, Places, Locked, Distinct, OwnSection
<1>4. Owned'
  <2>1. Client \subseteq Thread /\ Listed' = Listed /\ Listed \subseteq Client
    BY <1>1 DEF Thread, Listed, ListInv, TypeOK
  <2>. QED  BY <1>1, <2>1 DEF ListInv, Places, Owned, Unlinked
<1>5. pc'[Main] # "reap"
  BY <1>1 DEF ListInv, Places, Locked, OwnSection, Thread
<1>. QED  BY <1>2, <1>3, <1>4, <1>5 DEF ListInv, Passed

(***************************************************************************)
(* Main's pass over the list.                                              *)
(***************************************************************************)
LEMMA ReapLockKeeps ==
  ASSUME ListInv, ReapLock
  PROVE  ListInv'
<1>1. /\ Main \in Thread /\ frame[Main] = "none"
      /\ pc[Main] = "reap_lock" /\ pc' = [pc EXCEPT ![Main] = "reap"]
      /\ thread_list_mutex = NULL /\ thread_list_mutex' = Main
      /\ cur' = [cur EXCEPT ![Main] = IF thread_list = <<>> THEN NULL ELSE Head(thread_list)]
      /\ UNCHANGED <<frame, thread_list, node, completed, file_mutex, keep_running,
                     server_socket>>
  BY DEF ReapLock, At, Goto, globals, Thread
<1>2. /\ thread_list \in Seq(Client) /\ Len(thread_list) \in Nat
      /\ DOMAIN thread_list = 1..Len(thread_list)
      /\ thread_list # <<>> => Len(thread_list) > 0 /\ Head(thread_list) = thread_list[1]
      /\ thread_list = <<>> => Len(thread_list) = 0
  BY DEF ListInv, TypeOK
<1>3. cur'[Main] \in Listed \cup {NULL}
  BY <1>1, <1>2 DEF ListInv, Places, Listed
<1>4. Listed' = Listed /\ Listed \subseteq Client
  BY <1>1, <1>2 DEF Listed
<1>5. TypeOK' /\ Places'
  BY <1>1, <1>3, <1>4 DEF ListInv, TypeOK, Places, MainPlace, ClientPlace, TimerPlace, Frame,
                          Thread
<1>6. Locked'
  BY <1>1 DEF ListInv, Places, Locked, OwnSection, Shutdown, Thread
<1>7. Distinct'
  BY <1>1 DEF ListInv, Distinct
<1>8. Owned'
  BY <1>1, <1>4 DEF ListInv, Places, Owned, Unlinked, Thread
<1>9. Passed'
  <2>1. ASSUME NEW i \in DOMAIN thread_list
        PROVE  1 \in 1..i /\ thread_list[1] = cur'[Main]
    BY <1>1, <1>2 DEF ListInv, Places
  <2>. QED  BY <1>1, <1>3, <1>4, <2>1 DEF Passed
<1>. QED  BY <1>5, <1>6, <1>7, <1>8, <1>9 DEF ListInv

(* Where the pass goes next.                                               *)
LEMMA AfterIsNext ==
  ASSUME thread_list \in Seq(Client), Distinct, NEW c \in Listed
  PROVE  /\ Position(c) \in 1..Len(thread_list) /\ thread_list[Position(c)] = c
         /\ Len(thread_list) \in Nat /\ DOMAIN thread_list = 1..Len(thread_list)
         /\ IF Position(c) = Len(thread_list)
            THEN After(c) = NULL
            ELSE /\ Position(c) + 1 \in 1..Len(thread_list)
                 /\ After(c) = thread_list[Position(c) + 1]
         /\ After(c) \in (Listed \ {c}) \cup {NULL}
<1>1. /\ Position(c) \in 1..Len(thread_list) /\ thread_list[Position(c)] = c
      /\ Len(thread_list) \in Nat /\ DOMAIN thread_list = 1..Len(thread_list)
  BY PositionIsThere
<1>2. CASE Position(c) = Len(thread_list)
  BY <1>1, <1>2 DEF After
<1>3. CASE Position(c) # Len(thread_list)
  <2>1. Position(c) + 1 \in 1..Len(thread_list) /\ Position(c) + 1 # Position(c)
    BY <1>1, <1>3
  <2>2. thread_list[Position(c) + 1] \in Listed \ {c}
    BY <1>1, <2>1 DEF Distinct, Listed
  <2>. QED  BY <1>1, <1>3, <2>1, <2>2 DEF After
<1>. QED  BY <1>2, <1>3

LEMMA ReapKeepKeeps ==
  ASSUME ListInv, ReapKeep
  PROVE  ListInv'
<1>. DEFINE c == cur[Main]
            p == Position(c)
            n == Len(thread_list)
<1>1. /\ Main \in Thread /\ frame[Main] = "none" /\ pc[Main] = "reap"
      /\ c # NULL /\ ~completed[c]
      /\ cur' = [cur EXCEPT ![Main] = After(c)]
      /\ UNCHANGED <<pc, frame, thread_list, thread_list_mutex, node, completed, file_mutex,
                     keep_running, server_socket>>
  BY DEF ReapKeep, Finished, At, globals, Thread
<1>2. /\ c \in Listed /\ thread_list \in Seq(Client) /\ Distinct /\ Listed' = Listed
      /\ Listed \subseteq Client
  BY <1>1 DEF ListInv, Passed, TypeOK, Listed
<1>3. /\ p \in 1..n /\ thread_list[p] = c
      /\ n \in Nat /\ DOMAIN thread_list = 1..n
      /\ IF p = n THEN After(c) = NULL
         ELSE p + 1 \in 1..n /\ After(c) = thread_list[p + 1]
      /\ After(c) \in (Listed \ {c}) \cup {NULL}
  BY <1>2, AfterIsNext
<1>. HIDE DEF p, c, n
<1>4. TypeOK' /\ Places'
  BY <1>1, <1>2, <1>3 DEF ListInv, TypeOK, Places
<1>5. Locked' /\ Distinct'
  BY <1>1 DEF ListInv, Locked, Distinct
<1>6. Owned'
  BY <1>1, <1>2 DEF ListInv, Places, Owned, Thread
<1>7. Passed'
  <2>1. ASSUME NEW i \in DOMAIN thread_list, completed[thread_list[i]]
        PROVE  \E j \in 1..i : thread_list[j] = After(c)
    <3>1. PICK j \in 1..i : thread_list[j] = c
      BY <1>1, <2>1 DEF ListInv, Passed, c
    <3>2. j = p /\ i # p
      BY <1>1, <1>2, <1>3, <2>1, <3>1 DEF Distinct
    <3>3. p < i /\ p + 1 \in 1..i
      BY <1>3, <3>1, <3>2
    <3>. QED  BY <1>3, <3>3
  <2>2. cur'[Main] = After(c)
    BY <1>1 DEF ListInv, Places
  <2>. QED  BY <1>1, <1>2, <1>3, <2>1, <2>2 DEF Passed
<1>. QED  BY <1>4, <1>5, <1>6, <1>7 DEF ListInv

LEMMA ReapJoinKeeps ==
  ASSUME ListInv, ReapJoin
  PROVE  ListInv'
<1>. DEFINE c == cur[Main]
            p == Position(c)
            n == Len(thread_list)
<1>1. /\ Main \in Thread /\ frame[Main] = "none" /\ pc[Main] = "reap"
      /\ c # NULL
      /\ thread_list' = Remove(c)
      /\ cur' = [cur EXCEPT ![Main] = After(c)]
      /\ node' = [node EXCEPT ![c] = "freed"]
      /\ UNCHANGED <<pc, frame, thread_list_mutex, completed, file_mutex,
                     keep_running, server_socket>>
  BY DEF ReapJoin, At, globals, Thread
<1>2. c \in Listed /\ c \in Client /\ thread_list \in Seq(Client) /\ Distinct
  BY <1>1 DEF ListInv, Passed, TypeOK, Listed
<1>3. /\ p \in 1..n /\ thread_list[p] = c /\ n \in Nat /\ DOMAIN thread_list = 1..n
      /\ IF p = n THEN After(c) = NULL ELSE p + 1 \in 1..n /\ After(c) = thread_list[p + 1]
      /\ After(c) \in (Listed \ {c}) \cup {NULL}
  BY <1>2, AfterIsNext
<1>4. /\ thread_list' \in Seq(Client) /\ Distinct' /\ Listed' = Listed \ {c}
      /\ Len(thread_list') = n - 1
      /\ \A i \in 1..(p - 1) : thread_list'[i] = thread_list[i]
      /\ \A i \in p..(n - 1) : thread_list'[i] = thread_list[i + 1]
  BY <1>1, <1>2, RemoveIsThere
<1>. HIDE DEF p, c, n
<1>5. TypeOK' /\ Places'
  BY <1>1, <1>2, <1>3, <1>4 DEF ListInv, TypeOK, Places, Listed
<1>6. Locked'
  BY <1>1 DEF ListInv, Locked
<1>7. Owned'
  <2>1. \A t \in Thread : frame[t] # "join"
    BY <1>1 DEF ListInv, Locked, OwnSection, Shutdown, Thread
  <2>2. pc[c] \notin Unlinked
    BY <1>2 DEF ListInv, Owned
  <2>. QED  BY <1>1, <1>2, <1>4, <2>1, <2>2 DEF ListInv, TypeOK, Owned, Unlinked
<1>8. Passed'
  <2>1. cur'[Main] = After(c)
    BY <1>1 DEF ListInv, Places
  <2>2. ASSUME NEW i \in 1..(n - 1), completed[thread_list'[i]]
        PROVE  \E j \in 1..i : thread_list'[j] = After(c)
    <3>1. CASE i < p
      <4>1. completed[thread_list[i]] /\ i \in DOMAIN thread_list
        BY <1>3, <1>4, <2>2, <3>1
      <4>2. PICK j \in 1..i : thread_list[j] = c
        BY <1>1, <4>1 DEF ListInv, Passed, c
      <4>. QED  BY <1>2, <1>3, <3>1, <4>2 DEF Distinct
    <3>2. CASE ~(i < p)
      <4>1. p \in 1..i /\ p \in p..(n - 1) /\ p # n
        BY <1>3, <3>2
      <4>2. thread_list'[p] = After(c)
        BY <1>3, <1>4, <4>1
      <4>. QED  BY <4>1, <4>2
    <3>. QED  BY <3>1, <3>2
  <2>3. DOMAIN thread_list' = 1..(n - 1)
    BY <1>4
  <2>. QED  BY <1>1, <1>3, <1>4, <2>1, <2>2, <2>3 DEF Passed
<1>. QED  BY <1>4, <1>5, <1>6, <1>7, <1>8 DEF ListInv

LEMMA ReapUnlockKeeps ==
  ASSUME ListInv, ReapUnlock
  PROVE  ListInv'
<1>1. /\ Main \in Thread /\ frame[Main] = "none"
      /\ pc[Main] = "reap" /\ pc' = [pc EXCEPT ![Main] = "accept"]
      /\ thread_list_mutex' = NULL
      /\ UNCHANGED <<frame, thread_list, cur, node, completed, file_mutex, keep_running,
                     server_socket>>
  BY DEF ReapUnlock, At, Goto, globals, Thread
<1>2. Listed' = Listed /\ Listed \subseteq Client /\ Client \subseteq Thread
  BY <1>1 DEF Listed, ListInv, TypeOK, Thread
<1>3. TypeOK' /\ Places'
  BY <1>1 DEF ListInv, TypeOK, Places, MainPlace, ClientPlace, TimerPlace, Frame, Thread
<1>4. Locked' /\ Distinct'
  BY <1>1 DEF ListInv, Places, Locked, Distinct, OwnSection, Shutdown, Thread
<1>5. Owned'
  BY <1>1, <1>2 DEF ListInv, Places, Owned, Unlinked
<1>. QED  BY <1>1, <1>3, <1>4, <1>5 DEF ListInv, Places, Passed

(***************************************************************************)
(* The shutdown takes the nodes from the list, one after the other.        *)
(***************************************************************************)
LEMMA CleanupPopKeeps ==
  ASSUME ListInv, NEW t \in Thread, CleanupPop(t)
  PROVE  ListInv'
<1>. DEFINE n == Len(thread_list)
            c == Head(thread_list)
<1>1. /\ frame[t] = "pop" /\ frame' = [frame EXCEPT ![t] = "join"]
      /\ cur' = [cur EXCEPT ![t] = c]
      /\ thread_list # <<>> /\ thread_list' = Tail(thread_list)
      /\ UNCHANGED <<pc, node, completed, thread_list_mutex, file_mutex, keep_running,
                     server_socket>>
  BY DEF CleanupPop, InCleanup, CleanupGoto, globals
<1>2. /\ thread_list \in Seq(Client) /\ n \in Nat \ {0}
      /\ DOMAIN thread_list = 1..n /\ thread_list[1] = c
      /\ thread_list' \in Seq(Client) /\ DOMAIN thread_list' = 1..(n - 1)
      /\ \A i \in 1..(n - 1) : thread_list'[i] = thread_list[i + 1]
  BY <1>1 DEF ListInv, TypeOK
<1>. HIDE DEF n, c
<1>3. c \in Listed /\ c \in Client
  BY <1>2 DEF Listed
<1>4. Distinct'
  <2>. SUFFICES ASSUME NEW i \in 1..(n - 1), NEW j \in 1..(n - 1),
                       thread_list'[i] = thread_list'[j]
                PROVE  i = j
    BY <1>2 DEF Distinct
  <2>1. i + 1 \in 1..n /\ j + 1 \in 1..n /\ thread_list[i + 1] = thread_list[j + 1]
    BY <1>2
  <2>2. i + 1 = j + 1
    BY <1>2, <2>1 DEF ListInv, Distinct
  <2>. QED  BY <2>2
<1>5. Listed' = Listed \ {c}
  <2>1. ASSUME NEW d \in Listed, d # c PROVE d \in Listed'
    <3>1. PICK i \in 1..n : thread_list[i] = d /\ i # 1
      BY <1>2, <2>1 DEF Listed
    <3>2. i - 1 \in 1..(n - 1) /\ thread_list'[i - 1] = d
      BY <1>2, <3>1
    <3>. QED  BY <1>2, <3>2 DEF Listed
  <2>2. ASSUME NEW i \in 1..(n - 1) PROVE thread_list'[i] \in Listed \ {c}
    <3>1. i + 1 \in 1..n /\ 1 \in 1..n /\ i + 1 # 1
      BY <1>2
    <3>. QED  BY <1>2, <3>1 DEF ListInv, Distinct, Listed
  <2>3. Listed' = {thread_list'[i] : i \in 1..(n - 1)}
    BY <1>2 DEF Listed
  <2>. QED  BY <2>1, <2>2, <2>3
<1>6. TypeOK' /\ Places'
  BY <1>1, <1>2, <1>3 DEF ListInv, TypeOK, Places, Frame
<1>7. \A u \in Thread : u # t => pc[u] \notin OwnSection /\ frame[u] \notin Shutdown
  BY <1>1 DEF ListInv, Locked, Shutdown
<1>8. Locked'
  BY <1>1 DEF ListInv, Places, Locked, Shutdown
<1>9. Owned'
  <2>1. \A u \in Thread : frame[u] # "join"
    BY <1>1, <1>7 DEF Shutdown
  <2>2. node[c] = "live" /\ pc[c] \notin Unlinked
    BY <1>3 DEF ListInv, Owned
  <2>3. frame'[t] = "join" /\ cur'[t] = c
    BY <1>1 DEF ListInv, Places
  <2>4. \A u \in Thread : frame'[u] = "join" => u = t
    BY <1>1, <2>1 DEF ListInv, Places
  <2>. QED  BY <1>1, <1>3, <1>5, <2>1, <2>2, <2>3, <2>4 DEF ListInv, Owned
<1>10. pc'[Main] # "reap"
  BY <1>1, <1>7 DEF ListInv, Locked, OwnSection, Shutdown, Thread
<1>. QED  BY <1>4, <1>6, <1>8, <1>9, <1>10 DEF ListInv, Passed

LEMMA CleanupJoinKeeps ==
  ASSUME ListInv, NEW t \in Thread, CleanupJoin(t)
  PROVE  ListInv'
<1>. DEFINE c == cur[t]
<1>1. /\ frame[t] = "join" /\ frame' = [frame EXCEPT ![t] = "pop"]
      /\ cur' = [cur EXCEPT ![t] = NULL]
      /\ node' = [node EXCEPT ![c] = "freed"]
      /\ UNCHANGED <<pc, thread_list, completed, thread_list_mutex, file_mutex, keep_running,
                     server_socket>>
  BY DEF CleanupJoin, InCleanup, CleanupGoto, globals
<1>2. c \in Client \ Listed /\ pc[c] \notin Unlinked /\ Listed' = Listed
  BY <1>1 DEF ListInv, Owned, Listed
<1>. HIDE DEF c
<1>3. TypeOK' /\ Places'
  BY <1>1, <1>2 DEF ListInv, TypeOK, Places, Frame
<1>4. Locked' /\ Distinct'
  BY <1>1 DEF ListInv, Places, Locked, Distinct, Shutdown
<1>5. \A u \in Thread : frame'[u] # "join" /\ (frame[u] = "join" => u = t)
  BY <1>1 DEF ListInv, Places, Locked, Shutdown
<1>6. Owned'
  BY <1>1, <1>2, <1>5 DEF ListInv, TypeOK, Owned, Unlinked, c
<1>7. pc'[Main] # "reap"
  BY <1>1 DEF ListInv, Locked, OwnSection, Shutdown, Thread
<1>. QED  BY <1>3, <1>4, <1>6, <1>7 DEF ListInv, Passed

-----------------------------------------------------------------------------

LEMMA StutterKeeps == ListInv /\ UNCHANGED vars => ListInv'
<1>. SUFFICES ASSUME ListInv, UNCHANGED vars PROVE ListInv'
  OBVIOUS
<1>1. TypeOK' /\ Places'
  BY DEF vars, ListInv, TypeOK, Places
<1>2. Elsewhere
  BY DEF vars, Elsewhere
<1>. QED  BY <1>1, <1>2, StepElsewhere DEF vars

LEMMA ListStep == ListInv /\ [Next]_vars => ListInv'
<1>. SUFFICES ASSUME ListInv, [Next]_vars PROVE ListInv'
  OBVIOUS
<1>1. CASE UNCHANGED vars
  BY <1>1, StutterKeeps
<1>2. CASE main
  <2>1. CASE Accept \/ Create \/ Stop \/ Exit
    BY <2>1, QuietKeeps DEF Quiet
  <2>. QED  BY <1>2, <2>1, ReapLockKeeps, ReapKeepKeeps, ReapJoinKeeps, ReapUnlockKeeps DEF main
<1>3. ASSUME NEW c \in Client, handle_client(c) PROVE ListInv'
  <2>1. CASE FileLock(c) \/ FileUnlock(c) \/ ConnectionEnds(c) \/ NoNode(c)
    BY <2>1, QuietKeeps DEF Quiet
  <2>2. CASE Linked(c) \/ Complete(c) \/ CompleteUnlock(c)
    BY <2>2, LockKeeps DEF LockStep
  <2>. QED  BY <1>3, <2>1, <2>2, NewNodeKeeps, LinkKeeps, SetCompletedKeeps DEF handle_client
<1>4. CASE timestamp_thread
  BY <1>4, QuietKeeps DEF Quiet
<1>5. ASSUME NEW t \in SignalTarget, Signal(t) PROVE ListInv'
  BY <1>5, QuietKeeps DEF Quiet
<1>6. ASSUME NEW t \in Thread, cleanup_on_signal(t) PROVE ListInv'
  <2>1. CASE CancelTimer(t) \/ JoinTimer(t) \/ CloseSocket(t)
    BY <2>1, QuietKeeps DEF Quiet
  <2>2. CASE CleanupLock(t) \/ CleanupEnds(t)
    BY <2>2, LockKeeps DEF LockStep
  <2>. QED  BY <1>6, <2>1, <2>2, CleanupPopKeeps, CleanupJoinKeeps DEF cleanup_on_signal
<1>. QED  BY <1>1, <1>2, <1>3, <1>4, <1>5, <1>6 DEF Next

LEMMA AlwaysList == Spec => []ListInv
BY InitList, ListStep, PTL DEF Spec

(***************************************************************************)
(* The list, the nodes, the two mutexes and every thread's place in a pass *)
(* are of their types, in the middle of a shutdown too (aesdsocket.c,      *)
(* thread_manager.c).                                                      *)
(***************************************************************************)
THEOREM TypeCorrect == Spec => []TypeOK
BY AlwaysList, PTL DEF ListInv

(* A list without repetitions has as many clients as places.               *)
LEMMA DistinctCounts ==
  ASSUME thread_list \in Seq(Client), Distinct
  PROVE  Cardinality(Listed) = Len(thread_list)
<1>1. Len(thread_list) \in Nat /\ DOMAIN thread_list = 1..Len(thread_list)
  OBVIOUS
<1>2. /\ IsFiniteSet(1..Len(thread_list))
      /\ Cardinality(1..Len(thread_list)) = Len(thread_list)
  BY <1>1, FS_Interval
<1>3. thread_list \in Bijection(1..Len(thread_list), Listed)
  BY <1>1 DEF Distinct, Listed, Bijection, Injection, Surjection, IsInjective
<1>. QED  BY <1>2, <1>3, FS_Bijection DEF ExistsBijection

(***************************************************************************)
(* Every live node is on the list once, or about to be linked, or in the   *)
(* hands of the thread that joins its owner, whichever threads insert,     *)
(* remove and shut down at the same time (add_thread_to_list,              *)
(* remove_completed_threads, cleanup_thread_list).                         *)
(***************************************************************************)
THEOREM NodesAreAccounted == Spec => []NodesAccounted
<1>1. ListInv => NodesAccounted
  <2>. SUFFICES ASSUME ListInv PROVE NodesAccounted
    OBVIOUS
  <2>1. Cardinality(Listed) = Len(thread_list) /\ Listed \subseteq Client
    BY DistinctCounts DEF ListInv, TypeOK, Listed
  <2>2. {c \in Client : node[c] = "live"} =
          Listed \cup {c \in Client : pc[c] = "link"}
                 \cup {cur[t] : t \in {u \in Thread : frame[u] = "join"}}
    BY <2>1 DEF ListInv, Owned
  <2>. QED  BY <2>1, <2>2 DEF NodesAccounted, Listed
<1>. QED  BY <1>1, AlwaysList, PTL

(***************************************************************************)
(* When main comes to the end of a pass, no thread on the list had marked  *)
(* itself completed: none is passed over while others link themselves      *)
(* (remove_completed_threads).                                             *)
(***************************************************************************)
THEOREM ReapIsComplete == Spec => []ReapCollects
<1>1. ListInv => ReapCollects
  <2>. SUFFICES ASSUME ListInv, pc[Main] = "reap", cur[Main] = NULL,
                       NEW i \in DOMAIN thread_list
                PROVE  ~completed[thread_list[i]]
    BY DEF ReapCollects
  <2>1. \A j \in 1..i : thread_list[j] # NULL
    BY DEF ListInv, TypeOK
  <2>. QED  BY <2>1 DEF ListInv, Passed
<1>. QED  BY <1>1, AlwaysList, PTL

(***************************************************************************)
(* With signals taken by main alone, a client thread never uses its node   *)
(* after the node is freed: who frees it has waited for the thread to end  *)
(* (handle_client).  Without that assumption a thread may join itself,     *)
(* which is what the run socket_handler shows.                             *)
(***************************************************************************)
UseInv == /\ ListInv
          /\ \A c \in Client : node[c] = "freed" => pc[c] = "done"
          /\ \A c \in Client : frame[c] = "none"

LEMMA UseStep ==
  ASSUME SignalTarget \subseteq {Main}, UseInv, [Next]_vars
  PROVE  UseInv'
<1>1. ListInv'
  BY ListStep DEF UseInv
<1>2. Client \subseteq Thread /\ Main \in Thread
  BY DEF Thread
<1>. DEFINE Meanwhile == \A c \in Client :
                           /\ frame'[c] = "none"
                           /\ pc[c] = "done" => pc'[c] = "done"
                           /\ node'[c] = "freed" => node[c] = "freed" \/ pc[c] = "done"
<1>3. ASSUME UNCHANGED vars PROVE Meanwhile
  BY <1>3 DEF UseInv, vars
<1>4. ASSUME main PROVE Meanwhile
  <2>. USE <1>2 DEF UseInv, ListInv, TypeOK, Places, globals, At, Goto
  <2>1. CASE Accept \/ Create
    BY <2>1 DEF Accept, Create
  <2>2. CASE Stop \/ Exit
    BY <2>2 DEF Stop, Exit
  <2>3. CASE ReapLock \/ ReapKeep \/ ReapUnlock
    BY <2>3 DEF ReapLock, ReapKeep, ReapUnlock
  <2>4. CASE ReapJoin
    BY <2>4 DEF ReapJoin
  <2>. QED  BY <1>4, <2>1, <2>2, <2>3, <2>4 DEF main
<1>5. ASSUME NEW d \in Client, handle_client(d)
      PROVE  Meanwhile
  <2>. USE <1>2 DEF UseInv, ListInv, TypeOK, Places, globals, At, Goto
  <2>1. CASE NewNode(d) \/ Link(d) \/ Linked(d)
    BY <2>1 DEF NewNode, Link, Linked
  <2>2. CASE FileLock(d) \/ FileUnlock(d) \/ ConnectionEnds(d)
    BY <2>2 DEF FileLock, FileUnlock, ConnectionEnds
  <2>3. CASE NoNode(d) \/ Complete(d)
    BY <2>3 DEF NoNode, Complete
  <2>4. CASE SetCompleted(d) \/ CompleteUnlock(d)
    BY <2>4 DEF SetCompleted, CompleteUnlock
  <2>. QED  BY <1>5, <2>1, <2>2, <2>3, <2>4 DEF handle_client
<1>6. ASSUME timestamp_thread PROVE Meanwhile
  <2>. USE <1>2 DEF UseInv, ListInv, TypeOK, Places, globals, At, Goto
  <2>. QED  BY <1>6 DEF timestamp_thread, TimerTick, TimerLock, TimerUnlock, TimerWakes,
                        TimerCancelled
<1>7. ASSUME NEW t \in SignalTarget, Signal(t)
      PROVE  Meanwhile
  BY <1>2, <1>7 DEF Signal, UseInv, ListInv, Places
<1>8. ASSUME NEW t \in Thread, cleanup_on_signal(t)
      PROVE  Meanwhile
  <2>. USE <1>2 DEF UseInv, ListInv, TypeOK, Places, globals, InCleanup, CleanupGoto
  <2>1. CASE CancelTimer(t) \/ JoinTimer(t) \/ CloseSocket(t)
    BY <1>8, <2>1 DEF CancelTimer, JoinTimer, CloseSocket
  <2>2. CASE CleanupLock(t) \/ CleanupPop(t) \/ CleanupEnds(t)
    BY <1>8, <2>2 DEF CleanupLock, CleanupPop, CleanupEnds
  <2>3. CASE CleanupJoin(t)
    BY <1>8, <2>3 DEF CleanupJoin
  <2>. QED  BY <1>8, <2>1, <2>2, <2>3 DEF cleanup_on_signal
<1>9. Meanwhile
  BY <1>3, <1>4, <1>5, <1>6, <1>7, <1>8 DEF Next
<1>. QED  BY <1>1, <1>9 DEF UseInv

THEOREM NodesAreUsed ==
  ASSUME SignalTarget \subseteq {Main}
  PROVE  Spec => []NodeUse
<1>1. Init => UseInv
  BY InitList DEF Init, UseInv, Thread
<1>2. UseInv /\ [Next]_vars => UseInv'
  BY UseStep
<1>3. UseInv => NodeUse
  BY DEF UseInv, NodeUse
<1>. QED  BY <1>1, <1>2, <1>3, PTL DEF Spec
=============================================================================
