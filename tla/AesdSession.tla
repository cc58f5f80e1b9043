----------------------------- MODULE AesdSession -----------------------------
(***************************************************************************)
(* What the client threads of aesdsocket do with the bytes of their peers, *)
(* in the build for /dev/aesdchar and in the one for a regular file, which *)
(* has a timestamp thread beside them.  TCP keeps the order of a peer's    *)
(* bytes and nothing else: recv returns any part of what is under way, so  *)
(* a message may come in pieces, or two of them at once.                   *)
(*                                                                         *)
(* A byte string is a sequence of symbols: model values for text, Newline, *)
(* and, for the command "AESDCHAR_IOCSEEKTO:X,Y", the two halves of its    *)
(* prefix and the two numbers.  The device is what AesdDevice says it is;  *)
(* its calls are atomic here.                                              *)
(***************************************************************************)
EXTENDS Naturals, SequencesExt

CONSTANTS Client,
          Script,           \* by build: what each peer sends before it closes
          Prefix1, Prefix2, \* the halves of "AESDCHAR_IOCSEEKTO:"
          Number,           \* the numbers that occur in a command
          Newline,
          BufferSize,       \* what one recv or read returns at most
          Capacity,         \* commands the device holds
          Stamp,            \* the text of a timestamp
          MaxStamps,        \* bound: timestamps in the file
          Builds,           \* values of USE_AESD_CHAR_DEVICE
          NULL

ASSUME SizeAssumption == BufferSize \in Nat \ {0} /\ Capacity \in Nat \ {0}
ASSUME NumberAssumption == Number \subseteq Nat
ASSUME NullAssumption == NULL \notin Client

(* The symbols that occur.                                                 *)
Symbol == {Stamp, Newline} \cup UNION {Range(Script[build][c]) : build \in Builds, c \in Client}
ASSUME ScriptAssumption ==
  \A build \in Builds : Script[build] \in [Client -> Seq(Symbol)]

VARIABLES
  unsent,      \* what has not been received yet
  buffer,      \* the chunk a thread has received and works on
  reply,       \* what it has sent back in answer to it
  file_mutex,  \* the holder
  file_desc,   \* NULL, or the position of the descriptor the thread has open
  useDevice,   \* USE_AESD_CHAR_DEVICE
  log,         \* the device: its commands, and the one that is not complete
  partial,
  file,        \* the regular file
  pc

vars == <<unsent, buffer, reply, file_mutex, file_desc, useDevice, log, partial, file, pc>>
storage == <<useDevice, log, partial, file>>

Init == /\ useDevice \in Builds
        /\ unsent = Script[useDevice]
        /\ buffer = [c \in Client |-> <<>>]
        /\ reply = [c \in Client |-> <<>>]
        /\ file_mutex = NULL
        /\ file_desc = [c \in Client |-> NULL]
        /\ log = <<>>
        /\ partial = <<>>
        /\ file = <<>>
        /\ pc = [c \in Client |-> "recv"]

-----------------------------------------------------------------------------

(* strncmp finds the prefix only if all of it is at the start of the chunk;*)
(* sscanf wants both numbers in the same chunk.                            *)
IsSeek(chunk) == IsPrefix(<<Prefix1, Prefix2>>, chunk)
Parses(chunk) == /\ Len(chunk) >= 4
                 /\ chunk[3] \in Number
                 /\ chunk[4] \in Number

Goto(c, step) == pc' = [pc EXCEPT ![c] = step]

(* The end of the section: close, pthread_mutex_unlock.  What buffer and   *)
(* reply hold is not looked at again.                                      *)
Leave(c, step) == /\ file_desc' = [file_desc EXCEPT ![c] = NULL]
                  /\ file_mutex' = NULL
                  /\ buffer' = [buffer EXCEPT ![c] = <<>>]
                  /\ reply' = [reply EXCEPT ![c] = <<>>]
                  /\ Goto(c, step)

Recv(c) == /\ pc[c] = "recv"
           /\ \E n \in 1..Min({BufferSize, Len(unsent[c])}) :
                LET chunk == SubSeq(unsent[c], 1, n)
                IN  /\ buffer' = [buffer EXCEPT ![c] = chunk]
                    /\ unsent' = [unsent EXCEPT ![c] = SubSeq(@, n + 1, Len(@))]
                    /\ Goto(c, IF ~IsSeek(chunk) THEN "lock"
                               ELSE IF Parses(chunk) THEN "lock_seek" ELSE "cleanup")
           /\ UNCHANGED <<reply, file_mutex, file_desc, storage>>

(* recv returns 0 or fails.                                                *)
Hangup(c) == /\ pc[c] = "recv"
             /\ Goto(c, "cleanup")
             /\ UNCHANGED <<unsent, buffer, reply, file_mutex, file_desc, storage>>

Lock(c, from, to) == /\ pc[c] = from
                     /\ file_mutex = NULL
                     /\ file_mutex' = c
                     /\ Goto(c, to)
                     /\ UNCHANGED <<unsent, buffer, reply, file_desc, storage>>

(* Mutant: a failed open leaves the mutex locked.                          *)
OpenKeepsLock(c, from, to) ==
  /\ pc[c] = from
  /\ \/ /\ file_desc' = [file_desc EXCEPT ![c] = 0]
        /\ Goto(c, to)
     \/ /\ Goto(c, "cleanup")
        /\ UNCHANGED file_desc
  /\ UNCHANGED <<unsent, buffer, reply, file_mutex, storage>>

(* open, at position 0; its failure ends the session.                      *)
Open(c, from, to) ==
  /\ pc[c] = from
  /\ \/ /\ file_desc' = [file_desc EXCEPT ![c] = 0]
        /\ Goto(c, to)
        /\ UNCHANGED <<buffer, reply, file_mutex>>
     \/ Leave(c, "cleanup")
  /\ UNCHANGED <<unsent, storage>>

-----------------------------------------------------------------------------
(* A chunk that is not a seek command.                                     *)

CommandLog == INSTANCE CommandLog WITH Element <- {}

(* Mutant: the mutex is released before the log is read back.              *)
WriteUnlocks(c) ==
  /\ IF Contains(buffer[c], Newline)
     THEN /\ log' = CommandLog!Pushed(partial \o buffer[c])
          /\ partial' = <<>>
          /\ file_desc' = [file_desc EXCEPT ![c] = NULL]
          /\ file_mutex' = NULL
          /\ Goto(c, "reopen")
          /\ UNCHANGED <<buffer, reply>>
     ELSE /\ partial' = partial \o buffer[c]
          /\ UNCHANGED log
          /\ Leave(c, "recv")
  /\ UNCHANGED <<unsent, useDevice, file>>

(* write_all to the device, which takes all or nothing, and the test for a *)
(* newline: with one, the descriptor is exchanged for one at position 0 in *)
(* the locked section.                                                     *)
WriteDevice(c) ==
  /\ \/ Leave(c, "cleanup") /\ UNCHANGED <<log, partial>>
     \/ IF Contains(buffer[c], Newline)
        THEN /\ log' = CommandLog!Pushed(partial \o buffer[c])
             /\ partial' = <<>>
             /\ file_desc' = [file_desc EXCEPT ![c] = NULL]
             /\ Goto(c, "reopen")
             /\ UNCHANGED <<buffer, reply, file_mutex>>
        ELSE /\ partial' = partial \o buffer[c]
             /\ UNCHANGED log
             /\ Leave(c, "recv")
  /\ UNCHANGED <<unsent, useDevice, file>>

(* Mutant: write_all starts over after a short write.                      *)
WriteFileRestarts(c) ==
  /\ \E n \in 0..(Len(buffer[c]) - 1) : file' = file \o SubSeq(buffer[c], 1, n) \o buffer[c]
  /\ IF Contains(buffer[c], Newline)
     THEN /\ file_desc' = [file_desc EXCEPT ![c] = Len(file')]
          /\ Goto(c, "rewind")
          /\ UNCHANGED <<buffer, reply, file_mutex>>
     ELSE Leave(c, "recv")
  /\ UNCHANGED <<unsent, useDevice, log, partial>>

(* write_all to the file, at its end (O_APPEND), which may fail half-way.  *)
WriteFile(c) ==
  /\ \/ /\ \E n \in 0..(Len(buffer[c]) - 1) : file' = file \o SubSeq(buffer[c], 1, n)
        /\ Leave(c, "cleanup")
     \/ /\ file' = file \o buffer[c]
        /\ IF Contains(buffer[c], Newline)
           THEN /\ file_desc' = [file_desc EXCEPT ![c] = Len(file')]
                /\ Goto(c, "rewind")
                /\ UNCHANGED <<buffer, reply, file_mutex>>
           ELSE Leave(c, "recv")
  /\ UNCHANGED <<unsent, useDevice, log, partial>>

Write(c) == /\ pc[c] = "write"
            /\ IF useDevice THEN WriteDevice(c) ELSE WriteFile(c)

(* lseek to 0 has the outcomes of an open.                                 *)
Rewind(c) == Open(c, "rewind", "read_back")

(* One round of timestamp_thread, in one step as it has file_mutex from    *)
(* before its open to after its close.  Its failures are not looked at.    *)
timestamp_thread ==
  /\ ~useDevice
  /\ file_mutex = NULL
  /\ Len(SelectSeq(file, LAMBDA symbol : symbol = Stamp)) < MaxStamps
  /\ \E n \in 1..2 : file' = file \o SubSeq(<<Stamp, Newline>>, 1, n)
  /\ UNCHANGED <<unsent, buffer, reply, file_mutex, file_desc, useDevice, log, partial, pc>>

-----------------------------------------------------------------------------
(* A seek command.  Without the device it is recognised all the same, and  *)
(* nothing is done for it in the locked section.                           *)

OpenToSeek(c) == IF useDevice THEN Open(c, "open_seek", "ioctl")
                 ELSE /\ pc[c] = "open_seek"
                      /\ Leave(c, "recv")
                      /\ UNCHANGED <<unsent, storage>>

Content == IF useDevice THEN FlattenSeq(log) ELSE file
StartOf(n) == Len(FlattenSeq(SubSeq(log, 1, n)))
Bounds == IF useDevice THEN {StartOf(n) : n \in 0..Len(log)} ELSE {Len(file)}

Exists(x, y) == x < Len(log) /\ y < Len(log[x + 1])

(* Mutant: the descriptor stays open when the command does not exist.      *)
IoctlLeaks(c) == LET x == buffer[c][3]
                     y == buffer[c][4]
                 IN /\ pc[c] = "ioctl"
                    /\ IF Exists(x, y)
                       THEN /\ file_desc' = [file_desc EXCEPT ![c] = StartOf(x) + y]
                            /\ Goto(c, "read_rest")
                            /\ UNCHANGED file_mutex
                       ELSE /\ file_mutex' = NULL
                            /\ Goto(c, "cleanup")
                            /\ UNCHANGED file_desc
                    /\ UNCHANGED <<unsent, buffer, reply, storage>>

(* AESDCHAR_IOCSEEKTO, which may also fail for a reason of its own.        *)
Ioctl(c) == LET x == buffer[c][3]
                y == buffer[c][4]
            IN /\ pc[c] = "ioctl"
               /\ \/ /\ Exists(x, y)
                     /\ file_desc' = [file_desc EXCEPT ![c] = StartOf(x) + y]
                     /\ Goto(c, "read_rest")
                     /\ UNCHANGED <<buffer, reply, file_mutex>>
                  \/ Leave(c, "cleanup")
               /\ UNCHANGED <<unsent, storage>>

-----------------------------------------------------------------------------
(* Both loops that read back and send what they got; one round.  A read of *)
(* the device stops at the end of a command; one that returns nothing or   *)
(* fails, and a send that fails, end the loop.                             *)
ReadAndSend(c, step, next) ==
  LET from == file_desc[c]
      to == Min({from + BufferSize} \cup {b \in Bounds : b > from})
  IN /\ pc[c] = step
     /\ \/ /\ from < Len(Content)
           /\ reply' = [reply EXCEPT ![c] = @ \o SubSeq(Content, from + 1, to)]
           /\ file_desc' = [file_desc EXCEPT ![c] = to]
           /\ UNCHANGED <<buffer, file_mutex, pc>>
        \/ Leave(c, next)
     /\ UNCHANGED <<unsent, storage>>

(* The label cleanup.                                                      *)
Cleanup(c) == /\ pc[c] = "cleanup"
              /\ Goto(c, "done")
              /\ UNCHANGED <<unsent, buffer, reply, file_mutex, file_desc, storage>>

handle_client(c) ==
  \/ Recv(c) \/ Hangup(c)
  \/ Lock(c, "lock", "open") \/ Open(c, "open", "write")
  \/ Write(c) \/ Open(c, "reopen", "read_back") \/ Rewind(c)
  \/ ReadAndSend(c, "read_back", "cleanup")
  \/ Lock(c, "lock_seek", "open_seek") \/ OpenToSeek(c)
  \/ Ioctl(c) \/ ReadAndSend(c, "read_rest", "recv")
  \/ Cleanup(c)

Next == timestamp_thread \/ \E c \in Client : handle_client(c)

Spec == Init /\ [][Next]_vars

(* Threads are scheduled, and every peer closes its connection some day.   *)
FairSpec == Spec /\ \A c \in Client : WF_vars(handle_client(c))

-----------------------------------------------------------------------------
(* Properties.                                                             *)

Outside == {"recv", "lock", "lock_seek", "cleanup", "done"}

(***************************************************************************)
(* Whatever way a thread leaves the section, it holds neither file_mutex   *)
(* nor a descriptor outside it, and inside it alone has the device open.   *)
(***************************************************************************)
SectionLeftClean ==
  \A c \in Client : IF pc[c] \in Outside
                    THEN file_mutex # c /\ file_desc[c] = NULL
                    ELSE file_mutex = c

(***************************************************************************)
(* The answer to a complete command shows the log, or the file, at the     *)
(* moment the command went in: it is what the log starts with, as far as   *)
(* it has been sent, and the log ends with the chunk the client sent,      *)
(* whatever other clients and the timestamp thread write meanwhile.        *)
(***************************************************************************)
AnswerShowsCommand ==
  \A c \in Client : pc[c] = "read_back" =>
    /\ file_desc[c] <= Len(Content)
    /\ reply[c] = SubSeq(Content, 1, file_desc[c])
    /\ IsSuffix(buffer[c], Content)

(***************************************************************************)
(* The answer to a seek command is the log from the position it names,     *)
(* which stays where it was until the answer is sent.                      *)
(***************************************************************************)
AnswerStartsAtSeek ==
  \A c \in Client : pc[c] = "read_rest" =>
    LET x == buffer[c][3]
        y == buffer[c][4]
    IN /\ Exists(x, y)
       /\ file_desc[c] <= Len(Content)
       /\ reply[c] = SubSeq(Content, StartOf(x) + y + 1, file_desc[c])

(* Where in the store the answer to a chunk starts, which it does once the *)
(* chunk has been written, or the descriptor has been positioned.          *)
AnswerStart(c) == IF pc[c] = "read_rest" THEN StartOf(buffer[c][3]) + buffer[c][4] ELSE 0
Answers == [c \in Client |->
              IF pc[c] \in {"reopen", "rewind", "read_back", "read_rest"}
              THEN {[from |-> AnswerStart(c), sent |-> reply[c]]}
              ELSE {}]

(***************************************************************************)
(* Clients cannot tell the threads, the mutex and the sequence of calls in *)
(* handle_client from a store that takes every chunk in one step and holds *)
(* still while it answers: a chunk is stored once and in one piece, or,    *)
(* when the write fails, not at all or, in a file, in part; nobody's bytes *)
(* come between a chunk and its answer; and an answer is a part of what    *)
(* was in the store when the chunk was dealt with.                         *)
(***************************************************************************)
EchoLog == INSTANCE EchoLog WITH chunk <- buffer, answer <- Answers
ImplementsEchoLog == EchoLog!Spec

(***************************************************************************)
(* A thread gets its turn at the device, and comes back from it.           *)
(***************************************************************************)
TurnComes ==
  \A c \in Client : pc[c] \in {"lock", "lock_seek"} ~> pc[c] \in {"recv", "done"}

(***************************************************************************)
(* The comment above the test for the prefix says that the command "should *)
(* NOT be written to the driver".                                          *)
(***************************************************************************)
CommandNotWritten ==
  \A i \in 1..(Len(Content \o partial) - 1) :
    SubSeq(Content \o partial, i, i + 1) # <<Prefix1, Prefix2>>

=============================================================================
