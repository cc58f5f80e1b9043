------------------------------- MODULE EchoLog -------------------------------
(***************************************************************************)
(* The promise of aesdsocket to its clients, with no trace of the mutex,   *)
(* the descriptors and the order in which handle_client opens, writes,     *)
(* reopens and reads: a client's bytes are taken in chunks, a chunk goes   *)
(* into the store in one step or not at all, and a chunk that asks for an  *)
(* answer gets a part of the store as it is at that moment, for nothing is *)
(* stored while a client is being answered.                                *)
(*                                                                         *)
(* The store is the device or, in the other build, a regular file, where a *)
(* write that fails may leave the head of its chunk, and which also gets   *)
(* timestamps.                                                             *)
(***************************************************************************)
EXTENDS Naturals, SequencesExt

CONSTANTS Client, Script, Prefix1, Prefix2, Number, Newline, Capacity, Stamp,
          Builds

VARIABLES
  unsent,     \* what has not been taken yet
  chunk,      \* what is being worked on
  answer,     \* the answer that is due: where in the store it starts, what was sent
  useDevice,
  log, partial,
  file

vars == <<unsent, chunk, answer, useDevice, log, partial, file>>
store == <<useDevice, log, partial, file>>

Init == /\ useDevice \in Builds
        /\ unsent = Script[useDevice]
        /\ chunk = [c \in Client |-> <<>>]
        /\ answer = [c \in Client |-> {}]
        /\ log = <<>>
        /\ partial = <<>>
        /\ file = <<>>

-----------------------------------------------------------------------------

CommandLog == INSTANCE CommandLog WITH Element <- {}

Content == IF useDevice THEN FlattenSeq(log) ELSE file
StartOf(n) == Len(FlattenSeq(SubSeq(log, 1, n)))

IsSeek(c) == IsPrefix(<<Prefix1, Prefix2>>, chunk[c])
Named(c, x, y) == /\ Len(chunk[c]) >= 4
                  /\ x = chunk[c][3] /\ x \in Number /\ x < Len(log)
                  /\ y = chunk[c][4] /\ y \in Number /\ y < Len(log[x + 1])

(* Nobody is being answered.                                               *)
Idle == \A c \in Client : answer[c] = {}

AnswerFrom(c, n) == /\ answer' = [answer EXCEPT ![c] = {[from |-> n, sent |-> <<>>]}]
                    /\ UNCHANGED chunk

Done(c) == /\ chunk' = [chunk EXCEPT ![c] = <<>>]
           /\ answer' = [answer EXCEPT ![c] = {}]

(* Any part of what the client sends next.                                 *)
Receive(c) == /\ chunk[c] = <<>>
              /\ \E n \in 1..Len(unsent[c]) :
                   /\ chunk' = [chunk EXCEPT ![c] = SubSeq(unsent[c], 1, n)]
                   /\ unsent' = [unsent EXCEPT ![c] = SubSeq(@, n + 1, Len(@))]
              /\ UNCHANGED <<answer, store>>

(* The device has room for a chunk behind a command that is not complete;  *)
(* the chunk with the newline completes it.                                *)
Kept(c) == IF ~useDevice
           THEN file' = file \o chunk[c] /\ UNCHANGED <<log, partial>>
           ELSE IF Contains(chunk[c], Newline)
           THEN /\ log' = CommandLog!Pushed(partial \o chunk[c])
                /\ partial' = <<>>
                /\ UNCHANGED file
           ELSE partial' = partial \o chunk[c] /\ UNCHANGED <<log, file>>

(* A chunk goes in; one with a newline is answered with the whole store.   *)
Store(c) == /\ Idle
            /\ ~IsSeek(c)
            /\ Kept(c)
            /\ IF Contains(chunk[c], Newline) THEN AnswerFrom(c, 0) ELSE Done(c)
            /\ UNCHANGED <<unsent, useDevice>>

StoreHead(c) == /\ ~useDevice
                /\ Idle
                /\ ~IsSeek(c)
                /\ \E n \in 0..(Len(chunk[c]) - 1) : file' = file \o SubSeq(chunk[c], 1, n)
                /\ Done(c)
                /\ UNCHANGED <<unsent, useDevice, log, partial>>

(* The position a seek command names, if there is such a command.          *)
Seek(c) == /\ useDevice
           /\ Idle
           /\ IsSeek(c)
           /\ \E x, y \in Number : Named(c, x, y) /\ AnswerFrom(c, StartOf(x) + y)
           /\ UNCHANGED <<unsent, store>>

(* More of the answer is sent.                                             *)
Show(c) == /\ \E a \in answer[c] :
                \E to \in (a.from + Len(a.sent))..Len(Content) :
                  answer' = [answer EXCEPT ![c] = {[from |-> a.from,
                                                    sent |-> SubSeq(Content, a.from + 1, to)]}]
           /\ UNCHANGED <<unsent, chunk, store>>

(* The end of an answer, whether all of it was sent or not, and the end of *)
(* a chunk for which nothing could be done.                                *)
Finish(c) == Done(c) /\ UNCHANGED <<unsent, store>>

(* A timestamp, or the part of one that could be written.                  *)
TimeStamp == /\ ~useDevice
             /\ Idle
             /\ \E n \in 1..2 : file' = file \o SubSeq(<<Stamp, Newline>>, 1, n)
             /\ UNCHANGED <<unsent, chunk, answer, useDevice, log, partial>>

Next == \/ TimeStamp
        \/ \E c \in Client : \/ Receive(c) \/ Store(c) \/ StoreHead(c) \/ Seek(c)
                             \/ Show(c) \/ Finish(c)

Spec == Init /\ [][Next]_vars

=============================================================================
