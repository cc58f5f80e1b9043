----------------------------- MODULE AesdDevice -----------------------------
(***************************************************************************)
(* What /dev/aesdchar promises to the processes that use it.  Each system  *)
(* call takes effect at one instant between its invocation and its return, *)
(* on a device that is nothing but a log of commands and the data of the   *)
(* command that is not complete yet.  There is no lock, no heap, no        *)
(* circular buffer and no copy of a file position here.                    *)
(*                                                                         *)
(* A call may fail for a reason of its own (no memory, a bad user address, *)
(* a signal), and then it changes nothing.                                 *)
(***************************************************************************)
EXTENDS Integers, SequencesExt

CONSTANTS Proc, File, Call,
          Capacity,   \* commands the log holds
          Newline     \* the byte that completes a command

VARIABLES log,      \* the commands, oldest first
          partial,  \* what has been written since the last command
          opened,   \* the open files
          pos,      \* their positions
          st        \* per process: the call it is in, and its result

vars == <<log, partial, opened, pos, st>>

Idle == [phase |-> "idle"]
Invoked(c) == [phase |-> "invoked", call |-> c]
Done(c, ret, out) == [phase |-> "done", call |-> c, ret |-> ret, out |-> out]

ERESTARTSYS == -512
ENOMEM == -12
EFAULT == -14
EINVAL == -22
ENOTTY == -25

Init == /\ log = <<>>
        /\ partial = <<>>
        /\ opened = {}
        /\ pos = [f \in File |-> 0]
        /\ st = [p \in Proc |-> Idle]

-----------------------------------------------------------------------------

(* The log as the flat file a reader sees, and where its commands end.     *)
Content == FlattenSeq(log)
Bounds  == {Len(FlattenSeq(SubSeq(log, 1, i))) : i \in 0..Len(log)}

Open(f) == /\ f \notin opened
           /\ opened' = opened \cup {f}
           /\ UNCHANGED <<log, partial, pos, st>>

Close(f) == /\ f \in opened
            /\ \A p \in Proc : st[p] = Idle \/ st[p].call.file # f
            /\ opened' = opened \ {f}
            /\ pos' = [pos EXCEPT ![f] = 0]
            /\ UNCHANGED <<log, partial, st>>

(* The driver is unloaded, or loaded again: nothing survives.              *)
Reset == /\ opened = {}
         /\ log' = <<>>
         /\ partial' = <<>>
         /\ UNCHANGED <<opened, pos, st>>

Invoke(p, c) == /\ st[p] = Idle
                /\ c.file \in opened
                /\ st' = [st EXCEPT ![p] = Invoked(c)]
                /\ UNCHANGED <<log, partial, opened, pos>>

Return(p) == /\ st[p].phase = "done"
             /\ st' = [st EXCEPT ![p] = Idle]
             /\ UNCHANGED <<log, partial, opened, pos>>

-----------------------------------------------------------------------------

Finish(p, ret, out) == st' = [st EXCEPT ![p] = Done(st[p].call, ret, out)]

(* The failures that do not depend on the state of the device.             *)
Failures(c) ==
  CASE c.op = "read"   -> {EFAULT, ERESTARTSYS}
    [] c.op = "write"  -> IF c.data = <<>> THEN {EINVAL}
                          ELSE {ENOMEM, EFAULT, ERESTARTSYS}
    [] c.op = "llseek" -> {ERESTARTSYS}
    [] c.op = "seekto" -> {EFAULT, ERESTARTSYS}
    [] OTHER           -> {ENOTTY}

Fail(p) == \E ret \in Failures(st[p].call) :
             /\ Finish(p, ret, <<>>)
             /\ UNCHANGED <<log, partial, opened, pos>>

(* A read stops at the end of the command it starts in.                    *)
Read(p, f, count) ==
  LET from == pos[f]
      to   == Min({from + count} \cup {b \in Bounds : b > from})
  IN  /\ IF from >= Len(Content)
         THEN /\ Finish(p, 0, <<>>)
              /\ UNCHANGED pos
         ELSE /\ Finish(p, to - from, SubSeq(Content, from + 1, to))
              /\ pos' = [pos EXCEPT ![f] = to]
      /\ UNCHANGED <<log, partial, opened>>

CommandLog == INSTANCE CommandLog WITH Element <- {}

(* Data accumulates until it contains a newline; then all of it, what is   *)
(* behind the newline included, becomes one command.                       *)
Write(p, data) ==
  /\ data # <<>>
  /\ IF Contains(data, Newline)
     THEN /\ log' = CommandLog!Pushed(partial \o data)
          /\ partial' = <<>>
     ELSE /\ partial' = partial \o data
          /\ UNCHANGED log
  /\ Finish(p, Len(data), <<>>)
  /\ UNCHANGED <<opened, pos>>

(* A position is set, and ret returned, if it is inside the device.        *)
SetPos(p, f, target, valid, ret) ==
  /\ IF valid
     THEN Finish(p, ret, <<>>) /\ pos' = [pos EXCEPT ![f] = target]
     ELSE Finish(p, EINVAL, <<>>) /\ UNCHANGED pos
  /\ UNCHANGED <<log, partial, opened>>

LSeek(p, f, offset, whence) ==
  LET base == CASE whence = "SEEK_SET" -> 0
                [] whence = "SEEK_CUR" -> pos[f]
                [] whence = "SEEK_END" -> Len(Content)
                [] OTHER               -> 0
      target == base + offset
  IN  SetPos(p, f, target,
             /\ whence \in {"SEEK_SET", "SEEK_CUR", "SEEK_END"}
             /\ target \in 0..Len(Content),
             target)

(* AESDCHAR_IOCSEEKTO: byte off of command number cmd.                     *)
SeekTo(p, f, cmd, off) ==
  SetPos(p, f, Len(FlattenSeq(SubSeq(log, 1, cmd))) + off,
         cmd < Len(log) /\ off < Len(log[cmd + 1]), 0)

TakeEffect(p) ==
  /\ st[p].phase = "invoked"
  /\ LET c == st[p].call
     IN  \/ Fail(p)
         \/ c.op = "read"   /\ Read(p, c.file, c.count)
         \/ c.op = "write"  /\ Write(p, c.data)
         \/ c.op = "llseek" /\ LSeek(p, c.file, c.offset, c.whence)
         \/ c.op = "seekto" /\ SeekTo(p, c.file, c.write_cmd, c.write_cmd_offset)

Next == \/ \E f \in File : Open(f) \/ Close(f)
        \/ Reset
        \/ \E p \in Proc : \/ \E c \in Call[p] : Invoke(p, c)
                           \/ TakeEffect(p)
                           \/ Return(p)

Spec == Init /\ [][Next]_vars

=============================================================================
