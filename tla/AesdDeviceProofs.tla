-------------------------- MODULE AesdDeviceProofs --------------------------
(***************************************************************************)
(* The driver implements the device: to threads that do not share a struct *)
(* file every system call is one step on a log of commands, for any number *)
(* of threads, files and blocks, any capacity and any calls.               *)
(*                                                                         *)
(* Two layers over the invariants of AesdCharProofs:                       *)
(*   DeviceInv    where each thread's position and target are, given that  *)
(*                no two threads use one struct file;                      *)
(*   the map      how each step moves the log, the pending data, the       *)
(*                positions and the calls that the device has.             *)
(***************************************************************************)
EXTENDS AesdCharProofs

-----------------------------------------------------------------------------
(* Positions.  No two threads use one file at a time.                      *)

PrivateFiles == \A p, q \in Proc : p # q =>
                  \A c \in Call[p], d \in Call[q] : c.file # d.file

(* While a read has not copied, and always in a write, the VFS's copy of   *)
(* the position is the file's.                                             *)
KeepsPos(p) == \/ pc[p] # "idle" /\ call[p].op = "write"
               \/ pc[p] \in {"enter", "find", "copy_to_user"} /\ call[p].op = "read"

(* Where a seek that is about to store its position goes.                  *)
Base(c) == CASE c.whence = "SEEK_SET" -> 0
             [] c.whence = "SEEK_CUR" -> f_pos[c.file]
             [] c.whence = "SEEK_END" -> CB!TotalSize
             [] OTHER                 -> 0

GoesTo(p) ==
  \/ /\ call[p].op = "llseek"
     /\ call[p].whence \in {"SEEK_SET", "SEEK_CUR", "SEEK_END"}
     /\ loc[p].new_pos = Base(call[p]) + call[p].offset
     /\ InBounds(loc[p].new_pos)
  \/ /\ call[p].op = "seekto"
     /\ Exists(call[p])
     /\ loc[p].new_pos = CB!StartOf(call[p].write_cmd) + call[p].write_cmd_offset

Placed(p) == /\ KeepsPos(p) => loc[p].pos = f_pos[call[p].file]
             /\ pc[p] = "store_pos" => GoesTo(p)

DeviceInv == DriverInv /\ \A p \in Proc : Placed(p)

(* What a thread does.                                                     *)
Acts(p) == \/ \E c \in Call[p] : SysCall(p, c)
           \/ Reject(p) \/ Lock(p) \/ Interrupted(p) \/ Handler(p) \/ SysReturn(p)

(* What a step of a thread cannot touch.                                   *)
LEMMA Frame ==
  ASSUME DriverInv, NEW p \in Proc, Acts(p)
  PROVE  /\ OthersStay(p)
         /\ UNCHANGED <<module, opened>>
         /\ UNCHANGED buffer \/ pc[p] \in LockedSteps
         /\ \A f \in File : f_pos'[f] = f_pos[f] \/ (pc[p] # "idle" /\ f = call[p].file)
         /\ pc'[p] = "return" => pc[p] # "idle" /\ call'[p] = call[p]
<1>1. pc \in [Proc -> Steps] /\ call \in [Proc -> AnyCall] /\ loc \in [Proc -> Locals]
      /\ f_pos \in [File -> Nat]
  BY DEF DriverInv, Types, HeapInv, IInv, Threads
<1>. USE <1>1 DEF OthersStay, kernel, dev, buffer, Returns, Leave
<1>2. CASE \E c \in Call[p] : SysCall(p, c)
  BY <1>2 DEF SysCall
<1>3. CASE Reject(p) \/ Interrupted(p)
  BY <1>3 DEF Reject, Interrupted
<1>4. CASE Lock(p)
  BY <1>4 DEF Lock
<1>5. CASE SysReturn(p)
  <2>1. pc[p] # "idle"
    BY <1>5 DEF SysReturn
  <2>. QED  BY <1>5, <2>1 DEF SysReturn
<1>6. CASE find_entry(p)
  BY <1>6 DEF find_entry, EndOfFile, Found
<1>7. CASE copy_to_user(p)
  BY <1>7 DEF copy_to_user
<1>8. CASE kmalloc_tmp(p)
  BY <1>8 DEF kmalloc_tmp, NoMemory
<1>9. CASE append(p)
  BY <1>9 DEF append
<1>10. CASE evict(p)
  BY <1>10 DEF evict, LockedSteps
<1>11. CASE add(p)
  BY <1>11 DEF add, LockedSteps
<1>12. CASE out_free(p)
  BY <1>12 DEF out_free
<1>13. CASE llseek(p) \/ seekto(p)
  <2>1. PICK valid, target : Target(p, valid, target)
    BY <1>13 DEF llseek, seekto
  <2>2. pc[p] # "idle"
    BY <1>13 DEF llseek, seekto
  <2>. QED  BY <2>1, <2>2 DEF Target
<1>14. CASE store_pos(p)
  <2>1. pc[p] # "idle"
    BY <1>14 DEF store_pos
  <2>. QED  BY <1>14, <2>1 DEF store_pos
<1>. QED  BY <1>2, <1>3, <1>4, <1>5, <1>6, <1>7, <1>8, <1>9, <1>10, <1>11, <1>12,
             <1>13, <1>14 DEF Acts, Handler

(* What a seek goes by.                                                    *)
LEMMA SeeksTheSame ==
  ASSUME NEW q \in Proc, call'[q] = call[q], loc'[q] = loc[q], UNCHANGED buffer,
         f_pos'[call[q].file] = f_pos[call[q].file], GoesTo(q)
  PROVE  GoesTo(q)'
<1>1. UNCHANGED <<entry, in_offs, out_offs, full>>
  BY DEF buffer
<1>2. /\ CB!TotalEntries' = CB!TotalEntries
      /\ \A i : CB!Slot(i)' = CB!Slot(i)
      /\ \A i : CB!StartOf(i)' = CB!StartOf(i)
      /\ CB!TotalSize' = CB!TotalSize
  BY <1>1 DEF CB!TotalEntries, CB!Slot, CB!StartOf, CB!TotalSize
<1>3. CASE call[q].op = "llseek" /\ call[q].whence \in {"SEEK_SET", "SEEK_CUR", "SEEK_END"}
           /\ loc[q].new_pos = Base(call[q]) + call[q].offset /\ InBounds(loc[q].new_pos)
  BY <1>2, <1>3 DEF GoesTo, Base, InBounds
<1>4. CASE call[q].op = "seekto" /\ Exists(call[q])
           /\ loc[q].new_pos = CB!StartOf(call[q].write_cmd) + call[q].write_cmd_offset
  BY <1>1, <1>2, <1>4 DEF GoesTo, Exists
<1>. QED  BY <1>3, <1>4 DEF GoesTo

LEMMA OthersPlaced ==
  ASSUME PrivateFiles, DeviceInv, NEW p \in Proc, Acts(p), NEW q \in Proc, q # p
  PROVE  Placed(q)'
<1>1. /\ pc'[q] = pc[q] /\ call'[q] = call[q] /\ loc'[q] = loc[q]
      /\ UNCHANGED buffer \/ pc[p] \in LockedSteps
      /\ \A f \in File : f_pos'[f] = f_pos[f] \/ (pc[p] # "idle" /\ f = call[p].file)
  BY Frame DEF OthersStay, DeviceInv
<1>2. ASSUME pc[q] # "idle" PROVE f_pos'[call[q].file] = f_pos[call[q].file]
  <2>1. call[q] \in Call[q] /\ (pc[p] # "idle" => call[p] \in Call[p])
    BY <1>2 DEF DeviceInv, DriverInv, HeapInv, IInv, Threads
  <2>2. call[q].file \in File
    BY <2>1, CallAssumption
  <2>3. pc[p] # "idle" => call[q].file # call[p].file
    BY <2>1 DEF PrivateFiles
  <2>. QED  BY <1>1, <2>2, <2>3
<1>3. ASSUME KeepsPos(q)' PROVE loc'[q].pos = f_pos'[call'[q].file]
  <2>1. KeepsPos(q) /\ pc[q] # "idle"
    BY <1>1, <1>3 DEF KeepsPos
  <2>. QED  BY <1>1, <1>2, <2>1 DEF DeviceInv, Placed
<1>4. ASSUME pc'[q] = "store_pos" PROVE GoesTo(q)'
  <2>1. GoesTo(q) /\ pc[q] = "store_pos"
    BY <1>1, <1>4 DEF DeviceInv, Placed
  <2>2. pc[p] \notin LockedSteps
    BY <2>1, Alone DEF DeviceInv, DriverInv, LockedSteps
  <2>3. f_pos'[call[q].file] = f_pos[call[q].file]
    BY <1>2, <2>1
  <2>. QED  BY <1>1, <2>1, <2>2, <2>3, SeeksTheSame
<1>. QED  BY <1>3, <1>4 DEF Placed

LEMMA SeekPlaced ==
  ASSUME DeviceInv, NEW p \in Proc, llseek(p) \/ seekto(p)
  PROVE  Placed(p)'
<1>1. /\ pc \in [Proc -> Steps] /\ loc \in [Proc -> Locals] /\ f_pos \in [File -> Nat]
      /\ CB!TypeOK /\ call[p] \in Call[p]
      /\ llseek(p) => call[p].op = "llseek"
      /\ seekto(p) => call[p].op = "seekto"
  BY DEF llseek, seekto, DeviceInv, DriverInv, InHandler, Types, HeapInv, IInv, Threads
<1>2. Capacity \in Nat /\ CB!TotalEntries \in 0..Capacity /\ CB!TotalSize \in Nat
  BY <1>1, SlotsAreThere, LiveSlots, Starts DEF CB!TotalSize
<1>3. PICK valid, target :
        /\ valid \in BOOLEAN
        /\ Target(p, valid, target)
        /\ \/ llseek(p) /\ valid = InBounds(target) /\
              target = CASE call[p].whence = "SEEK_SET" -> call[p].offset
                         [] call[p].whence = "SEEK_CUR" -> f_pos[call[p].file] + call[p].offset
                         [] call[p].whence = "SEEK_END" -> CB!TotalSize + call[p].offset
                         [] OTHER                       -> -1
           \/ seekto(p) /\ valid = Exists(call[p]) /\
              target = CB!StartOf(call[p].write_cmd) + call[p].write_cmd_offset
  <2>1. CASE llseek(p)
    <3>. DEFINE t == CASE call[p].whence = "SEEK_SET" -> call[p].offset
                       [] call[p].whence = "SEEK_CUR" -> f_pos[call[p].file] + call[p].offset
                       [] call[p].whence = "SEEK_END" -> CB!TotalSize + call[p].offset
                       [] OTHER                       -> -1
    <3>1. Target(p, InBounds(t), t)
      BY <2>1 DEF llseek
    <3>2. InBounds(t) \in BOOLEAN
      BY DEF InBounds
    <3>. QED  BY <2>1, <3>1, <3>2
  <2>2. CASE seekto(p)
    <3>. DEFINE t == CB!StartOf(call[p].write_cmd) + call[p].write_cmd_offset
    <3>1. Target(p, Exists(call[p]), t)
      BY <2>2 DEF seekto
    <3>2. Exists(call[p]) \in BOOLEAN
      BY DEF Exists
    <3>. QED  BY <2>2, <3>1, <3>2
  <2>. QED  BY <2>1, <2>2
<1>4. UNCHANGED <<f_pos, entry, in_offs, out_offs, full, call>>
  BY <1>3 DEF Target, kernel, dev
<1>5. CASE ~valid
  <2>1. pc'[p] = "return"
    BY <1>1, <1>3, <1>5 DEF Target, Leave, Returns
  <2>. QED  BY <1>1, <1>4, <2>1 DEF Placed, KeepsPos
<1>6. CASE valid
  <2>1. pc'[p] = "store_pos" /\ loc' = [loc EXCEPT ![p].new_pos = target]
    BY <1>1, <1>3, <1>6 DEF Target
  <2>2. loc'[p].new_pos = target
    BY <1>1, <2>1 DEF Locals
  <2>3. GoesTo(p)'
    <3>1. UNCHANGED buffer /\ call'[p] = call[p] /\ f_pos' = f_pos
      BY <1>4 DEF buffer
    <3>2. /\ CB!TotalEntries' = CB!TotalEntries
          /\ \A i : CB!Slot(i)' = CB!Slot(i)
          /\ \A i : CB!StartOf(i)' = CB!StartOf(i)
          /\ CB!TotalSize' = CB!TotalSize
      BY <1>4 DEF CB!TotalEntries, CB!Slot, CB!StartOf, CB!TotalSize
    <3>3. CASE llseek(p) /\ InBounds(target) /\
               target = CASE call[p].whence = "SEEK_SET" -> call[p].offset
                          [] call[p].whence = "SEEK_CUR" -> f_pos[call[p].file] + call[p].offset
                          [] call[p].whence = "SEEK_END" -> CB!TotalSize + call[p].offset
                          [] OTHER                       -> -1
      <4>1. call[p].op = "llseek"
        BY <1>1, <3>3
      <4>2. call[p].offset \in Int
        BY <1>1, <4>1, CallAssumption
      <4>3. call[p].whence \in {"SEEK_SET", "SEEK_CUR", "SEEK_END"}
        BY <3>3, <1>2 DEF InBounds
      <4>4. target = Base(call[p]) + call[p].offset
        BY <3>3, <4>2, <4>3 DEF Base
      <4>5. Base(call[p])' = Base(call[p]) /\ InBounds(target)'
        BY <3>1, <3>2, <3>3 DEF Base, InBounds
      <4>. QED  BY <2>2, <3>1, <4>1, <4>3, <4>4, <4>5 DEF GoesTo
    <3>4. CASE seekto(p) /\ Exists(call[p])
               /\ target = CB!StartOf(call[p].write_cmd) + call[p].write_cmd_offset
      <4>1. call[p].op = "seekto"
        BY <1>1, <3>4
      <4>2. Exists(call[p])'
        BY <1>4, <3>2, <3>4 DEF Exists
      <4>. QED  BY <2>2, <3>1, <3>2, <3>4, <4>1, <4>2 DEF GoesTo
    <3>. QED  BY <1>3, <1>6, <3>3, <3>4
  <2>4. ~KeepsPos(p)'
    BY <1>1, <1>3, <1>4, <2>1 DEF KeepsPos
  <2>. QED  BY <2>3, <2>4 DEF Placed
<1>. QED  BY <1>5, <1>6

LEMMA ActorPlaced ==
  ASSUME DeviceInv, NEW p \in Proc, Acts(p)
  PROVE  Placed(p)'
<1>1. /\ pc \in [Proc -> Steps] /\ call \in [Proc -> AnyCall] /\ loc \in [Proc -> Locals]
      /\ f_pos \in [File -> Nat] /\ Placed(p) /\ InHandler(p)
  BY DEF DeviceInv, DriverInv, Types, HeapInv, IInv, Threads
<1>2. ASSUME pc[p] # "idle", pc'[p] # "store_pos", call'[p] = call[p], f_pos' = f_pos,
             loc'[p].pos = loc[p].pos, KeepsPos(p)' => KeepsPos(p)
      PROVE  Placed(p)'
  BY <1>1, <1>2 DEF Placed
<1>. USE DEF kernel, Returns, Leave
<1>3. CASE \E c \in Call[p] : SysCall(p, c)
  <2>1. PICK c \in Call[p] : SysCall(p, c)
    BY <1>3
  <2>2. pc'[p] = "enter" /\ call'[p] = c /\ f_pos' = f_pos
    BY <1>1, <2>1 DEF SysCall
  <2>3. c.op \in {"read", "write"} => loc'[p].pos = f_pos[c.file]
    BY <1>1, <2>1 DEF SysCall, Locals
  <2>. QED  BY <2>2, <2>3 DEF Placed, KeepsPos
<1>4. CASE Reject(p) \/ Interrupted(p)
  <2>1. pc[p] = "enter" /\ pc'[p] = "return" /\ call' = call /\ f_pos' = f_pos
        /\ loc'[p].pos = loc[p].pos
    BY <1>1, <1>4 DEF Reject, Interrupted, Locals
  <2>. QED  BY <1>2, <2>1 DEF KeepsPos
<1>5. CASE Lock(p)
  <2>1. pc[p] = "enter" /\ call' = call /\ f_pos' = f_pos /\ loc' = loc
        /\ pc'[p] = FirstStep(call[p])
    BY <1>1, <1>5 DEF Lock
  <2>2. /\ pc'[p] # "store_pos" /\ pc'[p] # "idle"
    BY <1>5, <2>1, FirstStepOf DEF DeviceInv, DriverInv, HeapInv, Lock
  <2>. QED  BY <1>2, <2>1, <2>2 DEF KeepsPos
<1>6. CASE SysReturn(p)
  <2>1. pc'[p] = "idle"
    BY <1>1, <1>6 DEF SysReturn
  <2>. QED  BY <2>1 DEF Placed, KeepsPos
<1>7. CASE find_entry(p)
  <2>1. pc[p] = "find" /\ pc'[p] \in {"return", "copy_to_user"} /\ call' = call
        /\ f_pos' = f_pos /\ loc'[p].pos = loc[p].pos
    BY <1>1, <1>7 DEF find_entry, EndOfFile, Found, Locals
  <2>. QED  BY <1>2, <2>1 DEF KeepsPos
<1>8. CASE copy_to_user(p)
  <2>1. pc[p] = "copy_to_user" /\ pc'[p] = "return" /\ call' = call
    BY <1>1, <1>8 DEF copy_to_user
  <2>2. call[p].op = "read"
    BY <1>1, <2>1 DEF InHandler
  <2>. QED  BY <2>1, <2>2 DEF Placed, KeepsPos
<1>9. CASE kmalloc_tmp(p) \/ append(p) \/ evict(p) \/ add(p) \/ out_free(p)
  <2>1. pc[p] \in Writing \cup {"alloc"} /\ call' = call /\ f_pos' = f_pos
    BY <1>9 DEF kmalloc_tmp, append, evict, add, out_free, Writing
  <2>2. call[p].op = "write" /\ pc[p] # "idle"
    BY <1>1, <2>1 DEF InHandler, Writing
  <2>3. pc'[p] # "store_pos" /\ loc'[p].pos = loc[p].pos
    <3>1. CASE kmalloc_tmp(p)
      BY <1>1, <3>1 DEF kmalloc_tmp, NoMemory, Locals
    <3>2. CASE append(p)
      BY <1>1, <3>2 DEF append, Locals
    <3>3. CASE evict(p)
      BY <1>1, <3>3 DEF evict
    <3>4. CASE add(p)
      BY <1>1, <3>4 DEF add, Locals
    <3>5. CASE out_free(p)
      BY <1>1, <3>5 DEF out_free, Locals
    <3>. QED  BY <1>9, <3>1, <3>2, <3>3, <3>4, <3>5
  <2>. QED  BY <1>2, <2>1, <2>2, <2>3 DEF KeepsPos
<1>10. CASE store_pos(p)
  <2>1. pc[p] = "store_pos" /\ pc'[p] = "return" /\ call' = call
    BY <1>1, <1>10 DEF store_pos
  <2>2. call[p].op \in {"llseek", "seekto"}
    BY <1>1, <2>1 DEF InHandler
  <2>. QED  BY <2>1, <2>2 DEF Placed, KeepsPos
<1>. QED  BY <1>3, <1>4, <1>5, <1>6, <1>7, <1>8, <1>9, <1>10, SeekPlaced DEF Acts, Handler

LEMMA DeviceInvStep ==
  ASSUME PrivateFiles, DeviceInv, [Next]_vars
  PROVE  DeviceInv'
<1>1. DriverInv'
  BY DriverInvStep DEF DeviceInv
<1>2. ASSUME NEW p \in Proc, Acts(p) PROVE DeviceInv'
  BY <1>1, <1>2, OthersPlaced, ActorPlaced DEF DeviceInv
<1>3. ASSUME UNCHANGED threads, f_pos' = f_pos, UNCHANGED buffer \/ opened = {}
      PROVE  DeviceInv'
  <2>. SUFFICES ASSUME NEW q \in Proc PROVE Placed(q)'
    BY <1>1 DEF DeviceInv
  <2>1. pc' = pc /\ call' = call /\ loc' = loc /\ Placed(q)
    BY <1>3 DEF threads, DeviceInv
  <2>2. KeepsPos(q)' => loc'[q].pos = f_pos'[call'[q].file]
    BY <1>3, <2>1 DEF KeepsPos, Placed
  <2>3. pc'[q] = "store_pos" => GoesTo(q)'
    <3>1. pc[q] = "store_pos" => opened # {} /\ GoesTo(q)
      BY <2>1 DEF DeviceInv, DriverInv, HeapInv, IInv, InUse, Placed
    <3>. QED  BY <1>3, <2>1, <3>1, SeeksTheSame
  <2>. QED  BY <2>2, <2>3 DEF Placed
<1>4. CASE UNCHANGED vars
  BY <1>3, <1>4 DEF vars, threads, buffer
<1>5. CASE Module
  <2>1. UNCHANGED threads /\ f_pos' = f_pos
    BY <1>5 DEF Module, alloc_chrdev_region, init_device, aesd_setup_cdev, aesd_cleanup_device, aesd_exit
  <2>2. UNCHANGED buffer \/ opened = {}
    <3>1. module # "live" => opened = {}
      BY DEF DeviceInv, DriverInv, HeapInv, IInv, InUse
    <3>. QED  BY <1>5, <3>1 DEF Module, alloc_chrdev_region, init_device, aesd_setup_cdev,
                                aesd_cleanup_device, aesd_exit, dev, buffer
  <2>. QED  BY <1>3, <2>1, <2>2
<1>6. ASSUME NEW f \in File, aesd_open(f) PROVE DeviceInv'
  BY <1>3, <1>6 DEF aesd_open, dev, buffer
<1>7. ASSUME NEW f \in File, aesd_release(f) PROVE DeviceInv'
  <2>. SUFFICES ASSUME NEW q \in Proc PROVE Placed(q)'
    BY <1>1 DEF DeviceInv
  <2>1. /\ pc' = pc /\ call' = call /\ loc' = loc /\ Placed(q) /\ UNCHANGED buffer
        /\ pc[q] # "idle" => call[q].file # f
        /\ f_pos' = [f_pos EXCEPT ![f] = 0]
    BY <1>7 DEF aesd_release, threads, dev, buffer, DeviceInv
  <2>2. pc[q] # "idle" => f_pos'[call[q].file] = f_pos[call[q].file]
    BY <2>1
  <2>3. KeepsPos(q)' => loc'[q].pos = f_pos'[call'[q].file]
    BY <2>1, <2>2 DEF KeepsPos, Placed
  <2>4. pc'[q] = "store_pos" => GoesTo(q)'
    BY <2>1, <2>2, SeeksTheSame DEF Placed
  <2>. QED  BY <2>3, <2>4 DEF Placed
<1>. QED  BY <1>2, <1>4, <1>5, <1>6, <1>7 DEF Next, Acts

LEMMA DeviceInvInit == Init => DeviceInv
<1>. SUFFICES ASSUME Init, NEW p \in Proc PROVE Placed(p)
  BY DriverInvInit DEF DeviceInv
<1>. QED  BY DEF Init, Placed, KeepsPos

-----------------------------------------------------------------------------
(* The map.  What the device looks like from one of its threads.           *)

StatusOf(p) ==
  CASE pc[p] = "idle" -> [phase |-> "idle"]
    [] pc[p] \in {"evict", "add"} ->
         [phase |-> "done", call |-> call[p], ret |-> Len(call[p].data), out |-> <<>>]
    [] pc[p] \in {"out_free", "return"} ->
         [phase |-> "done", call |-> call[p], ret |-> loc[p].ret, out |-> loc[p].out]
    [] OTHER -> [phase |-> "invoked", call |-> call[p]]

(* The steps before a call takes effect.                                   *)
Before == {"enter", "find", "copy_to_user", "alloc", "append",
           "llseek", "seekto", "store_pos"}

LEMMA StatusMoves ==
  ASSUME NEW p \in Proc, OthersStay(p)
  PROVE  /\ DeviceStatus' = [DeviceStatus EXCEPT ![p] = StatusOf(p)']
         /\ StatusOf(p)' = StatusOf(p) => DeviceStatus' = DeviceStatus
         /\ DeviceStatus[p] = StatusOf(p)
         /\ pc[p] \in Before => StatusOf(p) = [phase |-> "invoked", call |-> call[p]]
<1>1. DeviceStatus = [q \in Proc |-> StatusOf(q)]
  BY DEF DeviceStatus, StatusOf
<1>2. \A q \in Proc : q # p => StatusOf(q)' = StatusOf(q)
  BY DEF OthersStay, StatusOf
<1>3. DeviceStatus' = [q \in Proc |-> StatusOf(q)']
  BY DEF DeviceStatus, StatusOf
<1>4. DeviceStatus' = [DeviceStatus EXCEPT ![p] = StatusOf(p)']
  <2>1. \A q \in Proc : StatusOf(q)' = IF q = p THEN StatusOf(p)' ELSE DeviceStatus[q]
    BY <1>1, <1>2
  <2>. HIDE DEF StatusOf
  <2>. QED  BY <1>1, <1>3, <2>1
<1>5. StatusOf(p)' = StatusOf(p) => DeviceStatus' = DeviceStatus
  BY <1>1, <1>2, <1>3
<1>6. pc[p] \in Before => StatusOf(p) = [phase |-> "invoked", call |-> call[p]]
  BY DEF Before, StatusOf
<1>. QED  BY <1>1, <1>4, <1>5, <1>6

(* Where the device is in a file.                                          *)
PositionAt(f) ==
  /\ \A p \in Proc : HasMoved(p, f) => DevicePos[f] = loc[p].pos
  /\ (\A p \in Proc : ~HasMoved(p, f)) => DevicePos[f] = f_pos[f]

Positions == PrivateFiles /\ DriverInv => \A f \in File : PositionAt(f)

LEMMA PositionIs == Positions
<1>. SUFFICES ASSUME PrivateFiles, DriverInv, NEW f \in File
              PROVE  PositionAt(f)
  BY DEF Positions
<1>1. ASSUME NEW p \in Proc, HasMoved(p, f), NEW q \in Proc, HasMoved(q, f)
      PROVE  p = q
  <2>1. call[p] \in Call[p] /\ call[q] \in Call[q] /\ call[p].file = f /\ call[q].file = f
    BY <1>1 DEF HasMoved, DriverInv, HeapInv, IInv, Threads
  <2>. QED  BY <2>1 DEF PrivateFiles
<1>2. ASSUME NEW p \in Proc, HasMoved(p, f) PROVE DevicePos[f] = loc[p].pos
  <2>. DEFINE chosen == CHOOSE q \in Proc : HasMoved(q, f)
  <2>1. chosen \in Proc /\ HasMoved(chosen, f)
    BY <1>2
  <2>2. DevicePos[f] = loc[chosen].pos
    BY <1>2 DEF DevicePos
  <2>. HIDE DEF chosen
  <2>3. chosen = p
    BY <1>1, <1>2, <2>1
  <2>. QED  BY <2>2, <2>3
<1>3. (\A p \in Proc : ~HasMoved(p, f)) => DevicePos[f] = f_pos[f]
  BY DEF DevicePos
<1>. QED  BY <1>2, <1>3 DEF PositionAt

(* A position is moved by the thread that has the file, and by nobody      *)
(* else.                                                                   *)
OwnPositions ==
  PrivateFiles /\ DriverInv =>
    \A p \in Proc : pc[p] # "idle" =>
      /\ call[p].file \in File
      /\ DevicePos[call[p].file] = IF HasMoved(p, call[p].file) THEN loc[p].pos
                                   ELSE f_pos[call[p].file]

LEMMA OwnPosition == OwnPositions
<1>. SUFFICES ASSUME PrivateFiles, DriverInv, NEW p \in Proc, pc[p] # "idle"
              PROVE  /\ call[p].file \in File
                     /\ DevicePos[call[p].file] = IF HasMoved(p, call[p].file) THEN loc[p].pos
                                                  ELSE f_pos[call[p].file]
  BY DEF OwnPositions
<1>1. call[p] \in Call[p]
  BY DEF DriverInv, HeapInv, IInv, Threads
<1>2. call[p].file \in File
  BY <1>1, CallAssumption
<1>3. ASSUME NEW q \in Proc, HasMoved(q, call[p].file) PROVE q = p
  <2>1. call[q] \in Call[q] /\ call[q].file = call[p].file
    BY <1>3 DEF HasMoved, DriverInv, HeapInv, IInv, Threads
  <2>. QED  BY <1>1, <2>1 DEF PrivateFiles
<1>. QED  BY <1>2, <1>3, PositionIs DEF Positions, PositionAt

LEMMA OtherPositions ==
  ASSUME PrivateFiles, DriverInv, DriverInv', NEW p \in Proc, Acts(p), NEW f \in File,
         pc[p] # "idle" => f # call[p].file
  PROVE  DevicePos'[f] = DevicePos[f]
<1>1. OthersStay(p) /\ f_pos'[f] = f_pos[f]
  BY Frame
<1>2. ~HasMoved(p, f)
  BY DEF HasMoved
<1>3. ~HasMoved(p, f)'
  <2>1. pc'[p] = "return" => pc[p] # "idle" /\ call'[p] = call[p]
    BY Frame
  <2>. QED  BY <2>1 DEF HasMoved
<1>4. \A q \in Proc : HasMoved(q, f)' <=> HasMoved(q, f)
  BY <1>1, <1>2, <1>3 DEF HasMoved, OthersStay
<1>5. PositionAt(f)
  BY PositionIs DEF Positions
<1>6. PositionAt(f)'
  <2>1. Positions'
    BY PositionIs, PTL
  <2>. QED  BY <2>1 DEF Positions, PrivateFiles
<1>7. CASE \A q \in Proc : ~HasMoved(q, f)
  BY <1>1, <1>4, <1>5, <1>6, <1>7 DEF PositionAt
<1>8. CASE \E q \in Proc : HasMoved(q, f)
  <2>1. PICK q \in Proc : HasMoved(q, f)
    BY <1>8
  <2>2. q # p /\ loc'[q] = loc[q]
    BY <1>1, <1>2, <2>1 DEF OthersStay
  <2>3. HasMoved(q, f)'
    BY <1>4, <2>1
  <2>. QED  BY <1>5, <1>6, <2>1, <2>2, <2>3 DEF PositionAt
<1>. QED  BY <1>7, <1>8

-----------------------------------------------------------------------------
(* The log, while nobody is about to add to it.                            *)

FlatLog ==
  /\ DeviceLog \in Seq(Seq(Byte))
  /\ Len(DeviceLog) = CB!TotalEntries
  /\ CB!TotalEntries \in 0..Capacity
  /\ DeviceLog = [i \in 1..CB!TotalEntries |-> heap[entry[CB!Slot(i - 1)].buffptr]]
  /\ \A i \in 1..CB!TotalEntries : Len(DeviceLog[i]) = entry[CB!Slot(i - 1)].size
  /\ \A i \in 0..CB!TotalEntries : Len(Upto(DeviceLog, i)) = CB!StartOf(i)
  /\ Len(FlattenSeq(DeviceLog)) = CB!TotalSize
  /\ DevicePartial = IF write_buf = NULL THEN <<>> ELSE heap[write_buf]

LogKnown == DriverInv /\ module = "live" /\ ~Committing => FlatLog

LEMMA LogIsFlat == LogKnown
<1>. SUFFICES ASSUME DriverInv, module = "live", ~Committing
              PROVE  FlatLog
  BY DEF LogKnown
<1>. DEFINE n == CB!TotalEntries
            log == DeviceLog
<1>1. CB!TypeOK /\ \A p \in Proc : pc[p] # "add"
  BY DEF DriverInv, Types, Committing
<1>2. n \in 0..Capacity /\ Capacity \in Nat /\ n \in Nat /\ n <= Capacity
  BY <1>1, SlotsAreThere, LiveSlots
<1>3. log = [i \in 1..n |-> heap[entry[CB!Slot(i - 1)].buffptr]]
  <2>1. log = [i \in 1..(n - 0) |-> heap[entry[CB!Slot(0 + i - 1)].buffptr]]
    BY DEF DeviceLog, LiveData
  <2>2. n - 0 = n /\ \A i \in 1..n : 0 + i - 1 = i - 1
    BY <1>2
  <2>. HIDE DEF n, log
  <2>. QED  BY <2>1, <2>2
<1>4. ASSUME NEW i \in 1..n
      PROVE  log[i] \in Seq(Byte) /\ Len(log[i]) = entry[CB!Slot(i - 1)].size
  <2>1. i - 1 \in 0..(n - 1)
    BY <1>2
  <2>2. /\ heap[entry[CB!Slot(i - 1)].buffptr] \in Seq(Byte)
        /\ entry[CB!Slot(i - 1)].size = Len(heap[entry[CB!Slot(i - 1)].buffptr])
    BY <1>1, <2>1, LiveEntry
  <2>. HIDE DEF n, log
  <2>. QED  BY <1>3, <2>2
<1>5. log \in Seq(Seq(Byte)) /\ Len(log) = n
  <2>. HIDE DEF n, log
  <2>1. \A i \in 1..n : log[i] \in Seq(Byte)
    BY <1>4
  <2>2. log = [i \in 1..n |-> log[i]]
    BY <1>3
  <2>. QED  BY ONLY <2>1, <2>2, <1>2
<1>6. \A i \in 0..n : Len(Upto(log, i)) = CB!StartOf(i)
  <2>. DEFINE T == {k \in 0..n : Len(Upto(log, k)) = CB!StartOf(k)}
  <2>1. 0 \in T
    <3>1. Upto(log, 0) = <<>>
      <4>. HIDE DEF log
      <4>. QED  BY ONLY <1>5, FlattenUnfolds
    <3>. QED  BY <1>1, <1>2, <3>1, Starts
  <2>2. ASSUME NEW k \in 1..n, k - 1 \in T PROVE k \in T
    <3>1. k \in 0..n /\ k \in 1..Capacity
      BY <1>2
    <3>2. ElementIsThere(Byte, log, k)
      <4>. HIDE DEF log
      <4>1. k \in 1..Len(log)
        BY <1>5
      <4>2. log \in Seq(Seq(Byte))
        BY <1>5
      <4>. QED  BY ONLY <4>1, <4>2, FlattenElement
    <3>3. Len(Upto(log, k)) = Len(Upto(log, k - 1)) + Len(log[k])
      BY ONLY <3>2 DEF ElementIsThere
    <3>4. Len(log[k]) = entry[CB!Slot(k - 1)].size
      BY <1>4
    <3>5. CB!StartOf(k) = CB!StartOf(k - 1) + entry[CB!Slot(k - 1)].size
      BY <1>1, <3>1, Starts
    <3>6. Len(Upto(log, k - 1)) = CB!StartOf(k - 1)
      BY <2>2
    <3>. QED  BY <3>1, <3>3, <3>4, <3>5, <3>6
  <2>3. 0..n \subseteq T
    <3>. HIDE DEF T, n
    <3>. QED  BY ONLY <1>2, <2>1, <2>2, BoundedInduction
  <2>. QED  BY <2>3
<1>7. Len(FlattenSeq(log)) = CB!TotalSize
  <2>1. Upto(log, n) = FlattenSeq(log)
    <3>. HIDE DEF log, n
    <3>. QED  BY ONLY <1>5, FlattenUnfolds
  <2>2. n \in 0..n
    BY <1>2
  <2>. QED  BY <1>6, <2>1, <2>2 DEF CB!TotalSize
<1>8. DevicePartial = IF write_buf = NULL THEN <<>> ELSE heap[write_buf]
  BY DEF DevicePartial
<1>9. \A i \in 1..n : Len(log[i]) = entry[CB!Slot(i - 1)].size
  BY <1>4
<1>. QED  BY ONLY <1>2, <1>3, <1>5, <1>6, <1>7, <1>8, <1>9 DEF FlatLog

(* What leaves the buffer, its memory and the pending data alone leaves    *)
(* the log alone.                                                          *)
LEMMA LogStays ==
  ASSUME UNCHANGED <<module, heap, dev>>, Committing' = Committing
  PROVE  DeviceLog' = DeviceLog /\ DevicePartial' = DevicePartial
<1>1. UNCHANGED <<module, heap, entry, in_offs, out_offs, full, write_buf>>
  BY DEF dev
<1>2. CB!TotalEntries' = CB!TotalEntries /\ \A i : CB!Slot(i)' = CB!Slot(i)
  BY <1>1 DEF CB!TotalEntries, CB!Slot
<1>3. \A first : LiveData(first)' = LiveData(first)
  BY <1>1, <1>2 DEF LiveData
<1>. QED  BY <1>1, <1>3 DEF DeviceLog, DevicePartial

LEMMA LogIsKept ==
  ASSUME DriverInv, DriverInv', module = "live", ~Committing, ~Committing',
         UNCHANGED <<module, entry, in_offs, out_offs, full>>,
         \A s \in CB!Slots : entry[s].buffptr # NULL =>
           heap'[entry[s].buffptr] = heap[entry[s].buffptr]
  PROVE  DeviceLog' = DeviceLog
<1>1. FlatLog
  BY LogIsFlat DEF LogKnown
<1>2. FlatLog'
  <2>1. LogKnown'
    BY LogIsFlat, PTL
  <2>. QED  BY <2>1 DEF LogKnown
<1>3. CB!TotalEntries' = CB!TotalEntries /\ \A i : CB!Slot(i)' = CB!Slot(i)
  BY DEF CB!TotalEntries, CB!Slot
<1>4. ASSUME NEW i \in 1..CB!TotalEntries
      PROVE  heap'[entry'[CB!Slot(i - 1)'].buffptr] = heap[entry[CB!Slot(i - 1)].buffptr]
  <2>1. i - 1 \in 0..(CB!TotalEntries - 1)
    BY <1>1 DEF FlatLog
  <2>2. \A p \in Proc : pc[p] # "add"
    BY DEF Committing
  <2>3. CB!Slot(i - 1) \in CB!Slots /\ entry[CB!Slot(i - 1)].buffptr # NULL
    BY <2>1, <2>2, LiveEntry, BlockAssumption
  <2>. QED  BY <1>3, <2>3
<1>. QED  BY <1>1, <1>2, <1>3, <1>4 DEF FlatLog

(* What no write is about to add to is as it was.                          *)
LEMMA CommitsOrNot ==
  ASSUME NEW p \in Proc, OthersStay(p),
         pc[p] \in {"evict", "add"} <=> pc'[p] \in {"evict", "add"}
  PROVE  Committing' = Committing
BY DEF Committing, OthersStay

-----------------------------------------------------------------------------
(* The steps of the device.                                                *)

LEMMA PositionMoves ==
  ASSUME PrivateFiles, DriverInv, DriverInv', NEW p \in Proc, Acts(p), pc[p] # "idle"
  PROVE  /\ DevicePos' = [DevicePos EXCEPT ![call[p].file] = DevicePos'[call[p].file]]
         /\ DevicePos'[call[p].file] = DevicePos[call[p].file] => DevicePos' = DevicePos
<1>1. \A f \in File : f # call[p].file => DevicePos'[f] = DevicePos[f]
  BY OtherPositions
<1>2. DOMAIN DevicePos = File /\ DevicePos = [f \in File |-> DevicePos[f]]
      /\ DevicePos' = [f \in File |-> DevicePos'[f]]
  BY DEF DevicePos
<1>. HIDE DEF DevicePos
<1>. QED  BY <1>1, <1>2

(* What one thread does, for the device.                                   *)
Effect(p) == /\ DeviceStatus[p] = StatusOf(p)
             /\ pc[p] \in Before => StatusOf(p) = [phase |-> "invoked", call |-> call[p]]
             /\ DeviceStatus' = [DeviceStatus EXCEPT ![p] = StatusOf(p)']
             /\ StatusOf(p)' = StatusOf(p) => DeviceStatus' = DeviceStatus
             /\ opened' = opened
             /\ pc[p] # "idle" =>
                  LET f == call[p].file
                  IN  /\ f \in File
                      /\ DevicePos[f] = IF HasMoved(p, f) THEN loc[p].pos ELSE f_pos[f]
                      /\ DevicePos' = [DevicePos EXCEPT ![f] = DevicePos'[f]]
                      /\ DevicePos'[f] = DevicePos[f] => DevicePos' = DevicePos
                      /\ pc'[p] # "idle" /\ call'[p] = call[p] =>
                           DevicePos'[f] = IF HasMoved(p, f)' THEN loc'[p].pos ELSE f_pos'[f]
                      /\ pc'[p] = "idle" => DevicePos'[f] = f_pos'[f]

LEMMA EffectOf ==
  ASSUME PrivateFiles, DriverInv, DriverInv', NEW p \in Proc, Acts(p)
  PROVE  Effect(p)
<1>1. OthersStay(p) /\ opened' = opened
  BY Frame
<1>2. OwnPositions /\ OwnPositions'
  <2>1. OwnPositions'
    BY OwnPosition, PTL
  <2>. QED  BY <2>1, OwnPosition
<1>3. /\ DeviceStatus[p] = StatusOf(p)
      /\ pc[p] \in Before => StatusOf(p) = [phase |-> "invoked", call |-> call[p]]
      /\ DeviceStatus' = [DeviceStatus EXCEPT ![p] = StatusOf(p)']
      /\ StatusOf(p)' = StatusOf(p) => DeviceStatus' = DeviceStatus
  BY <1>1, StatusMoves
<1>4. ASSUME pc[p] # "idle"
      PROVE  /\ call[p].file \in File
             /\ DevicePos[call[p].file] = IF HasMoved(p, call[p].file) THEN loc[p].pos
                                          ELSE f_pos[call[p].file]
  BY <1>2, <1>4 DEF OwnPositions
<1>5. ASSUME pc[p] # "idle"
      PROVE  /\ DevicePos' = [DevicePos EXCEPT ![call[p].file] = DevicePos'[call[p].file]]
             /\ DevicePos'[call[p].file] = DevicePos[call[p].file] => DevicePos' = DevicePos
  BY <1>5, PositionMoves
<1>6. ASSUME pc'[p] # "idle", call'[p] = call[p]
      PROVE  DevicePos'[call[p].file] = IF HasMoved(p, call[p].file)' THEN loc'[p].pos
                                        ELSE f_pos'[call[p].file]
  BY <1>2, <1>6 DEF OwnPositions, PrivateFiles
<1>7. ASSUME pc[p] # "idle", pc'[p] = "idle"
      PROVE  DevicePos'[call[p].file] = f_pos'[call[p].file]
  <2>0. PICK f \in File : f = call[p].file
    BY <1>4, <1>7
  <2>1. Positions'
    BY PositionIs, PTL
  <2>2. PositionAt(f)'
    BY <2>1 DEF Positions, PrivateFiles
  <2>3. ASSUME NEW q \in Proc PROVE ~HasMoved(q, f)'
    <3>1. CASE q = p
      BY <1>7, <3>1 DEF HasMoved
    <3>2. CASE q # p
      <4>1. call'[q] = call[q] /\ (pc'[q] # "idle" => call[q] \in Call[q]) /\ call[p] \in Call[p]
        BY <1>1, <1>7, <3>2 DEF OthersStay, DriverInv, HeapInv, IInv, Threads
      <4>. QED  BY <2>0, <3>2, <4>1 DEF HasMoved, PrivateFiles
    <3>. QED  BY <3>1, <3>2
  <2>. QED  BY <2>0, <2>2, <2>3 DEF PositionAt
<1>. QED  BY <1>1, <1>3, <1>4, <1>5, <1>6, <1>7 DEF Effect

(* Steps that nobody sees.                                                 *)
LEMMA HiddenStep ==
  ASSUME NEW p \in Proc, Effect(p), pc[p] # "idle", pc'[p] # "idle",
         call'[p] = call[p], f_pos' = f_pos, StatusOf(p)' = StatusOf(p),
         pc[p] # "return",
         pc'[p] # "return" \/ call[p].op # "read",
         DeviceLog' = DeviceLog, DevicePartial' = DevicePartial
  PROVE  UNCHANGED Device!vars
<1>1. ~HasMoved(p, call[p].file) /\ ~HasMoved(p, call[p].file)'
  BY DEF HasMoved
<1>2. DevicePos' = DevicePos
  BY <1>1 DEF Effect
<1>. QED  BY <1>2 DEF Effect, Device!vars

(* Errors that are found out.                                              *)
LEMMA FailStep ==
  ASSUME NEW p \in Proc, Effect(p), pc[p] \in Before,
         call'[p] = call[p], f_pos' = f_pos,
         NEW ret \in Int, ret \in Device!Failures(call[p]), ret < 0,
         StatusOf(p)' = Device!Done(call[p], ret, <<>>), loc'[p].ret = ret,
         pc'[p] \in {"out_free", "return"},
         DeviceLog' = DeviceLog, DevicePartial' = DevicePartial
  PROVE  Device!TakeEffect(p)
<1>1. ~HasMoved(p, call[p].file) /\ ~HasMoved(p, call[p].file)' /\ pc[p] # "idle"
  BY DEF HasMoved, Before
<1>2. DevicePos' = DevicePos /\ opened' = opened
  BY <1>1 DEF Effect
<1>3. DeviceStatus[p] = [phase |-> "invoked", call |-> call[p]]
      /\ DeviceStatus' = [DeviceStatus EXCEPT ![p] = Device!Done(call[p], ret, <<>>)]
  BY DEF Effect
<1>4. Device!Fail(p)
  <2>1. DeviceStatus[p].call = call[p]
    BY <1>3
  <2>2. Device!Finish(p, ret, <<>>)
    BY <1>3, <2>1 DEF Device!Finish
  <2>. QED  BY <1>2, <2>1, <2>2 DEF Device!Fail
<1>. QED  BY <1>3, <1>4 DEF Device!TakeEffect

-----------------------------------------------------------------------------
(* The calls and their returns.                                            *)

LEMMA InvokeStep ==
  ASSUME PrivateFiles, DeviceInv, DeviceInv', NEW p \in Proc, NEW c \in Call[p], SysCall(p, c)
  PROVE  Device!Invoke(p, c)
<1>1. DriverInv /\ DriverInv' /\ Acts(p)
  BY DEF DeviceInv, Acts
<1>2. /\ pc[p] = "idle" /\ pc'[p] = "enter" /\ call'[p] = c
      /\ UNCHANGED <<module, heap, dev>> /\ c.file \in opened
  BY <1>1 DEF SysCall, DriverInv, HeapInv, IInv, Threads
<1>3. Effect(p) /\ OthersStay(p)
  BY <1>1, EffectOf, Frame
<1>4. DeviceStatus[p] = Device!Idle /\ opened' = opened
      /\ DeviceStatus' = [DeviceStatus EXCEPT ![p] = Device!Invoked(c)]
  BY <1>2, <1>3 DEF Effect, StatusOf, Device!Idle, Device!Invoked
<1>5. DevicePos' = DevicePos
  <2>1. \A f \in File : DevicePos'[f] = DevicePos[f]
    BY <1>1, <1>2, OtherPositions
  <2>2. DevicePos = [f \in File |-> DevicePos[f]] /\ DevicePos' = [f \in File |-> DevicePos'[f]]
    BY DEF DevicePos
  <2>. HIDE DEF DevicePos
  <2>. QED  BY <2>1, <2>2
<1>6. DeviceLog' = DeviceLog /\ DevicePartial' = DevicePartial
  BY <1>2, <1>3, CommitsOrNot, LogStays
<1>. QED  BY <1>2, <1>4, <1>5, <1>6 DEF Device!Invoke

LEMMA ReturnsStep ==
  ASSUME PrivateFiles, DeviceInv, DeviceInv', NEW p \in Proc, SysReturn(p)
  PROVE  Device!Return(p)
<1>1. DriverInv /\ DriverInv' /\ Acts(p) /\ Placed(p)
  BY DEF DeviceInv, Acts
<1>2. /\ pc[p] = "return" /\ pc'[p] = "idle" /\ UNCHANGED <<module, heap, dev>>
      /\ f_pos \in [File -> Nat] /\ call[p] \in Call[p]
      /\ f_pos' = IF call[p].op \in {"read", "write"} /\ loc[p].ret >= 0
                  THEN [f_pos EXCEPT ![call[p].file] = loc[p].pos]
                  ELSE f_pos
  BY <1>1 DEF SysReturn, DriverInv, HeapInv, IInv, Threads, Types
<1>3. Effect(p) /\ OthersStay(p)
  BY <1>1, EffectOf, Frame
<1>4. DeviceStatus[p].phase = "done" /\ opened' = opened
      /\ DeviceStatus' = [DeviceStatus EXCEPT ![p] = Device!Idle]
  BY <1>2, <1>3 DEF Effect, StatusOf, Device!Idle
<1>5. DevicePos' = DevicePos
  <2>. DEFINE f == call[p].file
  <2>1. f \in File /\ DevicePos'[f] = f_pos'[f]
        /\ DevicePos[f] = IF HasMoved(p, f) THEN loc[p].pos ELSE f_pos[f]
    BY <1>2, <1>3 DEF Effect
  <2>2. f_pos'[f] = IF call[p].op \in {"read", "write"} /\ loc[p].ret >= 0
                    THEN loc[p].pos ELSE f_pos[f]
    BY <1>2, <2>1
  <2>3. call[p].op = "write" => loc[p].pos = f_pos[f]
    BY <1>1, <1>2 DEF Placed, KeepsPos
  <2>4. HasMoved(p, f) <=> call[p].op = "read" /\ loc[p].ret >= 0
    BY <1>2 DEF HasMoved
  <2>5. DevicePos'[f] = DevicePos[f]
    BY <2>1, <2>2, <2>3, <2>4
  <2>. QED  BY <1>2, <1>3, <2>5 DEF Effect
<1>6. DeviceLog' = DeviceLog /\ DevicePartial' = DevicePartial
  BY <1>2, <1>3, CommitsOrNot, LogStays
<1>. QED  BY <1>4, <1>5, <1>6 DEF Device!Return

(* A call that has nothing to say but ret.                                 *)
LEMMA ReturnsWith ==
  ASSUME DriverInv, NEW p \in Proc, NEW ret \in Int, Returns(p, ret),
         pc[p] \in Before, call' = call
  PROVE  /\ pc[p] # "idle" /\ pc'[p] = "return" /\ call'[p] = call[p]
         /\ call[p] \in Call[p]
         /\ loc'[p].ret = ret /\ loc'[p].pos = loc[p].pos
         /\ StatusOf(p)' = Device!Done(call[p], ret, <<>>)
<1>1. /\ pc \in [Proc -> Steps] /\ loc \in [Proc -> Locals] /\ InHandler(p)
      /\ pc[p] # "idle" /\ pc[p] # "return"
  BY DEF DriverInv, Types, HeapInv, IInv, Threads, Before
<1>2. pc'[p] = "return" /\ call'[p] = call[p]
  BY <1>1 DEF Returns
<1>3. loc'[p].ret = ret /\ loc'[p].pos = loc[p].pos /\ loc'[p].out = loc[p].out
  BY <1>1 DEF Returns, Locals
<1>4. loc'[p].out = <<>> /\ call[p] \in Call[p]
  BY <1>1, <1>3 DEF InHandler, DriverInv, HeapInv, IInv, Threads
<1>5. StatusOf(p)' = Device!Done(call[p], ret, <<>>)
  BY <1>2, <1>3, <1>4 DEF StatusOf, Device!Done
<1>. QED  BY <1>1, <1>2, <1>3, <1>4, <1>5

LEMMA ReturnsError ==
  ASSUME PrivateFiles, DeviceInv, DeviceInv', NEW p \in Proc, Acts(p),
         NEW ret \in Int, ret < 0, ret \in Device!Failures(call[p]), Returns(p, ret),
         pc[p] \in Before, UNCHANGED <<kernel, f_pos, heap, dev>>
  PROVE  Device!TakeEffect(p)
<1>1. DriverInv /\ DriverInv' /\ UNCHANGED <<module, heap, dev, call, f_pos>>
  BY DEF DeviceInv, kernel
<1>2. /\ pc[p] # "idle" /\ pc'[p] = "return" /\ call'[p] = call[p]
      /\ loc'[p].ret = ret
      /\ StatusOf(p)' = Device!Done(call[p], ret, <<>>)
  BY <1>1, ReturnsWith
<1>3. Effect(p) /\ OthersStay(p)
  BY <1>1, EffectOf, Frame
<1>4. DeviceLog' = DeviceLog /\ DevicePartial' = DevicePartial
  BY <1>1, <1>2, <1>3, CommitsOrNot, LogStays DEF Before
<1>. QED  BY <1>1, <1>2, <1>3, <1>4, FailStep

(* The errors that can be found out before the lock, and a signal.         *)
LEMMA RefusedStep ==
  ASSUME PrivateFiles, DeviceInv, DeviceInv', NEW p \in Proc, Reject(p) \/ Interrupted(p)
  PROVE  Device!TakeEffect(p)
<1>1. /\ Acts(p) /\ pc[p] = "enter" /\ pc[p] \in Before /\ call[p] \in Call[p]
      /\ UNCHANGED <<kernel, f_pos, heap, dev>>
  BY DEF Acts, Reject, Interrupted, Before, DeviceInv, DriverInv, HeapInv, IInv, Threads
<1>2. call[p].op \in {"read", "write", "llseek", "seekto", "ioctl"}
  BY <1>1, CallAssumption
<1>. USE DEF EarlyErrors, Device!Failures, EINVAL, EFAULT, ENOTTY, ERESTARTSYS,
             Device!EINVAL, Device!EFAULT, Device!ENOTTY, Device!ERESTARTSYS, Device!ENOMEM
<1>3. CASE Reject(p)
  <2>1. PICK ret \in EarlyErrors(call[p]) : Returns(p, ret)
    BY <1>3 DEF Reject
  <2>2. ret \in Int /\ ret < 0 /\ ret \in Device!Failures(call[p])
    BY <1>2, <2>1
  <2>. HIDE DEF EarlyErrors, Device!Failures
  <2>. QED  BY <1>1, <2>1, <2>2, ReturnsError
<1>4. CASE Interrupted(p)
  <2>1. MayLock(call[p]) /\ Returns(p, ERESTARTSYS)
    BY <1>4 DEF Interrupted
  <2>2. /\ ERESTARTSYS \in Int /\ ERESTARTSYS < 0
        /\ ERESTARTSYS \in Device!Failures(call[p])
    BY <1>2, <2>1 DEF MayLock
  <2>. HIDE DEF EarlyErrors, Device!Failures, ERESTARTSYS
  <2>. QED  BY <1>1, <2>1, <2>2, ReturnsError
<1>. QED  BY <1>3, <1>4

LEMMA LockIsHidden ==
  ASSUME PrivateFiles, DeviceInv, DeviceInv', NEW p \in Proc, Lock(p)
  PROVE  UNCHANGED Device!vars
<1>1. DriverInv /\ DriverInv' /\ Acts(p)
  BY DEF DeviceInv, Acts
<1>2. /\ pc[p] = "enter" /\ call' = call /\ f_pos' = f_pos /\ UNCHANGED <<module, heap, dev>>
      /\ pc'[p] = FirstStep(call[p])
  BY <1>1 DEF Lock, kernel, DriverInv, HeapInv, IInv, Threads
<1>3. pc'[p] \in {"find", "alloc", "llseek", "seekto"}
  BY <1>1, <1>2, FirstStepOf DEF Lock, DriverInv, HeapInv
<1>4. Effect(p) /\ OthersStay(p)
  BY <1>1, EffectOf, Frame
<1>5. StatusOf(p)' = StatusOf(p)
  BY <1>2, <1>3 DEF StatusOf
<1>6. DeviceLog' = DeviceLog /\ DevicePartial' = DevicePartial
  BY <1>2, <1>3, <1>4, CommitsOrNot, LogStays
<1>. QED  BY <1>2, <1>3, <1>4, <1>5, <1>6, HiddenStep

-----------------------------------------------------------------------------
(* Reads.                                                                  *)

(* Nobody is adding to the log while a thread is elsewhere in a handler.   *)
LEMMA Undisturbed ==
  ASSUME DriverInv, NEW p \in Proc, pc[p] \in LockedSteps \ {"evict", "add"}
  PROVE  FlatLog /\ module = "live" /\ ~Committing
<1>1. module = "live" /\ ~Committing
  BY Alone DEF DriverInv
<1>. QED  BY <1>1, LogIsFlat DEF LogKnown

(* A step with a file position of its own.                                 *)
LEMMA PositionSet ==
  ASSUME NEW p \in Proc, Effect(p), pc[p] \in Before, pc'[p] # "idle", call'[p] = call[p]
  PROVE  /\ call[p].file \in File
         /\ DevicePos[call[p].file] = f_pos[call[p].file]
         /\ DevicePos' = [DevicePos EXCEPT ![call[p].file] = DevicePos'[call[p].file]]
         /\ DevicePos'[call[p].file] = DevicePos[call[p].file] => DevicePos' = DevicePos
         /\ DevicePos'[call[p].file] =
              IF pc'[p] = "return" /\ call[p].op = "read" /\ loc'[p].ret >= 0
              THEN loc'[p].pos ELSE f_pos'[call[p].file]
<1>1. pc[p] # "idle" /\ pc[p] # "return"
  BY DEF Before
<1>. QED  BY <1>1 DEF Effect, HasMoved

(* The device's names for what both modules take from the community        *)
(* modules.                                                                *)
LEMMA SameFolds ==
  /\ \A s : Device!FlattenSeq(s) = FlattenSeq(s)
  /\ \A T : Device!Min(T) = Min(T)
  /\ \A s, e : Device!Contains(s, e) = Contains(s, e)
<1>1. \A s : Device!FlattenSeq(s) = FlattenSeq(s)
  BY DEF Device!FlattenSeq, FlattenSeq
<1>2. \A T : Device!Min(T) = Min(T)
  BY DEF Device!Min, Min
<1>3. \A s, e : Device!Contains(s, e) = Contains(s, e)
  BY DEF Device!Contains, Contains
<1>. QED  BY <1>1, <1>2, <1>3

LEMMA FindStep ==
  ASSUME PrivateFiles, DeviceInv, DeviceInv', NEW p \in Proc, find_entry(p)
  PROVE  Device!TakeEffect(p) \/ UNCHANGED Device!vars
<1>. DEFINE e == CB!aesd_circular_buffer_find_entry_offset_for_fpos(loc[p].pos)
            f == call[p].file
<1>1. /\ DriverInv /\ DriverInv' /\ Acts(p) /\ pc[p] = "find" /\ pc[p] \in Before
      /\ pc \in [Proc -> Steps] /\ loc \in [Proc -> Locals] /\ loc[p].pos \in Nat /\ CB!TypeOK
      /\ call[p].op = "read" /\ loc[p].pos = f_pos[f]
      /\ UNCHANGED <<module, heap, dev, call, f_pos>>
  BY DEF DeviceInv, Acts, Handler, find_entry, kernel, Before, DriverInv, HeapInv, IInv, Threads,
         Types, Locals, InHandler, Placed, KeepsPos
<1>2. Effect(p) /\ OthersStay(p) /\ FlatLog
  <2>1. pc[p] \in LockedSteps \ {"evict", "add"}
    BY <1>1 DEF LockedSteps
  <2>. QED  BY <1>1, <2>1, EffectOf, Frame, Undisturbed
<1>3. CASE e = NULL
  <2>1. Returns(p, 0)
    BY <1>3 DEF find_entry, EndOfFile, Leave
  <2>2. /\ pc[p] # "idle" /\ pc'[p] = "return" /\ call'[p] = call[p]
        /\ loc'[p].ret = 0 /\ loc'[p].pos = loc[p].pos
        /\ StatusOf(p)' = Device!Done(call[p], 0, <<>>)
    <3>1. 0 \in Int
      OBVIOUS
    <3>. QED  BY <1>1, <2>1, <3>1, ReturnsWith
  <2>3. DeviceLog' = DeviceLog /\ DevicePartial' = DevicePartial
    BY <1>1, <1>2, <2>2, CommitsOrNot, LogStays
  <2>4. DevicePos' = DevicePos /\ DevicePos[f] = loc[p].pos /\ opened' = opened
    <3>1. 0 >= 0
      OBVIOUS
    <3>. QED  BY <1>1, <1>2, <2>2, <3>1, PositionSet DEF Effect
  <2>5. CB!TotalSize <= loc[p].pos
    BY <1>1, <1>3, Finds, PlaceAssumption DEF CB!TotalSize, CB!Slots
  <2>6. DevicePos[f] >= Len(Device!Content)
    <3>1. Len(Device!Content) = CB!TotalSize
      BY <1>2, SameFolds DEF FlatLog, Device!Content
    <3>2. CB!TotalSize \in Nat
      BY <1>1, LiveSlots, Starts DEF CB!TotalSize
    <3>. QED  BY <1>1, <2>4, <2>5, <3>1, <3>2
  <2>7. DeviceStatus[p] = [phase |-> "invoked", call |-> call[p]]
        /\ DeviceStatus' = [DeviceStatus EXCEPT ![p] = Device!Done(call[p], 0, <<>>)]
    BY <1>1, <1>2, <2>2 DEF Effect
  <2>8. DeviceStatus[p].phase = "invoked" /\ DeviceStatus[p].call = call[p]
    BY <2>7
  <2>9. Device!Finish(p, 0, <<>>)
    BY <2>7, <2>8 DEF Device!Finish
  <2>10. Device!Read(p, call[p].file, call[p].count)
    BY <2>3, <2>4, <2>6, <2>9 DEF Device!Read
  <2>. QED  BY <1>1, <2>8, <2>10 DEF Device!TakeEffect
<1>4. CASE e # NULL
  <2>1. pc'[p] = "copy_to_user" /\ call'[p] = call[p]
    BY <1>1, <1>4 DEF find_entry, Found
  <2>2. StatusOf(p)' = StatusOf(p)
    BY <1>1, <2>1 DEF StatusOf
  <2>3. DeviceLog' = DeviceLog /\ DevicePartial' = DevicePartial
    BY <1>1, <1>2, <2>1, CommitsOrNot, LogStays
  <2>. QED  BY <1>1, <1>2, <2>1, <2>2, <2>3, HiddenStep
<1>. QED  BY <1>3, <1>4

(* Where a read stops: the end of its entry, or earlier.                   *)
LEMMA ReadStopsAt ==
  ASSUME DriverInv, FlatLog, NEW p \in Proc, NEW i, TakesFrom(p, i)
  PROVE  /\ Min({loc[p].pos + call[p].count} \cup {b \in Device!Bounds : b > loc[p].pos})
              = loc[p].pos + Taken(p)
         /\ loc[p].pos < Len(Device!Content)
<1>. DEFINE pos == loc[p].pos
            n == CB!TotalEntries
            to == pos + Taken(p)
            B == {b \in Device!Bounds : b > pos}
            T == {pos + call[p].count} \cup B
<1>1. CB!TypeOK /\ n \in 0..Capacity /\ Capacity \in Nat /\ i \in 0..(n - 1)
  BY SlotsAreThere, LiveSlots DEF DriverInv, Types, TakesFrom
<1>2. i \in 0..n /\ i + 1 \in 0..n /\ i \in Nat /\ \A j \in 0..n : j \in 0..Capacity
  BY <1>1
<1>3. Device!Bounds = {CB!StartOf(j) : j \in 0..n}
  <2>1. Device!Bounds = {Len(Upto(DeviceLog, j)) : j \in 0..Len(DeviceLog)}
    BY SameFolds DEF Device!Bounds, Upto
  <2>2. Len(DeviceLog) = n /\ \A j \in 0..n : Len(Upto(DeviceLog, j)) = CB!StartOf(j)
    BY DEF FlatLog
  <2>. HIDE DEF n
  <2>. QED  BY ONLY <2>1, <2>2
<1>4. \A j \in 0..n : CB!StartOf(j) \in Nat
  BY <1>1, <1>2, Starts
<1>5. /\ pos \in Nat /\ call[p].count \in Nat /\ Taken(p) \in Nat
      /\ CB!StartOf(i) <= pos /\ pos < CB!StartOf(i + 1)
      /\ Taken(p) <= call[p].count /\ to <= CB!StartOf(i + 1)
      /\ Taken(p) = call[p].count \/ to = CB!StartOf(i + 1)
  BY DEF TakesFrom
<1>6. \A j \in 0..n : j <= i => CB!StartOf(j) <= CB!StartOf(i)
  <2>. TAKE j \in 0..n
  <2>. HAVE j <= i
  <2>1. i \in j..Capacity /\ j \in 0..Capacity
    BY <1>1, <1>2
  <2>. QED  BY ONLY <1>1, <2>1, Starts
<1>7. \A j \in 0..n : i + 1 <= j => CB!StartOf(i + 1) <= CB!StartOf(j)
  <2>. TAKE j \in 0..n
  <2>. HAVE i + 1 <= j
  <2>1. j \in (i + 1)..Capacity /\ i + 1 \in 0..Capacity
    BY <1>1, <1>2
  <2>. QED  BY ONLY <1>1, <2>1, Starts
<1>. HIDE DEF pos, n
<1>8. T \subseteq Nat /\ T # {}
  BY <1>3, <1>4, <1>5
<1>9. CB!StartOf(i + 1) \in B
  BY <1>2, <1>3, <1>5
<1>10. to \in T /\ to \in Nat
  BY <1>5, <1>9
<1>11. ASSUME NEW t \in T PROVE to <= t
  <2>1. CASE t = pos + call[p].count
    <3>. HIDE DEF Taken
    <3>. QED  BY <1>5, <2>1
  <2>2. CASE t \in B
    <3>1. PICK j \in 0..n : t = CB!StartOf(j) /\ t > pos
      BY <1>3, <2>2
    <3>2. CB!StartOf(j) \in Nat /\ CB!StartOf(i) \in Nat /\ CB!StartOf(i + 1) \in Nat
      BY <1>2, <1>4
    <3>3. ~(j <= i)
      BY <1>5, <1>6, <3>1, <3>2
    <3>4. i + 1 <= j
      BY <1>2, <3>3
    <3>5. CB!StartOf(i + 1) <= t
      BY <1>7, <3>1, <3>4
    <3>. QED  BY <1>5, <1>10, <3>1, <3>2, <3>5
  <2>. QED  BY <2>1, <2>2
<1>12. Min(T) \in T /\ \A t \in T : Min(T) <= t
  <2>. HIDE DEF T
  <2>. QED  BY ONLY <1>8, MinIsLeast
<1>13. Min(T) = to
  <2>. HIDE DEF T, to
  <2>1. Min(T) \in Nat /\ Min(T) <= to /\ to <= Min(T)
    BY <1>8, <1>10, <1>11, <1>12
  <2>. QED  BY ONLY <1>10, <2>1
<1>14. pos < Len(Device!Content)
  <2>1. Len(Device!Content) = CB!StartOf(n)
    BY SameFolds DEF FlatLog, Device!Content, CB!TotalSize, n
  <2>2. CB!StartOf(i + 1) <= CB!StartOf(n) /\ CB!StartOf(n) \in Nat
    BY <1>1, <1>2, <1>4, <1>7
  <2>. QED  BY <1>2, <1>4, <1>5, <2>1, <2>2
<1>. QED  BY <1>13, <1>14 DEF pos

(* What it returns.                                                        *)
LEMMA SliceIsThere ==
  ASSUME FlatLog, NEW p \in Proc, NEW i, TakesFrom(p, i)
  PROVE  SubSeq(Device!Content, loc[p].pos + 1, loc[p].pos + Taken(p))
           = Slice(entry[loc[p].found.slot], loc[p].found.offset, Taken(p))
<1>. DEFINE from == loc[p].pos
            to == loc[p].pos + Taken(p)
            start == CB!StartOf(i)
            log == DeviceLog
<1>1. /\ i \in 0..(CB!TotalEntries - 1) /\ CB!TotalEntries \in Nat
      /\ loc[p].found = [slot |-> CB!Slot(i), offset |-> from - start]
      /\ start \in Nat /\ from \in Nat /\ Taken(p) \in Nat /\ start <= from
      /\ to <= CB!StartOf(i + 1)
  BY ONLY FlatLog, TakesFrom(p, i) DEF TakesFrom, FlatLog
<1>2. i + 1 \in 1..CB!TotalEntries /\ (i + 1) - 1 = i /\ i \in 0..CB!TotalEntries
      /\ i + 1 \in 0..CB!TotalEntries
  BY <1>1
<1>3. /\ log \in Seq(Seq(Byte)) /\ i + 1 \in 1..Len(log)
      /\ Len(Upto(log, (i + 1) - 1)) = start
      /\ Len(Upto(log, i + 1)) = CB!StartOf(i + 1)
      /\ log[i + 1] = heap[entry[CB!Slot(i)].buffptr]
  BY <1>2 DEF FlatLog
<1>4. from \in Nat /\ to \in Nat /\ from <= to
  <2>. HIDE DEF Taken
  <2>. QED  BY <1>1
<1>. HIDE DEF from, to, start, log
<1>5. SubSeq(FlattenSeq(log), from + 1, to) = SubSeq(log[i + 1], from - start + 1, to - start)
  <2>1. Len(Upto(log, (i + 1) - 1)) <= from /\ to <= Len(Upto(log, i + 1))
    BY <1>1, <1>3
  <2>2. SubSeq(FlattenSeq(log), from + 1, to)
          = SubSeq(log[i + 1], from - Len(Upto(log, (i + 1) - 1)) + 1,
                   to - Len(Upto(log, (i + 1) - 1)))
    BY ONLY <1>3, <1>4, <2>1, FlattenSlice
  <2>. QED  BY <1>3, <2>2
<1>6. to - start = (from - start) + Taken(p)
  BY <1>1 DEF to, from
<1>7. Slice(entry[loc[p].found.slot], loc[p].found.offset, Taken(p))
        = SubSeq(log[i + 1], from - start + 1, to - start)
  <2>1. loc[p].found.slot = CB!Slot(i) /\ loc[p].found.offset = from - start
    BY <1>1
  <2>. QED  BY <1>3, <1>6, <2>1 DEF Slice
<1>8. Device!Content = FlattenSeq(log)
  BY SameFolds DEF Device!Content, log
<1>. QED  BY <1>5, <1>7, <1>8 DEF from, to

LEMMA CopyStep ==
  ASSUME PrivateFiles, DeviceInv, DeviceInv', NEW p \in Proc, copy_to_user(p)
  PROVE  Device!TakeEffect(p)
<1>. DEFINE f == call[p].file
            n == Taken(p)
            pos == loc[p].pos
            out == Slice(entry[loc[p].found.slot], loc[p].found.offset, n)
<1>1. /\ DriverInv /\ DriverInv' /\ Acts(p) /\ pc[p] = "copy_to_user" /\ pc[p] \in Before
      /\ pc \in [Proc -> Steps] /\ loc \in [Proc -> Locals]
      /\ call[p].op = "read" /\ pos = f_pos[f]
      /\ UNCHANGED <<kernel, heap, dev, f_pos>>
      /\ UNCHANGED <<module, heap, dev, call, f_pos>>
  BY DEF DeviceInv, Acts, Handler, copy_to_user, kernel, Before, DriverInv, HeapInv, IInv, Threads,
         Types, InHandler, Placed, KeepsPos
<1>2. Effect(p) /\ OthersStay(p) /\ FlatLog
  <2>1. pc[p] \in LockedSteps \ {"evict", "add"}
    BY <1>1 DEF LockedSteps
  <2>. QED  BY <1>1, <2>1, EffectOf, Frame, Undisturbed
<1>3. CASE Leave(p, EFAULT)
  <2>1. EFAULT \in Int /\ EFAULT < 0 /\ EFAULT \in Device!Failures(call[p])
    BY <1>1 DEF EFAULT, Device!EFAULT, Device!Failures
  <2>2. Returns(p, EFAULT)
    BY <1>3 DEF Leave
  <2>. QED  BY <1>1, <2>1, <2>2, ReturnsError
<1>4. ASSUME pc' = [pc EXCEPT ![p] = "return"],
             loc' = [loc EXCEPT ![p].ret = n, ![p].pos = @ + n, ![p].out = out]
      PROVE  Device!TakeEffect(p)
  <2>1. PICK i : TakesFrom(p, i)
    BY <1>1, ReadTakes
  <2>2. n \in Nat /\ pos \in Nat /\ pos + n \in Nat /\ n >= 0 /\ (pos + n) - pos = n
    <3>1. n \in Nat /\ pos \in Nat
      BY <2>1 DEF TakesFrom
    <3>. HIDE DEF n, pos
    <3>. QED  BY <3>1
  <2>3. /\ Min({pos + call[p].count} \cup {b \in Device!Bounds : b > pos}) = pos + n
        /\ pos < Len(Device!Content)
    BY <1>1, <1>2, <2>1, ReadStopsAt
  <2>4. SubSeq(Device!Content, pos + 1, pos + n) = out
    BY <1>2, <2>1, SliceIsThere
  <2>5. /\ pc'[p] = "return" /\ call'[p] = call[p]
        /\ loc'[p].ret = n /\ loc'[p].pos = pos + n /\ loc'[p].out = out
    <3>. HIDE DEF n, out
    <3>. QED  BY <1>1, <1>4 DEF Locals
  <2>. HIDE DEF n, out
  <2>6. StatusOf(p)' = Device!Done(call[p], n, out)
    BY <2>5 DEF StatusOf, Device!Done
  <2>7. DeviceLog' = DeviceLog /\ DevicePartial' = DevicePartial
    BY <1>1, <1>2, <2>5, CommitsOrNot, LogStays
  <2>8. /\ DevicePos[f] = pos /\ DevicePos' = [DevicePos EXCEPT ![f] = pos + n]
        /\ opened' = opened
    BY <1>1, <1>2, <2>2, <2>5, PositionSet DEF Effect
  <2>9. DeviceStatus[p] = [phase |-> "invoked", call |-> call[p]]
        /\ DeviceStatus' = [DeviceStatus EXCEPT ![p] = Device!Done(call[p], n, out)]
    BY <1>1, <1>2, <2>6 DEF Effect
  <2>10. DeviceStatus[p].phase = "invoked" /\ DeviceStatus[p].call = call[p]
    BY <2>9
  <2>11. Device!Finish(p, n, out)
    BY <2>9, <2>10 DEF Device!Finish
  <2>12. ~(pos >= Len(Device!Content))
    <3>1. Len(Device!Content) \in Nat
      BY <1>1, <1>2, SameFolds, LiveSlots, Starts DEF FlatLog, Device!Content, CB!TotalSize, DriverInv, Types
    <3>. HIDE DEF pos
    <3>. QED  BY <2>2, <2>3, <3>1
  <2>13. Device!Read(p, call[p].file, call[p].count)
    <3>. HIDE DEF pos
    <3>1. Device!Min({pos + call[p].count} \cup {b \in Device!Bounds : b > pos}) = pos + n
      BY <2>3, SameFolds
    <3>. DEFINE to == Device!Min({DevicePos[f] + call[p].count}
                                   \cup {b \in Device!Bounds : b > DevicePos[f]})
    <3>2. to = pos + n /\ to - DevicePos[f] = n /\ DevicePos[f] = pos
      BY ONLY <2>2, <2>8, <3>1
    <3>. HIDE DEF to
    <3>3. /\ Device!Finish(p, to - DevicePos[f],
                           SubSeq(Device!Content, DevicePos[f] + 1, to))
          /\ DevicePos' = [DevicePos EXCEPT ![f] = to]
      BY ONLY <2>4, <2>8, <2>11, <3>2
    <3>. QED  BY ONLY <2>7, <2>8, <2>12, <3>2, <3>3 DEF Device!Read, to
  <2>. QED  BY <1>1, <2>10, <2>13 DEF Device!TakeEffect
<1>. QED  BY <1>3, <1>4 DEF copy_to_user, Taken

-----------------------------------------------------------------------------
(* Seeks.                                                                  *)

(* The device sets a position, or refuses to, as the driver does.          *)
SeekIs(p, goes, target, ret) ==
  /\ DeviceStatus[p] = [phase |-> "invoked", call |-> call[p]]
  /\ \/ /\ goes
        /\ DeviceStatus' = [DeviceStatus EXCEPT ![p] = Device!Done(call[p], ret, <<>>)]
        /\ DevicePos' = [DevicePos EXCEPT ![call[p].file] = target]
     \/ /\ ~goes
        /\ DeviceStatus' = [DeviceStatus EXCEPT ![p] = Device!Done(call[p], EINVAL, <<>>)]
        /\ DevicePos' = DevicePos
  /\ UNCHANGED <<DeviceLog, DevicePartial, opened>>

LEMMA SetPosIs ==
  ASSUME NEW p \in Proc, NEW goes \in BOOLEAN, NEW target, NEW ret,
         SeekIs(p, goes, target, ret)
  PROVE  /\ Device!SetPos(p, call[p].file, target, goes, ret)
         /\ DeviceStatus[p].phase = "invoked" /\ DeviceStatus[p].call = call[p]
<1>1. DeviceStatus[p].phase = "invoked" /\ DeviceStatus[p].call = call[p]
  BY DEF SeekIs
<1>2. Device!EINVAL = EINVAL
  BY DEF Device!EINVAL, EINVAL
<1>3. CASE goes
  <2>1. Device!Finish(p, ret, <<>>) /\ DevicePos' = [DevicePos EXCEPT ![call[p].file] = target]
    BY <1>1, <1>3 DEF SeekIs, Device!Finish
  <2>. QED  BY <1>1, <1>3, <2>1 DEF SeekIs, Device!SetPos
<1>4. CASE ~goes
  <2>1. Device!Finish(p, Device!EINVAL, <<>>) /\ DevicePos' = DevicePos
    BY <1>1, <1>2, <1>4 DEF SeekIs, Device!Finish
  <2>. QED  BY <1>1, <1>4, <2>1 DEF SeekIs, Device!SetPos
<1>. QED  BY <1>3, <1>4

(* Where the driver thinks it may go is where the device may go.           *)
LSeekGoes(c) == /\ c.whence \in {"SEEK_SET", "SEEK_CUR", "SEEK_END"}
                /\ InBounds(Base(c) + c.offset)

LEMMA LSeekIs ==
  ASSUME DriverInv, FlatLog, NEW p \in Proc, call[p].op = "llseek", call[p].offset \in Int,
         call[p].file \in File, DevicePos[call[p].file] = f_pos[call[p].file],
         SeekIs(p, LSeekGoes(call[p]), Base(call[p]) + call[p].offset,
                Base(call[p]) + call[p].offset)
  PROVE  Device!TakeEffect(p)
<1>. DEFINE c == call[p]
            target == Base(c) + c.offset
            inside == /\ c.whence \in {"SEEK_SET", "SEEK_CUR", "SEEK_END"}
                      /\ target \in 0..Len(Device!Content)
<1>1. Len(Device!Content) = CB!TotalSize /\ CB!TotalSize \in Nat /\ f_pos \in [File -> Nat]
  BY SameFolds, LiveSlots, Starts
     DEF FlatLog, Device!Content, CB!TotalSize, DriverInv, Types
<1>2. Base(c) \in Nat
  BY <1>1 DEF Base
<1>3. target \in Int
  BY <1>2
<1>4. inside <=> LSeekGoes(c)
  BY <1>1, <1>3 DEF LSeekGoes, InBounds
<1>5. Base(c) = CASE c.whence = "SEEK_SET" -> 0
                  [] c.whence = "SEEK_CUR" -> DevicePos[c.file]
                  [] c.whence = "SEEK_END" -> Len(Device!Content)
                  [] OTHER                 -> 0
  BY <1>1 DEF Base
<1>. DEFINE goes == LSeekGoes(c)
<1>6. Device!SetPos(p, c.file, target, goes, target)
      /\ DeviceStatus[p].phase = "invoked" /\ DeviceStatus[p].call = call[p]
  <2>1. goes \in BOOLEAN
    BY DEF LSeekGoes, InBounds
  <2>2. SeekIs(p, goes, target, target)
    OBVIOUS
  <2>. HIDE DEF goes, target
  <2>. QED  BY <2>1, <2>2, SetPosIs
<1>7. Device!SetPos(p, c.file, target, inside, target)
  <2>. HIDE DEF target, c, inside, goes
  <2>1. inside <=> goes
    BY <1>4 DEF goes
  <2>. QED  BY <1>6, <2>1 DEF Device!SetPos
<1>8. Device!LSeek(p, c.file, c.offset, c.whence)
  <2>. HIDE DEF c
  <2>. QED  BY <1>5, <1>7 DEF Device!LSeek
<1>. QED  BY <1>6, <1>8 DEF Device!TakeEffect

LEMMA SeekToIs ==
  ASSUME DriverInv, FlatLog, NEW p \in Proc, call[p].op = "seekto",
         call[p].write_cmd \in Nat, call[p].write_cmd_offset \in Nat,
         SeekIs(p, Exists(call[p]),
                CB!StartOf(call[p].write_cmd) + call[p].write_cmd_offset, 0)
  PROVE  Device!TakeEffect(p)
<1>. DEFINE c == call[p]
            cmd == c.write_cmd
            off == c.write_cmd_offset
            there == cmd < Len(DeviceLog) /\ off < Len(DeviceLog[cmd + 1])
            goes == Exists(c)
            target == CB!StartOf(cmd) + off
            end == Len(Device!FlattenSeq(SubSeq(DeviceLog, 1, cmd))) + off
<1>1. cmd \in Nat /\ CB!TotalEntries \in Nat /\ Len(DeviceLog) = CB!TotalEntries
  BY DEF FlatLog
<1>2. ASSUME cmd < CB!TotalEntries
      PROVE  Len(DeviceLog[cmd + 1]) = entry[CB!Slot(cmd)].size /\ end = target
  <2>1. cmd + 1 \in 1..CB!TotalEntries /\ (cmd + 1) - 1 = cmd /\ cmd \in 0..CB!TotalEntries
    BY <1>1, <1>2
  <2>2. Len(Upto(DeviceLog, cmd)) = CB!StartOf(cmd)
    BY <2>1 DEF FlatLog
  <2>3. Len(DeviceLog[cmd + 1]) = entry[CB!Slot(cmd)].size
    BY <2>1 DEF FlatLog
  <2>. QED  BY <2>2, <2>3, SameFolds DEF Upto
<1>3. there <=> goes
  BY <1>1, <1>2 DEF Exists
<1>4. Device!SetPos(p, c.file, target, goes, 0)
      /\ DeviceStatus[p].phase = "invoked" /\ DeviceStatus[p].call = call[p]
  <2>1. goes \in BOOLEAN
    BY DEF Exists
  <2>2. SeekIs(p, goes, target, 0)
    OBVIOUS
  <2>. HIDE DEF goes, target
  <2>. QED  BY <2>1, <2>2, SetPosIs
<1>5. goes => end = target
  BY <1>2 DEF Exists
<1>6. Device!SetPos(p, c.file, end, there, 0)
  <2>. HIDE DEF c, there, goes, target, end
  <2>. QED  BY <1>3, <1>4, <1>5 DEF Device!SetPos
<1>7. Device!SeekTo(p, c.file, cmd, off)
  <2>. HIDE DEF c, cmd, off
  <2>. QED  BY <1>6 DEF Device!SeekTo
<1>. QED  BY <1>4, <1>7 DEF Device!TakeEffect

(* What both steps of a seek know.                                         *)
LEMMA SeekFacts ==
  ASSUME DeviceInv, NEW p \in Proc, pc[p] \in {"llseek", "seekto", "store_pos"}
  PROVE  /\ DriverInv /\ Placed(p) /\ pc[p] \in Before /\ FlatLog
         /\ pc \in [Proc -> Steps] /\ loc \in [Proc -> Locals] /\ f_pos \in [File -> Nat]
         /\ pc[p] = "llseek" => call[p].op = "llseek"
         /\ pc[p] = "seekto" => call[p].op = "seekto"
         /\ call[p].op \in {"llseek", "seekto"}
         /\ call[p].op = "llseek" => call[p].offset \in Int
         /\ call[p].op = "seekto" => /\ call[p].write_cmd \in Nat
                                     /\ call[p].write_cmd_offset \in Nat
<1>1. /\ DriverInv /\ Placed(p) /\ InHandler(p) /\ call[p] \in Call[p]
      /\ pc[p] \in LockedSteps \ {"evict", "add"}
  BY DEF DeviceInv, DriverInv, HeapInv, IInv, Threads, LockedSteps
<1>2. FlatLog
  BY <1>1, Undisturbed
<1>3. pc \in [Proc -> Steps] /\ loc \in [Proc -> Locals] /\ f_pos \in [File -> Nat]
  BY <1>1 DEF DriverInv, HeapInv, IInv, Threads, Types
<1>4. /\ pc[p] = "llseek" => call[p].op = "llseek"
      /\ pc[p] = "seekto" => call[p].op = "seekto"
      /\ call[p].op \in {"llseek", "seekto"}
  BY <1>1 DEF InHandler
<1>. QED  BY <1>1, <1>2, <1>3, <1>4, CallAssumption DEF Before

LEMMA SeekStep ==
  ASSUME PrivateFiles, DeviceInv, DeviceInv', NEW p \in Proc, llseek(p) \/ seekto(p)
  PROVE  Device!TakeEffect(p) \/ UNCHANGED Device!vars
<1>. DEFINE c == call[p]
            f == call[p].file
<1>1. /\ DriverInv /\ DriverInv' /\ Acts(p) /\ pc[p] \in Before /\ FlatLog
      /\ pc[p] \in {"llseek", "seekto"}
      /\ llseek(p) => call[p].op = "llseek"
      /\ seekto(p) => call[p].op = "seekto"
      /\ call[p].op = "llseek" => call[p].offset \in Int
      /\ call[p].op = "seekto" => /\ call[p].write_cmd \in Nat
                                  /\ call[p].write_cmd_offset \in Nat
  <2>1. pc[p] \in {"llseek", "seekto", "store_pos"} /\ pc[p] \in {"llseek", "seekto"}
        /\ (llseek(p) => pc[p] = "llseek") /\ (seekto(p) => pc[p] = "seekto")
    BY DEF llseek, seekto
  <2>. QED  BY <2>1, SeekFacts DEF Acts, Handler, DeviceInv
<1>2. Effect(p) /\ OthersStay(p)
  BY <1>1, EffectOf, Frame
<1>3. ASSUME NEW valid \in BOOLEAN, NEW target, valid, Target(p, valid, target)
      PROVE  UNCHANGED Device!vars
  <2>1. /\ pc'[p] = "store_pos" /\ UNCHANGED <<module, heap, dev, call, f_pos>>
        /\ call'[p] = call[p] /\ pc[p] # "idle" /\ pc[p] # "return"
    BY <1>1, <1>3, SeekFacts DEF Target, kernel
  <2>2. StatusOf(p)' = StatusOf(p)
    BY <1>1, <2>1 DEF StatusOf
  <2>3. DeviceLog' = DeviceLog /\ DevicePartial' = DevicePartial
    BY <1>1, <1>2, <2>1, CommitsOrNot, LogStays
  <2>. QED  BY <1>2, <2>1, <2>2, <2>3, HiddenStep
<1>4. ASSUME NEW valid \in BOOLEAN, NEW target, ~valid, Target(p, valid, target)
      PROVE  /\ \A to, ret : SeekIs(p, FALSE, to, ret)
             /\ f \in File /\ DevicePos[f] = f_pos[f]
  <2>1. Returns(p, EINVAL) /\ UNCHANGED <<module, heap, dev, call, f_pos>> /\ call' = call
    BY <1>4 DEF Target, Leave, kernel
  <2>2. EINVAL \in Int /\ ~(EINVAL >= 0)
    BY DEF EINVAL
  <2>3. /\ pc[p] # "idle" /\ pc'[p] = "return" /\ call'[p] = call[p]
        /\ loc'[p].ret = EINVAL
        /\ StatusOf(p)' = Device!Done(call[p], EINVAL, <<>>)
    BY <1>1, <2>1, <2>2, ReturnsWith
  <2>4. DeviceLog' = DeviceLog /\ DevicePartial' = DevicePartial
    BY <1>1, <1>2, <2>1, <2>3, CommitsOrNot, LogStays
  <2>5. f \in File /\ DevicePos[f] = f_pos[f] /\ DevicePos' = DevicePos
    BY <1>1, <1>2, <2>1, <2>2, <2>3, PositionSet
  <2>6. /\ DeviceStatus[p] = [phase |-> "invoked", call |-> call[p]] /\ opened' = opened
        /\ DeviceStatus' = [DeviceStatus EXCEPT ![p] = Device!Done(call[p], EINVAL, <<>>)]
    BY <1>1, <1>2, <2>3 DEF Effect
  <2>. QED  BY <2>4, <2>5, <2>6 DEF SeekIs
<1>5. CASE llseek(p)
  <2>. DEFINE new_pos == CASE c.whence = "SEEK_SET" -> c.offset
                           [] c.whence = "SEEK_CUR" -> f_pos[f] + c.offset
                           [] c.whence = "SEEK_END" -> CB!TotalSize + c.offset
                           [] OTHER                 -> -1
              valid == InBounds(new_pos)
  <2>1. Target(p, valid, new_pos)
    BY <1>5 DEF llseek
  <2>2. valid \in BOOLEAN
    BY DEF InBounds
  <2>3. ~valid => (LSeekGoes(c) <=> FALSE)
    <3>1. c.whence \in {"SEEK_SET", "SEEK_CUR", "SEEK_END"} => Base(c) + c.offset = new_pos
      BY <1>1, <1>5 DEF Base
    <3>. HIDE DEF new_pos
    <3>. QED  BY <3>1 DEF LSeekGoes
  <2>. HIDE DEF valid, new_pos
  <2>4. CASE valid
    BY <1>3, <2>1, <2>2, <2>4
  <2>5. CASE ~valid
    <3>1. /\ \A to, ret : SeekIs(p, FALSE, to, ret)
          /\ f \in File /\ DevicePos[f] = f_pos[f]
      BY <1>4, <2>1, <2>2, <2>5
    <3>2. SeekIs(p, LSeekGoes(c), Base(c) + c.offset, Base(c) + c.offset)
      BY <2>3, <2>5, <3>1 DEF SeekIs
    <3>. QED  BY <1>1, <1>5, <3>1, <3>2, LSeekIs
  <2>. QED  BY <2>4, <2>5
<1>6. CASE seekto(p)
  <2>. DEFINE target == CB!StartOf(c.write_cmd) + c.write_cmd_offset
              valid == Exists(c)
  <2>1. Target(p, valid, target)
    BY <1>6 DEF seekto
  <2>2. valid \in BOOLEAN
    BY DEF Exists
  <2>. HIDE DEF valid, target
  <2>4. CASE valid
    BY <1>3, <2>1, <2>2, <2>4
  <2>5. CASE ~valid
    <3>1. \A to, ret : SeekIs(p, FALSE, to, ret)
      BY <1>4, <2>1, <2>2, <2>5
    <3>2. SeekIs(p, valid, target, 0)
      BY <2>5, <3>1 DEF SeekIs
    <3>. QED  BY <1>1, <1>6, <3>2, SeekToIs DEF valid, target
  <2>. QED  BY <2>4, <2>5
<1>. QED  BY <1>5, <1>6

LEMMA StorePosStep ==
  ASSUME PrivateFiles, DeviceInv, DeviceInv', NEW p \in Proc, store_pos(p)
  PROVE  Device!TakeEffect(p)
<1>. DEFINE f == call[p].file
            to == loc[p].new_pos
            ret == IF call[p].op = "llseek" THEN to ELSE 0
<1>1. /\ DriverInv /\ DriverInv' /\ Acts(p) /\ pc[p] \in Before /\ FlatLog
      /\ pc[p] = "store_pos" /\ GoesTo(p) /\ to \in Nat
      /\ call[p].op \in {"llseek", "seekto"} /\ f_pos \in [File -> Nat]
      /\ call[p].op = "llseek" => call[p].offset \in Int
      /\ call[p].op = "seekto" => /\ call[p].write_cmd \in Nat
                                  /\ call[p].write_cmd_offset \in Nat
      /\ UNCHANGED <<module, heap, dev, call>> /\ call' = call
      /\ Returns(p, ret) /\ f_pos' = [f_pos EXCEPT ![f] = to]
  <2>1. pc[p] = "store_pos" /\ Acts(p) /\ DriverInv'
        /\ UNCHANGED <<module, heap, dev, call>>
        /\ Returns(p, ret) /\ f_pos' = [f_pos EXCEPT ![f] = to]
    BY DEF store_pos, Acts, Handler, DeviceInv, kernel, Leave
  <2>2. GoesTo(p) /\ loc \in [Proc -> Locals]
    BY <2>1, SeekFacts DEF Placed
  <2>3. to \in Nat
    BY <2>2 DEF Locals
  <2>. QED  BY <2>1, <2>2, <2>3, SeekFacts
<1>2. Effect(p) /\ OthersStay(p)
  BY <1>1, EffectOf, Frame
<1>3. ret \in Int
  BY <1>1
<1>. HIDE DEF ret
<1>4. /\ pc[p] # "idle" /\ pc'[p] = "return" /\ call'[p] = call[p]
      /\ StatusOf(p)' = Device!Done(call[p], ret, <<>>)
  BY <1>1, <1>3, ReturnsWith
<1>5. DeviceLog' = DeviceLog /\ DevicePartial' = DevicePartial
  BY <1>1, <1>2, <1>4, CommitsOrNot, LogStays
<1>6. f \in File /\ DevicePos[f] = f_pos[f] /\ DevicePos' = [DevicePos EXCEPT ![f] = to]
  BY <1>1, <1>2, <1>4, PositionSet
<1>7. /\ DeviceStatus[p] = [phase |-> "invoked", call |-> call[p]] /\ opened' = opened
      /\ DeviceStatus' = [DeviceStatus EXCEPT ![p] = Device!Done(call[p], ret, <<>>)]
  BY <1>1, <1>2, <1>4 DEF Effect
<1>8. SeekIs(p, TRUE, to, ret)
  BY <1>5, <1>6, <1>7 DEF SeekIs
<1>9. CASE call[p].op = "llseek"
  <2>1. LSeekGoes(call[p]) /\ to = Base(call[p]) + call[p].offset /\ ret = to
    BY <1>1, <1>9 DEF GoesTo, LSeekGoes, ret
  <2>2. SeekIs(p, LSeekGoes(call[p]), Base(call[p]) + call[p].offset,
               Base(call[p]) + call[p].offset)
    <3>. HIDE DEF to
    <3>. QED  BY <1>8, <2>1 DEF SeekIs
  <2>. QED  BY <1>1, <1>6, <1>9, <2>2, LSeekIs
<1>10. CASE call[p].op = "seekto"
  <2>1. Exists(call[p]) /\ ret = 0
        /\ to = CB!StartOf(call[p].write_cmd) + call[p].write_cmd_offset
    BY <1>1, <1>10 DEF GoesTo, ret
  <2>2. SeekIs(p, Exists(call[p]),
               CB!StartOf(call[p].write_cmd) + call[p].write_cmd_offset, 0)
    <3>. HIDE DEF to
    <3>. QED  BY <1>8, <2>1 DEF SeekIs
  <2>. QED  BY <1>1, <1>10, <2>2, SeekToIs
<1>. QED  BY <1>1, <1>9, <1>10

-----------------------------------------------------------------------------
(* Writes.                                                                 *)

(* The entries that stay when one is added.                                *)
First == IF full THEN 1 ELSE 0

LEMMA RestKept ==
  ASSUME DriverInv, module = "live", UNCHANGED <<in_offs, out_offs, full>>,
         \A s \in CB!Slots : entry[s].buffptr # NULL /\ ~(full /\ s = out_offs) =>
           /\ entry'[s].buffptr = entry[s].buffptr
           /\ heap'[entry[s].buffptr] = heap[entry[s].buffptr]
  PROVE  LiveData(First)' = LiveData(First)
<1>. DEFINE n == CB!TotalEntries - First
            at(i) == CB!Slot(First + i - 1)
<1>1. CB!TypeOK /\ Capacity \in Nat /\ CB!TotalEntries \in 0..Capacity
  BY SlotsAreThere, LiveSlots DEF DriverInv, Types
<1>2. First \in {0, 1} /\ (full <=> First = 1) /\ First' = First
  BY <1>1 DEF First, CB!TypeOK
<1>3. CB!TotalEntries' = CB!TotalEntries /\ \A i : CB!Slot(i)' = CB!Slot(i)
  BY DEF CB!TotalEntries, CB!Slot
<1>4. LiveData(First) = [i \in 1..n |-> heap[entry[at(i)].buffptr]]
  BY DEF LiveData
<1>5. LiveData(First)' = [i \in 1..n |-> heap'[entry'[at(i)].buffptr]]
  BY <1>2, <1>3 DEF LiveData
<1>6. ASSUME NEW i \in 1..n
      PROVE  heap'[entry'[at(i)].buffptr] = heap[entry[at(i)].buffptr]
  <2>1. First + i - 1 \in 0..(CB!TotalEntries - 1) /\ First + i - 1 \in 0..(Capacity - 1)
        /\ (full => First + i - 1 # 0)
    BY <1>1, <1>2
  <2>2. at(i) \in CB!Slots /\ entry[at(i)].buffptr \in Block
    BY <2>1, LiveEntry
  <2>3. full => at(i) # out_offs
    BY <1>1, <2>1, LiveSlots
  <2>. HIDE DEF at
  <2>. QED  BY <2>2, <2>3, BlockAssumption
<1>. HIDE DEF n, at
<1>. QED  BY <1>4, <1>5, <1>6

LEMMA RestOfLog ==
  ASSUME DriverInv, FlatLog
  PROVE  LiveData(First) = IF Len(DeviceLog) = Capacity THEN Tail(DeviceLog) ELSE DeviceLog
<1>. DEFINE n == CB!TotalEntries
            log == DeviceLog
<1>1. /\ CB!TypeOK /\ Capacity \in Nat /\ Capacity > 0 /\ n \in 0..Capacity
      /\ (n = Capacity) = full /\ full \in BOOLEAN
  BY SlotsAreThere, LiveSlots DEF DriverInv, Types, CB!TypeOK, HeapInv, NothingOverwritten
<1>2. log \in Seq(Seq(Byte)) /\ Len(log) = n
      /\ log = [i \in 1..n |-> heap[entry[CB!Slot(i - 1)].buffptr]]
  BY DEF FlatLog
<1>3. CASE full
  <2>1. LiveData(First) = [i \in 1..(n - 1) |-> heap[entry[CB!Slot(1 + i - 1)].buffptr]]
    BY <1>3 DEF LiveData, First
  <2>2. Tail(log) = [i \in 1..(n - 1) |-> log[i + 1]]
    <3>. HIDE DEF log, n
    <3>. QED  BY <1>1, <1>2, <1>3
  <2>3. \A i \in 1..(n - 1) : /\ log[i + 1] = heap[entry[CB!Slot((i + 1) - 1)].buffptr]
                              /\ 1 + i - 1 = (i + 1) - 1
    <3>. HIDE DEF log, n
    <3>1. \A i \in 1..(n - 1) : i + 1 \in 1..n
      BY <1>1
    <3>. QED  BY <1>2, <3>1
  <2>4. LiveData(First) = Tail(log)
    <3>. HIDE DEF log, n
    <3>. QED  BY ONLY <2>1, <2>2, <2>3
  <2>. HIDE DEF log, n
  <2>. QED  BY <1>1, <1>2, <1>3, <2>4 DEF log
<1>4. CASE ~full
  <2>1. LiveData(First) = [i \in 1..(n - 0) |-> heap[entry[CB!Slot(0 + i - 1)].buffptr]]
    BY <1>4 DEF LiveData, First
  <2>2. n - 0 = n /\ \A i \in 1..n : 0 + i - 1 = i - 1
    BY <1>1
  <2>. HIDE DEF log, n
  <2>. QED  BY <1>1, <1>2, <1>4, <2>1, <2>2 DEF log
<1>. QED  BY <1>1, <1>3, <1>4

LEMMA AllocStep ==
  ASSUME PrivateFiles, DeviceInv, DeviceInv', NEW p \in Proc, kmalloc_tmp(p)
  PROVE  Device!TakeEffect(p) \/ UNCHANGED Device!vars
<1>1. /\ DriverInv /\ DriverInv' /\ Acts(p) /\ pc[p] = "alloc" /\ pc[p] \in Before
      /\ pc \in [Proc -> Steps] /\ call[p].op = "write" /\ call[p].data # <<>>
      /\ module = "live" /\ ~Committing
      /\ UNCHANGED <<kernel, f_pos, dev>>
      /\ UNCHANGED <<module, call, f_pos, entry, in_offs, out_offs, full, write_buf>>
  <2>1. pc[p] = "alloc" /\ pc[p] \in LockedSteps
    BY DEF kmalloc_tmp, LockedSteps
  <2>. QED  BY <2>1, Alone DEF DeviceInv, Acts, Handler, kmalloc_tmp, kernel, dev, Before,
                               DriverInv, HeapInv, IInv, Threads, InHandler
<1>2. Effect(p) /\ OthersStay(p)
  BY <1>1, EffectOf, Frame
<1>3. CASE NoMemory(p) /\ UNCHANGED heap
  <2>1. ENOMEM \in Int /\ ENOMEM < 0 /\ ENOMEM \in Device!Failures(call[p])
    BY <1>1 DEF ENOMEM, Device!ENOMEM, Device!Failures
  <2>2. Returns(p, ENOMEM)
    BY <1>3 DEF NoMemory, Leave
  <2>. QED  BY <1>1, <1>3, <2>1, <2>2, ReturnsError
<1>4. ASSUME NEW b \in kmalloc, heap' = [heap EXCEPT ![b] = <<>>],
             pc' = [pc EXCEPT ![p] = "append"]
      PROVE  UNCHANGED Device!vars
  <2>1. b \in Block /\ heap[b] = Free
    BY <1>4, KmallocIsFree
  <2>2. pc'[p] = "append" /\ call'[p] = call[p] /\ StatusOf(p)' = StatusOf(p)
    BY <1>1, <1>4 DEF StatusOf
  <2>3. Committing' = Committing
    BY <1>1, <1>2, <2>2, CommitsOrNot
  <2>4. \A x \in Block : Pointed(x) => heap'[x] = heap[x]
    BY <1>1, <1>4, <2>1 DEF DriverInv, HeapInv, Memory, InUseIsPointed
  <2>5. DeviceLog' = DeviceLog
    <3>1. \A s \in CB!Slots : entry[s].buffptr # NULL =>
            heap'[entry[s].buffptr] = heap[entry[s].buffptr]
      BY <1>1, <2>4 DEF DriverInv, HeapInv, Memory, Pointed
    <3>. QED  BY <1>1, <2>3, <3>1, LogIsKept
  <2>6. DevicePartial' = DevicePartial
    <3>1. write_buf # NULL => heap'[write_buf] = heap[write_buf]
      BY <1>1, <2>4 DEF DriverInv, HeapInv, Memory, Pointed
    <3>. QED  BY <1>1, <2>3, <3>1 DEF DevicePartial
  <2>. QED  BY <1>1, <1>2, <2>2, <2>5, <2>6, HiddenStep
<1>. QED  BY <1>3, <1>4 DEF kmalloc_tmp

LEMMA FreeStep ==
  ASSUME PrivateFiles, DeviceInv, DeviceInv', NEW p \in Proc, out_free(p)
  PROVE  UNCHANGED Device!vars
<1>. DEFINE b == loc[p].tmp_buf
<1>1. /\ DriverInv /\ DriverInv' /\ Acts(p) /\ pc[p] = "out_free"
      /\ pc \in [Proc -> Steps] /\ loc \in [Proc -> Locals] /\ call[p].op = "write"
      /\ module = "live" /\ ~Committing
      /\ heap' = [heap EXCEPT ![b] = Free]
      /\ loc' = [loc EXCEPT ![p].tmp_buf = NULL]
      /\ pc' = [pc EXCEPT ![p] = "return"]
      /\ UNCHANGED <<module, call, f_pos, entry, in_offs, out_offs, full, write_buf>>
  <2>1. pc[p] = "out_free" /\ pc[p] \in LockedSteps
    BY DEF out_free, LockedSteps
  <2>. QED  BY <2>1, Alone DEF DeviceInv, Acts, Handler, out_free, kernel, dev, Writing,
                               DriverInv, Types, HeapInv, IInv, Threads, InHandler
<1>2. Effect(p) /\ OthersStay(p)
  BY <1>1, EffectOf, Frame
<1>3. /\ pc'[p] = "return" /\ call'[p] = call[p]
      /\ loc'[p].ret = loc[p].ret /\ loc'[p].out = loc[p].out
  BY <1>1 DEF Locals
<1>4. StatusOf(p)' = StatusOf(p)
  BY <1>1, <1>3 DEF StatusOf
<1>5. Committing' = Committing
  BY <1>1, <1>2, <1>3, CommitsOrNot
<1>6. /\ \A s \in CB!Slots : entry[s].buffptr # NULL => entry[s].buffptr # b
      /\ write_buf # NULL => write_buf # b
  BY <1>1 DEF DriverInv, HeapInv, Memory, OneOwner, Writing
<1>. HIDE DEF b
<1>7. DeviceLog' = DeviceLog
  <2>1. \A s \in CB!Slots : entry[s].buffptr # NULL =>
          heap'[entry[s].buffptr] = heap[entry[s].buffptr]
    BY <1>1, <1>6 DEF DriverInv, HeapInv, Memory
  <2>. QED  BY <1>1, <1>5, <2>1, LogIsKept
<1>8. DevicePartial' = DevicePartial
  <2>1. write_buf # NULL => heap'[write_buf] = heap[write_buf]
    BY <1>1, <1>6 DEF DriverInv, HeapInv, Memory
  <2>. QED  BY <1>1, <1>5, <2>1 DEF DevicePartial
<1>. QED  BY <1>1, <1>2, <1>3, <1>4, <1>7, <1>8, HiddenStep

(* The pending data, and what is behind it, has a newline exactly if the   *)
(* new data has.                                                           *)
LEMMA NewlineIsNew ==
  ASSUME DriverInv, ~Committing, NEW data, data \in Seq(Byte)
  PROVE  /\ NewBuf(data) = (IF write_buf = NULL THEN <<>> ELSE heap[write_buf]) \o data
         /\ Contains(NewBuf(data), Newline) <=> Contains(data, Newline)
<1>1. CASE write_buf = NULL
  <2>1. NewBuf(data) = data /\ <<>> \o data = data
    BY <1>1 DEF NewBuf
  <2>. QED  BY <1>1, <2>1
<1>2. CASE write_buf # NULL
  <2>. DEFINE old == heap[write_buf]
  <2>1. old \in Seq(Byte) /\ write_buf_size = Len(old) /\ ~Contains(old, Newline)
    BY <1>2 DEF DriverInv, HeapInv, Memory, InUseIsPointed, Pointed, SizesMatch, PendingOpen
  <2>. HIDE DEF old
  <2>2. SubSeq(old, 1, write_buf_size) = old
    BY <2>1
  <2>3. NewBuf(data) = old \o data
    BY <1>2, <2>2 DEF NewBuf, old
  <2>4. /\ Len(old) \in Nat /\ Len(data) \in Nat /\ Len(old \o data) = Len(old) + Len(data)
        /\ \A x \in 1..Len(old) : (old \o data)[x] = old[x]
        /\ \A x \in 1..Len(data) : (old \o data)[Len(old) + x] = data[x]
    BY ONLY <2>1, data \in Seq(Byte), ConcatParts
  <2>5. ASSUME NEW x \in 1..Len(old \o data), (old \o data)[x] = Newline
        PROVE  Contains(data, Newline)
    <3>1. CASE x <= Len(old)
      <4>1. x \in 1..Len(old)
        BY <2>4, <3>1
      <4>. QED  BY <2>1, <2>4, <2>5, <4>1 DEF Contains
    <3>2. CASE ~(x <= Len(old))
      <4>1. x - Len(old) \in 1..Len(data) /\ Len(old) + (x - Len(old)) = x
        BY <2>4, <3>2
      <4>2. data[x - Len(old)] = (old \o data)[x]
        BY <2>4, <4>1
      <4>. QED  BY <2>5, <4>1, <4>2 DEF Contains
    <3>. QED  BY <3>1, <3>2
  <2>6. ASSUME NEW x \in 1..Len(data), data[x] = Newline
        PROVE  Contains(old \o data, Newline)
    <3>1. Len(old) + x \in 1..Len(old \o data)
      BY <2>4
    <3>. QED  BY <2>4, <2>6, <3>1 DEF Contains
  <2>7. Contains(old \o data, Newline) <=> Contains(data, Newline)
    BY <2>5, <2>6 DEF Contains
  <2>. QED  BY <1>2, <2>3, <2>7 DEF old
<1>. QED  BY <1>1, <1>2

LEMMA AppendStep ==
  ASSUME PrivateFiles, DeviceInv, DeviceInv', NEW p \in Proc, append(p)
  PROVE  Device!TakeEffect(p)
<1>. DEFINE data == call[p].data
<1>1. /\ DriverInv /\ DriverInv' /\ Acts(p) /\ pc[p] = "append" /\ pc[p] \in Before
      /\ pc \in [Proc -> Steps] /\ loc \in [Proc -> Locals]
      /\ call[p].op = "write" /\ data # <<>> /\ call[p] \in Call[p] /\ loc[p].out = <<>>
      /\ module = "live" /\ ~Committing
      /\ UNCHANGED <<module, call, f_pos, entry, in_offs, out_offs, full>> /\ call' = call
      /\ module' = "live" /\ f_pos' = f_pos
  <2>1. pc[p] = "append" /\ pc[p] \in LockedSteps
    BY DEF append, LockedSteps
  <2>. QED  BY <2>1, Alone DEF DeviceInv, Acts, Handler, append, kernel, buffer, Before, Writing,
                               DriverInv, Types, HeapInv, IInv, Threads, InHandler
<1>2. Effect(p) /\ OthersStay(p) /\ FlatLog
  BY <1>1, EffectOf, Frame, LogIsFlat DEF LogKnown
<1>3. data \in Seq(Byte) /\ Len(data) \in Nat
  BY <1>1, CallAssumption
<1>4. ASSUME NEW ret \in {EFAULT, ENOMEM}, loc' = [loc EXCEPT ![p].ret = ret],
             pc' = [pc EXCEPT ![p] = "out_free"],
             UNCHANGED <<heap, write_buf, write_buf_size>>
      PROVE  Device!TakeEffect(p)
  <2>1. ret \in Int /\ ret < 0 /\ ret \in Device!Failures(call[p])
    BY <1>1 DEF EFAULT, ENOMEM, Device!EFAULT, Device!ENOMEM, Device!Failures
  <2>2. pc'[p] = "out_free" /\ call'[p] = call[p] /\ loc'[p].ret = ret /\ loc'[p].out = <<>>
    <3>. HIDE DEF data
    <3>. QED  BY <1>1, <1>4 DEF Locals
  <2>3. StatusOf(p)' = Device!Done(call[p], ret, <<>>)
    BY <2>2 DEF StatusOf, Device!Done
  <2>4. DeviceLog' = DeviceLog /\ DevicePartial' = DevicePartial
    BY <1>1, <1>2, <1>4, <2>2, CommitsOrNot, LogStays DEF dev
  <2>. QED  BY <1>1, <1>2, <2>1, <2>2, <2>3, <2>4, FailStep
<1>5. ASSUME NEW b, b \in IF write_buf = NULL THEN kmalloc ELSE krealloc(write_buf),
             heap' = [x \in Block |-> IF x = b THEN NewBuf(data)
                                      ELSE IF x = write_buf THEN Free ELSE heap[x]],
             write_buf' = b,
             \/ /\ Contains(NewBuf(data), Newline)
                /\ pc' = [pc EXCEPT ![p] = "evict"]
                /\ UNCHANGED loc
             \/ /\ ~Contains(NewBuf(data), Newline)
                /\ pc' = [pc EXCEPT ![p] = "out_free"]
                /\ loc' = [loc EXCEPT ![p].ret = Len(data)]
      PROVE  Device!TakeEffect(p)
  <2>0. /\ NewBuf(data) = DevicePartial \o data
        /\ Contains(NewBuf(data), Newline) <=> Device!Contains(data, Newline)
    <3>. HIDE DEF data
    <3>. QED  BY <1>1, <1>2, <1>3, NewlineIsNew, SameFolds DEF FlatLog
  <2>1. b \in Block /\ (b = write_buf \/ heap[b] = Free)
    BY <1>1, <1>5, KmallocIsFree DEF krealloc, DriverInv, HeapInv, Memory
  <2>2. \A s \in CB!Slots : entry[s].buffptr # NULL =>
          heap'[entry[s].buffptr] = heap[entry[s].buffptr]
    <3>. TAKE s \in CB!Slots
    <3>. HAVE entry[s].buffptr # NULL
    <3>1. entry[s].buffptr \in Block /\ heap[entry[s].buffptr] # Free
          /\ entry[s].buffptr # write_buf
      BY <1>1 DEF DriverInv, HeapInv, Memory, OneOwner, InUseIsPointed, Pointed
    <3>. HIDE DEF data
    <3>. QED  BY <1>5, <2>1, <3>1
  <2>3. heap'[b] = NewBuf(data) /\ b # NULL
    BY <1>5, <2>1, BlockAssumption
  <2>4. StatusOf(p)' = Device!Done(call[p], Len(data), <<>>) /\ pc'[p] # "idle"
        /\ call'[p] = call[p]
    <3>1. CASE pc' = [pc EXCEPT ![p] = "evict"]
      BY <1>1, <3>1 DEF StatusOf, Device!Done
    <3>2. CASE pc' = [pc EXCEPT ![p] = "out_free"] /\ loc' = [loc EXCEPT ![p].ret = Len(data)]
      <4>1. pc'[p] = "out_free" /\ call'[p] = call[p]
            /\ loc'[p].ret = Len(data) /\ loc'[p].out = <<>>
        <5>. HIDE DEF data
        <5>. QED  BY <1>1, <3>2 DEF Locals
      <4>. QED  BY <4>1 DEF StatusOf, Device!Done
    <3>. QED  BY <1>5, <3>1, <3>2
  <2>5. DevicePos' = DevicePos /\ opened' = opened
    <3>. HIDE DEF data
    <3>1. pc'[p] # "idle" /\ call'[p] = call[p]
      BY <2>4
    <3>2. /\ DevicePos[call[p].file] = f_pos[call[p].file]
          /\ DevicePos'[call[p].file] = DevicePos[call[p].file] => DevicePos' = DevicePos
          /\ call[p].op # "read" => DevicePos'[call[p].file] = f_pos'[call[p].file]
      BY <1>1, <1>2, <3>1, PositionSet
    <3>3. DevicePos' = DevicePos
      BY <1>1, <3>2
    <3>. QED  BY <1>2, <3>3 DEF Effect
  <2>6. DeviceStatus[p] = [phase |-> "invoked", call |-> call[p]]
        /\ DeviceStatus' = [DeviceStatus EXCEPT ![p] = Device!Done(call[p], Len(data), <<>>)]
    BY <1>1, <1>2, <2>4 DEF Effect
  <2>7. DeviceStatus[p].phase = "invoked" /\ DeviceStatus[p].call = call[p]
    BY <2>6
  <2>8. Device!Finish(p, Len(data), <<>>)
    BY <2>6, <2>7 DEF Device!Finish
  <2>9. CASE Contains(NewBuf(data), Newline)
    <3>1. pc'[p] = "evict" /\ Committing'
      BY <1>1, <1>5, <2>9 DEF Committing
    <3>2. LiveData(First)' = LiveData(First)
      BY <1>1, <2>2, RestKept
    <3>3. DeviceLog' = Append(LiveData(First)', heap'[write_buf']) /\ DevicePartial' = <<>>
      BY <1>1, <3>1 DEF DeviceLog, DevicePartial, First
    <3>4. DeviceLog' = Append(LiveData(First), NewBuf(data))
      BY <1>5, <2>3, <3>2, <3>3
    <3>5. LiveData(First) = IF Len(DeviceLog) = Capacity THEN Tail(DeviceLog) ELSE DeviceLog
      BY <1>1, <1>2, RestOfLog
    <3>6. DeviceLog' = Device!CommandLog!Pushed(DevicePartial \o data)
      BY <2>0, <3>4, <3>5 DEF Device!CommandLog!Pushed
    <3>7. Device!Contains(data, Newline)
      BY <2>0, <2>9
    <3>8. Device!Write(p, data)
      BY <1>1, <2>5, <2>8, <3>3, <3>6, <3>7 DEF Device!Write
    <3>. QED  BY <1>1, <2>7, <3>8 DEF Device!TakeEffect
  <2>10. CASE ~Contains(NewBuf(data), Newline)
    <3>1. pc'[p] = "out_free"
      BY <1>1, <1>5, <2>10
    <3>2. ~Committing'
      BY <1>1, <1>2, <3>1, CommitsOrNot
    <3>3. DeviceLog' = DeviceLog
      BY <1>1, <2>2, <3>2, LogIsKept
    <3>4. DevicePartial' = DevicePartial \o data
      BY <1>1, <1>5, <2>0, <2>3, <3>2 DEF DevicePartial
    <3>5. ~Device!Contains(data, Newline)
      BY <2>0, <2>10
    <3>6. Device!Write(p, data)
      BY <1>1, <2>5, <2>8, <3>3, <3>4, <3>5 DEF Device!Write
    <3>. QED  BY <1>1, <2>7, <3>6 DEF Device!TakeEffect
  <2>. QED  BY <2>9, <2>10
<1>. HIDE DEF data
<1>. QED  BY <1>4, <1>5 DEF append, data

LEMMA EvictStep ==
  ASSUME PrivateFiles, DeviceInv, DeviceInv', NEW p \in Proc, evict(p)
  PROVE  UNCHANGED Device!vars
<1>. DEFINE b == entry[out_offs].buffptr
<1>1. /\ DriverInv /\ DriverInv' /\ Acts(p) /\ pc[p] = "evict"
      /\ pc \in [Proc -> Steps] /\ call[p].op = "write" /\ module = "live"
      /\ pc' = [pc EXCEPT ![p] = "add"]
      /\ UNCHANGED <<module, call, f_pos, in_offs, out_offs, full, write_buf, loc>>
      /\ entry \in [CB!Slots -> CB!Entry] /\ out_offs \in CB!Slots
      /\ write_buf # NULL /\ write_buf \in Block
      /\ heap \in [Block -> Seq(Byte) \cup {Free}]
  <2>1. pc[p] = "evict" /\ pc[p] \in LockedSteps
    BY DEF evict, LockedSteps
  <2>. QED  BY <2>1, Alone DEF DeviceInv, Acts, Handler, evict, kernel, Writing,
                               DriverInv, Types, HeapInv, IInv, Threads, InHandler, Memory,
                               NothingOverwritten, CB!TypeOK
<1>2. Effect(p) /\ OthersStay(p)
  BY <1>1, EffectOf, Frame
<1>3. pc'[p] = "add" /\ call'[p] = call[p]
  BY <1>1
<1>4. StatusOf(p)' = StatusOf(p)
  BY <1>1, <1>3 DEF StatusOf
<1>5. Committing /\ Committing'
  BY <1>1, <1>3 DEF Committing
<1>6. /\ \A s \in CB!Slots : entry[s].buffptr # NULL /\ ~(full /\ s = out_offs) =>
           /\ entry'[s].buffptr = entry[s].buffptr
           /\ heap'[entry[s].buffptr] = heap[entry[s].buffptr]
      /\ heap'[write_buf] = heap[write_buf]
  <2>1. CASE MustFree
    <3>1. /\ heap' = [heap EXCEPT ![b] = Free]
          /\ entry' = [entry EXCEPT ![out_offs] = CB!NullEntry]
          /\ full /\ b # NULL
      BY <2>1 DEF evict, MustFree
    <3>2. /\ b # write_buf
          /\ \A s \in CB!Slots : entry[s].buffptr # NULL /\ s # out_offs => entry[s].buffptr # b
      BY <1>1, <3>1 DEF DriverInv, HeapInv, OneOwner
    <3>3. \A s \in CB!Slots : entry[s].buffptr \in Block \cup {NULL}
      BY <1>1 DEF DriverInv, HeapInv, Memory
    <3>. HIDE DEF b
    <3>. QED  BY <1>1, <3>1, <3>2, <3>3
  <2>2. CASE ~MustFree
    BY <2>2 DEF evict
  <2>. QED  BY <2>1, <2>2
<1>7. LiveData(First)' = LiveData(First)
  BY <1>1, <1>6, RestKept
<1>8. DeviceLog' = DeviceLog /\ DevicePartial' = DevicePartial
  <2>1. DeviceLog = Append(LiveData(First), heap[write_buf]) /\ DevicePartial = <<>>
    BY <1>1, <1>5 DEF DeviceLog, DevicePartial, First
  <2>2. DeviceLog' = Append(LiveData(First)', heap'[write_buf']) /\ DevicePartial' = <<>>
    BY <1>1, <1>5 DEF DeviceLog, DevicePartial, First
  <2>3. heap'[write_buf'] = heap[write_buf]
    BY <1>1, <1>6
  <2>. QED  BY ONLY <1>7, <2>1, <2>2, <2>3
<1>. QED  BY <1>1, <1>2, <1>3, <1>4, <1>8, HiddenStep

(* What write_buf becomes.                                                 *)
Complete == [buffptr |-> write_buf, size |-> write_buf_size]

Rest == IF full THEN Tail(Buf!Contents) ELSE Buf!Contents

(* The newest entry comes behind those that stay.                          *)
LEMMA NewestAdded ==
  ASSUME DriverInv, NEW p \in Proc, add(p)
  PROVE  /\ Complete \in Buf!Entry
         /\ Rest \in Seq(Buf!Entry)
         /\ Len(Rest) = CB!TotalEntries - First
         /\ \A i \in 1..Len(Rest) : Rest[i] = entry[CB!Slot(First + i - 1)]
         /\ Buf!Contents' = Append(Rest, Complete)
<1>1. /\ Buf!TypeOK /\ Buf!IndexInv /\ BOOLEAN = {TRUE, FALSE} /\ full \in BOOLEAN
      /\ write_buf # NULL /\ write_buf \in Block /\ write_buf_size \in Nat
  BY SameBuffer DEF add, DriverInv, Types, HeapInv, NothingOverwritten, Memory, Buf!IndexInv, CB!TypeOK
<1>2. Complete \in Buf!Entry /\ Complete.buffptr # NULL
  BY <1>1 DEF Complete, Buf!Entry
<1>3. Buf!aesd_circular_buffer_add_entry(Complete)
  BY <1>1 DEF add, Complete, CB!aesd_circular_buffer_add_entry, Buf!aesd_circular_buffer_add_entry,
              CB!Advance, Buf!Advance, CB!vars, Buf!vars
<1>4. /\ Buf!Contents \in Seq(Buf!Entry)
      /\ Len(Buf!Contents) = CB!TotalEntries
      /\ \A i \in 1..CB!TotalEntries : Buf!Contents[i] = entry[CB!Slot(i - 1)]
  BY <1>1, SameBuffer, SlotsAreThere, Buf!ContentsType
<1>5. CASE full
  <2>1. Len(Buf!Contents) = Capacity /\ Buf!Contents' = Append(Rest, Complete)
    BY <1>1, <1>2, <1>3, <1>5, SlotsAreThere, Buf!AddReplacesOldest DEF Rest
  <2>2. Rest = Tail(Buf!Contents) /\ First = 1
    BY <1>5 DEF Rest, First
  <2>3. Buf!Contents # <<>> /\ Capacity \in Nat /\ Capacity > 0 /\ CB!TotalEntries = Capacity
    BY <1>4, <2>1, SlotsAreThere
  <2>4. /\ Rest \in Seq(Buf!Entry) /\ Len(Rest) = Capacity - 1
        /\ \A i \in 1..(Capacity - 1) : Rest[i] = Buf!Contents[i + 1]
    BY ONLY <1>4, <2>2, <2>3
  <2>5. \A i \in 1..(Capacity - 1) : i + 1 \in 1..Capacity /\ (i + 1) - 1 = 1 + i - 1
    BY <2>3
  <2>. QED  BY <1>2, <1>4, <2>1, <2>2, <2>3, <2>4, <2>5
<1>6. CASE ~full
  <2>1. Buf!Contents' = Append(Rest, Complete)
    BY <1>1, <1>2, <1>3, <1>6, SlotsAreThere, Buf!AddAppends DEF Rest
  <2>2. Rest = Buf!Contents /\ First = 0
    BY <1>6 DEF Rest, First
  <2>3. CB!TotalEntries \in Nat
    BY <1>4
  <2>4. \A i \in 1..CB!TotalEntries : 0 + i - 1 = i - 1
    BY <2>3
  <2>. QED  BY <1>2, <1>4, <2>1, <2>2, <2>3, <2>4
<1>. QED  BY <1>1, <1>5, <1>6

LEMMA AddStep ==
  ASSUME PrivateFiles, DeviceInv, DeviceInv', NEW p \in Proc, add(p)
  PROVE  UNCHANGED Device!vars
<1>. DEFINE data == call[p].data
            n == Len(Rest)
<1>1. /\ DriverInv /\ DriverInv' /\ Acts(p) /\ pc[p] = "add"
      /\ pc \in [Proc -> Steps] /\ call[p].op = "write" /\ module = "live"
      /\ loc \in [Proc -> Locals] /\ loc[p].out = <<>>
      /\ pc' = [pc EXCEPT ![p] = "out_free"]
      /\ loc' = [loc EXCEPT ![p].ret = Len(data)]
      /\ UNCHANGED <<module, call, f_pos, heap>> /\ write_buf' = NULL
      /\ \A q \in Proc : q # p => pc[q] \notin {"evict", "add"}
  <2>1. pc[p] = "add" /\ pc[p] \in LockedSteps
    BY DEF add, LockedSteps
  <2>. QED  BY <2>1, Alone DEF DeviceInv, Acts, Handler, add, kernel, Writing,
                               DriverInv, Types, HeapInv, IInv, Threads, InHandler
<1>2. Effect(p) /\ OthersStay(p)
  BY <1>1, EffectOf, Frame
<1>3. /\ pc'[p] = "out_free" /\ call'[p] = call[p]
      /\ loc'[p].ret = Len(data) /\ loc'[p].out = <<>>
  <2>. HIDE DEF data
  <2>. QED  BY <1>1 DEF Locals
<1>4. StatusOf(p)' = StatusOf(p)
  BY <1>1, <1>3 DEF StatusOf
<1>5. Committing /\ ~Committing'
  BY <1>1, <1>2, <1>3 DEF Committing, OthersStay
<1>6. FlatLog'
  <2>1. LogKnown'
    BY LogIsFlat, PTL
  <2>. QED  BY <1>1, <1>5, <2>1 DEF LogKnown
<1>7. /\ Complete \in Buf!Entry /\ Rest \in Seq(Buf!Entry)
      /\ n = CB!TotalEntries - First
      /\ \A i \in 1..n : Rest[i] = entry[CB!Slot(First + i - 1)]
      /\ Buf!Contents' = Append(Rest, Complete)
  BY <1>1, NewestAdded
<1>8. /\ Len(Buf!Contents') = CB!TotalEntries'
      /\ \A i \in 1..CB!TotalEntries' : Buf!Contents'[i] = (entry[CB!Slot(i - 1)])'
  <2>1. CB!TotalEntries' = Buf!TotalEntries' /\ \A i : CB!Slot(i)' = Buf!Slot(i)'
    BY DEF CB!TotalEntries, Buf!TotalEntries, CB!Slot, Buf!Slot
  <2>2. Buf!Contents' = [i \in 1..CB!TotalEntries' |-> (entry[CB!Slot(i - 1)])']
    BY <2>1 DEF Buf!Contents
  <2>3. CB!TotalEntries' \in Nat
    BY <1>6 DEF FlatLog
  <2>. QED  BY <2>2, <2>3
<1>9. DeviceLog' = [i \in 1..(n + 1) |-> heap[Append(Rest, Complete)[i].buffptr]]
  BY <1>1, <1>6, <1>7, <1>8 DEF FlatLog
<1>10. DeviceLog = Append([i \in 1..n |-> heap[Rest[i].buffptr]], heap[Complete.buffptr])
  BY <1>1, <1>5, <1>7 DEF DeviceLog, LiveData, First, Complete
<1>11. DeviceLog' = DeviceLog
  <2>. DEFINE data_of == [i \in 1..n |-> heap[Rest[i].buffptr]]
              new == heap[Complete.buffptr]
  <2>1. n \in Nat /\ Len(Append(Rest, Complete)) = n + 1
        /\ \A i \in 1..(n + 1) : Append(Rest, Complete)[i] = IF i <= n THEN Rest[i] ELSE Complete
    BY ONLY <1>7
  <2>. HIDE DEF n
  <2>2. Append(data_of, new) = [i \in 1..(n + 1) |-> IF i <= n THEN data_of[i] ELSE new]
    BY ONLY <2>1 DEF data_of
  <2>3. \A i \in 1..(n + 1) : heap[Append(Rest, Complete)[i].buffptr]
                               = IF i <= n THEN data_of[i] ELSE new
    BY ONLY <2>1
  <2>4. DeviceLog' = [i \in 1..(n + 1) |-> IF i <= n THEN data_of[i] ELSE new]
    <3>. HIDE DEF data_of, new
    <3>. QED  BY <1>9, <2>3
  <2>. QED  BY <1>10, <2>2, <2>4
<1>12. DevicePartial' = DevicePartial
  BY <1>1, <1>5, <1>6 DEF DevicePartial
<1>. QED  BY <1>1, <1>2, <1>3, <1>4, <1>11, <1>12, HiddenStep

-----------------------------------------------------------------------------
(* What is no call: files are opened and closed, the module comes and      *)
(* goes.                                                                   *)

LEMMA FileIs ==
  ASSUME PrivateFiles, DeviceInv, DeviceInv', NEW f \in File
  PROVE  /\ aesd_open(f) => Device!Open(f)
         /\ aesd_release(f) => Device!Close(f)
<1>. DEFINE same == UNCHANGED <<DeviceLog, DevicePartial, DeviceStatus>>
<1>1. ASSUME UNCHANGED <<module, heap, dev, threads>>
      PROVE  same /\ UNCHANGED <<pc, call, loc>> /\ \A q \in Proc, g \in File : HasMoved(q, g)' <=> HasMoved(q, g)
  <2>1. UNCHANGED <<pc, call, loc>>
    BY <1>1 DEF threads
  <2>2. Committing' = Committing
    BY <2>1 DEF Committing
  <2>3. DeviceStatus' = DeviceStatus
    BY <2>1 DEF DeviceStatus
  <2>4. DeviceLog' = DeviceLog /\ DevicePartial' = DevicePartial
    BY <1>1, <2>2, LogStays
  <2>. QED  BY <2>1, <2>3, <2>4 DEF HasMoved
<1>2. ASSUME aesd_open(f) PROVE Device!Open(f)
  <2>1. same /\ UNCHANGED <<pc, call, loc, f_pos>> /\ f \notin opened /\ opened' = opened \cup {f}
    BY <1>1, <1>2 DEF aesd_open
  <2>2. DevicePos' = DevicePos
    BY <2>1 DEF DevicePos, HasMoved
  <2>. QED  BY <2>1, <2>2 DEF Device!Open
<1>3. ASSUME aesd_release(f) PROVE Device!Close(f)
  <2>1. /\ same /\ UNCHANGED <<pc, call, loc>> /\ f \in opened /\ opened' = opened \ {f}
        /\ f_pos' = [f_pos EXCEPT ![f] = 0]
        /\ \A q \in Proc : pc[q] # "idle" => call[q].file # f
        /\ \A q \in Proc, g \in File : HasMoved(q, g)' <=> HasMoved(q, g)
    BY <1>1, <1>3 DEF aesd_release
  <2>2. \A q \in Proc : DeviceStatus[q] = Device!Idle \/ DeviceStatus[q].call.file # f
    <3>. TAKE q \in Proc
    <3>1. DeviceStatus[q] = StatusOf(q)
      BY DEF DeviceStatus, StatusOf
    <3>2. CASE pc[q] = "idle"
      BY <3>1, <3>2 DEF StatusOf, Device!Idle
    <3>3. CASE pc[q] # "idle"
      <4>1. StatusOf(q).call = call[q]
        BY <3>3 DEF StatusOf
      <4>. QED  BY <2>1, <3>1, <3>3, <4>1
    <3>. QED  BY <3>2, <3>3
  <2>3. f_pos \in [File -> Nat]
    BY DEF DeviceInv, DriverInv, Types
  <2>4. ASSUME NEW g \in File
        PROVE  DevicePos'[g] = IF g = f THEN 0 ELSE DevicePos[g]
    <3>1. PositionAt(g) /\ PositionAt(g)'
      <4>1. Positions'
        BY PositionIs, PTL
      <4>. QED  BY <4>1, PositionIs DEF Positions, PrivateFiles, DeviceInv
    <3>2. \A q \in Proc : HasMoved(q, f) => pc[q] = "return" /\ call[q].file = f
      BY DEF HasMoved
    <3>3. \A q \in Proc : ~HasMoved(q, f)
      BY <2>1, <3>2
    <3>4. CASE g = f
      BY <2>1, <2>3, <3>1, <3>3, <3>4 DEF PositionAt
    <3>5. CASE g # f
      <4>1. f_pos'[g] = f_pos[g]
        BY <2>1, <2>3, <3>5
      <4>2. CASE \A q \in Proc : ~HasMoved(q, g)
        BY <2>1, <3>1, <3>5, <4>1, <4>2 DEF PositionAt
      <4>3. CASE \E q \in Proc : HasMoved(q, g)
        BY <2>1, <3>1, <3>5, <4>1, <4>3 DEF PositionAt
      <4>. QED  BY <4>2, <4>3
    <3>. QED  BY <3>4, <3>5
  <2>5. DevicePos' = [DevicePos EXCEPT ![f] = 0]
    <3>1. DevicePos = [g \in File |-> DevicePos[g]] /\ DevicePos' = [g \in File |-> DevicePos'[g]]
      BY DEF DevicePos
    <3>. HIDE DEF DevicePos
    <3>. QED  BY <2>4, <3>1
  <2>. QED  BY <2>1, <2>2, <2>5 DEF Device!Close
<1>. QED  BY <1>2, <1>3

LEMMA ModuleIs ==
  ASSUME DeviceInv, DeviceInv', Module
  PROVE  Device!Reset \/ UNCHANGED Device!vars
<1>1. DriverInv /\ DriverInv'
  BY DEF DeviceInv
<1>2. UNCHANGED <<opened, f_pos, pc, call, loc>>
  BY DEF Module, alloc_chrdev_region, init_device, aesd_setup_cdev, aesd_cleanup_device, aesd_exit,
         threads
<1>3. UNCHANGED <<DevicePos, DeviceStatus>> /\ Committing' = Committing
  BY <1>2 DEF DevicePos, HasMoved, DeviceStatus, Committing
<1>4. CASE aesd_cleanup_device
  <2>1. module' # "live" /\ opened = {}
    BY <1>4 DEF aesd_cleanup_device
  <2>2. DeviceLog' = <<>> /\ DevicePartial' = <<>>
    BY <2>1 DEF DeviceLog, DevicePartial
  <2>. QED  BY <1>2, <1>3, <2>1, <2>2 DEF Device!Reset
<1>5. CASE ~aesd_cleanup_device
  <2>1. module # "live"
    BY <1>5 DEF Module, alloc_chrdev_region, init_device, aesd_setup_cdev, aesd_exit
  <2>2. DeviceLog = <<>> /\ DevicePartial = <<>>
    BY <2>1 DEF DeviceLog, DevicePartial
  <2>3. DeviceLog' = <<>> /\ DevicePartial' = <<>>
    <3>1. CASE module' # "live"
      BY <3>1 DEF DeviceLog, DevicePartial
    <3>2. CASE module' = "live"
      <4>1. /\ module = "initialised"
            /\ UNCHANGED <<entry, in_offs, out_offs, full, write_buf, heap>>
        BY <1>5, <3>2 DEF Module, alloc_chrdev_region, init_device, aesd_setup_cdev, aesd_exit, dev
      <4>2. /\ write_buf' = NULL /\ ~full' /\ in_offs' = out_offs' /\ in_offs' \in Nat
        BY <1>1, <4>1, SlotsAreThere DEF DriverInv, HeapInv, NothingLeft, Fresh, Types, CB!TypeOK
      <4>3. ~Committing'
        BY <1>1, <1>2, <2>1 DEF DriverInv, HeapInv, NothingOverwritten, NothingLeft, Committing
      <4>4. CB!TotalEntries' = 0
        <5>1. CB!TotalEntries = 0
          BY <1>1, <4>1, SlotsAreThere DEF DriverInv, Fresh, Types, CB!TypeOK, CB!TotalEntries
        <5>. QED  BY <4>1, <5>1 DEF CB!TotalEntries
      <4>5. FlatLog'
        <5>1. LogKnown'
          BY LogIsFlat, PTL
        <5>. QED  BY <1>1, <3>2, <4>3, <5>1 DEF LogKnown
      <4>. QED  BY <4>2, <4>4, <4>5 DEF FlatLog
    <3>. QED  BY <3>1, <3>2
  <2>. QED  BY <1>2, <1>3, <2>2, <2>3 DEF Device!vars
<1>. QED  BY <1>4, <1>5

LEMMA DeviceInit == Init => Device!Init
<1>. SUFFICES ASSUME Init PROVE Device!Init
  OBVIOUS
<1>1. DeviceLog = <<>> /\ DevicePartial = <<>> /\ opened = {}
  BY DEF Init, DeviceLog, DevicePartial
<1>2. \A p \in Proc : pc[p] = "idle"
  BY DEF Init
<1>3. DevicePos = [f \in File |-> 0]
  BY <1>2 DEF Init, DevicePos, HasMoved
<1>4. DeviceStatus = [p \in Proc |-> Device!Idle]
  BY <1>2 DEF DeviceStatus, Device!Idle
<1>. QED  BY <1>1, <1>3, <1>4 DEF Device!Init

LEMMA DeviceStep ==
  ASSUME PrivateFiles, DeviceInv, DeviceInv', [Next]_vars
  PROVE  [Device!Next]_(Device!vars)
<1>. DEFINE known == Device!Next \/ UNCHANGED Device!vars
<1>0. DriverInv /\ DriverInv'
  BY DEF DeviceInv
<1>1. ASSUME NEW p \in Proc, NEW c \in Call[p], SysCall(p, c) PROVE Device!Next
  BY <1>1, InvokeStep DEF Device!Next
<1>2. ASSUME NEW p \in Proc, SysReturn(p) PROVE Device!Next
  BY <1>2, ReturnsStep DEF Device!Next
<1>3. ASSUME NEW p \in Proc, Device!TakeEffect(p) PROVE Device!Next
  BY <1>3 DEF Device!Next
<1>4. ASSUME NEW p \in Proc, Reject(p) \/ Interrupted(p) PROVE known
  BY <1>3, <1>4, RefusedStep
<1>5. ASSUME NEW p \in Proc, Lock(p) PROVE known
  BY <1>5, LockIsHidden
<1>6. ASSUME NEW p \in Proc, find_entry(p) \/ copy_to_user(p) PROVE known
  BY <1>3, <1>6, FindStep, CopyStep
<1>7. ASSUME NEW p \in Proc,
             kmalloc_tmp(p) \/ append(p) \/ evict(p) \/ add(p) \/ out_free(p)
      PROVE  known
  BY <1>3, <1>7, AllocStep, AppendStep, EvictStep, AddStep, FreeStep
<1>8. ASSUME NEW p \in Proc, llseek(p) \/ seekto(p) \/ store_pos(p) PROVE known
  BY <1>3, <1>8, SeekStep, StorePosStep
<1>9. ASSUME NEW f \in File, aesd_open(f) \/ aesd_release(f) PROVE Device!Next
  BY <1>9, FileIs DEF Device!Next
<1>10. CASE Module
  BY <1>10, ModuleIs DEF Device!Next
<1>11. CASE UNCHANGED vars
  <2>1. UNCHANGED <<module, opened, f_pos, heap, entry, in_offs, out_offs, full,
                    write_buf, write_buf_size, pc, call, loc>>
    BY <1>11 DEF vars
  <2>2. UNCHANGED <<DevicePos, DeviceStatus>> /\ Committing' = Committing
    BY <2>1 DEF DevicePos, HasMoved, DeviceStatus, Committing
  <2>3. UNCHANGED <<DeviceLog, DevicePartial>>
    BY <2>1, <2>2, LogStays DEF dev
  <2>. QED  BY <2>1, <2>2, <2>3 DEF Device!vars
<1>. QED  BY <1>1, <1>2, <1>4, <1>5, <1>6, <1>7, <1>8, <1>9, <1>10, <1>11 DEF Next, Handler

(***************************************************************************)
(* Threads that do not share a struct file cannot tell the driver from a   *)
(* device on which every call is one step: whatever the threads, the       *)
(* files, the calls, the capacity and the memory, no interleaving, failed  *)
(* allocation, bad user address or signal shows them a torn, lost or       *)
(* doubled write, or a read of anything but the bytes at its position.     *)
(***************************************************************************)
THEOREM DriverImplementsDevice ==
  ASSUME PrivateFiles
  PROVE  Spec => ImplementsDevice
<1>1. Init => DeviceInv /\ Device!Init
  BY DeviceInvInit, DeviceInit
<1>2. DeviceInv /\ [Next]_vars => DeviceInv'
  BY DeviceInvStep
<1>3. DeviceInv /\ DeviceInv' /\ [Next]_vars => [Device!Next]_(Device!vars)
  BY DeviceStep
<1>. QED  BY <1>1, <1>2, <1>3, PTL DEF Spec, ImplementsDevice, Device!Spec

=============================================================================
