------------------------------ MODULE AesdChar ------------------------------
(***************************************************************************)
(* The aesdchar driver: loading and unloading of the module, and the file  *)
(* operations, as they run when several threads call them.                 *)
(*                                                                         *)
(* A system call is a sequence of actions of its thread:                   *)
(*   SysCall     the kernel (VFS) enters it, with a copy of the position   *)
(*   Reject      the checks of the handler that precede the lock           *)
(*   Lock        mutex_lock_interruptible succeeds; Interrupted: it fails  *)
(*   ...         the steps of the handler, up to the unlock                *)
(*   SysReturn   the VFS stores the position back and returns              *)
(* Handlers are cut wherever another thread could see or disturb what they *)
(* do if the lock did not keep it out.  Memory is modelled by the blocks   *)
(* that kmalloc hands out, so that a leak, a double owner or a use after   *)
(* free is a state like any other; every allocation may fail, and so may   *)
(* every copy from or to user space.                                       *)
(***************************************************************************)
EXTENDS Integers, FiniteSets, SequencesExt

CONSTANTS Proc,        \* threads
          File,        \* struct file
          Call,        \* Call[p]: the system calls that p may make
          Block,       \* what kmalloc can return
          Capacity,    \* AESDCHAR_MAX_WRITE_OPERATIONS_SUPPORTED
          Byte, Newline,
          MaxPending,  \* bound: no write starts with more than this in write_buf
          Free,        \* the content of a block nobody has
          NULL

ASSUME CapacityAssumption == Capacity \in 1..255
ASSUME BlockAssumption == NULL \notin Block
ASSUME CallAssumption ==
  \A p \in Proc : \A c \in Call[p] :
    /\ c.op \in {"read", "write", "llseek", "seekto", "ioctl"}
    /\ c.file \in File
    /\ c.op = "read"   => c.count \in Nat           \* size_t
    /\ c.op = "write"  => c.data \in Seq(Byte)
    /\ c.op = "llseek" => c.offset \in Int          \* loff_t
    /\ c.op = "seekto" => /\ c.write_cmd \in Nat    \* uint32_t
                          /\ c.write_cmd_offset \in Nat
ASSUME FreeAssumption  == Free \notin Seq(Byte)
ASSUME PlaceAssumption == NULL \notin [slot : 0..(Capacity - 1), offset : Nat]
ASSUME NullNoProc      == NULL \notin Proc

VARIABLES
  (* the kernel *)
  module,     \* how far the module is loaded or unloaded
  opened,     \* the open files
  f_pos,      \* filp->f_pos
  heap,       \* the content of every block
  (* struct aesd_dev *)
  entry, in_offs, out_offs, full,   \* dev->buffer
  write_buf, write_buf_size,
  lock,       \* who holds dev->lock
  (* the threads *)
  pc,
  call,       \* the system call a thread is in
  loc         \* the locals of the handler, and those of the VFS around it

buffer == <<entry, in_offs, out_offs, full>>
dev    == <<entry, in_offs, out_offs, full, write_buf, write_buf_size>>
kernel == <<module, opened, call>>   \* what no handler changes
threads == <<pc, call, loc>>
vars   == <<module, opened, f_pos, heap, entry, in_offs, out_offs, full,
            write_buf, write_buf_size, lock, pc, call, loc>>

CB == INSTANCE CircularBuffer WITH Ptr <- Block, Size <- Nat

ERESTARTSYS == -512
ENOMEM == -12
EFAULT == -14
EINVAL == -22
ENOTTY == -25

NoLocals == [pos |-> 0, tmp_buf |-> NULL, found |-> NULL,
             new_pos |-> 0, ret |-> 0, out |-> <<>>]

(* The handler's steps between the lock and the unlock.                    *)
LockedSteps == {"find", "copy_to_user", "alloc", "append", "evict", "add",
                "out_free", "llseek", "seekto", "store_pos"}
Steps == {"idle", "enter", "return"} \cup LockedSteps

Init == /\ module = "absent"
        /\ opened = {}
        /\ f_pos = [f \in File |-> 0]
        /\ heap = [b \in Block |-> Free]
        /\ CB!Init
        /\ write_buf = NULL
        /\ write_buf_size = 0
        /\ lock = NULL
        /\ pc = [p \in Proc |-> "idle"]
        /\ call = [p \in Proc |-> NULL]
        /\ loc = [p \in Proc |-> NoLocals]

-----------------------------------------------------------------------------
(* Memory.  Which free block an allocation returns makes no difference.    *)

kmalloc == LET free == {b \in Block : heap[b] = Free}
           IN  IF free = {} THEN {} ELSE {CHOOSE b \in free : TRUE}

(* The longer block may be where the old one was.                          *)
krealloc(old) == {old} \cup kmalloc

-----------------------------------------------------------------------------
(* main.c, aesd-char-device.c: loading and unloading.                      *)

(* aesd_init: the device number may be refused; then the struct is zeroed  *)
(* and the mutex and the buffer initialised; then aesd_setup_cdev, from    *)
(* which on the device can be opened, and which may fail as well.          *)
alloc_chrdev_region == /\ module = "absent"
                       /\ module' = "region"
                       /\ UNCHANGED <<opened, f_pos, heap, dev, lock, threads>>

init_device == /\ module = "region"
               /\ module' = "initialised"
               /\ CB!aesd_circular_buffer_init
               /\ write_buf' = NULL
               /\ write_buf_size' = 0
               /\ lock' = NULL
               /\ UNCHANGED <<opened, f_pos, heap, threads>>

aesd_setup_cdev == /\ module = "initialised"
                   /\ module' \in {"live", "absent"}
                   /\ UNCHANGED <<opened, f_pos, heap, dev, lock, threads>>

(* aesd_cleanup_device frees write_buf and every entry with a pointer, and *)
(* leaves the indices and the flag.  The module loader calls aesd_exit     *)
(* only once no file is open (.owner), and no open succeeds from then on.  *)
aesd_cleanup_device ==
  LET owned == {entry[s].buffptr : s \in CB!Slots} \cup {write_buf}
  IN  /\ module = "live"
      /\ opened = {}
      /\ module' = "going"
      /\ heap' = [b \in Block |-> IF b \in owned THEN Free ELSE heap[b]]
      /\ write_buf' = NULL
      /\ write_buf_size' = IF write_buf = NULL THEN write_buf_size ELSE 0
      /\ entry' = [s \in CB!Slots |-> IF entry[s].buffptr = NULL
                                      THEN entry[s] ELSE CB!NullEntry]
      /\ UNCHANGED <<opened, f_pos, in_offs, out_offs, full, lock, threads>>

(* The rest of aesd_exit: cdev_del, mutex_destroy, unregister.             *)
aesd_exit == /\ module = "going"
             /\ module' = "absent"
             /\ UNCHANGED <<opened, f_pos, heap, dev, lock, threads>>

aesd_open(f) == /\ module = "live"
                /\ f \notin opened
                /\ opened' = opened \cup {f}
                /\ UNCHANGED <<module, f_pos, heap, dev, lock, threads>>

(* A call in flight keeps its file open; struct file goes, and its         *)
(* position with it.                                                       *)
aesd_release(f) == /\ f \in opened
                   /\ \A p \in Proc : pc[p] # "idle" => call[p].file # f
                   /\ opened' = opened \ {f}
                   /\ f_pos' = [f_pos EXCEPT ![f] = 0]
                   /\ UNCHANGED <<module, heap, dev, lock, threads>>

-----------------------------------------------------------------------------
(* What the handlers share.                                                *)

(* ksys_read, ksys_write: the handler works on a copy of the position.     *)
SysCall(p, c) ==
  /\ pc[p] = "idle"
  /\ c.file \in opened
  /\ c.op = "write" => write_buf_size <= MaxPending
  /\ pc' = [pc EXCEPT ![p] = "enter"]
  /\ call' = [call EXCEPT ![p] = c]
  /\ loc' = [loc EXCEPT ![p].pos = IF c.op \in {"read", "write"}
                                   THEN f_pos[c.file] ELSE 0]
  /\ UNCHANGED <<module, opened, f_pos, heap, dev, lock>>

(* The handler is through: retval, and no lock.                            *)
Returns(p, ret) == /\ pc' = [pc EXCEPT ![p] = "return"]
                   /\ loc' = [loc EXCEPT ![p].ret = ret]

(* Before the lock: a write of nothing, an argument of ioctl that cannot   *)
(* be copied, an unknown ioctl.                                            *)
EarlyErrors(c) ==
  CASE c.op = "write"  -> IF c.data = <<>> THEN {EINVAL} ELSE {}
    [] c.op = "seekto" -> {EFAULT}
    [] c.op = "ioctl"  -> {ENOTTY}
    [] OTHER           -> {}

Reject(p) == /\ pc[p] = "enter"
             /\ \E ret \in EarlyErrors(call[p]) : Returns(p, ret)
             /\ UNCHANGED <<kernel, f_pos, heap, dev, lock>>

FirstStep(c) == CASE c.op = "read"   -> "find"
                  [] c.op = "write"  -> "alloc"
                  [] c.op = "llseek" -> "llseek"
                  [] c.op = "seekto" -> "seekto"

(* mutex_lock_interruptible.  A signal is looked at only by a caller that  *)
(* has to wait.                                                            *)
MayLock(c) == EarlyErrors(c) \subseteq {EFAULT}

Lock(p) == /\ pc[p] = "enter"
           /\ MayLock(call[p])
           /\ lock = NULL
           /\ lock' = p
           /\ pc' = [pc EXCEPT ![p] = FirstStep(call[p])]
           /\ UNCHANGED <<kernel, f_pos, heap, dev, loc>>

Interrupted(p) == /\ pc[p] = "enter"
                  /\ MayLock(call[p])
                  /\ lock # NULL
                  /\ Returns(p, ERESTARTSYS)
                  /\ UNCHANGED <<kernel, f_pos, heap, dev, lock>>

(* The way out of a handler that holds the lock.                           *)
Leave(p, ret) == Returns(p, ret) /\ lock' = NULL

(* ksys_read and ksys_write store their copy of the position back unless   *)
(* the handler failed.                                                     *)
SysReturn(p) ==
  /\ pc[p] = "return"
  /\ pc' = [pc EXCEPT ![p] = "idle"]
  /\ call' = [call EXCEPT ![p] = NULL]
  /\ loc' = [loc EXCEPT ![p] = NoLocals]
  /\ f_pos' = IF call[p].op \in {"read", "write"} /\ loc[p].ret >= 0
              THEN [f_pos EXCEPT ![call[p].file] = loc[p].pos]
              ELSE f_pos
  /\ UNCHANGED <<module, opened, heap, dev, lock>>

-----------------------------------------------------------------------------
(* aesd_read.                                                              *)

(* Mutant: the lock is kept.                                               *)
EndOfFileKeepsLock(p) == Returns(p, 0) /\ UNCHANGED lock

EndOfFile(p) == Leave(p, 0)

(* Mutant: the lock is given up too early.                                 *)
FoundUnlocks(p, e) == /\ pc' = [pc EXCEPT ![p] = "copy_to_user"]
                      /\ loc' = [loc EXCEPT ![p].found = e]
                      /\ lock' = NULL

Found(p, e) == /\ pc' = [pc EXCEPT ![p] = "copy_to_user"]
               /\ loc' = [loc EXCEPT ![p].found = e]
               /\ UNCHANGED lock

(* No entry at the position is the end of the file.                        *)
find_entry(p) ==
  LET e == CB!aesd_circular_buffer_find_entry_offset_for_fpos(loc[p].pos)
  IN  /\ pc[p] = "find"
      /\ IF e = NULL THEN EndOfFile(p) ELSE Found(p, e)
      /\ UNCHANGED <<kernel, f_pos, heap, dev>>

(* Mutant: the data is taken from the start of the entry.                  *)
SliceFromStart(e, from, n) == SubSeq(heap[e.buffptr], 1, n)

Slice(e, from, n) == SubSeq(heap[e.buffptr], from + 1, from + n)

(* The rest of the entry, at most count bytes of it.                       *)
copy_to_user(p) ==
  LET e    == entry[loc[p].found.slot]
      from == loc[p].found.offset
      n    == Min({call[p].count, e.size - from})
  IN  /\ pc[p] = "copy_to_user"
      /\ \/ Leave(p, EFAULT)
         \/ /\ pc' = [pc EXCEPT ![p] = "return"]
            /\ loc' = [loc EXCEPT ![p].ret = n,
                                  ![p].pos = @ + n,
                                  ![p].out = Slice(e, from, n)]
            /\ lock' = NULL
      /\ UNCHANGED <<kernel, f_pos, heap, dev>>

-----------------------------------------------------------------------------
(* aesd_write.                                                             *)

(* Mutant: the lock is kept.                                               *)
NoMemoryKeepsLock(p) == Returns(p, ENOMEM) /\ UNCHANGED lock

NoMemory(p) == Leave(p, ENOMEM)

(* tmp_buf; its content is a copy of the call's data and needs no model.   *)
kmalloc_tmp(p) ==
  /\ pc[p] = "alloc"
  /\ \/ /\ NoMemory(p)
        /\ UNCHANGED heap
     \/ /\ \E b \in kmalloc : /\ heap' = [heap EXCEPT ![b] = <<>>]
                              /\ loc' = [loc EXCEPT ![p].tmp_buf = b]
        /\ pc' = [pc EXCEPT ![p] = "append"]
        /\ UNCHANGED lock
  /\ UNCHANGED <<kernel, f_pos, dev>>

(* Mutant: the new data overwrites the pending data.                       *)
OverwritesPending(data) ==
  IF write_buf = NULL
  THEN data
  ELSE data \o SubSeq(heap[write_buf], Len(data) + 1, write_buf_size)
            \o SubSeq(data, 1, Min({Len(data), write_buf_size}))

(* The new data goes behind the pending data.                              *)
NewBuf(data) == IF write_buf = NULL
                THEN data
                ELSE SubSeq(heap[write_buf], 1, write_buf_size) \o data

(* Mutant: the pending data is not counted.                                *)
CountsNewDataOnly(data) == Len(data)

NewSize(data) == IF write_buf = NULL THEN Len(data)
                                     ELSE write_buf_size + Len(data)

(* copy_from_user and aesd_handle_write_buffer.  The longer buffer may be  *)
(* somewhere else; without memory the old one stays as it was.  A newline  *)
(* anywhere in it completes a command.                                     *)
append(p) ==
  LET data == call[p].data
  IN  /\ pc[p] = "append"
      /\ \/ \E ret \in {EFAULT, ENOMEM} :
              /\ loc' = [loc EXCEPT ![p].ret = ret]
              /\ pc' = [pc EXCEPT ![p] = "out_free"]
              /\ UNCHANGED <<heap, write_buf, write_buf_size>>
         \/ \E b \in IF write_buf = NULL THEN kmalloc ELSE krealloc(write_buf) :
              /\ heap' = [x \in Block |-> IF x = b THEN NewBuf(data)
                                           ELSE IF x = write_buf THEN Free ELSE heap[x]]
              /\ write_buf' = b
              /\ write_buf_size' = NewSize(data)
              /\ IF Contains(NewBuf(data), Newline)
                 THEN /\ pc' = [pc EXCEPT ![p] = "evict"]
                      /\ UNCHANGED loc
                 ELSE /\ pc' = [pc EXCEPT ![p] = "out_free"]
                      /\ loc' = [loc EXCEPT ![p].ret = Len(data)]
      /\ UNCHANGED <<kernel, f_pos, buffer, lock>>

(* Mutant: the overwritten entry is not freed.                             *)
NeverFrees == FALSE

MustFree == full /\ entry[out_offs].buffptr # NULL

(* aesd_handle_complete_command, first half: a full buffer is about to     *)
(* overwrite its oldest entry, which nobody else would free.               *)
evict(p) ==
  LET oldest == entry[out_offs]
  IN  /\ pc[p] = "evict"
      /\ IF MustFree
         THEN /\ heap' = [heap EXCEPT ![oldest.buffptr] = Free]
              /\ entry' = [entry EXCEPT ![out_offs] = CB!NullEntry]
         ELSE UNCHANGED <<heap, entry>>
      /\ pc' = [pc EXCEPT ![p] = "add"]
      /\ UNCHANGED <<kernel, f_pos, in_offs, out_offs, full, write_buf,
                     write_buf_size, lock, loc>>

(* Second half: write_buf becomes the newest entry.                        *)
add(p) ==
  /\ pc[p] = "add"
  /\ CB!aesd_circular_buffer_add_entry([buffptr |-> write_buf,
                                        size    |-> write_buf_size])
  /\ write_buf' = NULL
  /\ write_buf_size' = 0
  /\ loc' = [loc EXCEPT ![p].ret = Len(call[p].data)]
  /\ pc' = [pc EXCEPT ![p] = "out_free"]
  /\ UNCHANGED <<kernel, f_pos, heap, lock>>

(* The label every path of aesd_write behind the allocation ends at.       *)
out_free(p) ==
  /\ pc[p] = "out_free"
  /\ heap' = [heap EXCEPT ![loc[p].tmp_buf] = Free]
  /\ loc' = [loc EXCEPT ![p].tmp_buf = NULL]
  /\ pc' = [pc EXCEPT ![p] = "return"]
  /\ lock' = NULL
  /\ UNCHANGED <<kernel, f_pos, dev>>

-----------------------------------------------------------------------------
(* aesd_llseek and aesd_unlocked_ioctl.                                    *)

(* target is where to go if valid, and where store_pos then goes.          *)
Target(p, valid, target) ==
  /\ \/ /\ ~valid
        /\ Leave(p, EINVAL)
     \/ /\ valid
        /\ pc' = [pc EXCEPT ![p] = "store_pos"]
        /\ loc' = [loc EXCEPT ![p].new_pos = target]
        /\ UNCHANGED lock
  /\ UNCHANGED <<kernel, f_pos, heap, dev>>

(* Mutant: no lower bound.                                                 *)
BelowEnd(pos) == pos <= CB!TotalSize

InBounds(pos) == pos >= 0 /\ pos <= CB!TotalSize

llseek(p) ==
  LET c == call[p]
      new_pos == CASE c.whence = "SEEK_SET" -> c.offset
                   [] c.whence = "SEEK_CUR" -> f_pos[c.file] + c.offset
                   [] c.whence = "SEEK_END" -> CB!TotalSize + c.offset
                   [] OTHER                 -> -1   \* refused, like an invalid one
  IN  /\ pc[p] = "llseek"
      /\ Target(p, InBounds(new_pos), new_pos)

(* Mutant: the end of a command is taken for a byte of it.                 *)
UpToEnd(c) == /\ c.write_cmd < CB!TotalEntries
              /\ c.write_cmd_offset <= entry[CB!Slot(c.write_cmd)].size

Exists(c) == /\ c.write_cmd < CB!TotalEntries
             /\ c.write_cmd_offset < entry[CB!Slot(c.write_cmd)].size

seekto(p) ==
  LET c == call[p]
  IN  /\ pc[p] = "seekto"
      /\ Target(p, Exists(c), CB!StartOf(c.write_cmd) + c.write_cmd_offset)

store_pos(p) ==
  LET c == call[p]
  IN  /\ pc[p] = "store_pos"
      /\ f_pos' = [f_pos EXCEPT ![c.file] = loc[p].new_pos]
      /\ Leave(p, IF c.op = "llseek" THEN loc[p].new_pos ELSE 0)
      /\ UNCHANGED <<kernel, heap, dev>>

-----------------------------------------------------------------------------

Module == \/ alloc_chrdev_region
          \/ init_device
          \/ aesd_setup_cdev
          \/ aesd_cleanup_device
          \/ aesd_exit

Handler(p) == \/ find_entry(p) \/ copy_to_user(p)
              \/ kmalloc_tmp(p) \/ append(p) \/ evict(p) \/ add(p) \/ out_free(p)
              \/ llseek(p) \/ seekto(p) \/ store_pos(p)

Next == \/ Module
        \/ \E f \in File : aesd_open(f) \/ aesd_release(f)
        \/ \E p \in Proc : \/ \E c \in Call[p] : SysCall(p, c)
                           \/ Reject(p) \/ Lock(p) \/ Interrupted(p)
                           \/ Handler(p)
                           \/ SysReturn(p)

Spec == Init /\ [][Next]_vars

(* A thread in the kernel runs on until it returns, and a waiter for a     *)
(* mutex is not passed over for ever (struct mutex hands over to its first *)
(* waiter).  Nothing makes anybody call, open, load or unload.             *)
Fairness == \A p \in Proc : /\ WF_vars(Reject(p) \/ Handler(p) \/ SysReturn(p))
                           /\ SF_vars(Lock(p))

FairSpec == Spec /\ Fairness

-----------------------------------------------------------------------------
(* Properties.                                                             *)

TypeOK == /\ module \in {"absent", "region", "initialised", "live", "going"}
          /\ opened \subseteq File
          /\ f_pos \in [File -> Nat]
          /\ heap \in [Block -> {Free} \cup Seq(Byte)]
          /\ CB!TypeOK
          /\ write_buf \in Block \cup {NULL}
          /\ write_buf_size \in Nat
          /\ lock \in Proc \cup {NULL}
          /\ pc \in [Proc -> Steps]
          /\ \A p \in Proc : call[p] \in IF pc[p] = "idle" THEN {NULL} ELSE Call[p]

(***************************************************************************)
(* The thread that dev->lock names is exactly the one between its lock and *)
(* its unlock: no two threads are in a handler's critical section, and no  *)
(* way out of one, error paths included, forgets the unlock.               *)
(***************************************************************************)
LockDiscipline == \A p \in Proc : lock = p <=> pc[p] \in LockedSteps

(***************************************************************************)
(* Every block in use has exactly one owner (a slot of the buffer,         *)
(* write_buf or the tmp_buf of a write in progress), and what the driver   *)
(* points to is in use: nothing leaks, nothing is freed twice or used      *)
(* after it was freed, on any path, and unloading gives everything back.   *)
(***************************************************************************)
Owners(b) == {<<"slot", s>> : s \in {t \in CB!Slots : entry[t].buffptr = b}}
             \cup (IF write_buf = b THEN {<<"write_buf">>} ELSE {})
             \cup {<<"tmp_buf", p>> : p \in {q \in Proc : loc[q].tmp_buf = b}}

HeapOwned == \A b \in Block :
               Cardinality(Owners(b)) = IF heap[b] = Free THEN 0 ELSE 1

(***************************************************************************)
(* Every size kept beside a pointer is the size of the data it points to,  *)
(* over partial writes, reallocations and the move of write_buf into the   *)
(* log: the bounds of every copy are computed from these sizes alone.      *)
(***************************************************************************)
SizesMatch ==
  /\ \A s \in CB!Slots : entry[s].buffptr # NULL =>
       entry[s].size = Len(heap[entry[s].buffptr])
  /\ write_buf # NULL => write_buf_size = Len(heap[write_buf])

(***************************************************************************)
(* The entry that a read has found is still in the log, and the offset in  *)
(* it, when the read gets round to copying: a writer that evicted it in    *)
(* between would leave the read with a freed block.                        *)
(***************************************************************************)
FoundStaysLive ==
  \A p \in Proc : pc[p] = "copy_to_user" =>
    /\ loc[p].found.slot \in CB!LiveSlots
    /\ entry[loc[p].found.slot].buffptr # NULL
    /\ loc[p].found.offset < entry[loc[p].found.slot].size

(***************************************************************************)
(* The documented content of the buffer: "complete commands", each of them *)
(* "terminated by newline".                                                *)
(***************************************************************************)
EntriesAreCommands ==
  \A s \in CB!Slots : entry[s].buffptr # NULL =>
    LET command == heap[entry[s].buffptr]
    IN  \A i \in 1..Len(command) : command[i] = Newline <=> i = Len(command)

-----------------------------------------------------------------------------
(* The promise kept.  A call takes effect                                  *)
(*   - a read       when it has copied the data, or found the end,         *)
(*   - a write      when its data is in write_buf: from then on until the  *)
(*                  entry is added, the log is what it is going to be,     *)
(*   - a seek       when the position is stored,                           *)
(*   - an error     when it is found out.                                  *)
(* A position that a read has moved is in the VFS until it returns.  A     *)
(* device that is not there is empty: aesd_cleanup_device leaves indices   *)
(* behind that count entries it has freed, and aesd_init clears them.      *)

Committing == \E p \in Proc : pc[p] \in {"evict", "add"}

LiveData(first) == [i \in 1..(CB!TotalEntries - first) |->
                      heap[entry[CB!Slot(first + i - 1)].buffptr]]

DeviceLog ==
  CASE module # "live"              -> <<>>
    [] module = "live" /\ Committing ->
         Append(LiveData(IF full THEN 1 ELSE 0), heap[write_buf])
    [] OTHER                        -> LiveData(0)

DevicePartial ==
  IF module # "live" \/ Committing \/ write_buf = NULL THEN <<>> ELSE heap[write_buf]

HasMoved(p, f) == /\ pc[p] = "return"
                  /\ call[p].op = "read"
                  /\ call[p].file = f
                  /\ loc[p].ret >= 0

DevicePos == [f \in File |->
                IF \E p \in Proc : HasMoved(p, f)
                THEN loc[CHOOSE p \in Proc : HasMoved(p, f)].pos
                ELSE f_pos[f]]

DeviceStatus ==
  [p \in Proc |->
     CASE pc[p] = "idle" -> [phase |-> "idle"]
       [] pc[p] \in {"evict", "add"} ->
            [phase |-> "done", call |-> call[p],
             ret |-> Len(call[p].data), out |-> <<>>]
       [] pc[p] \in {"out_free", "return"} ->
            [phase |-> "done", call |-> call[p],
             ret |-> loc[p].ret, out |-> loc[p].out]
       [] OTHER -> [phase |-> "invoked", call |-> call[p]]]

(***************************************************************************)
(* Threads that do not share a struct file cannot tell the driver from a   *)
(* device on which every call is one atomic step: every read returns the   *)
(* bytes that are at its position, no write is lost, doubled or torn, a    *)
(* call that fails has changed nothing, and a seek lands where it should.  *)
(***************************************************************************)
Device == INSTANCE AesdDevice WITH log <- DeviceLog, partial <- DevicePartial,
                                   pos <- DevicePos, st <- DeviceStatus
ImplementsDevice == Device!Spec

(***************************************************************************)
(* Every call returns: an unlock that is missing on some path would leave  *)
(* the next caller waiting for ever.                                       *)
(***************************************************************************)
CallsReturn == \A p \in Proc : pc[p] # "idle" ~> pc[p] = "idle"

=============================================================================
