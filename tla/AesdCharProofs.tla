--------------------------- MODULE AesdCharProofs ---------------------------
(***************************************************************************)
(* Mutual exclusion in the driver, who owns its memory, and what the sizes *)
(* and the search results kept beside its pointers say of it, for any      *)
(* number of threads, files and blocks, any capacity and any calls.        *)
(*                                                                         *)
(* Three invariants, each on top of the one before:                        *)
(*   IInv       who holds the lock, and that a loaded module stays loaded; *)
(*   HeapInv    who owns each block;                                       *)
(*   DriverInv  types, and what each thread knows at its step.             *)
(***************************************************************************)
EXTENDS AesdChar, FiniteSetTheorems, SequenceLemmas

AnyCall == (UNION {Call[p] : p \in Proc}) \cup {NULL}

(* What the locking argument needs of the types.                           *)
Threads == /\ pc \in [Proc -> Steps]
           /\ call \in [Proc -> AnyCall]
           /\ lock \in Proc \cup {NULL}
           /\ \A p \in Proc : pc[p] # "idle" => call[p] \in Call[p]

(* A thread inside a call keeps its file open, and open files keep the     *)
(* module where it is.  Without this, aesd_init could initialise the mutex *)
(* under a thread that holds it.                                           *)
InUse == /\ \A p \in Proc : pc[p] # "idle" => call[p].file \in opened
         /\ module # "live" => opened = {}

IInv == Threads /\ LockDiscipline /\ InUse

LEMMA IInvInit == Init => IInv
<1>. QED
  BY NullNoProc
     DEF Init, IInv, Threads, LockDiscipline, InUse, AnyCall, Steps, LockedSteps

(* The two ways a step of a handler can go: on, or out.                    *)
LEMMA GoesOn ==
  ASSUME IInv, NEW p \in Proc, NEW to \in LockedSteps,
         pc[p] \in LockedSteps, pc' = [pc EXCEPT ![p] = to],
         lock' = lock, UNCHANGED kernel
  PROVE  IInv'
<1>1. to \in Steps /\ to # "idle" /\ pc[p] # "idle"
  BY DEF Steps, LockedSteps
<1>2. Threads'
  BY <1>1 DEF IInv, Threads, kernel
<1>3. LockDiscipline'
  BY DEF IInv, Threads, LockDiscipline
<1>4. InUse'
  BY <1>1 DEF IInv, Threads, InUse, kernel
<1>. QED  BY <1>2, <1>3, <1>4 DEF IInv

LEMMA GoesOut ==
  ASSUME IInv, NEW p \in Proc,
         pc[p] \in LockedSteps, pc' = [pc EXCEPT ![p] = "return"],
         lock' = NULL, UNCHANGED kernel
  PROVE  IInv'
<1>1. /\ "return" \in Steps /\ "return" \notin LockedSteps
      /\ "return" # "idle" /\ pc[p] # "idle"
  BY DEF Steps, LockedSteps
<1>2. Threads'
  BY <1>1 DEF IInv, Threads, kernel
<1>3. LockDiscipline'
  BY <1>1, NullNoProc DEF IInv, Threads, LockDiscipline
<1>4. InUse'
  BY <1>1 DEF IInv, Threads, InUse, kernel
<1>. QED  BY <1>2, <1>3, <1>4 DEF IInv

(* What becomes of the rest of the state does not matter to the lock.      *)
LEMMA HandlerStep ==
  ASSUME IInv, NEW p \in Proc, Handler(p)
  PROVE  IInv'
<1>1. CASE find_entry(p)
  BY <1>1, GoesOn, GoesOut
     DEF find_entry, EndOfFile, Found, Leave, Returns, LockedSteps
<1>2. CASE copy_to_user(p)
  BY <1>2, GoesOut DEF copy_to_user, Leave, Returns, LockedSteps
<1>3. CASE kmalloc_tmp(p)
  BY <1>3, GoesOn, GoesOut
     DEF kmalloc_tmp, NoMemory, Leave, Returns, LockedSteps
<1>4. CASE append(p)
  BY <1>4, GoesOn DEF append, LockedSteps
<1>5. CASE evict(p)
  BY <1>5, GoesOn DEF evict, LockedSteps
<1>6. CASE add(p)
  BY <1>6, GoesOn DEF add, LockedSteps
<1>7. CASE out_free(p)
  BY <1>7, GoesOut DEF out_free, LockedSteps
<1>8. CASE llseek(p)
  BY <1>8, GoesOn, GoesOut DEF llseek, Target, Leave, Returns, LockedSteps
<1>9. CASE seekto(p)
  BY <1>9, GoesOn, GoesOut DEF seekto, Target, Leave, Returns, LockedSteps
<1>10. CASE store_pos(p)
  BY <1>10, GoesOut DEF store_pos, Leave, Returns, LockedSteps
<1>. QED  BY <1>1, <1>2, <1>3, <1>4, <1>5, <1>6, <1>7, <1>8, <1>9, <1>10
          DEF Handler

(* The first step behind the lock is that of the call.                     *)
LEMMA FirstStepOf ==
  ASSUME IInv, NEW p \in Proc, pc[p] = "enter", MayLock(call[p])
  PROVE  \/ FirstStep(call[p]) = "find" /\ call[p].op = "read"
         \/ FirstStep(call[p]) = "alloc" /\ call[p].op = "write" /\ call[p].data # <<>>
         \/ FirstStep(call[p]) = "llseek" /\ call[p].op = "llseek"
         \/ FirstStep(call[p]) = "seekto" /\ call[p].op = "seekto"
<1>1. call[p].op \in {"read", "write", "llseek", "seekto", "ioctl"}
  BY CallAssumption DEF IInv, Threads
<1>2. call[p].op # "ioctl" /\ (call[p].op = "write" => call[p].data # <<>>)
  BY DEF MayLock, EarlyErrors, ENOTTY, EFAULT, EINVAL
<1>. QED  BY <1>1, <1>2 DEF FirstStep

(* The steps around the handlers: what they leave alone does not matter to  *)
(* the lock.                                                               *)
LEMMA CallStep ==
  ASSUME IInv, NEW p \in Proc
  PROVE  /\ \A c \in Call[p] : SysCall(p, c) => IInv'
         /\ Reject(p) \/ Interrupted(p) => IInv'
         /\ Lock(p) => IInv'
         /\ SysReturn(p) => IInv'
<1>1. ASSUME NEW c \in Call[p], SysCall(p, c) PROVE IInv'
  <2>. USE <1>1 DEF SysCall
  <2>1. c \in AnyCall
    BY DEF AnyCall
  <2>2. Threads'
    BY <2>1 DEF IInv, Threads, Steps
  <2>3. LockDiscipline'
    BY DEF IInv, Threads, LockDiscipline, LockedSteps
  <2>4. InUse'
    BY DEF IInv, Threads, InUse
  <2>. QED  BY <2>2, <2>3, <2>4 DEF IInv
<1>2. ASSUME Reject(p) \/ Interrupted(p) PROVE IInv'
  <2>0. /\ pc[p] = "enter" /\ pc' = [pc EXCEPT ![p] = "return"]
        /\ lock' = lock /\ UNCHANGED kernel
    BY <1>2 DEF Reject, Interrupted, Returns
  <2>. USE <2>0
  <2>1. Threads'
    BY DEF IInv, Threads, kernel, Steps
  <2>2. LockDiscipline'
    BY DEF IInv, Threads, LockDiscipline, LockedSteps
  <2>3. InUse'
    BY DEF IInv, Threads, InUse, kernel
  <2>. QED  BY <2>1, <2>2, <2>3 DEF IInv
<1>3. ASSUME Lock(p) PROVE IInv'
  <2>. USE <1>3 DEF Lock
  <2>1. FirstStep(call[p]) \in LockedSteps
    BY FirstStepOf DEF LockedSteps
  <2>2. FirstStep(call[p]) \in Steps
    BY <2>1 DEF Steps
  <2>3. Threads'
    BY <2>2 DEF IInv, Threads, kernel
  <2>4. LockDiscipline'
    BY <2>1, NullNoProc DEF IInv, Threads, LockDiscipline
  <2>5. InUse'
    BY DEF IInv, Threads, InUse, kernel
  <2>. QED  BY <2>3, <2>4, <2>5 DEF IInv
<1>4. ASSUME SysReturn(p) PROVE IInv'
  <2>. USE <1>4 DEF SysReturn
  <2>1. Threads'
    BY DEF IInv, Threads, Steps, AnyCall
  <2>2. LockDiscipline'
    BY DEF IInv, Threads, LockDiscipline, LockedSteps
  <2>3. InUse'
    BY DEF IInv, Threads, InUse
  <2>. QED  BY <2>1, <2>2, <2>3 DEF IInv
<1>. QED  BY <1>1, <1>2, <1>3, <1>4

(* Loading, unloading, opening and closing.                                *)
LEMMA ModuleStep ==
  ASSUME IInv
  PROVE  /\ Module => IInv'
         /\ \A f \in File : aesd_open(f) \/ aesd_release(f) => IInv'
<1>1. ASSUME Module PROVE IInv'
  <2>1. CASE init_device
    <3>1. \A p \in Proc : pc[p] \notin LockedSteps
      BY <2>1 DEF init_device, IInv, InUse, LockedSteps
    <3>2. Threads'
      BY <2>1 DEF init_device, IInv, Threads, threads
    <3>3. LockDiscipline'
      BY <2>1, <3>1, NullNoProc DEF init_device, LockDiscipline, threads
    <3>4. InUse'
      BY <2>1 DEF init_device, IInv, InUse, threads
    <3>. QED  BY <3>2, <3>3, <3>4 DEF IInv
  <2>2. ASSUME module' # module, module' = "live" \/ opened = {},
               UNCHANGED <<opened, lock, threads>>
        PROVE  IInv'
    BY <2>2 DEF IInv, Threads, LockDiscipline, InUse, threads
  <2>3. CASE alloc_chrdev_region
    BY <2>2, <2>3 DEF alloc_chrdev_region, IInv, InUse
  <2>4. CASE aesd_setup_cdev
    BY <2>2, <2>4 DEF aesd_setup_cdev, IInv, InUse
  <2>5. CASE aesd_cleanup_device
    BY <2>2, <2>5 DEF aesd_cleanup_device
  <2>6. CASE aesd_exit
    BY <2>2, <2>6 DEF aesd_exit, IInv, InUse
  <2>. QED  BY <1>1, <2>1, <2>3, <2>4, <2>5, <2>6 DEF Module
<1>2. ASSUME NEW f \in File, aesd_open(f) \/ aesd_release(f) PROVE IInv'
  <2>1. CASE aesd_open(f)
    BY <2>1 DEF aesd_open, IInv, Threads, LockDiscipline, InUse, threads
  <2>2. CASE aesd_release(f)
    BY <2>2 DEF aesd_release, IInv, Threads, LockDiscipline, InUse, threads
  <2>. QED  BY <1>2, <2>1, <2>2
<1>. QED  BY <1>1, <1>2

LEMMA IInvStep ==
  ASSUME IInv, [Next]_vars
  PROVE  IInv'
<1>1. CASE UNCHANGED vars
  BY <1>1 DEF vars, IInv, Threads, LockDiscipline, InUse
<1>. QED  BY <1>1, HandlerStep, CallStep, ModuleStep DEF Next

(***************************************************************************)
(* dev->lock is held by the thread between its lock and its unlock and by  *)
(* nobody else: at most one thread is in a critical section, every path    *)
(* out of every handler gives the lock back, and loading and unloading the *)
(* module never take it from anybody.                                      *)
(***************************************************************************)
THEOREM LockDisciplineHolds == Spec => []LockDiscipline
<1>1. IInv => LockDiscipline
  BY DEF IInv
<1>. QED  BY <1>1, IInvInit, IInvStep, PTL DEF Spec

-----------------------------------------------------------------------------
(* Memory.                                                                 *)

(* The steps at which a write holds its tmp_buf.                           *)
Writing == {"append", "evict", "add", "out_free"}

(* What the argument needs of the types.                                   *)
Memory == /\ heap \in [Block -> Seq(Byte) \cup {Free}]
          /\ DOMAIN entry = CB!Slots
          /\ \A s \in CB!Slots : entry[s].buffptr \in Block \cup {NULL}
          /\ write_buf \in Block \cup {NULL}
          /\ in_offs \in CB!Slots /\ out_offs \in CB!Slots /\ full \in BOOLEAN
          /\ DOMAIN loc = Proc
          /\ \A p \in Proc :
               /\ "tmp_buf" \in DOMAIN loc[p]
               /\ loc[p].tmp_buf \in Block \cup {NULL}
               /\ loc[p].tmp_buf # NULL <=> pc[p] \in Writing

(* No block is pointed to from two places.                                 *)
OneOwner ==
  /\ \A s, t \in CB!Slots :
       entry[s].buffptr # NULL /\ entry[s].buffptr = entry[t].buffptr => s = t
  /\ \A s \in CB!Slots : /\ entry[s].buffptr # NULL => entry[s].buffptr # write_buf
                         /\ \A p \in Proc : entry[s].buffptr # NULL =>
                                              entry[s].buffptr # loc[p].tmp_buf
  /\ \A p \in Proc : loc[p].tmp_buf # NULL => loc[p].tmp_buf # write_buf
  /\ \A p, q \in Proc :
       loc[p].tmp_buf # NULL /\ loc[p].tmp_buf = loc[q].tmp_buf => p = q

(* A block is in use exactly if something points to it.                    *)
Pointed(b) == \/ \E s \in CB!Slots : entry[s].buffptr = b
              \/ write_buf = b
              \/ \E p \in Proc : loc[p].tmp_buf = b
InUseIsPointed == \A b \in Block : heap[b] # Free <=> Pointed(b)

(* Pointers are in the live slots only, and once a full buffer's oldest    *)
(* entry is evicted, its slot has none: add overwrites no pointer.         *)
Live(s) == \/ full
           \/ out_offs <= in_offs /\ out_offs <= s /\ s < in_offs
           \/ in_offs < out_offs /\ (out_offs <= s \/ s < in_offs)
NothingOverwritten ==
  /\ full => in_offs = out_offs
  /\ \A s \in CB!Slots : entry[s].buffptr # NULL => Live(s)
  /\ \A p \in Proc : pc[p] = "add" /\ full => entry[out_offs].buffptr = NULL
  /\ \A p \in Proc : pc[p] \in {"evict", "add"} => write_buf # NULL

(* Only a write gets to where it allocates.                                *)
OnlyWrites == \A p \in Proc : pc[p] \in {"alloc", "append"} => call[p].op = "write"

(* A device that is not there, or about to be initialised, has no memory.  *)
NothingLeft == module # "live" => /\ write_buf = NULL
                                  /\ \A s \in CB!Slots : entry[s].buffptr = NULL

HeapInv == /\ IInv /\ Memory /\ OneOwner /\ InUseIsPointed
           /\ NothingOverwritten /\ OnlyWrites /\ NothingLeft /\ SizesMatch

(* What was shown of the buffer alone holds of the one in struct aesd_dev. *)
Buf == INSTANCE CircularBufferProofs WITH Ptr <- Block, Size <- Nat

LEMMA SlotsAreThere ==
  /\ Capacity \in Nat /\ Capacity > 0 /\ CB!Slots = 0..(Capacity - 1)
  /\ Buf!CapacityAssumption /\ Buf!PtrAssumption /\ Buf!SizeAssumption
<1>1. Nat \subseteq Nat /\ 0 \in Nat
  OBVIOUS
<1>. QED  BY <1>1, CapacityAssumption, BlockAssumption
          DEF Buf!CapacityAssumption, Buf!PtrAssumption, Buf!SizeAssumption, CB!Slots

LEMMA InitHeap == Init => HeapInv
<1>. SUFFICES ASSUME Init PROVE HeapInv
  OBVIOUS
<1>. USE DEF Init, CB!Init, CB!Zeroed, CB!NullEntry, NoLocals
<1>1. IInv
  BY IInvInit
<1>2. Memory
  <2>1. 0 \in CB!Slots
    BY SlotsAreThere
  <2>2. \A p \in Proc : "tmp_buf" \in DOMAIN loc[p] /\ loc[p].tmp_buf = NULL /\ pc[p] = "idle"
    OBVIOUS
  <2>3. DOMAIN loc = Proc /\ DOMAIN entry = CB!Slots
    OBVIOUS
  <2>. QED  BY <2>1, <2>2, <2>3 DEF Memory, Writing
<1>3. OneOwner /\ InUseIsPointed
  BY BlockAssumption DEF OneOwner, InUseIsPointed, Pointed
<1>4. NothingOverwritten /\ NothingLeft /\ OnlyWrites
  BY DEF NothingOverwritten, NothingLeft, OnlyWrites
<1>5. SizesMatch
  BY DEF SizesMatch
<1>. QED  BY <1>1, <1>2, <1>3, <1>4, <1>5 DEF HeapInv

(***************************************************************************)
(* Most steps leave every pointer where it is.                             *)
(***************************************************************************)
Untouched ==
  /\ UNCHANGED <<heap, dev>>
  /\ DOMAIN loc' = Proc
  /\ \A p \in Proc : /\ "tmp_buf" \in DOMAIN loc'[p]
                     /\ loc'[p].tmp_buf = loc[p].tmp_buf
                     /\ pc'[p] \in Writing <=> pc[p] \in Writing
                     /\ pc'[p] \in {"evict", "add"} => pc'[p] = pc[p]
                     /\ pc'[p] \in {"alloc", "append"} => call'[p].op = "write"
  /\ module' # "live" => module # "live"

LEMMA UntouchedKeeps ==
  ASSUME HeapInv, IInv', Untouched
  PROVE  HeapInv'
<1>. USE DEF HeapInv, Untouched, dev
<1>1. Memory'
  BY DEF Memory
<1>2. OneOwner' /\ InUseIsPointed'
  BY DEF OneOwner, InUseIsPointed, Pointed
<1>3. NothingOverwritten' /\ NothingLeft' /\ OnlyWrites'
  BY DEF NothingOverwritten, NothingLeft, Live, OnlyWrites
<1>4. SizesMatch'
  BY DEF SizesMatch
<1>. QED  BY <1>1, <1>2, <1>3, <1>4

(* The steps of a handler, and of the kernel around it, that do so.        *)
LEMMA StepTouches ==
  ASSUME HeapInv
  PROVE  /\ \A p \in Proc :
              \/ find_entry(p) \/ copy_to_user(p) \/ llseek(p) \/ seekto(p) \/ store_pos(p)
              \/ Reject(p) \/ Lock(p) \/ Interrupted(p) \/ SysReturn(p)
              \/ \E c \in Call[p] : SysCall(p, c)
              => Untouched
         /\ \/ alloc_chrdev_region \/ aesd_setup_cdev \/ aesd_exit \/ UNCHANGED vars
            \/ \E f \in File : aesd_open(f) \/ aesd_release(f)
            => Untouched
<1>1. ASSUME NEW p \in Proc,
             \/ find_entry(p) \/ copy_to_user(p) \/ llseek(p) \/ seekto(p) \/ store_pos(p)
             \/ Reject(p) \/ Lock(p) \/ Interrupted(p) \/ SysReturn(p)
             \/ \E c \in Call[p] : SysCall(p, c)
      PROVE  Untouched
  <2>. USE DEF HeapInv, Memory, IInv, Threads, Writing, OnlyWrites, dev, kernel, Returns, Leave
  <2>1. CASE find_entry(p)
    BY <2>1 DEF find_entry, EndOfFile, Found, Untouched
  <2>2. CASE copy_to_user(p)
    BY <2>2 DEF copy_to_user, Untouched
  <2>3. CASE llseek(p) \/ seekto(p)
    <3>1. PICK valid, target : Target(p, valid, target) /\ pc[p] \in {"llseek", "seekto"}
      BY <2>3 DEF llseek, seekto
    <3>. QED  BY <3>1 DEF Target, Untouched
  <2>4. CASE store_pos(p)
    BY <2>4 DEF store_pos, Untouched
  <2>5. CASE Reject(p) \/ Interrupted(p)
    BY <2>5 DEF Reject, Interrupted, Untouched
  <2>6. CASE Lock(p)
    <3>1. /\ FirstStep(call[p]) \in {"find", "alloc", "llseek", "seekto"}
          /\ FirstStep(call[p]) = "alloc" => call[p].op = "write"
      BY <2>6, FirstStepOf DEF Lock
    <3>. QED  BY <2>6, <3>1 DEF Lock, Untouched
  <2>7. CASE SysReturn(p)
    BY <2>7 DEF SysReturn, NoLocals, Untouched
  <2>8. CASE \E c \in Call[p] : SysCall(p, c)
    BY <2>8 DEF SysCall, Untouched
  <2>. QED  BY <1>1, <2>1, <2>2, <2>3, <2>4, <2>5, <2>6, <2>7, <2>8
<1>2. ASSUME \/ alloc_chrdev_region \/ aesd_setup_cdev \/ aesd_exit \/ UNCHANGED vars
             \/ \E f \in File : aesd_open(f) \/ aesd_release(f)
      PROVE  Untouched
  BY <1>2 DEF HeapInv, Memory, OnlyWrites, dev, threads, vars, alloc_chrdev_region, aesd_setup_cdev, aesd_exit,
              aesd_open, aesd_release, Untouched
<1>. QED  BY <1>1, <1>2

-----------------------------------------------------------------------------
(* Memory comes and goes.                                                  *)

LEMMA KmallocIsFree ==
  ASSUME NEW b \in kmalloc
  PROVE  b \in Block /\ heap[b] = Free
BY DEF kmalloc

(* A write allocates tmp_buf.                                              *)
LEMMA AllocKeeps ==
  ASSUME HeapInv, IInv', NEW p \in Proc, kmalloc_tmp(p)
  PROVE  HeapInv'
<1>. USE DEF HeapInv
<1>1. CASE NoMemory(p) /\ UNCHANGED heap
  <2>1. Untouched
    BY <1>1 DEF kmalloc_tmp, NoMemory, Leave, Returns, Memory, IInv, Threads, Writing, OnlyWrites,
                kernel, dev, Untouched
  <2>. QED  BY <2>1, UntouchedKeeps
<1>2. CASE ~(NoMemory(p) /\ UNCHANGED heap)
  <2>1. PICK b \in kmalloc : /\ heap' = [heap EXCEPT ![b] = <<>>]
                             /\ loc' = [loc EXCEPT ![p].tmp_buf = b]
    BY <1>2 DEF kmalloc_tmp
  <2>2. /\ pc[p] = "alloc" /\ pc' = [pc EXCEPT ![p] = "append"] /\ pc \in [Proc -> Steps]
        /\ UNCHANGED <<module, call, entry, in_offs, out_offs, full, write_buf, write_buf_size>>
    BY <1>2 DEF kmalloc_tmp, kernel, dev, IInv, Threads
  <2>3. b \in Block /\ heap[b] = Free /\ ~Pointed(b) /\ b # NULL
    BY <2>1, KmallocIsFree, BlockAssumption DEF InUseIsPointed
  <2>4. /\ loc'[p].tmp_buf = b /\ DOMAIN loc' = Proc
        /\ \A q \in Proc : "tmp_buf" \in DOMAIN loc'[q]
        /\ \A q \in Proc : q # p => loc'[q].tmp_buf = loc[q].tmp_buf
    BY <2>1 DEF Memory
  <2>5. loc[p].tmp_buf = NULL
    BY <2>2 DEF Memory, Writing
  <2>6. <<>> \in Seq(Byte) /\ <<>> # Free
    <3>1. <<>> \in Seq(Byte)
      OBVIOUS
    <3>. QED  BY <3>1, FreeAssumption, Zenon
  <2>7. Memory'
    <3>1. heap' \in [Block -> Seq(Byte) \cup {Free}]
      BY <2>1, <2>3, <2>6 DEF Memory
    <3>2. \A q \in Proc : /\ loc'[q].tmp_buf \in Block \cup {NULL}
                          /\ loc'[q].tmp_buf # NULL <=> pc'[q] \in Writing
      BY <2>2, <2>3, <2>4 DEF Memory, Writing
    <3>. QED  BY <2>2, <2>4, <3>1, <3>2 DEF Memory
  <2>8. OneOwner'
    BY <2>2, <2>3, <2>4 DEF OneOwner, Pointed
  <2>9. InUseIsPointed'
    <3>. SUFFICES ASSUME NEW x \in Block PROVE heap'[x] # Free <=> Pointed(x)'
      BY DEF InUseIsPointed
    <3>1. CASE x = b
      BY <2>1, <2>3, <2>4, <2>6, <3>1 DEF Memory, Pointed
    <3>2. CASE x # b
      <4>1. Pointed(x)' <=> Pointed(x)
        BY <2>2, <2>3, <2>4, <2>5, <3>2, BlockAssumption DEF Pointed
      <4>. QED  BY <2>1, <3>2, <4>1 DEF Memory, InUseIsPointed
    <3>. QED  BY <3>1, <3>2
  <2>10. NothingOverwritten' /\ NothingLeft' /\ OnlyWrites'
    BY <2>2 DEF NothingOverwritten, NothingLeft, OnlyWrites, Live
  <2>11. SizesMatch'
    <3>1. \A s \in CB!Slots : entry[s].buffptr # b
      BY <2>3 DEF Pointed
    <3>2. write_buf # b
      BY <2>3 DEF Pointed
    <3>. QED  BY <2>1, <2>2, <3>1, <3>2 DEF Memory, SizesMatch
  <2>. QED  BY <2>7, <2>8, <2>9, <2>10, <2>11
<1>. QED  BY <1>1, <1>2

(* A write gives it back.                                                  *)
LEMMA OutFreeKeeps ==
  ASSUME HeapInv, IInv', NEW p \in Proc, out_free(p)
  PROVE  HeapInv'
<1>. USE DEF HeapInv
<1>. DEFINE b == loc[p].tmp_buf
<1>1. /\ pc[p] = "out_free" /\ pc' = [pc EXCEPT ![p] = "return"] /\ pc \in [Proc -> Steps]
      /\ heap' = [heap EXCEPT ![b] = Free]
      /\ loc' = [loc EXCEPT ![p].tmp_buf = NULL]
      /\ UNCHANGED <<module, call, entry, in_offs, out_offs, full, write_buf, write_buf_size>>
  BY DEF out_free, kernel, dev, IInv, Threads
<1>2. b \in Block /\ b # NULL
  BY <1>1 DEF Memory, Writing
<1>3. /\ \A s \in CB!Slots : entry[s].buffptr # b
      /\ write_buf # b
      /\ \A q \in Proc : q # p => loc[q].tmp_buf # b
  BY <1>2 DEF OneOwner
<1>4. /\ loc'[p].tmp_buf = NULL /\ DOMAIN loc' = Proc
      /\ \A q \in Proc : "tmp_buf" \in DOMAIN loc'[q]
      /\ \A q \in Proc : q # p => loc'[q].tmp_buf = loc[q].tmp_buf
  BY <1>1 DEF Memory
<1>. HIDE DEF b
<1>5. Memory'
  <2>1. \A q \in Proc : /\ loc'[q].tmp_buf \in Block \cup {NULL}
                        /\ loc'[q].tmp_buf # NULL <=> pc'[q] \in Writing
    BY <1>1, <1>4 DEF Memory, Writing
  <2>. QED  BY <1>1, <1>2, <1>4, <2>1 DEF Memory
<1>6. OneOwner'
  BY <1>1, <1>4 DEF OneOwner
<1>7. InUseIsPointed'
  <2>. SUFFICES ASSUME NEW x \in Block PROVE heap'[x] # Free <=> Pointed(x)'
    BY DEF InUseIsPointed
  <2>1. CASE x = b
    BY <1>1, <1>2, <1>3, <1>4, <2>1, BlockAssumption DEF Memory, Pointed
  <2>2. CASE x # b
    <3>1. Pointed(x)' <=> Pointed(x)
      BY <1>1, <1>4, <2>2, BlockAssumption DEF Pointed, b
    <3>. QED  BY <1>1, <2>2, <3>1 DEF Memory, InUseIsPointed
  <2>. QED  BY <2>1, <2>2
<1>8. NothingOverwritten' /\ NothingLeft' /\ OnlyWrites'
  BY <1>1 DEF NothingOverwritten, NothingLeft, OnlyWrites, Live
<1>9. SizesMatch'
  BY <1>1, <1>3 DEF Memory, SizesMatch
<1>. QED  BY <1>5, <1>6, <1>7, <1>8, <1>9

(* What append makes of the pending data.                                  *)
LEMMA NewBufIsThere ==
  ASSUME HeapInv, NEW data \in Seq(Byte)
  PROVE  NewBuf(data) \in Seq(Byte) /\ Len(NewBuf(data)) = NewSize(data)
<1>1. CASE write_buf = NULL
  BY <1>1 DEF NewBuf, NewSize
<1>2. CASE write_buf # NULL
  <2>1. /\ heap[write_buf] # Free
        /\ heap[write_buf] \in Seq(Byte)
        /\ write_buf_size = Len(heap[write_buf])
    BY <1>2 DEF HeapInv, Memory, InUseIsPointed, Pointed, SizesMatch
  <2>2. SubSeq(heap[write_buf], 1, write_buf_size) \in Seq(Byte)
    BY <2>1
  <2>3. Len(SubSeq(heap[write_buf], 1, write_buf_size)) = write_buf_size
    BY <2>1
  <2>. QED  BY <1>2, <2>2, <2>3, ConcatProperties DEF NewBuf, NewSize
<1>. QED  BY <1>1, <1>2

(* The data of a write: the block it goes to is a new one, or the old.     *)
Appended(b, p) ==
  LET data == call[p].data
  IN  /\ heap' = [x \in Block |-> IF x = b THEN NewBuf(data)
                                  ELSE IF x = write_buf THEN Free ELSE heap[x]]
      /\ write_buf' = b
      /\ write_buf_size' = NewSize(data)
      /\ \/ pc' = [pc EXCEPT ![p] = "evict"] /\ UNCHANGED loc
         \/ pc' = [pc EXCEPT ![p] = "out_free"] /\ \E ret : loc' = [loc EXCEPT ![p].ret = ret]

LEMMA AppendedKeeps ==
  ASSUME HeapInv, IInv', NEW p \in Proc, pc[p] = "append",
         UNCHANGED <<module, call, entry, in_offs, out_offs, full>>,
         NEW b \in IF write_buf = NULL THEN kmalloc ELSE krealloc(write_buf),
         Appended(b, p)
  PROVE  HeapInv'
<1>. USE DEF HeapInv
<1>. DEFINE data == call[p].data
<1>1. data \in Seq(Byte)
  BY CallAssumption DEF OnlyWrites, IInv, Threads
<1>2. /\ NewBuf(data) \in Seq(Byte) /\ NewBuf(data) # Free
      /\ Len(NewBuf(data)) = NewSize(data)
  BY <1>1, NewBufIsThere, FreeAssumption
<1>3. b \in Block /\ b # NULL /\ (b = write_buf \/ (heap[b] = Free /\ ~Pointed(b)))
  BY KmallocIsFree, BlockAssumption DEF krealloc, InUseIsPointed, Memory
<1>4. /\ DOMAIN loc' = Proc
      /\ \A q \in Proc : "tmp_buf" \in DOMAIN loc'[q] /\ loc'[q].tmp_buf = loc[q].tmp_buf
      /\ \A q \in Proc : pc'[q] \in Writing <=> pc[q] \in Writing
      /\ \A q \in Proc : pc'[q] \in {"alloc", "append", "add"} => pc'[q] = pc[q]
  BY DEF Appended, Memory, Writing, IInv, Threads
<1>5. /\ \A s \in CB!Slots : entry[s].buffptr # NULL => entry[s].buffptr \notin {b, write_buf}
      /\ \A q \in Proc : loc[q].tmp_buf # NULL => loc[q].tmp_buf \notin {b, write_buf}
  BY <1>3 DEF OneOwner, Pointed
<1>6. /\ heap' = [x \in Block |-> IF x = b THEN NewBuf(data)
                                  ELSE IF x = write_buf THEN Free ELSE heap[x]]
      /\ write_buf' = b
      /\ write_buf_size' = NewSize(data)
  BY DEF Appended
<1>. HIDE DEF data
<1>7. Memory'
  BY <1>2, <1>3, <1>4, <1>6 DEF Memory
<1>8. OneOwner'
  BY <1>4, <1>5, <1>6 DEF OneOwner
<1>9. InUseIsPointed'
  <2>. SUFFICES ASSUME NEW x \in Block PROVE heap'[x] # Free <=> Pointed(x)'
    BY DEF InUseIsPointed
  <2>1. CASE x = b
    BY <1>2, <1>6, <2>1 DEF Pointed
  <2>2. CASE x # b /\ x = write_buf
    BY <1>4, <1>5, <1>6, <2>2, BlockAssumption DEF Pointed
  <2>3. CASE x # b /\ x # write_buf
    <3>1. Pointed(x)' <=> Pointed(x)
      BY <1>4, <1>6, <2>3 DEF Pointed
    <3>. QED  BY <1>6, <2>3, <3>1 DEF InUseIsPointed
  <2>. QED  BY <2>1, <2>2, <2>3
<1>10. NothingOverwritten' /\ OnlyWrites'
  BY <1>3, <1>4, <1>6 DEF NothingOverwritten, OnlyWrites, Live
<1>11. NothingLeft'
  <2>1. module = "live"
    BY DEF IInv, InUse
  <2>. QED  BY <2>1 DEF NothingLeft
<1>12. SizesMatch'
  BY <1>2, <1>3, <1>5, <1>6 DEF Memory, SizesMatch
<1>. QED  BY <1>7, <1>8, <1>9, <1>10, <1>11, <1>12

LEMMA AppendKeeps ==
  ASSUME HeapInv, IInv', NEW p \in Proc, append(p)
  PROVE  HeapInv'
<1>1. /\ pc[p] = "append" /\ pc \in [Proc -> Steps]
      /\ UNCHANGED <<module, call, entry, in_offs, out_offs, full>>
  BY DEF append, kernel, buffer, HeapInv, IInv, Threads
<1>2. CASE UNCHANGED <<heap, write_buf, write_buf_size>> /\ pc' = [pc EXCEPT ![p] = "out_free"]
           /\ \E ret : loc' = [loc EXCEPT ![p].ret = ret]
  <2>1. Untouched
    BY <1>1, <1>2 DEF HeapInv, Memory, Writing, OnlyWrites, dev, Untouched
  <2>. QED  BY <2>1, UntouchedKeeps
<1>3. CASE \E b \in IF write_buf = NULL THEN kmalloc ELSE krealloc(write_buf) : Appended(b, p)
  BY <1>1, <1>3, AppendedKeeps
<1>. QED  BY <1>2, <1>3 DEF append, Appended

(* The oldest entry is freed before it is overwritten.                     *)
LEMMA EvictKeeps ==
  ASSUME HeapInv, IInv', NEW p \in Proc, evict(p)
  PROVE  HeapInv'
<1>. USE DEF HeapInv
<1>. DEFINE b == entry[out_offs].buffptr
<1>1. /\ pc[p] = "evict" /\ pc' = [pc EXCEPT ![p] = "add"] /\ pc \in [Proc -> Steps]
      /\ lock = p
      /\ UNCHANGED <<module, call, in_offs, out_offs, full, write_buf, write_buf_size, loc>>
  BY DEF evict, kernel, IInv, Threads, LockDiscipline, LockedSteps
<1>2. /\ out_offs \in CB!Slots /\ DOMAIN entry = CB!Slots /\ b \in Block \cup {NULL}
      /\ \A q \in Proc : pc'[q] \in Writing <=> pc[q] \in Writing
      /\ \A q \in Proc : pc'[q] \in {"alloc", "append", "evict"} => pc[q] = pc'[q]
      /\ write_buf # NULL
      /\ module = "live"
  BY <1>1 DEF Memory, Writing, NothingOverwritten, IInv, InUse
<1>3. CASE MustFree
  <2>1. /\ heap' = [heap EXCEPT ![b] = Free]
        /\ entry' = [entry EXCEPT ![out_offs] = CB!NullEntry]
        /\ b \in Block /\ b # NULL /\ full
    BY <1>2, <1>3 DEF evict, MustFree
  <2>2. /\ DOMAIN entry' = CB!Slots
        /\ entry'[out_offs].buffptr = NULL
        /\ \A s \in CB!Slots : s # out_offs => entry'[s] = entry[s]
    BY <1>2, <2>1 DEF CB!NullEntry
  <2>3. /\ \A s \in CB!Slots : s # out_offs => entry[s].buffptr # b
        /\ write_buf # b
        /\ \A q \in Proc : loc[q].tmp_buf # b
    BY <1>2, <2>1 DEF OneOwner
  <2>. HIDE DEF b
  <2>4. Memory'
    <3>1. \A s \in CB!Slots : entry'[s].buffptr \in Block \cup {NULL}
      BY <2>2 DEF Memory
    <3>2. heap' \in [Block -> Seq(Byte) \cup {Free}]
      BY <2>1 DEF Memory
    <3>. QED  BY <1>1, <1>2, <2>2, <3>1, <3>2 DEF Memory
  <2>5. OneOwner'
    BY <1>1, <2>2 DEF OneOwner
  <2>6. InUseIsPointed'
    <3>. SUFFICES ASSUME NEW x \in Block PROVE heap'[x] # Free <=> Pointed(x)'
      BY DEF InUseIsPointed
    <3>1. CASE x = b
      BY <1>1, <2>1, <2>2, <2>3, <3>1 DEF Memory, Pointed
    <3>2. CASE x # b
      <4>1. Pointed(x)' <=> Pointed(x)
        BY <1>1, <2>2, <3>2, BlockAssumption DEF Pointed, b
      <4>. QED  BY <2>1, <3>2, <4>1 DEF Memory, InUseIsPointed
    <3>. QED  BY <3>1, <3>2
  <2>7. NothingOverwritten' /\ OnlyWrites' /\ NothingLeft'
    BY <1>1, <1>2, <2>1, <2>2 DEF NothingOverwritten, OnlyWrites, NothingLeft, Live
  <2>8. SizesMatch'
    BY <1>1, <2>1, <2>2, <2>3 DEF Memory, SizesMatch
  <2>. QED  BY <2>4, <2>5, <2>6, <2>7, <2>8
<1>4. CASE ~MustFree
  <2>1. UNCHANGED <<heap, entry>>
    BY <1>4 DEF evict
  <2>2. Memory'
    BY <1>1, <1>2, <2>1 DEF Memory
  <2>3. OneOwner' /\ InUseIsPointed'
    BY <1>1, <2>1 DEF OneOwner, InUseIsPointed, Pointed
  <2>4. NothingOverwritten' /\ OnlyWrites' /\ NothingLeft'
    BY <1>1, <1>2, <1>4, <2>1 DEF MustFree, NothingOverwritten, OnlyWrites, NothingLeft, Live
  <2>5. SizesMatch'
    BY <1>1, <2>1 DEF SizesMatch
  <2>. QED  BY <2>2, <2>3, <2>4, <2>5
<1>. QED  BY <1>3, <1>4

(* The next index, and which slots are live once a slot has been filled.   *)
LEMMA AdvanceIsNext ==
  ASSUME NEW i \in CB!Slots
  PROVE  /\ CB!Advance(i) \in CB!Slots
         /\ CB!Advance(i) = IF i = Capacity - 1 THEN 0 ELSE i + 1
<1>1. CASE i = Capacity - 1
  BY <1>1, SlotsAreThere DEF CB!Advance
<1>2. CASE i # Capacity - 1
  <2>1. i + 1 \in 0..(Capacity - 1)
    BY <1>2, SlotsAreThere
  <2>2. (i + 1) % Capacity = i + 1
    BY <2>1, SlotsAreThere
  <2>. QED  BY <1>2, <2>1, <2>2, SlotsAreThere DEF CB!Advance
<1>. QED  BY <1>1, <1>2

LEMMA LiveGrows ==
  ASSUME Memory, full => in_offs = out_offs,
         out_offs' = IF full THEN CB!Advance(out_offs) ELSE out_offs,
         in_offs' = CB!Advance(in_offs),
         full' = (in_offs' = out_offs')
  PROVE  /\ full' => in_offs' = out_offs'
         /\ ~full => (\A s \in CB!Slots : Live(s) => s # in_offs)
         /\ \A s \in CB!Slots : Live(s) \/ s = in_offs => Live(s)'
<1>1. CASE full
  BY <1>1 DEF Live
<1>2. CASE ~full
  <2>1. /\ Capacity \in Nat /\ in_offs \in 0..(Capacity - 1) /\ out_offs \in 0..(Capacity - 1)
        /\ in_offs' = (IF in_offs = Capacity - 1 THEN 0 ELSE in_offs + 1)
        /\ out_offs' = out_offs
    BY <1>2, SlotsAreThere, AdvanceIsNext DEF Memory
  <2>2. \A s \in CB!Slots : Live(s) => s # in_offs
    BY <1>2, <2>1, SlotsAreThere DEF Live
  <2>3. ASSUME NEW s \in CB!Slots, Live(s) \/ s = in_offs PROVE Live(s)'
    <3>1. s \in 0..(Capacity - 1)
      BY SlotsAreThere
    <3>2. CASE full'
      BY <3>2 DEF Live
    <3>3. CASE ~full'
      <4>1. in_offs' # out_offs
        BY <2>1, <3>3
      <4>. QED  BY <1>2, <2>1, <2>3, <3>1, <4>1 DEF Live
    <3>. QED  BY <3>2, <3>3
  <2>. QED  BY <2>2, <2>3
<1>. QED  BY <1>1, <1>2

(* write_buf becomes the newest entry, in a slot without a pointer.        *)
LEMMA AddKeeps ==
  ASSUME HeapInv, IInv', NEW p \in Proc, add(p)
  PROVE  HeapInv'
<1>. USE DEF HeapInv
<1>. DEFINE b == write_buf
            e == [buffptr |-> write_buf, size |-> write_buf_size]
<1>1. /\ pc[p] = "add" /\ pc' = [pc EXCEPT ![p] = "out_free"] /\ pc \in [Proc -> Steps]
      /\ lock = p
      /\ write_buf' = NULL /\ write_buf_size' = 0
      /\ \E ret : loc' = [loc EXCEPT ![p].ret = ret]
      /\ UNCHANGED <<module, call, heap>>
  BY DEF add, kernel, IInv, Threads, LockDiscipline, LockedSteps
<1>2. b \in Block /\ b # NULL /\ e.buffptr = b
  BY <1>1 DEF Memory, NothingOverwritten
<1>3. /\ entry' = [entry EXCEPT ![in_offs] = e]
      /\ out_offs' = IF full THEN CB!Advance(out_offs) ELSE out_offs
      /\ in_offs' = CB!Advance(in_offs)
      /\ full' = (in_offs' = out_offs')
  BY <1>2 DEF add, CB!aesd_circular_buffer_add_entry
<1>4. /\ full' => in_offs' = out_offs'
      /\ ~full => (\A s \in CB!Slots : Live(s) => s # in_offs)
      /\ \A s \in CB!Slots : Live(s) \/ s = in_offs => Live(s)'
  BY <1>3, LiveGrows DEF NothingOverwritten
<1>5. /\ DOMAIN loc' = Proc
      /\ \A q \in Proc : "tmp_buf" \in DOMAIN loc'[q] /\ loc'[q].tmp_buf = loc[q].tmp_buf
      /\ \A q \in Proc : pc'[q] \in Writing <=> pc[q] \in Writing
      /\ \A q \in Proc : pc'[q] \in {"alloc", "append"} => pc'[q] = pc[q]
      /\ \A q \in Proc : pc'[q] \notin {"evict", "add"}
  <2>1. \A q \in Proc : pc[q] \in {"evict", "add"} => q = p
    BY <1>1 DEF IInv, LockDiscipline, LockedSteps
  <2>. QED  BY <1>1, <2>1 DEF Memory, Writing
<1>6. entry[in_offs].buffptr = NULL
  BY <1>1, <1>4 DEF Memory, NothingOverwritten
<1>7. /\ DOMAIN entry' = CB!Slots
      /\ entry'[in_offs] = e
      /\ \A s \in CB!Slots : s # in_offs => entry'[s] = entry[s]
  BY <1>3 DEF Memory
<1>8. in_offs' \in CB!Slots /\ out_offs' \in CB!Slots /\ full' \in BOOLEAN
  BY <1>3, AdvanceIsNext DEF Memory
<1>9. e.size = Len(heap[b])
  BY <1>2 DEF SizesMatch
<1>. HIDE DEF e
<1>10. Memory'
  <2>1. \A s \in CB!Slots : entry'[s].buffptr \in Block \cup {NULL}
    BY <1>2, <1>7 DEF Memory
  <2>. QED  BY <1>1, <1>5, <1>7, <1>8, <2>1 DEF Memory
<1>11. OneOwner'
  BY <1>1, <1>2, <1>5, <1>6, <1>7 DEF OneOwner
<1>12. InUseIsPointed'
  <2>. SUFFICES ASSUME NEW x \in Block PROVE Pointed(x)' <=> Pointed(x)
    BY <1>1 DEF InUseIsPointed
  <2>1. in_offs \in CB!Slots
    BY DEF Memory
  <2>. QED  BY <1>1, <1>2, <1>5, <1>6, <1>7, <2>1, BlockAssumption DEF Pointed
<1>13. NothingOverwritten' /\ OnlyWrites'
  BY <1>1, <1>4, <1>5, <1>7 DEF NothingOverwritten, OnlyWrites
<1>14. NothingLeft'
  BY <1>1 DEF IInv, InUse, NothingLeft
<1>15. SizesMatch'
  BY <1>1, <1>2, <1>7, <1>9 DEF SizesMatch
<1>. QED  BY <1>10, <1>11, <1>12, <1>13, <1>14, <1>15

(***************************************************************************)
(* Unloading gives everything back, initialising forgets nothing.          *)
(***************************************************************************)
LEMMA CleanupKeeps ==
  ASSUME HeapInv, IInv', aesd_cleanup_device
  PROVE  HeapInv'
<1>. USE DEF HeapInv
<1>. DEFINE owned == {entry[s].buffptr : s \in CB!Slots} \cup {write_buf}
<1>1. /\ opened = {} /\ module' = "going"
      /\ heap' = [b \in Block |-> IF b \in owned THEN Free ELSE heap[b]]
      /\ write_buf' = NULL
      /\ entry' = [s \in CB!Slots |-> IF entry[s].buffptr = NULL
                                      THEN entry[s] ELSE CB!NullEntry]
      /\ UNCHANGED <<in_offs, out_offs, full, pc, loc, call>>
  BY DEF aesd_cleanup_device, threads
<1>2. \A p \in Proc : pc[p] = "idle" /\ loc[p].tmp_buf = NULL
  BY <1>1 DEF IInv, InUse, Memory, Writing
<1>3. DOMAIN entry' = CB!Slots /\ \A s \in CB!Slots : entry'[s].buffptr = NULL
  BY <1>1 DEF CB!NullEntry
<1>4. \A b \in Block : heap'[b] = Free /\ ~Pointed(b)'
  <2>1. \A b \in Block : b \in owned <=> Pointed(b)
    BY <1>2, BlockAssumption DEF Pointed
  <2>2. \A b \in Block : ~Pointed(b)'
    BY <1>1, <1>2, <1>3, BlockAssumption DEF Pointed
  <2>. QED  BY <1>1, <2>1, <2>2 DEF InUseIsPointed
<1>5. Memory'
  BY <1>1, <1>3, <1>4 DEF Memory
<1>6. OneOwner' /\ InUseIsPointed'
  BY <1>1, <1>2, <1>3, <1>4 DEF OneOwner, InUseIsPointed
<1>7. NothingOverwritten' /\ OnlyWrites' /\ NothingLeft' /\ SizesMatch'
  BY <1>1, <1>2, <1>3 DEF NothingOverwritten, OnlyWrites, NothingLeft, SizesMatch
<1>. QED  BY <1>5, <1>6, <1>7

LEMMA InitDeviceKeeps ==
  ASSUME HeapInv, IInv', init_device
  PROVE  HeapInv'
<1>. USE DEF HeapInv
<1>1. /\ module = "region" /\ module' = "initialised" /\ write_buf' = NULL
      /\ entry' = [s \in CB!Slots |-> CB!NullEntry]
      /\ in_offs' = 0 /\ out_offs' = 0 /\ full' = FALSE
      /\ UNCHANGED <<heap, pc, loc, call>>
  BY DEF init_device, CB!aesd_circular_buffer_init, CB!Zeroed, threads
<1>2. \A p \in Proc : pc[p] = "idle"
  BY <1>1 DEF IInv, InUse
<1>3. DOMAIN entry' = CB!Slots /\ \A s \in CB!Slots : entry'[s].buffptr = NULL
  BY <1>1 DEF CB!NullEntry
<1>4. /\ write_buf = NULL /\ \A s \in CB!Slots : entry[s].buffptr = NULL
      /\ 0 \in CB!Slots
  BY <1>1, SlotsAreThere DEF NothingLeft
<1>5. Memory'
  BY <1>1, <1>3, <1>4 DEF Memory
<1>6. OneOwner' /\ InUseIsPointed'
  BY <1>1, <1>3, <1>4, BlockAssumption DEF OneOwner, InUseIsPointed, Pointed
<1>7. NothingOverwritten' /\ OnlyWrites' /\ NothingLeft' /\ SizesMatch'
  BY <1>1, <1>2, <1>3 DEF NothingOverwritten, OnlyWrites, NothingLeft, SizesMatch
<1>. QED  BY <1>5, <1>6, <1>7

LEMMA HeapStep == HeapInv /\ [Next]_vars => HeapInv'
<1>. SUFFICES ASSUME HeapInv, [Next]_vars PROVE HeapInv'
  OBVIOUS
<1>0. IInv'
  BY IInvStep DEF HeapInv
<1>1. CASE UNCHANGED vars \/ alloc_chrdev_region \/ aesd_setup_cdev \/ aesd_exit
  BY <1>0, <1>1, StepTouches, UntouchedKeeps
<1>2. CASE init_device \/ aesd_cleanup_device
  BY <1>0, <1>2, InitDeviceKeeps, CleanupKeeps
<1>3. ASSUME NEW f \in File, aesd_open(f) \/ aesd_release(f) PROVE HeapInv'
  BY <1>0, <1>3, StepTouches, UntouchedKeeps
<1>4. ASSUME NEW p \in Proc,
             (\E c \in Call[p] : SysCall(p, c)) \/ Reject(p) \/ Lock(p) \/ Interrupted(p)
               \/ SysReturn(p)
      PROVE  HeapInv'
  BY <1>0, <1>4, StepTouches, UntouchedKeeps
<1>5. ASSUME NEW p \in Proc, Handler(p) PROVE HeapInv'
  <2>1. CASE find_entry(p) \/ copy_to_user(p) \/ llseek(p) \/ seekto(p) \/ store_pos(p)
    BY <1>0, <2>1, StepTouches, UntouchedKeeps
  <2>. QED  BY <1>0, <1>5, <2>1, AllocKeeps, AppendKeeps, EvictKeeps, AddKeeps, OutFreeKeeps
            DEF Handler
<1>. QED  BY <1>1, <1>2, <1>3, <1>4, <1>5 DEF Next, Module

LEMMA AlwaysHeap == Spec => []HeapInv
BY InitHeap, HeapStep, PTL DEF Spec

(***************************************************************************)
(* Every block has at most one owner, and a block has one exactly while it *)
(* is in use: on no path of any handler, and in no unloading of the        *)
(* module, is memory leaked, freed twice or used after it was freed.       *)
(***************************************************************************)
THEOREM HeapIsOwned == Spec => []HeapOwned
<1>1. HeapInv => HeapOwned
  <2>. SUFFICES ASSUME HeapInv, NEW b \in Block
                PROVE  Cardinality(Owners(b)) = IF heap[b] = Free THEN 0 ELSE 1
    BY DEF HeapOwned
  <2>1. b # NULL /\ (heap[b] # Free <=> Pointed(b))
    BY BlockAssumption DEF HeapInv, InUseIsPointed
  <2>2. CASE ~Pointed(b)
    BY <2>1, <2>2, FS_EmptySet DEF Owners, Pointed
  <2>3. ASSUME NEW s \in CB!Slots, entry[s].buffptr = b PROVE Owners(b) = {<<"slot", s>>}
    BY <2>1, <2>3 DEF HeapInv, OneOwner, Owners
  <2>4. CASE write_buf = b
    <3>1. Owners(b) = {<<"write_buf">>}
      BY <2>1, <2>4 DEF HeapInv, OneOwner, Owners
    <3>. QED  BY <2>1, <2>4, <3>1, FS_Singleton DEF Pointed
  <2>5. ASSUME NEW p \in Proc, loc[p].tmp_buf = b PROVE Owners(b) = {<<"tmp_buf", p>>}
    BY <2>1, <2>5 DEF HeapInv, OneOwner, Owners
  <2>. QED  BY <2>1, <2>2, <2>3, <2>4, <2>5, FS_Singleton DEF Pointed
<1>. QED  BY <1>1, AlwaysHeap, PTL

(***************************************************************************)
(* The size kept beside a pointer is the length of what it points to, also *)
(* after partial writes, krealloc, eviction and unloading: every bound of  *)
(* a copy is computed from these sizes.                                    *)
(***************************************************************************)
THEOREM SizesDoMatch == Spec => []SizesMatch
<1>1. HeapInv => SizesMatch
  BY DEF HeapInv
<1>. QED  BY <1>1, AlwaysHeap, PTL

-----------------------------------------------------------------------------
(* The buffer in the device.                                               *)

(* The same operators, by their two names.                                 *)
LEMMA SameBuffer ==
  /\ CB!TypeOK <=> Buf!TypeOK
  /\ CB!TotalEntries = Buf!TotalEntries
  /\ \A i : CB!Slot(i) = Buf!Slot(i)
  /\ \A i : CB!StartOf(i) = Buf!StartOf(i)
  /\ \A i : CB!Advance(i) = Buf!Advance(i)
  /\ \A pos : CB!aesd_circular_buffer_find_entry_offset_for_fpos(pos)
                = Buf!aesd_circular_buffer_find_entry_offset_for_fpos(pos)
  /\ CB!Slots = Buf!Slots /\ CB!Entry = Buf!Entry /\ CB!NullEntry = Buf!NullEntry
<1>1. CB!Slots = Buf!Slots /\ CB!Entry = Buf!Entry /\ CB!NullEntry = Buf!NullEntry
  BY DEF CB!Slots, Buf!Slots, CB!Entry, Buf!Entry, CB!NullEntry, Buf!NullEntry
<1>2. CB!TypeOK <=> Buf!TypeOK
  BY <1>1 DEF CB!TypeOK, Buf!TypeOK
<1>3. CB!TotalEntries = Buf!TotalEntries
  BY DEF CB!TotalEntries, Buf!TotalEntries
<1>4. \A i : CB!Slot(i) = Buf!Slot(i)
  BY DEF CB!Slot, Buf!Slot
<1>5. \A i : CB!StartOf(i) = Buf!StartOf(i)
  BY DEF CB!Slot, Buf!Slot, CB!StartOf, Buf!StartOf
<1>6. \A i : CB!Advance(i) = Buf!Advance(i)
  BY DEF CB!Advance, Buf!Advance
<1>7. \A pos : CB!aesd_circular_buffer_find_entry_offset_for_fpos(pos)
                 = Buf!aesd_circular_buffer_find_entry_offset_for_fpos(pos)
  BY DEF CB!aesd_circular_buffer_find_entry_offset_for_fpos,
         Buf!aesd_circular_buffer_find_entry_offset_for_fpos,
         CB!StartOf, Buf!StartOf, CB!Slot, Buf!Slot, CB!TotalEntries, Buf!TotalEntries
<1>. QED  BY <1>1, <1>2, <1>3, <1>4, <1>5, <1>6, <1>7

(* The live slots in their order.                                          *)
LEMMA LiveSlots ==
  ASSUME CB!TypeOK
  PROVE  /\ CB!TotalEntries \in 0..Capacity
         /\ (full => in_offs = out_offs) =>
              /\ \A s \in CB!Slots : s \in CB!LiveSlots <=> Live(s)
              /\ (CB!TotalEntries = Capacity) = full
         /\ \A i \in 0..(Capacity - 1) : CB!Slot(i) \in CB!Slots
         /\ CB!Slot(0) = out_offs
         /\ \A i \in 1..(Capacity - 1) : CB!Slot(i) # out_offs
<1>1. Buf!TypeOK
  BY SameBuffer
<1>2. Capacity \in Nat /\ Capacity > 0 /\ CB!Slots = 0..(Capacity - 1)
  BY SlotsAreThere DEF CB!Slots
<1>3. CB!TotalEntries \in 0..Capacity
  BY <1>1, SameBuffer, SlotsAreThere, Buf!TotalEntriesRange
<1>4. ASSUME NEW i \in 0..(Capacity - 1)
      PROVE  /\ CB!Slot(i) \in CB!Slots
             /\ CB!Slot(i) = IF out_offs + i < Capacity THEN out_offs + i
                                                        ELSE (out_offs + i) - Capacity
  <2>1. /\ Buf!Slot(i) \in Buf!Slots
        /\ Buf!Slot(i) = IF out_offs + i < Capacity THEN out_offs + i
                                                    ELSE (out_offs + i) - Capacity
    <3>1. Buf!CapacityAssumption /\ Buf!PtrAssumption /\ Buf!SizeAssumption
      BY ONLY SlotsAreThere
    <3>. QED  BY ONLY <1>1, <3>1, i \in 0..(Capacity - 1), Buf!SlotValue
  <2>2. CB!Slot(i) = Buf!Slot(i) /\ CB!Slots = Buf!Slots
    BY ONLY SameBuffer
  <2>. QED  BY ONLY <2>1, <2>2
<1>5. out_offs \in 0..(Capacity - 1) /\ in_offs \in 0..(Capacity - 1) /\ full \in BOOLEAN
  BY <1>2 DEF CB!TypeOK
<1>6. CB!Slot(0) = out_offs /\ \A i \in 1..(Capacity - 1) : CB!Slot(i) # out_offs
  <2>1. 0 \in 0..(Capacity - 1) /\ \A i \in 1..(Capacity - 1) : i \in 0..(Capacity - 1)
    BY ONLY <1>2
  <2>2. CB!Slot(0) = out_offs
    BY ONLY <1>2, <1>4, <1>5, <2>1
  <2>3. ASSUME NEW i \in 1..(Capacity - 1) PROVE CB!Slot(i) # out_offs
    <3>1. CB!Slot(i) = IF out_offs + i < Capacity THEN out_offs + i
                                                  ELSE (out_offs + i) - Capacity
      BY ONLY <1>4, <2>1, i \in 1..(Capacity - 1)
    <3>. QED  BY ONLY <1>2, <1>5, <3>1, i \in 1..(Capacity - 1)
  <2>. QED  BY ONLY <2>2, <2>3
<1>7. ASSUME full => in_offs = out_offs
      PROVE  (CB!TotalEntries = Capacity) = full
  BY <1>2, <1>5, <1>7 DEF CB!TotalEntries
<1>8. ASSUME full => in_offs = out_offs, NEW s \in CB!Slots
      PROVE  s \in CB!LiveSlots <=> Live(s)
  <2>1. Buf!IndexInv /\ s \in Buf!Slots
    BY <1>8, SameBuffer DEF Buf!IndexInv
  <2>2. s \in Buf!LiveSlots <=> Buf!Live(s)
    BY <1>1, <2>1, SlotsAreThere, Buf!LiveSlotsAreLive
  <2>3. CB!LiveSlots = Buf!LiveSlots
    BY SameBuffer DEF CB!LiveSlots, Buf!LiveSlots
  <2>4. Buf!Live(s) <=> Live(s)
    BY <1>2, <1>5, <1>8 DEF Buf!Live, Live
  <2>. QED  BY <2>2, <2>3, <2>4
<1>. QED  BY <1>3, <1>4, <1>6, <1>7, <1>8

(* Where the live entries begin.                                           *)
LEMMA Starts ==
  ASSUME CB!TypeOK
  PROVE  /\ CB!StartOf(0) = 0
         /\ \A n \in 1..Capacity : /\ entry[CB!Slot(n - 1)].size \in Nat
                                   /\ CB!StartOf(n) = CB!StartOf(n - 1) + entry[CB!Slot(n - 1)].size
         /\ \A n \in 0..Capacity : CB!StartOf(n) \in Nat
         /\ \A i \in 0..Capacity : \A j \in i..Capacity : CB!StartOf(i) <= CB!StartOf(j)
<1>1. Buf!TypeOK
  BY SameBuffer
<1>2. /\ Buf!StartOf(0) = 0
      /\ \A n \in 1..Capacity : /\ entry[Buf!Slot(n - 1)].size \in Nat
                                /\ Buf!StartOf(n) = Buf!StartOf(n - 1) + entry[Buf!Slot(n - 1)].size
      /\ \A n \in 0..Capacity : Buf!StartOf(n) \in Nat
  BY <1>1, SlotsAreThere, Buf!StartOfUnfolds
<1>3. \A i \in 0..Capacity : \A j \in i..Capacity : Buf!StartOf(i) <= Buf!StartOf(j)
  BY <1>1, SlotsAreThere, Buf!StartOfGrows
<1>. QED  BY <1>2, <1>3, SameBuffer

(* The search for a position.                                              *)
LEMMA Finds ==
  ASSUME CB!TypeOK, NEW pos \in Nat
  PROVE  \/ /\ CB!aesd_circular_buffer_find_entry_offset_for_fpos(pos) = NULL
            /\ CB!StartOf(CB!TotalEntries) <= pos
         \/ \E i \in 0..(CB!TotalEntries - 1) :
              /\ CB!aesd_circular_buffer_find_entry_offset_for_fpos(pos)
                   = [slot |-> CB!Slot(i), offset |-> pos - CB!StartOf(i)]
              /\ [slot |-> CB!Slot(i), offset |-> pos - CB!StartOf(i)]
                   \in [slot : CB!Slots, offset : Nat]
              /\ CB!StartOf(i) <= pos
              /\ pos < CB!StartOf(i + 1)
<1>1. Buf!TypeOK
  BY SameBuffer
<1>2. \/ /\ Buf!aesd_circular_buffer_find_entry_offset_for_fpos(pos) = NULL
         /\ Buf!StartOf(Buf!TotalEntries) <= pos
      \/ \E i \in 0..(Buf!TotalEntries - 1) :
           /\ Buf!aesd_circular_buffer_find_entry_offset_for_fpos(pos)
                = [slot |-> Buf!Slot(i), offset |-> pos - Buf!StartOf(i)]
           /\ Buf!StartOf(i) <= pos
           /\ pos < Buf!StartOf(i + 1)
  BY <1>1, SlotsAreThere, Buf!FindsEntry
<1>3. ASSUME NEW i \in 0..(CB!TotalEntries - 1), CB!StartOf(i) <= pos
      PROVE  CB!Slot(i) \in CB!Slots /\ pos - CB!StartOf(i) \in Nat
  <2>1. Capacity \in Nat /\ CB!TotalEntries \in 0..Capacity
    BY SlotsAreThere, LiveSlots
  <2>2. i \in 0..(Capacity - 1) /\ i \in 0..Capacity
    BY <2>1
  <2>3. CB!Slot(i) \in CB!Slots /\ CB!StartOf(i) \in Nat
    BY <2>2, LiveSlots, Starts
  <2>. QED  BY <1>3, <2>3
<1>. QED  BY <1>2, <1>3, SameBuffer

-----------------------------------------------------------------------------
(* What the driver keeps, whoever shares a file.                           *)

Locals == [pos : Nat, tmp_buf : Block \cup {NULL},
           found : {NULL} \cup [slot : CB!Slots, offset : Nat],
           new_pos : Nat, ret : Int, out : Seq(Byte)]

Types == /\ module \in {"absent", "region", "initialised", "live", "going"}
         /\ opened \subseteq File
         /\ f_pos \in [File -> Nat]
         /\ CB!TypeOK
         /\ write_buf_size \in Nat
         /\ loc \in [Proc -> Locals]

(* Every live slot of a loaded driver holds a pointer, but for the one     *)
(* whose entry was evicted for the one that is about to be added.          *)
LivePointers ==
  module = "live" =>
    \A s \in CB!Slots : Live(s) =>
      \/ entry[s].buffptr # NULL
      \/ full /\ s = out_offs /\ \E p \in Proc : pc[p] = "add"

(* aesd_cleanup_device leaves the indices; aesd_init puts them right       *)
(* before the device can be opened again.                                  *)
Fresh == module = "initialised" => ~full /\ in_offs = out_offs

(* What is pending has no newline yet.                                     *)
PendingOpen ==
  write_buf # NULL /\ ~Committing => ~Contains(heap[write_buf], Newline)

(* The entry that was found is the one the position is in.                 *)
HasFound(p) ==
  \E i \in 0..(CB!TotalEntries - 1) :
    /\ loc[p].found = [slot |-> CB!Slot(i), offset |-> loc[p].pos - CB!StartOf(i)]
    /\ CB!StartOf(i) <= loc[p].pos
    /\ loc[p].pos < CB!StartOf(i + 1)

(* A thread is in the handler of its call, and has nothing to return yet.  *)
InHandler(p) ==
  /\ pc[p] = "idle" => call[p] = NULL
  /\ pc[p] \in {"find", "copy_to_user"} => call[p].op = "read"
  /\ pc[p] \in Writing \cup {"alloc"} => call[p].op = "write" /\ call[p].data # <<>>
  /\ pc[p] = "llseek" => call[p].op = "llseek"
  /\ pc[p] = "seekto" => call[p].op = "seekto"
  /\ pc[p] = "store_pos" => call[p].op \in {"llseek", "seekto"}
  /\ pc[p] # "return" => loc[p].out = <<>>

DriverInv == /\ HeapInv /\ Types /\ LivePointers /\ Fresh /\ PendingOpen
             /\ \A p \in Proc : InHandler(p)
             /\ \A p \in Proc : pc[p] = "copy_to_user" => HasFound(p)

LEMMA NothingIsTyped == CB!NullEntry \in CB!Entry /\ NoLocals \in Locals
<1>1. NULL \in Block \cup {NULL} /\ NULL \in {NULL} \cup [slot : CB!Slots, offset : Nat]
      /\ 0 \in Nat /\ <<>> \in Seq(Byte)
  OBVIOUS
<1>. QED  BY <1>1 DEF CB!NullEntry, CB!Entry, NoLocals, Locals

(* A record of locals with a new value in it is one.                       *)
LEMMA LocalsStay ==
  ASSUME loc \in [Proc -> Locals], NEW p \in Proc
  PROVE  /\ \A x \in Int : [loc EXCEPT ![p].ret = x] \in [Proc -> Locals]
         /\ \A x \in Nat : [loc EXCEPT ![p].pos = x] \in [Proc -> Locals]
         /\ \A x \in Nat : [loc EXCEPT ![p].new_pos = x] \in [Proc -> Locals]
         /\ \A x \in Block \cup {NULL} : [loc EXCEPT ![p].tmp_buf = x] \in [Proc -> Locals]
         /\ \A x \in [slot : CB!Slots, offset : Nat] : [loc EXCEPT ![p].found = x] \in [Proc -> Locals]
<1>. USE DEF Locals
<1>1. \A x \in Int : [loc EXCEPT ![p].ret = x] \in [Proc -> Locals]
  OBVIOUS
<1>2. \A x \in Nat : [loc EXCEPT ![p].pos = x] \in [Proc -> Locals]
  OBVIOUS
<1>3. \A x \in Nat : [loc EXCEPT ![p].new_pos = x] \in [Proc -> Locals]
  OBVIOUS
<1>4. \A x \in Block \cup {NULL} : [loc EXCEPT ![p].tmp_buf = x] \in [Proc -> Locals]
  OBVIOUS
<1>5. \A x \in [slot : CB!Slots, offset : Nat] : [loc EXCEPT ![p].found = x] \in [Proc -> Locals]
  OBVIOUS
<1>. QED  BY <1>1, <1>2, <1>3, <1>4, <1>5

LEMMA DriverInvInit == Init => DriverInv
<1>. SUFFICES ASSUME Init PROVE DriverInv
  OBVIOUS
<1>1. HeapInv
  BY InitHeap
<1>2. Types
  <2>1. CB!TypeOK
    <3>1. CB!NullEntry \in CB!Entry /\ 0 \in CB!Slots
      BY NothingIsTyped, SlotsAreThere
    <3>. QED  BY <3>1 DEF Init, CB!Init, CB!Zeroed, CB!TypeOK
  <2>. QED  BY <2>1, NothingIsTyped DEF Init, Types
<1>3. LivePointers /\ Fresh /\ PendingOpen
  BY DEF Init, LivePointers, Fresh, PendingOpen
<1>4. ASSUME NEW p \in Proc
      PROVE  InHandler(p) /\ (pc[p] = "copy_to_user" => HasFound(p))
  BY DEF Init, InHandler, Writing, NoLocals
<1>. QED  BY <1>1, <1>2, <1>3, <1>4 DEF DriverInv

(* What a thread has found is there as long as the buffer does not change. *)
LEMMA FoundStays ==
  ASSUME NEW q, HasFound(q), UNCHANGED <<entry, in_offs, out_offs, full>>, loc'[q] = loc[q]
  PROVE  HasFound(q)'
<1>1. CB!TotalEntries' = CB!TotalEntries
  BY DEF CB!TotalEntries
<1>2. \A i : CB!Slot(i)' = CB!Slot(i)
  BY DEF CB!Slot
<1>3. \A i : CB!StartOf(i)' = CB!StartOf(i)
  BY DEF CB!StartOf, CB!Slot
<1>4. PICK i \in 0..(CB!TotalEntries - 1) :
        /\ loc[q].found = [slot |-> CB!Slot(i), offset |-> loc[q].pos - CB!StartOf(i)]
        /\ CB!StartOf(i) <= loc[q].pos
        /\ loc[q].pos < CB!StartOf(i + 1)
  BY DEF HasFound
<1>5. /\ i \in 0..(CB!TotalEntries' - 1)
      /\ loc'[q].found = [slot |-> CB!Slot(i)', offset |-> loc'[q].pos - CB!StartOf(i)']
      /\ CB!StartOf(i)' <= loc'[q].pos
      /\ loc'[q].pos < CB!StartOf(i + 1)'
  BY <1>1, <1>2, <1>3, <1>4
<1>. QED  BY <1>5 DEF HasFound

(* A step of one thread leaves what the others know alone: nobody else is  *)
(* between its lock and its unlock when the buffer changes.                *)
OthersStay(p) ==
  \A q \in Proc : q # p => pc'[q] = pc[q] /\ call'[q] = call[q] /\ loc'[q] = loc[q]

LEMMA ThreadStep ==
  ASSUME DriverInv, HeapInv', NEW p \in Proc, OthersStay(p),
         Types', LivePointers', Fresh', PendingOpen',
         UNCHANGED buffer \/ pc[p] \in LockedSteps,
         InHandler(p)', pc'[p] = "copy_to_user" => HasFound(p)'
  PROVE  DriverInv'
<1>1. ASSUME NEW q \in Proc PROVE InHandler(q)'
  <2>1. CASE q = p
    BY <2>1
  <2>2. CASE q # p
    <3>1. InHandler(q) /\ pc'[q] = pc[q] /\ call'[q] = call[q] /\ loc'[q] = loc[q]
      BY <2>2 DEF DriverInv, OthersStay
    <3>. QED  BY <3>1 DEF InHandler
  <2>. QED  BY <2>1, <2>2
<1>2. ASSUME NEW q \in Proc, pc'[q] = "copy_to_user" PROVE HasFound(q)'
  <2>1. CASE q = p
    BY <1>2, <2>1
  <2>2. CASE q # p
    <3>1. HasFound(q) /\ pc[q] = "copy_to_user" /\ loc'[q] = loc[q]
      BY <1>2, <2>2 DEF DriverInv, OthersStay
    <3>2. pc[p] \notin LockedSteps
      <4>1. lock = q
        BY <3>1 DEF DriverInv, HeapInv, IInv, LockDiscipline, LockedSteps
      <4>. QED  BY <4>1, <2>2 DEF DriverInv, HeapInv, IInv, LockDiscipline
    <3>3. UNCHANGED <<entry, in_offs, out_offs, full>>
      BY <3>2 DEF buffer
    <3>. QED  BY ONLY <3>1, <3>3, FoundStays
  <2>. QED  BY <2>1, <2>2
<1>. QED  BY <1>1, <1>2 DEF DriverInv

(* The steps that leave the device as it is.                               *)
LEMMA QuietStep ==
  ASSUME DriverInv, HeapInv', NEW p \in Proc, OthersStay(p),
         UNCHANGED <<module, heap, dev>>,
         opened' = opened, f_pos' \in [File -> Nat], loc' \in [Proc -> Locals],
         pc[p] \notin {"evict", "add"}, pc'[p] \notin {"evict", "add"},
         InHandler(p)', pc'[p] = "copy_to_user" => HasFound(p)'
  PROVE  DriverInv'
<1>1. UNCHANGED <<module, heap, entry, in_offs, out_offs, full, write_buf, write_buf_size>>
  BY DEF dev
<1>2. \A q \in Proc : /\ pc'[q] = "add" <=> pc[q] = "add"
                      /\ pc'[q] = "evict" <=> pc[q] = "evict"
  BY DEF OthersStay
<1>3. Types'
  BY <1>1 DEF DriverInv, Types, CB!TypeOK, Locals
<1>4. LivePointers' /\ Fresh'
  BY <1>1, <1>2 DEF DriverInv, LivePointers, Fresh, Live
<1>5. PendingOpen'
  BY <1>1, <1>2 DEF DriverInv, PendingOpen, Committing
<1>. QED  BY <1>1, <1>3, <1>4, <1>5, ThreadStep DEF buffer

-----------------------------------------------------------------------------
(* What is in the buffer.                                                  *)

LEMMA LiveEntry ==
  ASSUME DriverInv, module = "live", NEW i \in 0..(CB!TotalEntries - 1),
         \/ \A p \in Proc : pc[p] # "add"
         \/ ~full
         \/ i # 0
  PROVE  /\ CB!Slot(i) \in CB!Slots
         /\ entry[CB!Slot(i)].buffptr \in Block
         /\ entry[CB!Slot(i)].buffptr # write_buf
         /\ heap[entry[CB!Slot(i)].buffptr] \in Seq(Byte)
         /\ entry[CB!Slot(i)].size = Len(heap[entry[CB!Slot(i)].buffptr])
<1>. DEFINE s == CB!Slot(i)
<1>1. CB!TypeOK /\ (full => in_offs = out_offs)
  BY DEF DriverInv, Types, HeapInv, NothingOverwritten
<1>2. Capacity \in Nat /\ CB!TotalEntries \in 0..Capacity
  BY <1>1, SlotsAreThere, LiveSlots
<1>3. i \in 0..(Capacity - 1)
  BY <1>2
<1>4. s \in CB!Slots
  BY <1>1, <1>3, LiveSlots
<1>5. i # 0 => s # out_offs
  BY <1>1, <1>2, <1>3, LiveSlots
<1>6. Live(s)
  <2>1. s \in CB!LiveSlots
    BY DEF CB!LiveSlots
  <2>. QED  BY <1>1, <1>4, <2>1, LiveSlots
<1>. HIDE DEF s
<1>7. entry[s].buffptr # NULL
  BY <1>4, <1>5, <1>6 DEF DriverInv, LivePointers
<1>8. entry[s].buffptr \in Block
  BY <1>4, <1>7 DEF DriverInv, HeapInv, Memory
<1>9. heap[entry[s].buffptr] \in Seq(Byte)
  BY <1>4, <1>8 DEF DriverInv, HeapInv, Memory, InUseIsPointed, Pointed
<1>10. entry[s].buffptr # write_buf
  BY <1>4, <1>7 DEF DriverInv, HeapInv, OneOwner
<1>11. entry[s].size = Len(heap[entry[s].buffptr])
  BY <1>4, <1>7 DEF DriverInv, HeapInv, SizesMatch
<1>. QED  BY <1>4, <1>8, <1>9, <1>10, <1>11 DEF s

(* A read that has found its entry takes n bytes of entry i.               *)
Taken(p) == Min({call[p].count, entry[loc[p].found.slot].size - loc[p].found.offset})

TakesFrom(p, i) ==
  LET e == entry[CB!Slot(i)]
  IN  /\ i \in 0..(CB!TotalEntries - 1)
      /\ loc[p].found = [slot |-> CB!Slot(i), offset |-> loc[p].pos - CB!StartOf(i)]
      /\ CB!StartOf(i) \in Nat /\ loc[p].pos \in Nat
      /\ CB!StartOf(i) <= loc[p].pos
      /\ loc[p].pos < CB!StartOf(i + 1)
      /\ CB!StartOf(i + 1) = CB!StartOf(i) + e.size
      /\ e.buffptr \in Block
      /\ heap[e.buffptr] \in Seq(Byte)
      /\ e.size = Len(heap[e.buffptr])
      /\ call[p].count \in Nat
      /\ Taken(p) \in Nat
      /\ Taken(p) <= call[p].count
      /\ loc[p].pos + Taken(p) <= CB!StartOf(i + 1)
      /\ Taken(p) = call[p].count \/ loc[p].pos + Taken(p) = CB!StartOf(i + 1)

LEMMA ReadTakes ==
  ASSUME DriverInv, NEW p \in Proc, pc[p] = "copy_to_user"
  PROVE  \E i : TakesFrom(p, i)
<1>1. PICK i \in 0..(CB!TotalEntries - 1) :
        /\ loc[p].found = [slot |-> CB!Slot(i), offset |-> loc[p].pos - CB!StartOf(i)]
        /\ CB!StartOf(i) <= loc[p].pos
        /\ loc[p].pos < CB!StartOf(i + 1)
  BY DEF DriverInv, HasFound
<1>2. CB!TypeOK /\ loc[p].pos \in Nat
  BY DEF DriverInv, Types, Locals
<1>3. Capacity \in Nat /\ CB!TotalEntries \in 0..Capacity
  BY <1>2, SlotsAreThere, LiveSlots
<1>4. i + 1 \in 1..Capacity /\ (i + 1) - 1 = i /\ i \in 0..Capacity /\ i \in Nat
  BY <1>3
<1>5. /\ CB!StartOf(i) \in Nat
      /\ entry[CB!Slot(i)].size \in Nat
      /\ CB!StartOf(i + 1) = CB!StartOf(i) + entry[CB!Slot(i)].size
  BY <1>2, <1>4, Starts
<1>6. lock = p /\ \A q \in Proc : pc[q] # "add"
  BY DEF DriverInv, HeapInv, IInv, LockDiscipline, LockedSteps
<1>7. module = "live" /\ call[p] \in Call[p] /\ call[p].op = "read"
  BY DEF DriverInv, HeapInv, IInv, InUse, Threads, InHandler
<1>8. call[p].count \in Nat
  BY <1>7, CallAssumption
<1>9. /\ entry[CB!Slot(i)].buffptr \in Block
      /\ heap[entry[CB!Slot(i)].buffptr] \in Seq(Byte)
      /\ entry[CB!Slot(i)].size = Len(heap[entry[CB!Slot(i)].buffptr])
  BY <1>6, <1>7, LiveEntry
<1>. DEFINE rest == entry[CB!Slot(i)].size - (loc[p].pos - CB!StartOf(i))
<1>10. rest \in Nat /\ loc[p].pos + rest = CB!StartOf(i + 1)
  BY <1>1, <1>2, <1>5
<1>11. Taken(p) = Min({call[p].count, rest})
  BY <1>1 DEF Taken
<1>. HIDE DEF rest
<1>12. /\ Taken(p) \in Nat /\ Taken(p) <= call[p].count /\ Taken(p) <= rest
       /\ Taken(p) = call[p].count \/ Taken(p) = rest
  BY ONLY <1>8, <1>10, <1>11, MinOfTwo
<1>. DEFINE n == Taken(p)
<1>13. loc[p].pos + n <= CB!StartOf(i + 1) /\ (n = rest => loc[p].pos + n = CB!StartOf(i + 1))
  <2>. HIDE DEF n
  <2>1. n \in Nat /\ n <= rest
    BY <1>12 DEF n
  <2>. QED  BY ONLY <2>1, <1>2, <1>10
<1>. QED  BY <1>1, <1>2, <1>5, <1>8, <1>9, <1>12, <1>13 DEF TakesFrom

-----------------------------------------------------------------------------
(* The steps that leave the device as it is, one by one.                   *)

LEMMA FindEntryKeeps ==
  ASSUME DriverInv, HeapInv', NEW p \in Proc, find_entry(p)
  PROVE  DriverInv'
<1>. DEFINE e == CB!aesd_circular_buffer_find_entry_offset_for_fpos(loc[p].pos)
<1>1. /\ pc \in [Proc -> Steps] /\ pc[p] = "find"
      /\ loc \in [Proc -> Locals] /\ loc[p].pos \in Nat /\ CB!TypeOK
      /\ f_pos \in [File -> Nat]
      /\ call[p].op = "read" /\ loc[p].out = <<>>
  BY DEF find_entry, DriverInv, Types, HeapInv, IInv, Threads, InHandler, Locals
<1>2. UNCHANGED <<module, opened, f_pos, heap, dev, call>>
  BY DEF find_entry, kernel
<1>3. CASE e = NULL
  <2>1. /\ pc' = [pc EXCEPT ![p] = "return"]
        /\ loc' = [loc EXCEPT ![p].ret = 0]
    BY <1>3 DEF find_entry, EndOfFile, Leave, Returns
  <2>. HIDE DEF e
  <2>2. loc' \in [Proc -> Locals]
    <3>1. \A x \in Int : [loc EXCEPT ![p].ret = x] \in [Proc -> Locals]
      BY <1>1, LocalsStay
    <3>2. 0 \in Int
      OBVIOUS
    <3>. QED  BY <2>1, <3>1, <3>2
  <2>3. InHandler(p)' /\ pc'[p] # "copy_to_user" /\ pc'[p] \notin {"evict", "add"}
    BY <1>1, <2>1 DEF InHandler, Writing
  <2>4. OthersStay(p)
    BY <1>1, <1>2, <2>1 DEF OthersStay
  <2>. QED  BY <1>1, <1>2, <2>2, <2>3, <2>4, QuietStep
<1>4. CASE e # NULL
  <2>1. /\ pc' = [pc EXCEPT ![p] = "copy_to_user"]
        /\ loc' = [loc EXCEPT ![p].found = e]
    BY <1>4 DEF find_entry, Found
  <2>2. PICK i \in 0..(CB!TotalEntries - 1) :
          /\ e = [slot |-> CB!Slot(i), offset |-> loc[p].pos - CB!StartOf(i)]
          /\ e \in [slot : CB!Slots, offset : Nat]
          /\ CB!StartOf(i) <= loc[p].pos
          /\ loc[p].pos < CB!StartOf(i + 1)
    BY <1>1, <1>4, Finds
  <2>3. e \in [slot : CB!Slots, offset : Nat]
    BY <2>2
  <2>. HIDE DEF e
  <2>4. loc' \in [Proc -> Locals]
    BY <1>1, <2>1, <2>3, LocalsStay
  <2>5. loc'[p].found = e /\ loc'[p].pos = loc[p].pos /\ loc'[p].out = loc[p].out
    BY <1>1, <2>1 DEF Locals
  <2>6. HasFound(p)'
    <3>1. UNCHANGED <<entry, in_offs, out_offs, full>>
      BY <1>2 DEF dev
    <3>2. /\ CB!TotalEntries' = CB!TotalEntries
          /\ \A j : CB!Slot(j)' = CB!Slot(j)
          /\ \A j : CB!StartOf(j)' = CB!StartOf(j)
      BY <3>1 DEF CB!TotalEntries, CB!Slot, CB!StartOf
    <3>. QED  BY <2>2, <2>5, <3>2 DEF HasFound
  <2>7. InHandler(p)' /\ pc'[p] \notin {"evict", "add"}
    BY <1>1, <1>2, <2>1, <2>5 DEF InHandler, Writing
  <2>8. OthersStay(p)
    BY <1>1, <1>2, <2>1 DEF OthersStay
  <2>. QED  BY <1>1, <1>2, <2>4, <2>6, <2>7, <2>8, QuietStep
<1>. QED  BY <1>3, <1>4

(* A handler that leaves with an error, or is refused, has changed nothing *)
(* but its result.                                                         *)
LEMMA ReturnsKeeps ==
  ASSUME DriverInv, HeapInv', NEW p \in Proc, NEW ret \in Int, Returns(p, ret),
         pc[p] \notin {"evict", "add"},
         UNCHANGED <<kernel, f_pos, heap, dev>>
  PROVE  DriverInv'
<1>1. /\ pc \in [Proc -> Steps] /\ loc \in [Proc -> Locals] /\ f_pos \in [File -> Nat]
  BY DEF DriverInv, Types, HeapInv, IInv, Threads
<1>2. /\ pc' = [pc EXCEPT ![p] = "return"]
      /\ loc' = [loc EXCEPT ![p].ret = ret]
      /\ UNCHANGED <<module, opened, f_pos, heap, dev, call>>
  BY DEF Returns, kernel
<1>3. loc' \in [Proc -> Locals]
  <2>1. [loc EXCEPT ![p].ret = ret] \in [Proc -> Locals]
    BY <1>1, LocalsStay
  <2>. QED  BY ONLY <1>2, <2>1
<1>4. InHandler(p)' /\ pc'[p] # "copy_to_user" /\ pc'[p] \notin {"evict", "add"}
  BY <1>1, <1>2 DEF InHandler, Writing
<1>5. OthersStay(p)
  BY <1>1, <1>2 DEF OthersStay
<1>. QED  BY <1>1, <1>2, <1>3, <1>4, <1>5, QuietStep

LEMMA CopyKeeps ==
  ASSUME DriverInv, HeapInv', NEW p \in Proc, copy_to_user(p)
  PROVE  DriverInv'
<1>. DEFINE e == entry[loc[p].found.slot]
            from == loc[p].found.offset
            n == Taken(p)
<1>1. /\ pc \in [Proc -> Steps] /\ pc[p] = "copy_to_user"
      /\ loc \in [Proc -> Locals] /\ f_pos \in [File -> Nat]
      /\ UNCHANGED <<kernel, f_pos, heap, dev>>
  BY DEF copy_to_user, DriverInv, Types, HeapInv, IInv, Threads
<1>2. CASE Leave(p, EFAULT)
  <2>1. EFAULT \in Int
    BY DEF EFAULT
  <2>. QED  BY <1>1, <1>2, <2>1, ReturnsKeeps DEF Leave
<1>3. CASE /\ pc' = [pc EXCEPT ![p] = "return"]
           /\ loc' = [loc EXCEPT ![p].ret = n,
                                 ![p].pos = @ + n,
                                 ![p].out = Slice(e, from, n)]
  <2>1. PICK i : TakesFrom(p, i)
    BY <1>1, ReadTakes
  <2>2. n \in Nat /\ loc[p].pos \in Nat
    BY <2>1 DEF TakesFrom
  <2>3. Slice(e, from, n) \in Seq(Byte)
    <3>1. /\ e = entry[CB!Slot(i)] /\ heap[e.buffptr] \in Seq(Byte)
          /\ from \in Nat
          /\ from + n <= Len(heap[e.buffptr])
      <4>. DEFINE b == entry[CB!Slot(i)]
                  pos == loc[p].pos
                  start == CB!StartOf(i)
      <4>1. /\ loc[p].found.slot = CB!Slot(i) /\ from = pos - start
            /\ heap[b.buffptr] \in Seq(Byte) /\ b.size = Len(heap[b.buffptr])
            /\ start \in Nat /\ pos \in Nat /\ start <= pos /\ n \in Nat
            /\ pos + n <= start + b.size
        BY ONLY <2>1 DEF TakesFrom
      <4>2. e = b
        BY <4>1
      <4>. HIDE DEF e, from, n, pos, start
      <4>3. b.size \in Nat
        BY ONLY <4>1
      <4>4. from \in Nat /\ from + n <= b.size
        BY ONLY <4>1, <4>3
      <4>. QED  BY ONLY <4>1, <4>2, <4>4
    <3>. DEFINE s == heap[e.buffptr]
    <3>. HIDE DEF e, from, n, s
    <3>2. SubSeq(s, from + 1, from + n) \in Seq(Byte)
      <4>1. from + n \in Nat /\ from <= from + n /\ s \in Seq(Byte) /\ from + n <= Len(s)
        <5>1. from + n \in Nat /\ from <= from + n
          BY ONLY <2>2, <3>1
        <5>. QED  BY ONLY <3>1, <5>1 DEF s
      <4>. QED  BY ONLY <3>1, <4>1, PieceOfSeq
    <3>. QED  BY <3>2 DEF Slice, s
  <2>. DEFINE data == Slice(e, from, n)
              mine == [loc[p] EXCEPT !.ret = n, !.pos = @ + n, !.out = data]
  <2>4. loc' \in [Proc -> Locals]
    <3>1. loc[p] \in Locals /\ data \in Seq(Byte) /\ n \in Nat /\ loc[p].pos + n \in Nat /\ n \in Int
      BY <1>1, <2>2, <2>3
    <3>2. loc' = [loc EXCEPT ![p] = mine]
      BY <1>1, <1>3
    <3>. HIDE DEF e, from, n, data
    <3>3. mine \in Locals
      BY <3>1 DEF Locals
    <3>. HIDE DEF mine
    <3>. QED  BY <1>1, <3>2, <3>3
  <2>. HIDE DEF e, from, n
  <2>5. InHandler(p)' /\ pc'[p] # "copy_to_user" /\ pc'[p] \notin {"evict", "add"}
    BY <1>1, <1>3 DEF InHandler, Writing
  <2>6. OthersStay(p)
    BY <1>1, <1>3 DEF OthersStay, kernel
  <2>. QED  BY <1>1, <2>4, <2>5, <2>6, QuietStep DEF kernel
<1>. QED  BY <1>2, <1>3 DEF copy_to_user, Taken

(* llseek and seekto: either nothing happens, or a position is noted.      *)
LEMMA TargetKeeps ==
  ASSUME DriverInv, HeapInv', NEW p \in Proc, NEW valid \in BOOLEAN, NEW target,
         valid => target \in Nat,
         pc[p] \in {"llseek", "seekto"}, Target(p, valid, target)
  PROVE  DriverInv'
<1>1. /\ pc \in [Proc -> Steps] /\ loc \in [Proc -> Locals] /\ f_pos \in [File -> Nat]
      /\ call[p].op \in {"llseek", "seekto"} /\ loc[p].out = <<>>
      /\ UNCHANGED <<kernel, f_pos, heap, dev>>
  BY DEF DriverInv, Types, HeapInv, IInv, Threads, InHandler, Target
<1>2. CASE Leave(p, EINVAL)
  <2>1. EINVAL \in Int
    BY DEF EINVAL
  <2>. QED  BY <1>1, <1>2, <2>1, ReturnsKeeps DEF Leave
<1>3. CASE /\ valid
           /\ pc' = [pc EXCEPT ![p] = "store_pos"]
           /\ loc' = [loc EXCEPT ![p].new_pos = target]
  <2>1. loc' \in [Proc -> Locals] /\ loc'[p].out = loc[p].out
    BY <1>1, <1>3, LocalsStay DEF Locals
  <2>2. InHandler(p)' /\ pc'[p] # "copy_to_user" /\ pc'[p] \notin {"evict", "add"}
    BY <1>1, <1>3, <2>1 DEF InHandler, Writing, kernel
  <2>3. OthersStay(p)
    BY <1>1, <1>3 DEF OthersStay, kernel
  <2>. QED  BY <1>1, <2>1, <2>2, <2>3, QuietStep DEF kernel
<1>. QED  BY <1>2, <1>3 DEF Target

LEMMA SeekKeeps ==
  ASSUME DriverInv, HeapInv', NEW p \in Proc, llseek(p) \/ seekto(p)
  PROVE  DriverInv'
<1>1. call[p] \in Call[p] /\ f_pos \in [File -> Nat] /\ CB!TypeOK
  BY DEF llseek, seekto, DriverInv, Types, HeapInv, IInv, Threads
<1>2. Capacity \in Nat /\ CB!TotalEntries \in 0..Capacity /\ CB!TotalSize \in Nat
  BY <1>1, SlotsAreThere, LiveSlots, Starts DEF CB!TotalSize
<1>3. CASE llseek(p)
  <2>. DEFINE c == call[p]
              new_pos == CASE c.whence = "SEEK_SET" -> c.offset
                           [] c.whence = "SEEK_CUR" -> f_pos[c.file] + c.offset
                           [] c.whence = "SEEK_END" -> CB!TotalSize + c.offset
                           [] OTHER                 -> -1
  <2>1. pc[p] = "llseek" /\ Target(p, InBounds(new_pos), new_pos)
    BY <1>3 DEF llseek
  <2>2. c.op = "llseek"
    BY <2>1 DEF DriverInv, InHandler
  <2>3. c.offset \in Int /\ f_pos[c.file] \in Nat
    BY <1>1, <2>2, CallAssumption
  <2>4. new_pos \in Int
    BY <1>2, <2>3
  <2>. HIDE DEF new_pos, c
  <2>5. InBounds(new_pos) \in BOOLEAN /\ (InBounds(new_pos) => new_pos \in Nat)
    BY <1>2, <2>4 DEF InBounds
  <2>. QED  BY <2>1, <2>5, TargetKeeps
<1>4. CASE seekto(p)
  <2>. DEFINE c == call[p]
              target == CB!StartOf(c.write_cmd) + c.write_cmd_offset
  <2>1. pc[p] = "seekto" /\ Target(p, Exists(c), target)
    BY <1>4 DEF seekto
  <2>2. c.op = "seekto"
    BY <2>1 DEF DriverInv, InHandler
  <2>3. c.write_cmd \in Nat /\ c.write_cmd_offset \in Nat
    BY <1>1, <2>2, CallAssumption
  <2>4. Exists(c) => target \in Nat
    <3>1. Exists(c) => c.write_cmd \in 0..Capacity
      BY <1>2, <2>3 DEF Exists
    <3>. QED  BY <1>1, <2>3, <3>1, Starts
  <2>5. Exists(c) \in BOOLEAN
    BY DEF Exists
  <2>. HIDE DEF target, c
  <2>. QED  BY <2>1, <2>4, <2>5, TargetKeeps
<1>. QED  BY <1>3, <1>4

LEMMA StorePosKeeps ==
  ASSUME DriverInv, HeapInv', NEW p \in Proc, store_pos(p)
  PROVE  DriverInv'
<1>1. /\ pc \in [Proc -> Steps] /\ pc[p] = "store_pos"
      /\ loc \in [Proc -> Locals] /\ loc[p].new_pos \in Nat /\ f_pos \in [File -> Nat]
      /\ UNCHANGED <<kernel, heap, dev>>
      /\ f_pos' = [f_pos EXCEPT ![call[p].file] = loc[p].new_pos]
  BY DEF store_pos, DriverInv, Types, HeapInv, IInv, Threads, Locals
<1>. DEFINE ret == IF call[p].op = "llseek" THEN loc[p].new_pos ELSE 0
<1>2. /\ pc' = [pc EXCEPT ![p] = "return"]
      /\ loc' = [loc EXCEPT ![p].ret = ret]
      /\ ret \in Int
  BY <1>1 DEF store_pos, Leave, Returns
<1>. HIDE DEF ret
<1>3. f_pos' \in [File -> Nat]
  BY <1>1
<1>4. loc' \in [Proc -> Locals]
  BY <1>1, <1>2, LocalsStay
<1>5. InHandler(p)' /\ pc'[p] # "copy_to_user" /\ pc'[p] \notin {"evict", "add"}
  BY <1>1, <1>2 DEF InHandler, Writing
<1>6. OthersStay(p)
  BY <1>1, <1>2 DEF OthersStay, kernel
<1>. QED  BY <1>1, <1>3, <1>4, <1>5, <1>6, QuietStep DEF kernel

(* The kernel's steps around a handler.                                    *)
LEMMA CallKeeps ==
  ASSUME DriverInv, HeapInv', NEW p \in Proc
  PROVE  /\ \A c \in Call[p] : SysCall(p, c) => DriverInv'
         /\ Reject(p) \/ Interrupted(p) => DriverInv'
         /\ Lock(p) => DriverInv'
         /\ SysReturn(p) => DriverInv'
<1>1. ASSUME NEW c \in Call[p], SysCall(p, c) PROVE DriverInv'
  <2>. DEFINE pos == IF c.op \in {"read", "write"} THEN f_pos[c.file] ELSE 0
  <2>1. /\ pc \in [Proc -> Steps] /\ loc \in [Proc -> Locals] /\ f_pos \in [File -> Nat]
        /\ pc[p] = "idle" /\ loc[p].out = <<>>
        /\ UNCHANGED <<module, opened, f_pos, heap, dev>>
        /\ call' = [call EXCEPT ![p] = c]
        /\ pc' = [pc EXCEPT ![p] = "enter"]
        /\ loc' = [loc EXCEPT ![p].pos = pos]
    BY <1>1 DEF SysCall, DriverInv, Types, HeapInv, IInv, Threads, InHandler
  <2>2. pos \in Nat
    BY <2>1, CallAssumption
  <2>. HIDE DEF pos
  <2>3. loc' \in [Proc -> Locals] /\ loc'[p].out = loc[p].out
    BY <2>1, <2>2, LocalsStay DEF Locals
  <2>4. InHandler(p)' /\ pc'[p] # "copy_to_user" /\ pc'[p] \notin {"evict", "add"}
    BY <2>1, <2>3 DEF InHandler, Writing
  <2>5. OthersStay(p)
    BY <2>1 DEF OthersStay
  <2>. QED  BY <2>1, <2>3, <2>4, <2>5, QuietStep
<1>2. ASSUME Reject(p) \/ Interrupted(p) PROVE DriverInv'
  <2>1. CASE Reject(p)
    <3>1. PICK ret \in EarlyErrors(call[p]) : Returns(p, ret)
      BY <2>1 DEF Reject
    <3>2. ret \in Int
      BY <3>1 DEF EarlyErrors, EINVAL, EFAULT, ENOTTY
    <3>. QED  BY <2>1, <3>1, <3>2, ReturnsKeeps DEF Reject
  <2>2. CASE Interrupted(p)
    <3>1. ERESTARTSYS \in Int
      BY DEF ERESTARTSYS
    <3>. QED  BY <2>2, <3>1, ReturnsKeeps DEF Interrupted
  <2>. QED  BY <1>2, <2>1, <2>2
<1>3. ASSUME Lock(p) PROVE DriverInv'
  <2>. DEFINE to == FirstStep(call[p])
  <2>1. /\ pc \in [Proc -> Steps] /\ loc \in [Proc -> Locals] /\ f_pos \in [File -> Nat]
        /\ pc[p] = "enter" /\ loc[p].out = <<>>
        /\ UNCHANGED <<kernel, f_pos, heap, dev, loc>>
        /\ pc' = [pc EXCEPT ![p] = to]
    BY <1>3 DEF Lock, DriverInv, Types, HeapInv, IInv, Threads, InHandler
  <2>2. \/ to = "find" /\ call[p].op = "read"
        \/ to = "alloc" /\ call[p].op = "write" /\ call[p].data # <<>>
        \/ to = "llseek" /\ call[p].op = "llseek"
        \/ to = "seekto" /\ call[p].op = "seekto"
    BY <1>3, FirstStepOf DEF Lock, DriverInv, HeapInv
  <2>. HIDE DEF to
  <2>3. InHandler(p)' /\ pc'[p] # "copy_to_user" /\ pc'[p] \notin {"evict", "add"}
    BY <2>1, <2>2 DEF InHandler, Writing, kernel
  <2>4. OthersStay(p)
    BY <2>1 DEF OthersStay, kernel
  <2>. QED  BY <2>1, <2>3, <2>4, QuietStep DEF kernel
<1>4. ASSUME SysReturn(p) PROVE DriverInv'
  <2>1. /\ pc \in [Proc -> Steps] /\ loc \in [Proc -> Locals] /\ f_pos \in [File -> Nat]
        /\ pc[p] = "return" /\ loc[p].pos \in Nat
        /\ UNCHANGED <<module, opened, heap, dev>>
        /\ pc' = [pc EXCEPT ![p] = "idle"]
        /\ loc' = [loc EXCEPT ![p] = NoLocals]
        /\ call' = [call EXCEPT ![p] = NULL]
    BY <1>4 DEF SysReturn, DriverInv, Types, HeapInv, IInv, Threads, Locals
  <2>2. f_pos' \in [File -> Nat]
    BY <1>4, <2>1 DEF SysReturn
  <2>3. loc' \in [Proc -> Locals]
    BY <2>1, NothingIsTyped
  <2>4. InHandler(p)' /\ pc'[p] # "copy_to_user" /\ pc'[p] \notin {"evict", "add"}
    <3>1. call'[p] = NULL
      BY <2>1 DEF DriverInv, HeapInv, IInv, Threads
    <3>. QED  BY <2>1, <3>1 DEF InHandler, Writing, NoLocals
  <2>5. OthersStay(p)
    BY <2>1 DEF OthersStay, DriverInv, HeapInv, IInv, Threads
  <2>. QED  BY <2>1, <2>2, <2>3, <2>4, <2>5, QuietStep
<1>. QED  BY <1>1, <1>2, <1>3, <1>4

-----------------------------------------------------------------------------
(* Opening, closing, loading and unloading.                                *)

(* Nothing of what a thread knows changes.                                 *)
LEMMA KernelStep ==
  ASSUME DriverInv, HeapInv', UNCHANGED threads,
         UNCHANGED buffer \/ opened = {},
         Types', LivePointers', Fresh', PendingOpen'
  PROVE  DriverInv'
<1>1. UNCHANGED <<pc, call, loc>>
  BY DEF threads
<1>2. ASSUME NEW q \in Proc PROVE InHandler(q)'
  BY <1>1 DEF DriverInv, InHandler
<1>3. ASSUME NEW q \in Proc, pc'[q] = "copy_to_user" PROVE HasFound(q)'
  <2>1. HasFound(q) /\ opened # {}
    BY <1>1, <1>3 DEF DriverInv, HeapInv, IInv, InUse
  <2>2. UNCHANGED <<entry, in_offs, out_offs, full>>
    BY <2>1 DEF buffer
  <2>3. loc'[q] = loc[q]
    BY <1>1
  <2>. QED  BY ONLY <2>1, <2>2, <2>3, FoundStays
<1>. QED  BY <1>2, <1>3 DEF DriverInv

LEMMA ModuleKeeps ==
  ASSUME DriverInv, HeapInv'
  PROVE  /\ \A f \in File : aesd_open(f) \/ aesd_release(f) => DriverInv'
         /\ Module => DriverInv'
<1>1. ASSUME NEW f \in File, aesd_open(f) \/ aesd_release(f) PROVE DriverInv'
  <2>1. /\ UNCHANGED <<module, heap, entry, in_offs, out_offs, full, write_buf, write_buf_size>>
        /\ UNCHANGED <<pc, call, loc>>
        /\ opened' \subseteq File /\ f_pos' \in [File -> Nat]
    BY <1>1 DEF aesd_open, aesd_release, dev, threads, DriverInv, Types
  <2>2. Types'
    BY <2>1 DEF DriverInv, Types, CB!TypeOK, Locals
  <2>3. LivePointers' /\ Fresh'
    BY <2>1 DEF DriverInv, LivePointers, Fresh, Live
  <2>4. PendingOpen'
    BY <2>1 DEF DriverInv, PendingOpen, Committing
  <2>. QED  BY <2>1, <2>2, <2>3, <2>4, KernelStep DEF threads, buffer
<1>2. ASSUME Module PROVE DriverInv'
  <2>. USE DEF threads, dev, buffer
  <2>1. UNCHANGED <<opened, f_pos, pc, call, loc>>
    BY <1>2 DEF Module, alloc_chrdev_region, init_device, aesd_setup_cdev, aesd_cleanup_device, aesd_exit
  <2>2. Types
    BY DEF DriverInv
  <2>3. CASE alloc_chrdev_region \/ aesd_exit
    <3>1. /\ UNCHANGED <<heap, entry, in_offs, out_offs, full, write_buf, write_buf_size>>
          /\ module' \in {"region", "absent"}
      BY <2>3 DEF alloc_chrdev_region, aesd_exit
    <3>2. Types'
      BY <2>1, <2>2, <3>1 DEF Types, CB!TypeOK, Locals
    <3>3. LivePointers' /\ Fresh'
      BY <3>1 DEF LivePointers, Fresh
    <3>4. PendingOpen'
      BY <2>1, <3>1 DEF DriverInv, PendingOpen, Committing
    <3>. QED  BY <2>1, <3>1, <3>2, <3>3, <3>4, KernelStep
  <2>4. CASE init_device
    <3>1. /\ module = "region" /\ module' = "initialised"
          /\ entry' = [s \in CB!Slots |-> CB!NullEntry]
          /\ in_offs' = 0 /\ out_offs' = 0 /\ full' = FALSE
          /\ write_buf' = NULL /\ write_buf_size' = 0
      BY <2>4 DEF init_device, CB!aesd_circular_buffer_init, CB!Zeroed
    <3>2. Types'
      <4>1. CB!NullEntry \in CB!Entry /\ 0 \in CB!Slots
        BY NothingIsTyped, SlotsAreThere
      <4>2. CB!TypeOK'
        BY <3>1, <4>1 DEF CB!TypeOK
      <4>. QED  BY <2>1, <2>2, <3>1, <4>2 DEF Types, Locals
    <3>3. LivePointers' /\ Fresh' /\ PendingOpen'
      BY <3>1 DEF LivePointers, Fresh, PendingOpen
    <3>4. opened = {}
      BY <3>1 DEF DriverInv, HeapInv, IInv, InUse
    <3>. QED  BY <2>1, <3>2, <3>3, <3>4, KernelStep
  <2>5. CASE aesd_setup_cdev
    <3>1. /\ UNCHANGED <<heap, entry, in_offs, out_offs, full, write_buf, write_buf_size>>
          /\ module = "initialised" /\ module' \in {"live", "absent"}
      BY <2>5 DEF aesd_setup_cdev
    <3>2. Types'
      BY <2>1, <2>2, <3>1 DEF Types, CB!TypeOK, Locals
    <3>3. LivePointers'
      <4>1. ~full /\ in_offs = out_offs /\ in_offs \in Nat
        BY <2>2, <3>1, SlotsAreThere DEF DriverInv, Fresh, Types, CB!TypeOK
      <4>2. \A s \in CB!Slots : ~Live(s)
        BY <4>1, SlotsAreThere DEF Live
      <4>. QED  BY <3>1, <4>2 DEF LivePointers, Live
    <3>4. Fresh'
      BY <3>1 DEF Fresh
    <3>5. PendingOpen'
      BY <2>1, <3>1 DEF DriverInv, PendingOpen, Committing
    <3>. QED  BY <2>1, <3>1, <3>2, <3>3, <3>4, <3>5, KernelStep
  <2>6. CASE aesd_cleanup_device
    <3>1. /\ opened = {} /\ module' = "going" /\ UNCHANGED <<in_offs, out_offs, full>>
          /\ write_buf' = NULL /\ write_buf_size' \in {write_buf_size, 0}
          /\ entry' = [s \in CB!Slots |-> IF entry[s].buffptr = NULL
                                          THEN entry[s] ELSE CB!NullEntry]
      BY <2>6 DEF aesd_cleanup_device
    <3>2. Types'
      <4>1. entry' \in [CB!Slots -> CB!Entry]
        BY <2>2, <3>1, NothingIsTyped DEF Types, CB!TypeOK
      <4>2. CB!TypeOK'
        BY <2>2, <3>1, <4>1 DEF Types, CB!TypeOK
      <4>. QED  BY <2>1, <2>2, <3>1, <4>2 DEF Types, Locals
    <3>3. LivePointers' /\ Fresh' /\ PendingOpen'
      BY <3>1 DEF LivePointers, Fresh, PendingOpen
    <3>. QED  BY <2>1, <3>1, <3>2, <3>3, KernelStep
  <2>. QED  BY <1>2, <2>3, <2>4, <2>5, <2>6 DEF Module
<1>. QED  BY <1>1, <1>2

-----------------------------------------------------------------------------
(* The steps of a write.                                                   *)

(* Who is between its lock and its unlock is alone there, with the module  *)
(* loaded.                                                                 *)
LEMMA Alone ==
  ASSUME HeapInv, NEW p \in Proc, pc[p] \in LockedSteps
  PROVE  /\ lock = p /\ module = "live"
         /\ \A q \in Proc : q # p => pc[q] \notin LockedSteps
         /\ \A q \in Proc : q # p => pc[q] \notin {"evict", "add"}
         /\ pc[p] \notin {"evict", "add"} => ~Committing
<1>1. lock = p /\ \A q \in Proc : q # p => pc[q] \notin LockedSteps
  BY DEF HeapInv, IInv, LockDiscipline
<1>2. {"evict", "add"} \subseteq LockedSteps
  BY DEF LockedSteps
<1>3. pc[p] # "idle"
  BY DEF LockedSteps
<1>4. module = "live"
  BY <1>3 DEF HeapInv, IInv, InUse
<1>. QED  BY <1>1, <1>2, <1>4 DEF Committing

LEMMA AllocateKeeps ==
  ASSUME DriverInv, HeapInv', NEW p \in Proc, kmalloc_tmp(p)
  PROVE  DriverInv'
<1>1. /\ pc \in [Proc -> Steps] /\ loc \in [Proc -> Locals] /\ f_pos \in [File -> Nat]
      /\ pc[p] = "alloc" /\ HeapInv
      /\ UNCHANGED <<kernel, f_pos, dev>>
  BY DEF kmalloc_tmp, DriverInv, Types, HeapInv, IInv, Threads
<1>2. CASE NoMemory(p) /\ UNCHANGED heap
  <2>1. ENOMEM \in Int
    BY DEF ENOMEM
  <2>. QED  BY <1>1, <1>2, <2>1, ReturnsKeeps DEF NoMemory, Leave
<1>3. ASSUME NEW b \in kmalloc, heap' = [heap EXCEPT ![b] = <<>>],
             loc' = [loc EXCEPT ![p].tmp_buf = b],
             pc' = [pc EXCEPT ![p] = "append"]
      PROVE  DriverInv'
  <2>1. b \in Block /\ heap[b] = Free
    BY <1>3, KmallocIsFree
  <2>2. /\ UNCHANGED <<module, opened, f_pos, entry, in_offs, out_offs, full,
                       write_buf, write_buf_size, call>>
    BY <1>1 DEF kernel, dev
  <2>3. loc' \in [Proc -> Locals] /\ loc'[p].out = loc[p].out
    <3>1. b \in Block \cup {NULL}
      BY <2>1
    <3>2. loc' \in [Proc -> Locals]
      BY <1>1, <1>3, <3>1, LocalsStay
    <3>. QED  BY <1>1, <1>3, <3>2 DEF Locals
  <2>4. Types'
    BY <2>2, <2>3 DEF DriverInv, Types, CB!TypeOK, Locals
  <2>5. /\ \A q \in Proc : /\ pc'[q] = "add" <=> pc[q] = "add"
                           /\ pc'[q] = "evict" <=> pc[q] = "evict"
    BY <1>1, <1>3
  <2>6. LivePointers' /\ Fresh'
    BY <2>2, <2>5 DEF DriverInv, LivePointers, Fresh, Live
  <2>7. PendingOpen'
    <3>1. write_buf # NULL => write_buf # b
      BY <2>1 DEF DriverInv, HeapInv, Memory, InUseIsPointed, Pointed
    <3>2. write_buf # NULL => heap'[write_buf] = heap[write_buf]
      BY <1>3, <2>1, <3>1 DEF DriverInv, HeapInv, Memory
    <3>. QED  BY <2>2, <2>5, <3>2 DEF DriverInv, PendingOpen, Committing
  <2>8. InHandler(p)' /\ pc'[p] # "copy_to_user"
    BY <1>1, <1>3, <2>2, <2>3 DEF DriverInv, InHandler, Writing
  <2>9. OthersStay(p)
    BY <1>1, <1>3, <2>2 DEF OthersStay
  <2>. QED  BY <1>1, <2>2, <2>4, <2>6, <2>7, <2>8, <2>9, ThreadStep DEF buffer
<1>. QED  BY <1>2, <1>3 DEF kmalloc_tmp

LEMMA FreeKeeps ==
  ASSUME DriverInv, HeapInv', NEW p \in Proc, out_free(p)
  PROVE  DriverInv'
<1>. DEFINE b == loc[p].tmp_buf
<1>1. /\ pc \in [Proc -> Steps] /\ loc \in [Proc -> Locals] /\ f_pos \in [File -> Nat]
      /\ pc[p] = "out_free" /\ HeapInv
      /\ heap' = [heap EXCEPT ![b] = Free]
      /\ loc' = [loc EXCEPT ![p].tmp_buf = NULL]
      /\ pc' = [pc EXCEPT ![p] = "return"]
      /\ UNCHANGED <<module, opened, f_pos, entry, in_offs, out_offs, full,
                     write_buf, write_buf_size, call>>
  BY DEF out_free, kernel, dev, DriverInv, Types, HeapInv, IInv, Threads
<1>2. loc' \in [Proc -> Locals]
  <2>1. NULL \in Block \cup {NULL}
    OBVIOUS
  <2>. QED  BY <1>1, <2>1, LocalsStay
<1>3. Types'
  BY <1>1, <1>2 DEF DriverInv, Types, CB!TypeOK, Locals
<1>4. \A q \in Proc : /\ pc'[q] = "add" <=> pc[q] = "add"
                      /\ pc'[q] = "evict" <=> pc[q] = "evict"
  BY <1>1
<1>5. LivePointers' /\ Fresh'
  BY <1>1, <1>4 DEF DriverInv, LivePointers, Fresh, Live
<1>6. PendingOpen'
  <2>1. write_buf # NULL => write_buf # b
    BY <1>1 DEF HeapInv, Memory, OneOwner, Writing
  <2>. HIDE DEF b
  <2>2. write_buf # NULL => heap'[write_buf] = heap[write_buf]
    BY <1>1, <2>1 DEF HeapInv, Memory
  <2>. QED  BY <1>1, <1>4, <2>2 DEF DriverInv, PendingOpen, Committing
<1>7. InHandler(p)' /\ pc'[p] # "copy_to_user"
  BY <1>1 DEF InHandler, Writing
<1>8. OthersStay(p)
  BY <1>1 DEF OthersStay
<1>. QED  BY <1>1, <1>3, <1>5, <1>6, <1>7, <1>8, ThreadStep DEF buffer

LEMMA AppendStepKeeps ==
  ASSUME DriverInv, HeapInv', NEW p \in Proc, append(p)
  PROVE  DriverInv'
<1>. DEFINE data == call[p].data
<1>1. /\ pc \in [Proc -> Steps] /\ loc \in [Proc -> Locals] /\ f_pos \in [File -> Nat]
      /\ pc[p] = "append" /\ HeapInv /\ loc[p].out = <<>>
      /\ call[p].op = "write" /\ data # <<>>
      /\ UNCHANGED <<module, opened, f_pos, entry, in_offs, out_offs, full, call>>
  BY DEF append, kernel, buffer, DriverInv, Types, HeapInv, IInv, Threads, InHandler, Writing
<1>2. data \in Seq(Byte)
  BY <1>1, CallAssumption DEF HeapInv, IInv, Threads
<1>3. /\ NewBuf(data) \in Seq(Byte) /\ Len(NewBuf(data)) = NewSize(data)
      /\ Len(data) \in Int
  BY <1>1, <1>2, NewBufIsThere
<1>. HIDE DEF data
<1>4. ASSUME NEW ret \in Int, loc' = [loc EXCEPT ![p].ret = ret],
             pc' = [pc EXCEPT ![p] = "out_free"],
             UNCHANGED <<heap, write_buf, write_buf_size>>
      PROVE  DriverInv'
  <2>1. loc' \in [Proc -> Locals] /\ loc'[p].out = loc[p].out
    BY <1>1, <1>4, LocalsStay DEF Locals
  <2>2. InHandler(p)' /\ pc'[p] # "copy_to_user" /\ pc'[p] \notin {"evict", "add"}
    BY <1>1, <1>4, <2>1 DEF InHandler, Writing, data
  <2>3. OthersStay(p)
    BY <1>1, <1>4 DEF OthersStay
  <2>. QED  BY <1>1, <1>4, <2>1, <2>2, <2>3, QuietStep DEF dev
<1>5. ASSUME NEW b, b \in IF write_buf = NULL THEN kmalloc ELSE krealloc(write_buf),
             heap' = [x \in Block |-> IF x = b THEN NewBuf(data)
                                      ELSE IF x = write_buf THEN Free ELSE heap[x]],
             write_buf' = b, write_buf_size' = NewSize(data),
             \/ /\ Contains(NewBuf(data), Newline)
                /\ pc' = [pc EXCEPT ![p] = "evict"]
                /\ UNCHANGED loc
             \/ /\ ~Contains(NewBuf(data), Newline)
                /\ pc' = [pc EXCEPT ![p] = "out_free"]
                /\ loc' = [loc EXCEPT ![p].ret = Len(data)]
      PROVE  DriverInv'
  <2>1. b \in Block
    BY <1>1, <1>5, KmallocIsFree DEF krealloc, HeapInv, Memory
  <2>2. loc' \in [Proc -> Locals] /\ loc'[p].out = loc[p].out
    <3>1. CASE UNCHANGED loc
      BY <1>1, <3>1
    <3>2. CASE loc' = [loc EXCEPT ![p].ret = Len(data)]
      <4>1. loc' \in [Proc -> Locals]
        BY <1>1, <1>3, <3>2, LocalsStay
      <4>. QED  BY <1>1, <3>2, <4>1 DEF Locals
    <3>. QED  BY <1>5, <3>1, <3>2
  <2>3. NewSize(data) \in Nat
    BY <1>3
  <2>4. Types'
    BY <1>1, <1>5, <2>2, <2>3 DEF DriverInv, Types, CB!TypeOK, Locals
  <2>5. \A q \in Proc : pc[q] # "add" /\ pc'[q] # "add"
    <3>1. \A q \in Proc : q # p => pc[q] # "add"
      BY <1>1, Alone DEF LockedSteps
    <3>. QED  BY <1>1, <1>5, <3>1
  <2>6. LivePointers' /\ Fresh'
    BY <1>1, <2>5 DEF DriverInv, LivePointers, Fresh, Live
  <2>7. PendingOpen'
    <3>1. heap'[b] = NewBuf(data)
      BY <1>5, <2>1
    <3>2. CASE Contains(NewBuf(data), Newline)
      <4>1. pc'[p] = "evict"
        BY <1>1, <1>5, <3>2
      <4>. QED  BY <4>1 DEF PendingOpen, Committing
    <3>3. CASE ~Contains(NewBuf(data), Newline)
      BY <1>5, <3>1, <3>3 DEF PendingOpen
    <3>. QED  BY <3>2, <3>3
  <2>8. InHandler(p)' /\ pc'[p] # "copy_to_user"
    BY <1>1, <1>5, <2>2 DEF InHandler, Writing, data
  <2>9. OthersStay(p)
    BY <1>1, <1>5 DEF OthersStay
  <2>. QED  BY <1>1, <2>4, <2>6, <2>7, <2>8, <2>9, ThreadStep DEF buffer
<1>6. EFAULT \in Int /\ ENOMEM \in Int
  BY DEF EFAULT, ENOMEM
<1>. QED  BY <1>4, <1>5, <1>6 DEF append, data

LEMMA EvictStepKeeps ==
  ASSUME DriverInv, HeapInv', NEW p \in Proc, evict(p)
  PROVE  DriverInv'
<1>1. /\ pc \in [Proc -> Steps] /\ pc[p] = "evict" /\ HeapInv /\ Types
      /\ pc' = [pc EXCEPT ![p] = "add"]
      /\ UNCHANGED <<module, opened, f_pos, in_offs, out_offs, full, write_buf,
                     write_buf_size, call, loc>>
      /\ \/ MustFree /\ entry' = [entry EXCEPT ![out_offs] = CB!NullEntry]
         \/ entry' = entry
  BY DEF evict, kernel, DriverInv, HeapInv, IInv, Threads
<1>2. entry' \in [CB!Slots -> CB!Entry]
  BY <1>1, NothingIsTyped DEF Types, CB!TypeOK
<1>3. Types'
  BY <1>1, <1>2 DEF Types, CB!TypeOK, Locals
<1>4. LivePointers'
  <2>1. \A q \in Proc : pc[q] # "add"
    BY <1>1, Alone DEF LockedSteps
  <2>2. \A s \in CB!Slots : \/ entry'[s] = entry[s]
                            \/ full /\ s = out_offs
    BY <1>1 DEF MustFree, Types, CB!TypeOK
  <2>3. pc'[p] = "add"
    BY <1>1
  <2>. QED  BY <1>1, <2>1, <2>2, <2>3 DEF DriverInv, LivePointers, Live
<1>5. Fresh'
  BY <1>1 DEF DriverInv, Fresh
<1>6. PendingOpen'
  BY <1>1 DEF PendingOpen, Committing
<1>7. InHandler(p)' /\ pc'[p] # "copy_to_user"
  BY <1>1 DEF DriverInv, InHandler, Writing
<1>8. OthersStay(p)
  BY <1>1 DEF OthersStay
<1>. QED  BY <1>1, <1>3, <1>4, <1>5, <1>6, <1>7, <1>8, ThreadStep DEF LockedSteps

LEMMA AddStepKeeps ==
  ASSUME DriverInv, HeapInv', NEW p \in Proc, add(p)
  PROVE  DriverInv'
<1>. DEFINE e == [buffptr |-> write_buf, size |-> write_buf_size]
<1>1. /\ pc \in [Proc -> Steps] /\ pc[p] = "add" /\ HeapInv /\ Types
      /\ write_buf # NULL /\ loc \in [Proc -> Locals]
  BY DEF add, DriverInv, HeapInv, IInv, Threads, NothingOverwritten, Types
<1>2. /\ pc' = [pc EXCEPT ![p] = "out_free"]
      /\ loc' = [loc EXCEPT ![p].ret = Len(call[p].data)]
      /\ UNCHANGED <<module, opened, f_pos, heap, call>>
      /\ write_buf' = NULL /\ write_buf_size' = 0
      /\ entry' = [entry EXCEPT ![in_offs] = e]
      /\ out_offs' = IF full THEN CB!Advance(out_offs) ELSE out_offs
      /\ in_offs' = CB!Advance(in_offs)
      /\ full' = (in_offs' = out_offs')
  BY <1>1 DEF add, kernel, CB!aesd_circular_buffer_add_entry
<1>3. e \in CB!Entry
  BY <1>1 DEF Types, HeapInv, Memory, CB!Entry
<1>4. loc' \in [Proc -> Locals] /\ loc'[p].out = loc[p].out
  <2>1. call[p].op = "write" /\ call[p] \in Call[p]
    BY <1>1 DEF DriverInv, InHandler, Writing, HeapInv, IInv, Threads
  <2>2. Len(call[p].data) \in Int
    BY <2>1, CallAssumption
  <2>. QED  BY <1>1, <1>2, <2>2, LocalsStay DEF Locals
<1>5. in_offs \in CB!Slots /\ out_offs \in CB!Slots /\ full \in BOOLEAN
      /\ entry \in [CB!Slots -> CB!Entry] /\ (full => in_offs = out_offs)
  BY <1>1 DEF Types, CB!TypeOK, HeapInv, NothingOverwritten
<1>6. Types'
  <2>1. CB!Advance(in_offs) \in CB!Slots /\ CB!Advance(out_offs) \in CB!Slots
    BY <1>5, AdvanceIsNext
  <2>2. CB!TypeOK'
    BY <1>2, <1>3, <1>5, <2>1 DEF CB!TypeOK
  <2>. QED  BY <1>1, <1>2, <1>4, <2>2 DEF Types, Locals
<1>7. LivePointers'
  <2>1. entry'[in_offs].buffptr # NULL
    BY <1>1, <1>2, <1>5
  <2>2. ASSUME NEW s \in CB!Slots, Live(s)', s # in_offs
        PROVE  entry'[s].buffptr # NULL
    <3>1. entry'[s] = entry[s]
      BY <1>2, <1>5, <2>2
    <3>2. Live(s)
      <4>1. CASE full
        BY <4>1 DEF Live
      <4>2. CASE ~full
        <5>1. /\ in_offs' = IF in_offs = Capacity - 1 THEN 0 ELSE in_offs + 1
              /\ out_offs' = out_offs
          BY <1>2, <1>5, <4>2, AdvanceIsNext
        <5>. QED  BY <1>2, <1>5, <2>2, <4>2, <5>1, SlotsAreThere DEF Live
      <4>. QED  BY <4>1, <4>2
    <3>3. ~(full /\ s = out_offs)
      BY <1>5, <2>2
    <3>4. module = "live"
      BY <1>1, Alone DEF LockedSteps
    <3>. QED  BY <3>1, <3>2, <3>3, <3>4 DEF DriverInv, LivePointers
  <2>. QED  BY <1>2, <2>1, <2>2 DEF LivePointers
<1>8. Fresh' /\ PendingOpen'
  <2>1. module = "live"
    BY <1>1, Alone DEF LockedSteps
  <2>. QED  BY <1>2, <2>1 DEF Fresh, PendingOpen
<1>9. InHandler(p)' /\ pc'[p] # "copy_to_user"
  BY <1>1, <1>2, <1>4 DEF DriverInv, InHandler, Writing
<1>10. OthersStay(p)
  BY <1>1, <1>2 DEF OthersStay
<1>. QED  BY <1>1, <1>6, <1>7, <1>8, <1>9, <1>10, ThreadStep DEF LockedSteps

-----------------------------------------------------------------------------

LEMMA DriverInvStep ==
  ASSUME DriverInv, [Next]_vars
  PROVE  DriverInv'
<1>1. HeapInv'
  BY HeapStep DEF DriverInv
<1>2. CASE UNCHANGED vars
  <2>1. UNCHANGED <<module, opened, f_pos, heap, entry, in_offs, out_offs, full,
                    write_buf, write_buf_size, lock, pc, call, loc>>
    BY <1>2 DEF vars
  <2>2. Types'
    BY <2>1 DEF DriverInv, Types, CB!TypeOK, Locals
  <2>3. LivePointers' /\ Fresh' /\ PendingOpen'
    BY <2>1 DEF DriverInv, LivePointers, Fresh, PendingOpen, Live, Committing
  <2>. QED  BY <1>1, <2>1, <2>2, <2>3, KernelStep DEF threads, buffer
<1>3. ASSUME NEW p \in Proc, Handler(p) PROVE DriverInv'
  BY <1>1, <1>3, FindEntryKeeps, CopyKeeps, AllocateKeeps, AppendStepKeeps, EvictStepKeeps,
     AddStepKeeps, FreeKeeps, SeekKeeps, StorePosKeeps DEF Handler
<1>. QED  BY <1>1, <1>2, <1>3, ModuleKeeps, CallKeeps DEF Next

LEMMA DriverInvHolds == Spec => []DriverInv
<1>. QED  BY DriverInvInit, DriverInvStep, PTL DEF Spec

(***************************************************************************)
(* Types.  A position is never negative, whatever offset a seek was asked  *)
(* for, and a size never is, whatever is written and evicted.              *)
(***************************************************************************)
THEOREM TypeCorrect == Spec => []TypeOK
<1>1. DriverInv => TypeOK
  <2>. SUFFICES ASSUME DriverInv PROVE TypeOK
    OBVIOUS
  <2>1. heap \in [Block -> {Free} \cup Seq(Byte)]
    BY DEF DriverInv, HeapInv, Memory
  <2>2. \A p \in Proc : call[p] \in IF pc[p] = "idle" THEN {NULL} ELSE Call[p]
    BY DEF DriverInv, InHandler, HeapInv, IInv, Threads
  <2>. QED  BY <2>1, <2>2 DEF DriverInv, Types, HeapInv, Memory, IInv, Threads, TypeOK
<1>. QED  BY <1>1, DriverInvHolds, PTL

(***************************************************************************)
(* The entry that a read has found is live until the read has copied it,   *)
(* and the offset is inside it: no writer can evict it in between.         *)
(***************************************************************************)
THEOREM FoundDoesStayLive == Spec => []FoundStaysLive
<1>1. DriverInv => FoundStaysLive
  <2>. SUFFICES ASSUME DriverInv, NEW p \in Proc, pc[p] = "copy_to_user"
                PROVE  /\ loc[p].found.slot \in CB!LiveSlots
                       /\ entry[loc[p].found.slot].buffptr # NULL
                       /\ loc[p].found.offset < entry[loc[p].found.slot].size
    BY DEF FoundStaysLive
  <2>1. PICK i : TakesFrom(p, i)
    BY ReadTakes
  <2>2. loc[p].found.slot = CB!Slot(i) /\ i \in 0..(CB!TotalEntries - 1)
    BY <2>1 DEF TakesFrom
  <2>3. loc[p].found.slot \in CB!LiveSlots
    BY <2>2 DEF CB!LiveSlots
  <2>4. entry[CB!Slot(i)].buffptr # NULL
    BY <2>1, BlockAssumption DEF TakesFrom
  <2>5. loc[p].found.offset < entry[CB!Slot(i)].size
    <3>1. /\ loc[p].found.offset = loc[p].pos - CB!StartOf(i)
          /\ CB!StartOf(i) \in Nat /\ loc[p].pos \in Nat
          /\ loc[p].pos < CB!StartOf(i + 1)
          /\ CB!StartOf(i + 1) = CB!StartOf(i) + entry[CB!Slot(i)].size
          /\ entry[CB!Slot(i)].size \in Nat
      BY <2>1 DEF TakesFrom
    <3>. QED  BY ONLY <3>1
  <2>. QED  BY <2>2, <2>3, <2>4, <2>5
<1>. QED  BY <1>1, DriverInvHolds, PTL

=============================================================================
