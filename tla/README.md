# Embedded_linux in TLA+

A verification project for the programs of this repository: the `aesdchar`
character driver with its circular buffer, the `aesdsocket` server that is
built on it, the process and thread examples, and the JavaScript of the pages
of its generated documentation. The modules are written from the code at one
commit; each names the functions it models, and `PROJECT.json` maps every
definition to its lines.

## 1. The system

```
   peers --TCP--> aesdsocket                         (server/)
                    main: accept, create, reap
                    handle_client x n   <- signals
                    timestamp_thread    (regular-file build only)
                       | open, write, read, ioctl, close under file_mutex
                  /dev/aesdchar                      (aesd-char-driver/)
                    aesd_open/release/read/write/llseek/unlocked_ioctl
                       | under dev->lock
                    write_buf  --newline-->  circular buffer of 10 entries

   reader --events--> a documentation page           (docs/html/)
                    search box --timer--> data file --script--> results window
                    menu, directory table, folds in a listing
```

| component | state it keeps | operations | who it interacts with |
|---|---|---|---|
| circular buffer | ten slots (pointer, size), `in_offs`, `out_offs`, `full` | init, add, remove, find by byte offset | called by the driver under `dev->lock` |
| character driver | the buffer, `write_buf` and its size, `lock`, heap blocks, per-file `f_pos` | load, unload, open, release, read, write, llseek, ioctl | the VFS, any number of threads |
| server threads | `keep_running`, `server_socket`, the list of thread nodes, two mutexes | accept, create, reap, client life cycle, timestamp thread, shutdown in a signal handler | the kernel (signals, joins), each other |
| server data path | the chunk in `buffer`, a descriptor, `file_mutex` | receive, test for a seek command, write, answer; timestamps | peers over TCP, the driver or a file |
| systemcalls example | a child process per call, `status` | `do_system`, `do_exec`, `do_exec_redirect` | child processes, signals |
| threading example | one mutex, a `thread_data` per thread | start a thread that locks, waits and unlocks; join it | its threads |
| documentation search | the `SearchBox` object, two timers, the focus, three windows, rows, scripts on their way | key, focus, pointer and click handlers, timers, `onload` of a script | the browser's event loop, data files, the menu |
| search results | rows, which are visible and expanded, the focus, key repeat | `Nav`, `NavChild`, `Toggle` | the search box |
| directory table | rows displayed, arrows, stripes | `toggleLevel`, `toggleFolder` | |
| folds | blocks open, placeholders, images | `toggleVisibility`, `toggleInherit`, `codefold_*` | |
| menu | check box, animation queue, two places for the search box | toggle, resize, `resetState` | the search box |

Hard in it:

- System calls of several threads interleave and fail half-way (allocation,
  copies to and from user space, interrupted lock); ownership of heap blocks
  moves from `tmp_buf` to `write_buf` to a slot to nobody; full and empty buffers
  have equal indices; sums run over a wrapped array.
- Client threads push nodes on a list that main unlinks from; shutdown runs
  inside a signal handler, on top of whatever its thread was doing, and joins
  threads with a mutex locked; TCP cuts messages where it likes.
- Between a key and its search lie half a second, and between a search and its
  results the loading of a script. Keys, timers, scripts, the pointer and the
  focus come in any order, and six handlers each undo part of what another has
  done.

`PROJECT.json` lists these as hazards, each at its line.

What makes each part correct:

- circular buffer: it is a bounded FIFO log; pointers are in the live slots and
  nowhere else; the lookup agrees with the flat concatenation of the entries.
- driver: to threads with files of their own, every call is one atomic step on a
  log of commands plus a pending part; the lock is released on every path; every
  block has one owner; sizes match data; every call returns.
- server threads: nodes are neither lost nor doubled nor freed under their
  thread; reaping neither gets stuck nor leaves finished threads behind; a signal
  ends the process.
- server data path: the locked section is left clean on every path; an answer
  shows the log at the moment its command went in; a seek answer starts where it
  was asked to; seek commands are not written.
- examples: true means that the command succeeded; output goes where it was
  directed; every thread that was started finishes.
- documentation: a text that was typed is searched some time, and its answer is
  complete; a search box that is closed is reset; no window closes under the
  pointer; the arrow keys follow the reading order; what arrows, stripes, images
  and placeholders say of what is shown is true.

## 2. Modules

| module | models | kind |
|---|---|---|
| `CommandLog` | a bounded FIFO log with push, drop, clear | abstract specification |
| `CircularBuffer` | `circular-buffer/src/*.c` | implements `CommandLog` |
| `AesdDevice` | `/dev/aesdchar` with atomic calls; uses `CommandLog` | abstract specification |
| `AesdChar` | `char-driver/src/*.c`, `main.c`; instantiates `CircularBuffer` | implements `AesdDevice` |
| `AesdSocket` | `aesdsocket.c`, `thread_manager.c` (threads, list, timer), `signal_handler.c` | |
| `EchoLog` | what `aesdsocket` does for its clients, a chunk in one step; uses `CommandLog` | abstract specification |
| `AesdSession` | `thread_manager.c` (data path of `handle_client`); uses `CommandLog` | implements `EchoLog` |
| `Systemcalls` | `examples/systemcalls/systemcalls.c` | |
| `Threading` | `examples/threading/threading.c` | |
| `DocIndex` | `createResults`, `Search`, `convertToId` of `search.js`, the data files | operators only |
| `DocSearch` | `SearchBox` and `init_search` of `search.js` | uses `DocIndex` |
| `DocResults` | the keyboard of `SearchResults` in `search.js` | uses `DocIndex` |
| `DocTree` | `toggleLevel`, `toggleFolder`, `updateStripes` of `dynsections.js` | |
| `DocFolds` | the other half of `dynsections.js` | |
| `DocMenu` | `initMenu` of `menu.js` | |
| `DocPage` | a page: the widgets above beside each other | composes `DocSearch`, `DocTree`, `DocResults`, `DocFolds`, `DocMenu` |
| `Examples` | the two examples beside each other | composes `Systemcalls`, `Threading` |
| `SequenceLemmas`, `CircularBufferProofs`, `AesdCharProofs`, `AesdDeviceProofs`, `AesdSocketProofs`, `AesdSessionProofs`, `ExamplesProofs`, `DocPageProofs` | | proofs (section 5) |
| `MC*` | instances for TLC | |

Definitions keep the names of the functions they model. A few small operators
are followed or preceded by a variant marked *Mutant*: the definition with a
plausible bug in it. No specification uses one; they are there so that every
property can be seen to fail when the code is changed that way.

### CircularBuffer

State: `entry`, `in_offs`, `out_offs`, `full`, the fields of
`struct aesd_circular_buffer`. Actions: `aesd_circular_buffer_init`, `_add_entry`,
`_remove_entry`. `_find_entry_offset_for_fpos` is an operator that returns a slot
and an offset. A pointer is an element of `Ptr` and a size one of `Size`; nothing
is read through a pointer here. Removing clears the slot, as the code does;
adding to a full buffer overwrites the oldest slot and advances `out_offs`.

### AesdChar

State: `struct aesd_dev` (`entry` ... `write_buf_size`), the holder of
`dev->lock`, the content of every heap block, which files are open and their
`f_pos`, the module's life cycle, and for each thread its place in the handler,
its call and its locals. Before the lock each handler is one step (`Reject`, or
`Lock` or `Interrupted`); under the lock there is one step per piece of code
between two points where something can fail or sleep:

- `aesd_read`: `find_entry`, `copy_to_user`;
- `aesd_write`: `kmalloc_tmp`, `append` (`copy_from_user`,
  `aesd_handle_write_buffer` and the search for a newline), `evict` and `add`
  (`aesd_handle_complete_command`), `out_free`;
- `aesd_llseek`, `aesd_unlocked_ioctl`: `llseek` or `seekto`, `store_pos`.

`SysCall` and `SysReturn` are the VFS (external): read and write work on a copy
of the position, which is stored back when the handler did not fail. Allocation
may fail at any time, so may copies; a waiting lock may be interrupted.
`krealloc` may or may not move the block. A write carries a sequence over `Byte`,
to which `Newline` belongs; `Free`, the content of a block that is not allocated,
is no such sequence, and `NULL` is neither a block nor a place in the buffer. Two threads do not share a struct file in the instances, see
section 6.

### AesdSocket

Every thread has a place `pc` in its own code and a place `frame` in
`cleanup_on_signal`, "none" when it is not in it; while a handler runs, the code
under it does not. Main runs `cleanup_on_signal` itself before it returns. The
list is the sequence of clients whose nodes are linked; `node` says whether a
node exists or has been freed. Each lock and unlock of a mutex is a step, as is
what happens between them where it matters (every node that a pass over the list
visits, every node that shutdown joins). A thread that joins itself gets
`EDEADLK`, so `CleanupJoin` does not wait then. A timer thread that is cancelled
in `open`, `write` or `close` keeps `file_mutex`, as nothing unlocks it. The
process is over when main returns. `Position`, `After` and `Remove` are the walk
along the `next` pointers and the unlinking of a node.

### AesdSession

Bytes are symbols; `recv` returns any non-empty part of what is under way, at
most `BufferSize` symbols (the code's `buffer_size - 1`). The prefix
`AESDCHAR_IOCSEEKTO:` is two symbols, so that it can be cut. A number is one
symbol: a piece may end before it, when `sscanf` fails, but not between two of its
digits, when the code would seek with the first of them. `log` and `partial`
are the device, whose calls are atomic here because `AesdChar` implements
`AesdDevice`; the reads of an answer remain separate steps, each ending at the
end of a command. `open`, `write`, `read`, `ioctl` and `send` may fail whenever
they are called. `buffer` keeps the chunk received (the code reuses the array for
the answer, after its last look at the chunk).

`useDevice` is the build. In the one for a regular file, `file` grows at its end
only (`O_APPEND`), a write may fail half-way, the descriptor is rewound rather
than exchanged before the answer is read, and a seek command does nothing under
the mutex. `timestamp_thread` is one step here, since it has `file_mutex` from
before its `open` to after its `close`, and everybody else looks at the file
under that mutex; its own steps, and its cancellation, are in `AesdSocket`.

`EchoLog` is what all this is for: a store that takes a chunk in one step (`Store`),
or drops it (`Finish`), and that stands still while an answer is due (`Idle`). A
file may also be left with the head of a chunk whose write failed (`StoreHead`).
It has no mutex, no descriptors and no `pc`. `AesdSession` implements it with
`chunk` as `buffer` and `answer` as `Answers`: an answer is due from the write, or
the ioctl, until the thread leaves the section, and starts at 0 or where the seek
command points (`AnswerStart`). What it does not promise is part of the code too:
the pieces of two clients' lines may end up in one command of the device, and a
seek command that does not start its chunk is stored like text (finding 4).

### Systemcalls and Threading

`Systemcalls`: the caller makes calls one after the other; call k has child k,
which may outlive it. A child goes through `open`, `dup2`, `execv` and the
command, each of which may fail. `status` holds wait statuses as the kernel
encodes them, and `Succeeded` decodes them as `WIFEXITED` and `WEXITSTATUS` do.
`Interrupted` is a `waitpid` that fails with `EINTR`.

`Threading`: `start_thread_obtaining_mutex` is one step with three outcomes (no
memory, no thread, started), since only its allocation is visible to others;
`threadfunc` is a lock and an unlock, each of which may fail. `data` says whether
the thread's `thread_data` exists; the `main` of the example joins and does not free
it (section 4), and so does `Join`. No property is about it.

### DocSearch and DocIndex

A page has one thread, its event loop, so a handler is one step; what lies
between two of them is the model's nondeterminism: the user's keys, clicks and
pointer, timers, and scripts. `box` holds the fields of `SearchBox`
(`lastSearchValue`, `searchIndex`, `keyTimeout`, `hideTimeout`, `searchActive`)
and the elements it works on: the text of the field, the focus, and whether the
selection window, the results window and the close mark are displayed. Timers
that are pending are sets of ids, apart from `keyTimeout` and `hideTimeout`, the
ids that the object remembers. `loading` is the bag of requests whose scripts are
on their way; they arrive in any order, or never. `panel` is the rows of the
results window and what they are an answer to. What the browser does to the
field before `OnSearchFieldChange` runs is a step of its own (`Edit`), so that
a handler can see a field that changed since the last one. A change of the focus
runs `Activate` where the field has its `onfocus` and `onblur`. An element that
is hidden or removed loses the focus.

`OnSearchFieldChange` is four actions by the key that is released, `KeyUpText`,
`KeyUpDown`, `KeyUpShiftDown` and `KeyUpEscape`; `OnSearchSelectKey` is
`SelectDown`, `SelectUp` and `SelectLeave`. `Searched` and `Fetch` are
`SearchBox.Search`, the first what it does to the box and the second to the
results: without a data file it shows an answer at once, with one it asks for a
script, and for a section that does not exist it throws, after `keyTimeout` has
been reset. `BoxReplaced` is what `resetState` of `menu.js` does to the box.

Texts are sequences of ASCII codes, as `convertToId` and the comparison of
prefixes are about characters: `Encoded` is the escape for each of them, and
`RowId` the id of a row. That id stands in the data file, written by Doxygen: the
encoded name and a number, of which an entry has the digits as they stand there.

### DocResults

A link is `[item, child]`, with child 0 for the row itself; the focus is on one
of them, on the field or elsewhere. `KeyDown`, `KeyPress` and `KeyUp` are
`ProcessKeys` and the handler behind it by type of event, `Obey` is the body of
`Nav` and `NavChild`, and `UpFrom` and `DownFrom` say where an arrow key goes.
`Up` looks for children in the row with the next smaller index, whichever row
`NavPrev` has found; the model does the same.

### DocTree, DocFolds, DocMenu

`DocTree`: a row is its position in the table and its path is its id. `shown`
is the rows that are displayed, `open` the folders with a down arrow, and
`updateStripes` is part of both actions, as it is the last thing both do.

`DocFolds`: `toggleVisibility`, `toggleInherit` and the three functions of
folded source, with elements that are displayed one by one. `src` is the image's
file name as a sequence of letters, since the code cuts its end off.

`DocMenu`: `queue` is jQuery's queue of animations, whose first one is running.
A toggle hides or shows the menu at once and appends an animation; `menu` is
whether it is displayed. `Resize` changes the width and `resetState` reacts to
it later.

### DocPage

The widgets of a page share no state, so `DocPage` has their variables side by
side. It names what is assumed of the data that Doxygen generates. A row of a
data file has at most `MaxChildren` children (`ChildrenAssumption`). The rows of
a file are sorted, so that those that match a text follow each other
(`SortedAssumption`): `Up` relies on it, as it looks for children in the row
with the next smaller index. Blocks of a listing nest (`NestingAssumption`). A
section has one data file for each first character (`IndexAssumption`).

## 3. Runs

| run | instance | what it shows |
|---|---|---|
| `circular_buffer` | 3 slots, 2 pointers, sizes 0 to 2 | any sequence of operations keeps indices, flag and pointers consistent, implements `CommandLog`, and `find` agrees with the flat file |
| `char_writers` | 2 threads, 4 blocks, 2 slots; writes with and without newline, and a read; fair | lock discipline, ownership, sizes, atomicity; every call returns |
| `char_reader` | the same with a writer and a thread that reads, seeks with every whence, in and out of bounds, with IOCSEEKTO, and makes an unknown ioctl | types (positions are never negative), what a read found is live when it copies, atomic reads and seeks |
| `char_commands` | one writer | **violation**: entries that are not commands (finding 1) |
| `socket` | 3 clients, timer build, at most 1 signal, to main; fair | node accounting, no use after free, complete passes, main gets out of a pass; a signal taken in `accept` with no connection open ends the process |
| `socket_signal` | 1 client, device build, 1 signal to main | **violation**: shutdown deadlocks (finding 2) |
| `socket_handler` | 2 clients, 1 signal to a client thread | **violation**: node used after it was freed (finding 3) |
| `session` | 3 peers, 4 symbols per chunk, either build: a device of 1 slot, or a file with at most 1 timestamp; fair | locked section left clean, answers, turns, and what clients see: `EchoLog` |
| `session_split` | 1 peer that sends one seek command | **violation**: the command is written (finding 4) |
| `examples` | 2 calls of `do_system` and `do_exec_redirect` with 2 signals, or 3 threads on one mutex | true means success; output redirected; started threads finish |
| `systemcalls_exec` | `do_exec`, 1 call, 1 signal | **violation**: true without success (finding 5) |
| `doc_page` | one of five widgets: the search box with either of two indexes, the results, a table of ten rows, a listing of three blocks, the menu at four widths | a page under any order of events, for the 13 properties of the `Doc*` modules |

Bounds and why they are enough:

- `Capacity` is 10 in the code. Two or three slots have every relation between
  `in_offs`, `out_offs` and `full` (empty, partly filled, wrapped, full,
  overwritten); the theorems of section 5 cover every capacity.
- Four blocks are all that two slots, `write_buf` and one `tmp_buf` need: a
  smaller heap would make allocation fail for want of blocks, which fails at will
  anyway.
- `MaxPending` bounds the data of an unfinished command, so that
  there are finitely many states: no write starts while more than `MaxPending`
  bytes are pending. A command of two writes is the shortest that goes through
  the `krealloc` path.
- Two threads are enough for every pair of handlers to meet; the lock has no
  state but its holder.
- Three clients are needed for a removal from the middle of the list. One signal
  is what the shutdown is for; `MaxSignals` bounds it.
- Three peers: two writers, so that something can be evicted, and one that seeks.
  One writer sends the shortest command, a bare newline, which may also end up
  behind the other's unfinished text.
  A file keeps every order in which its parts were written, so there the second
  writer is the peer whose seek command is ignored or, cut in pieces, written.
  `MaxStamps` is 1: one timestamp may come between any two writes, or between a
  write and the reading of its answer, if it could.
- `MaxTimers` is 2: a timer that `KillTimer` failed to kill needs one other to be
  taken for. `MaxLoads` is 2: two answers are enough to arrive in the wrong order.
  A handler that would go beyond a bound does not run.
- The two indexes are the committed one, which is empty, and one of two sections
  with the first and the last of the committed data files' situations: several
  files in a section, names that are prefixes of each other, rows with children.
- Ten rows and three levels give a folder in a folder on either side of a folder
  without one. `MaxQueue` is 3: an animation that runs and two that contradict
  each other.
- The widgets of a page share no state, but for what the menu does to the search
  box, which is `BoxReplaced`, so a behaviour of `doc_page` uses one of them.
- `CHECK_DEADLOCK FALSE` is said where a system really may stop: the server when
  all clients of the instance have been served or the process has exited, the
  sessions when all peers are done, the examples when all calls have been made or
  all threads joined, a page when a bound is reached or its table has no rows. The
  driver runs check for deadlock.

Fairness:

- `AesdChar`: a thread inside the kernel runs on (weak fairness of its steps);
  `struct mutex` hands over to its first waiter, so a waiter is not passed over
  for ever (strong fairness of `Lock`). Nobody is obliged to call, open, load or
  unload.
- `AesdSocket`: threads are scheduled (weak fairness), and every peer closes its
  connection some day (strong fairness of `ConnectionEnds`). No client need ever
  come, and no signal. `ReapReturns` is about passes that no signal interrupts;
  with one, finding 2 is what can happen.
- `AesdSession`: threads are scheduled and every connection ends (weak fairness
  of a thread's steps; a peer's script is finite).
- `Threading`: a thread that waits for a free mutex gets it and a thread that
  holds one goes on (weak fairness of `Lock` and of the release). Weak is enough
  for `Lock` since a thread locks once in its life.
- The documentation has no fairness: nothing obliges a reader to type, and a
  timer or a script that never comes is covered as one that comes late.

## 4. Findings

1. `char_commands`. The comments of `aesd_write` and `aesd_handle_write_buffer`
   speak of commands terminated by newline. The code moves all of `write_buf`
   into the buffer when there is a newline anywhere in it: a write of
   `"x\ny"` becomes one entry, and `y` is not pending any more.
2. `socket_signal`. `cleanup_on_signal` locks `thread_list_mutex` inside the
   handler. If main was in `remove_completed_threads`, it waits for itself; if it
   was not, it joins client threads that wait for the mutex it holds.
3. `socket_handler`. If a client thread takes the signal, the join of itself
   fails, its node is freed, and the thread writes to it afterwards.
4. `session_split`. The prefix is only recognised at the start of one `recv`;
   the comment says that the command should not be written to the driver.
5. `systemcalls_exec`. `do_exec` ignores a failing `waitpid` and returns true.

Three things met in the documentation contradict no statement of the repository,
and are modelled as they are. Down in the selection window goes one entry beyond
the last, after which a search throws, as any search does with the committed
index, which has no sections. And a reset of the menu while an animation is
running is undone by the end of the animation, which `MenuAsAsked` excepts. And the number at
the end of a row's id can be taken for the code of a character: `d!` is looked up
as `d_21`, which begins the id of a row `d` with the number 21, and of one with
the number 210. The texts of the instance have no such character
(`TypedAssumption`), although its largest row number has three digits.

One disagreement has no run, since one step shows it: `threading.h:7-8` says that
the joiner frees the `thread_data` a thread returns, and `main.c:25` joins with
`NULL`, so that nobody can free it any more. `Join` leaves the data "live".

## 5. Proofs

Checked by TLAPS, for every value of the constants that the named assumptions
allow:

- `SequenceLemmas` has no specification: it says what the recursive definitions
  compute that the models are built from, `FlattenSeq` and running sums. No prover
  takes an operator as a parameter, so the induction theorems of the library are
  of no use; `SetInduction` and `BoundedInduction` take a set of numbers instead,
  and are shown by its least number outside. With them a recursive function exists
  (`Recursion`), so that its `CHOOSE` has its equation; `FlattenElement` then says
  where the bytes of an element are in the flat file, and `FlattenSlice` that a
  piece within one element is that element's.
- `CircularBufferProofs`: `TypeCorrect`, `PointersCorrect`,
  `BufferImplementsLog` and `FindCorrect`. The inductive invariant is `TypeOK` with the statement
  that a slot holds a pointer exactly if it is live, where the live slots are the
  `TotalEntries` slots from `out_offs` on. It is needed because the code frees
  and overwrites by slot, and `full` is all that tells a full buffer from an empty
  one. Under the map that sends the buffer to the sequence of its live entries,
  `init` is `Clear`, `remove` is `DropOldest` (`RemoveTails`) and `add` is `Push`
  (`AddAppends`, `AddReplacesOldest`). `Remainder` and `SlotShift` are the lemmas
  about `%` they rest on; the assumption is that the capacity is positive. `FindCorrect`
  follows from the type invariant: `StartOf` grows (`StartOfGrows`) and is the
  length of the flat file before an entry (`StartIsLength`).
- `AesdCharProofs`, for any threads, files, calls and blocks, in three layers:
  - `IInv` gives `LockDisciplineHolds`. `LockDiscipline` is not inductive alone: a
    module that is initialised sets `lock` to `NULL`, which preserves it only
    because no thread is in a call then. `IInv` adds `InUse` (a thread in a call
    has its file open, and a file is open only while the module is live) and the
    shape of the threads' records (`Threads`). There is one lemma per group of
    actions (`HandlerStep`, `FirstStepOf`, `CallStep`, `ModuleStep`), and two (`GoesOn`, `GoesOut`) for the two ways a handler's step
    treats the lock.
  - `HeapInv` gives `HeapIsOwned` and `SizesDoMatch`. It is `IInv` with `Memory`
    (the types of pointers, indices and blocks), `OneOwner` (the slots,
    `write_buf` and the `tmp_buf` of a thread in a write never point to one
    block), `InUseIsPointed` (a block is allocated exactly if one of them points
    to it), `NothingOverwritten` (at `add` there is room: the slot that is written
    holds no pointer, which needs the eviction before it), `OnlyWrites` (who is in
    the steps of a write makes one), `NothingLeft` (a module that is not live
    points nowhere) and `SizesMatch`. The lock discipline is needed since it is
    what makes the one thread inside the only one whose `tmp_buf` changes.
  - `DriverInv` gives `TypeCorrect` and `FoundDoesStayLive`. It adds `Types`,
    `LivePointers` (every live slot holds a pointer, but for the one that was
    evicted for the entry about to be added), `Fresh` (a module that is
    initialised has its indices reset; `aesd_cleanup_device` leaves them behind),
    `PendingOpen` (no newline in `write_buf` between two calls), `InHandler`
    (which place belongs to which call) and `HasFound`: what a read is about to
    copy is the entry its position is in. `HasFound` rests on what
    `FindCorrect` rests on: `Buf`, an instance of `CircularBufferProofs` with the
    driver's buffer, carries those lemmas over. That positions are never negative
    needs `HasFound` too, as `aesd_read` adds to them what it has copied.
- `AesdDeviceProofs`: `DriverImplementsDevice`, the refinement `char_writers` and
  `char_reader` check, for any threads, files, calls, memory and capacity, given
  that no two threads use one struct file (`PrivateFiles`, section 6).
  `DeviceInv` is `DriverInv` with where every thread's copy of the position and
  the target of its seek are (`Placed`); it needs `PrivateFiles`, as nothing else
  keeps a file's position still while a call runs. Each step of the driver maps to
  one step of the device, or none:

  | step of the driver | step of the device |
  |---|---|
  | `SysCall`, `SysReturn` | a call is made (`InvokeStep`), its result is taken (`ReturnsStep`) |
  | `Reject`, `Interrupted`; a step that finds an error | the call fails and changes nothing (`RefusedStep`, `FailStep`) |
  | `Lock`, an allocation that succeeds, a lookup that succeeds | none (`LockIsHidden`, `AllocStep`, `FindStep`) |
  | `find_entry` at the end, `copy_to_user` | the read (`FindStep`, `CopyStep`) |
  | `append` that succeeds | the write (`AppendStep`) |
  | `evict`, `add`, `out_free` | none: since `append` the log has been what they make of it (`EvictStep`, `AddStep`, `FreeStep`) |
  | `llseek`, `seekto` with a bad target | the seek fails (`SeekStep`) |
  | `store_pos` | the seek (`StorePosStep`) |
  | open, release; load and unload | the same (`FileIs`, `ModuleIs`) |

  `LogIsFlat` relates the log that the device has to the slots and sizes that the
  driver adds up; `SliceIsThere` says that the bytes a read copies are the flat
  log's at its position, and `LSeekIs` and `SeekToIs` that a target computed from
  sizes is the one on the log.
- `AesdSocketProofs`: `TypeCorrect`, `NodesAreAccounted` and `ReapIsComplete`, for
  any clients, any number of signals and whichever threads take them, in both
  builds. `ListInv` is `TypeOK` with the places of the threads (`Places`), who is
  in a section of the list (`Locked`), that nobody is on the list twice
  (`Distinct`), that a live node is listed, not yet linked or held by who joins
  its thread (`Owned`), and that what a pass has left behind is not completed
  (`Passed`). `Locked` covers both places of a thread: a handler that runs on top
  of a holder of `thread_list_mutex` can only wait, which is the deadlock of
  finding 2 and keeps the list as it is. `NodesAreUsed` adds that a freed node's
  thread is done and that no client thread is in the handler, under the assumption
  that main alone takes the signals; finding 3 shows that it is needed.
- `AesdSessionProofs`: `SectionIsLeftClean`, for any peers and messages, in both
  builds. The
  property is inductive with the domains of `pc` and `file_desc`; the work is in
  the error paths, each of which has to leave through the unlock.
  `AnswersShowCommands` and `AnswersStartAtSeeks` (the part about seeks of what
  `EchoLog` says of answers) have the invariant `AnswerInv`:
  who reads an answer holds `file_mutex`, so the content cannot change under it;
  its descriptor is within the content; what it has sent is the piece of the
  content before its descriptor; and the content ends with its chunk.
  `SessionImplementsEchoLog` is the refinement that `session` checks. `EchoInv`
  adds to `AnswerInv` that a chunk on its way to the write is not a seek command
  and one on its way to the ioctl is, and that no chunk is left when the next is
  received (`Kinds`). A step of one thread leaves the answers of the others alone
  (`AnswersChange`): they are due only inside the section, where nobody else
  writes. Then step by step:

  | step of a thread | step of `EchoLog` |
  |---|---|
  | `Recv` | `Receive` (`RecvReceives`) |
  | `Write` | `Store`, or `StoreHead` or `Finish` when it fails (`WriteStores`) |
  | `Ioctl` | `Seek`, or `Finish` when it fails (`IoctlSeeks`) |
  | `ReadAndSend` | `Show`, or `Finish` at the end (`ReadShows`) |
  | `timestamp_thread` | `TimeStamp` (`TimeStamps`) |
  | an open or a rewind | none, or `Finish` when it fails (`OpenIsQuiet`) |
  | a seek command in the build for a file | `Finish` (`LeaveFinishes`) |
  | `Hangup`, `Lock`, `Cleanup` | none (`OthersAreQuiet`) |
- `ExamplesProofs`: `TrueIsSuccess`, which assumes that `do_exec` is not among
  the functions (finding 5), and `OutputIsRedirected`. The invariants are the
  first property with the types and the fact that calls still to come have no
  result, and, for the second, that a child of `do_exec_redirect` that is about to
  run its command has put its output into the file and closed the descriptor.
  `OneThreadHolds` is about the threads: two of them are never between lock and
  unlock, since who is there has the mutex.
- `DocPageProofs`, one part per widget:
  - Search: `InactiveReset`, `CloseIsWithWindow`, `TimerNotUnderPointer` and
    `UnsearchedPending`, for every index, any texts and any bounds. The invariant
    `SearchInv` is `Sound`, a condition on the box alone that every helper of the
    handlers keeps (the first two properties, an active panel while the focus is in
    the field, and no pending selection timer but the one that is remembered),
    `NoTimerUnderPointer`, and `Settled`: a text that was looked at is the one of
    the last search or has its timer. The helpers have a lemma each, and a handler
    is their composition. `AnswersComplete` is about the rows. That the id of a
    row begins with the id of a text exactly if its name begins with the text
    (`RowTells`) is an induction along the codes: none is the beginning of another
    (`CodeTells`, `IdOfPrefix`, `PrefixOfId`). What begins with a text is in the
    file of its first character (`InItsFile`). `AnswerInv` carries that to every
    state: a script on its way is that of the text it was asked for, and what the
    window shows is complete for the answer it shows. The theorem assumes
    `NumbersNotTyped`, see section 4.
  - Directory table: `TreeIsShown`, `ArrowsTell` and `StripesDoAlternate`, for any
    table whose paths are distinct and in which the rows of a folder come behind
    it. The inductive invariant is the first two properties together: that a folder
    is shown or hidden with all its rows at once needs the arrows that one does
    not see to be put right when they are shown again. The stripes need a lemma of
    their own, that between two neighbours on the screen the number of rows shown
    above grows by one.
  - Folds: `LinesThereOnce` and `ImagesTell`. The open and the closed blocks stay
    complements, whatever `toggle_all` remembers; a line that is not seen has a
    closed block around it, and of those the one inside the fewest others is the
    only one whose placeholder is seen (`OutermostClosed`).
  - Menu: `MenuEndsAsAsked`. The last animation of the queue ends as the last
    toggle wanted it, whatever is before it.
  - Keyboard: `FocusIsSeen` and `ArrowsDoFollowReading`, for any sorted data
    files. That no hidden row lies between two visible ones is what sorted means
    (`SortedAssumption`), and is assumed. `KeyInv` says that the visible rows follow each other, so that the row
    next to one on the screen has the next index (`NextRow`); with it `DownFollows`
    and `UpPrecedes` show that the targets of the arrow keys are the neighbours in
    reading order.

Only model-checked:

- Everything about liveness under fairness: `CallsReturn`, `ReapReturns`,
  `IdleSignalTerminates`, `TurnComes`, `ThreadsFinish`.
- The findings of section 4, which are counterexamples.

## 6. Not modelled

- Shared struct files. With two threads on one descriptor, `read` works on the
  VFS's copy of the position and stores it back over a concurrent `llseek`. Which
  of these calls the VFS keeps apart (`f_pos_lock`) the model would have to take in.
- Integer widths. `f_pos` and sizes are naturals; the code's sums are bounded by
  ten entries that fit in memory.
- Destroyed mutexes (locking one is undefined; the model takes it for a free one),
  reused descriptor numbers, `SIGINT` on top of `SIGTERM`,
  signals taken by the timestamp thread, the server's setup before the accept loop.
- The removal of the regular file at shutdown, after which nobody is served.
- `server/aesdsocket1.c`, `aesdsocket2.c`, `socket2.c` (superseded, not built),
  `finder-app` (single-shot utilities), scripts, tools.
- In the documentation's JavaScript: where windows are placed and how wide they
  are; blanks in what is typed (a text with a blank inside never equals
  `lastSearchValue`, from which blanks are removed, so that every key searches it
  again); characters above 0x7F; the search on a server, which is switched off;
  `makeTree`, which writes the menu once, and the smartmenus plug-in; `jquery.js`,
  of which `DocMenu` has the animation queue and the others the selectors they use;
  `menudata.js` and the data files, which are data. The committed pages were made
  by two versions of Doxygen (1.9.8 and 1.9.1) and contain
  neither a folded listing nor a section that can be toggled; `DocFolds` models
  their functions on the elements that they look for.

## 7. Plan

1. Done: all modules of section 2 and the proofs of section 5.
2. Next modules: the server's setup and daemon steps; a second signal and the
   destroyed mutexes in `AesdSocket`; shared struct files with `f_pos_lock` in
   `AesdChar`.
3. Next proofs: what a file that shares its position still promises to its
   readers.
