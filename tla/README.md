# jailfs verification project

jailfs composes a chroot jail out of a pool of package archives.  One daemon
process (`src/main.c`) loads a configuration, creates the block heaps, starts
four threads (`db`, `vfs`, `cell`, `shell`), and then runs a libev loop.
The `vfs` thread scans the package directory and calls `pkg_open` on every file;
the main thread calls `pkg_open` from the inotify callback and runs the garbage
collectors from timers; the `shell` thread runs them on `gc now`.
(Source paths below are those of the repository: `src/` and `lsd/`.)

## Inventory

| Component | State | Operations | Interacts with | Hard part |
|---|---|---|---|---|
| package cache, `src/pkg.c` | `pkg_list`, handles (`refcnt`, `otime`, `name`, `pkgid`), `pkg_lifetime` | `pkg_open`, `pkg_close`, `pkg_gc`, `pkg_release`, `pkg_extract_file`, `pkg_map_file` | db lock, block heap, vfs view; called by vfs, main and shell threads | list and handles are shared by three threads and only part of `pkg_open` is under a lock |
| database, `src/database.c` | `db_mutex`, `g_pkgid` | `db_begin`, `db_commit`, `db_rollback`, `db_pkg_add` | `pkg_open` | early returns and double unlocks on error paths |
| block heap, `lsd/balloc.c` | chain of blocks, free/used list of each, `freeElems`, `blocksAllocated` | create, alloc, free, garbage collect, destroy | every other component; collected by timers in the main thread | elements in use must never be unmapped; no lock |
| linked lists, `lsd/dlink.c`, `lsd/list.c` | head, tail, length, nodes | add, add_before, add_tail, delete, find_delete, move; pop, poll | heap, pkg_list, watch list, thread pool | boundary cases of pointer surgery |
| dictionary, `lsd/dict.c` | open-addressing table, `fill`, `used`, `size` | add, get, del, resize, enumerate | configuration, hooks, API messages | probing must terminate; deleted slots |
| red-black tree, `lsd/tree.c` | nodes, colours | insert, delete, search | library only | delete fix-up |
| threads, `src/threads.c`, `src/main.c` | `core_ready`, mutex and condition, thread pool | `thread_create`, `thread_entry`, `thread_shutdown` | all threads | start barrier, lost wake-ups |
| life cycle, `src/unix.c`, `src/main.c` | pid file, `conf.dying`, signal dispositions | `pidfile_open/close`, `signal_handler`, `goodbye` | all threads, other instances | signals at any point, two instances, stale pid file |
| vfs, `src/vfs.c` | watch list, inotify fd, cache entries, fuse session | directory walk, inotify callback, watch add/remove, fuse operations, mount/unmount | pkg cache, heap | event batches, recursion bound, replies |
| configuration, `src/conf.c` | dictionary; while loading: section, comment flag | load, write, get/set | everyone | comments, sections and ends of sections in any order; defaults |
| shell, `src/shell.c` | menu level, hints heap, log target | commands, hints, completion | gc, signals | menu navigation, hint ownership |
| cell, `src/cell.c` | - | launch of the container init | replaces the process by `execv` | supervision |
| cron and gc, `src/cron.c`, `src/gc.c` | timers, `conf.now` | `cron_tick`, `gc_all` | all heaps | missed ticks |
| API, hooks, modules (`src/api.c`, `src/hooks.c`, `src/module.c`) | message heap, hook dictionary, module list | create/destroy message, hook add/call, load/unload | heap, dict | inert or unused in this build |
| time strings, atomic I/O, strings (`lsd/timestr.c`, `lsd/atomicio.c`, `lsd/str.c`) | none | pure functions | configuration | round trips, short reads |


What makes each part correct: the cache lists a package once, keeps a handle
while it is referenced, imports it completely and under a number of its own,
and gives everything back; the heap never takes an element from a caller; the
lists are what their pointers say; the dictionary is a map whose calls return;
threads start together and only after `main` is ready, one process serves a
jail and leaves nothing behind; a package is found whenever it arrives; the
dictionary of the configuration is what the file says, and the collectors run in
time; the tree finds its keys, keeps its colours and ends its loops.

## Modules

Each component has a module with its state and actions, an `MC` module with the
values for TLC, and a `Proofs` module with its theorems.

| Module | Models | State | Actions |
|---|---|---|---|
| `PkgCache` | `pkg_open`, `pkg_close`, `pkg_gc` and `pkg_release` of `src/pkg.c`, `src/database.c`, `vfs_add_path` | handles and their heap, `pkg_list` as numbered nodes, `db_mutex`, `g_pkgid`, the stored entries, and for each thread its place (`pc`) and locals (`loc`) | one per stretch of code between two points where another thread can step in: `LookupHit` ... `db_begin`, `Alloc`, `NumberRead`, `NumberWrite`, `OpenFile`, `Link`, `ScanEntry` ... `db_commit`, `Bump`, `Bumped`; `CloseRead`, `CloseWrite`; `GcStart`, `GcKeep`, `GcChoose`, `ReleaseClear`, `ReleaseUnlink`, `GcEnd`; a failure is an action of its own |
| `BlockHeap`, `ElementPool` | `lsd/balloc.c`; `ElementPool` is what a heap promises | the chain of blocks, the free and used elements, the two counters | `AllocGrow`, `AllocReady`, `AllocTake`, `Free`, `GcStart`, `GcRemove`, `GcKeep`, `GcEnd`, `Destroy` |
| `Dlink` | `lsd/dlink.c` and the safe walk of `dlink.h` | `next`, `prev`, `data`, `head`, `tail`, `length`; `order` is history: the sequence each list stands for | one per function, and `WalkStart`, `WalkNext`, `WalkEnd` |
| `LifeCycle` | `main`, `goodbye`, `thread_create`, `thread_entry`, the pid file and the signals, the cell thread | the pid file shared by the processes; for each process its step, `core_ready`, the holder of the Big Lock, its threads, the progress of `goodbye` | one per call that another thread or process can observe |
| `Dict`, `DictMap` | `lsd/dict.c`; `DictMap` is a map from keys to values, null ones included | `table`, `size`, `used`, `fill`; `old` and `at` while a resize copies | `dict_add`, `dict_get`, `dict_del`, `CopySlot`; `Hang` is a search without end |
| `PkgDir` | the inotify watch, the directory walk and the event callback of `src/vfs.c` | the files, the kernel queue, the batch being handled, the watch list, the stack of recursive calls, the handles in `pkg_list`, what each thread waits to import, whether `db_mutex` was left locked | one per directory entry and per event; `Import`, `OpenFails` and `ArchiveFails` end a `pkg_open` that missed; files and directories change at any time |
| `RbTree`, `SortedSet` | `lsd/tree.c`; `SortedSet` is a set with insertion and deletion | the allocated nodes, root, children, parents and colours; the running fix-up | a call up to its loop (`Insert`, `Delete`), a round of the loop (`InsertRound`, `DeleteRound`), its end; the two mirror images of the source are one action with the side as parameter |
| `Config` | `dconf_load` of `src/conf.c` | the dictionary, `section`, `in_comment`; `read` is history: the lines so far | one per branch of the loop, and the two places where the process dies |
| `Cron` | extends `Config`: the timers of `main` and of `src/cron.c`, `gc_all`, `timestr_to_time` | the clock, `conf.now`, the time of the loop, the next time of each timer, the callbacks still to be called, when each collector ran last | `StartTimers`, `Sleep`, `Poll`, `Work`, one per callback (`cron_tick`, the two collectors, the descriptors), the command `gc now` |

`Cron` is composed with `Config`: the periods are what the loaded dictionary says.
The others meet at their edges: `PkgDir` has `pkg_open` as a search of `pkg_list` and an
import that waits for `db_mutex`, succeeds or fails; `PkgCache` opens both up; `PkgCache` takes list and heap operations as single steps whose inside
is `Dlink` and `BlockHeap`, and lets the collectors run whenever `Cron` could call
them; `Config` uses the dictionary as the map that `Dict` is proved to be.

### Abstractions

- `PkgCache`: a package is a model value with a number of entries; which free
  element `blockheap_alloc` returns is left open; freed memory reads as zero
  (`blockheap_free` clears it) until it is handed out again; a null dereference
  ends the process (`LookupFault`); reads and writes of `++g_pkgid` and
  `refcnt++` are separate steps. The search of `pkg_handle_byname` is one step
  (`Lookup`), although the list may change under it.
- `BlockHeap`: the list operations of one call are atomic; an element is a block
  and an index; a failed `mmap` is the call of `exit` in the code.
- `Dlink`: one caller. The body of a walk may remove the node the walk is at and
  no other, which is what the callers do.
- `LifeCycle`: the initialisers between the pid file and the threads are one step;
  one thread runs `goodbye`, and what it calls in the C library returns, although the
  handler may interrupt a thread that holds one of its locks; a process that ends leaves nothing but the pid file
  (`End`); a thread that looks up a key while `dconf_fini` frees the dictionary may
  fault (`ReadFreed`) or not.
- `Dict`: one caller, a call is one step except for the copying; `dict_add` may be
  given a null value, as `dconf_load` does for a line without one; memory is never
  short; blobs, which only the hooks would store and nobody registers, are left out; `used` below zero stands for the wrapped unsigned value. The probe
  sequence is that of the code; `ProbeAssumption` (it visits every slot) is
  evaluated by TLC for the sizes of the run and assumed in the proofs.
- `PkgDir`: `readdir`, `is_dir` and `opendir` of one entry are one step; a
  directory stream returns what has been there since `opendir` and may return
  what came later; directories vanish and are not created; an event without a
  name has no name byte (the code reads the byte behind the event). An import is one
  step, so the other thread does not see its handle too early and the collector
  does not take it (deviations, package cache). A file that is
  partly written may be imported in part or refused; `Refused` are complete files
  that `pkg_open` cannot take. The reference that the walk or the callback takes is
  never given back, so a handle goes only when its import was refused (`Collect`).
- `RbTree`: a node is named by the key its data holds, and `pull_out`, which moves
  the data of the successor, renames the node that stays. Keys are different: the
  code puts an equal key to the right. `spoilt` is history: a deletion has come
  through lines 284 to 287.
- `Config`: a line is what one `fgets` returns (longer lines come in pieces), known by
  its kind, its key and its value; section names stand for all names the code's prefix
  comparison accepts. The byte in front of the buffer, which the code reads after an
  empty line, is no white space. `[modules]` is an unknown section, as it is
  without `CONFIG_MODULES`.
- `Cron`: seconds; a round of callbacks takes at most `MaxBusy` of them, and the rest of
  `main` before `ev_loop` counts as part of the first round. libev computes the
  next time of a timer from its last one, or from the time of the round when that is
  past, and calls the pending callbacks in any order. Time strings are four numbers
  in the documented order. The callbacks of descriptors are one that takes time
  (`Serve`); one that never returns, as in `vfs_hidden` or with a locked
  `db_mutex`, is outside `MaxBusy`. The timer of `vfs_gc` (a stub) is left out.

## Runs

| Run | Checks | Result |
|---|---|---|
| `cache_serial` | one thread opens, closes and collects two packages, one with a damaged header: `OneHandlePerName`, `HeldHandlesLive`, `HeldComplete`, `NoLeak`, `Reclaimed` | pass |
| `cache_threads` | two openers, one of which collects, two packages, one of which may be unreadable or no archive, host locking: `DbMutualExclusion`, `UniquePkgIds`, `ViewAttribution`, and `CleanOpenReturns`: every `pkg_open` returns unless some call has failed in its transaction; with host locking the second of two threads that miss together is such a call | pass |
| `cache_failed_open` | `OpenReturns`: every `pkg_open` returns, when one package cannot be opened | violated: `pkg.c:236` returns with `db_mutex` locked |
| `heap_serial` | up to five blocks of two elements: `ListsPartition`, `CountersAgree`, `Swept`, refinement of `ElementPool` | pass |
| `dlink` | three nodes in two lists, every operation, and a walk: `Represents`, `CursorListed`, `WalkComplete` | pass |
| `life` | two processes that do not start at once, absolute `path.pid`, every signal at every point, kills and later starts: `OneInstance`, `PidFileTrue`, `CleanExit`, `BarrierOpen`, `StartComplete`, and `Settles`: every start and every `SIGTERM` comes to its end | pass |
| `life_cwd` | `CleanExit` with a relative `path.pid` | violated: the cell thread has changed the directory (`cell.c:35`) |
| `dict` | three keys that collide, tables of 2, 8 and 16 slots: refinement of `DictMap`, `NoHangWithoutDelete`, `NoNestedResize` | pass |
| `vfs_find` | a tree of four levels that changes while it is watched and walked, with a hidden file in the watched directory: `DepthBounded`, `HiddenNeverOpened`, `ScanFindsAll`, and `CleanDiscovered`: a package in the watched directory is opened after its last change, unless the queue overflows, the watch cannot be made, a hidden event stops the callback or a failed `pkg_open` leaves `db_mutex` locked | pass |
| `vfs_hidden` | `Discovered`: the same when a hidden file changes | violated: `vfs.c:675` repeats the event for ever |
| `tree` | every order of insertions and deletions of nine keys: refinement of `SortedSet`, `Neighbours`, `RedBlack`, `FixupSafe`, `CallEnds` | pass |
| `cron` | every file of up to four lines, then the timers with the periods it sets: `ConfigMeans`, `GcInTime`, `PkgsInTime`, `ClockFresh` | pass |

Every module also has a type invariant; those of the modules with a `Proofs`
module are proved.

### Bounds

- `cache_*`: three calls of `pkg_open` are a miss, a hit or a second miss, and a
  call after a failure, so that `cache_threads` has the third call that would hang if one of
  the others kept the lock; the package that may fail may also succeed. Three handles
  let an element be reused. The clock starts at `pkg_lifetime` + 1, when a handle that was
  never used has expired. In `cache_serial` handles are closed and the clock goes on, so that
  one that was used expires after its last close. In `cache_threads` nobody closes, as in the
  program, a handle in use never expires, and the clock stands still: a collector
  can take only handles under import, and it can from the start.
- `heap_serial`: five blocks ever created give chains in which the collector
  removes the first, a middle and the last block, and the heap is empty again.
- `dlink`: with three nodes a node has both neighbours, one, or none.
- `life`, `life_cwd`: two processes are what a pid file is about. Of the program's four
  threads the one that passes the barrier twice (vfs) and the one that launches the
  inmate (cell) are there; the other two are like vfs with one call.
- `dict`: the keys share their first slots; the sizes are a scaled sequence of
  the code's (`MinSize` 2 instead of 8) so that two resizes fit; `MaxFill` and
  `MaxMissing` stop the counters past the last resize.
- `vfs_find`: `MaxRecurse` 4 stops the walk before the last of four nested directories. What changes
  (`Volatile`) is a package and a hidden file in the watched directory and a directory below;
  a package further down, and a file without extension that cuts the walk short, stay.
  Two changes, with a file that may be in the middle of a write at the start, make three events
  for a queue of two, which overflows when the main thread does not read between them.
  Hidden directories and siblings, which `depth` counts too, are left to the proofs.
- `vfs_hidden`: two changes are one of the hidden file and one of a package.
- `tree`: with nine keys every case of both fix-ups occurs on both sides, rounds
  that move up twice included.
- `cron`: four lines are a section, two keys and a comment or the end of the section; a
  missing key, no value, the default, zero, a short and a long period occur. Ten
  seconds are three periods with the longest delays.

### Fairness

- `PkgCache`: a thread inside the cache goes on if it can (`WF` on `Step`), the clock
  runs, and the timers of the collectors fire. Nothing is owed to callers: nobody
  must open or close. A lock that is free again and again is not assumed to be
  granted to a particular thread: with finitely many calls weak fairness is enough.
- `LifeCycle`: `main`, `goodbye` and a thread at the barrier go on if they can. Nobody
  has to send a signal, and the loops that test `conf.dying` owe nothing.
- `PkgDir`: both threads go on if they can: libev calls the callback while the
  descriptor is readable. A thread that wants to import can go on only while
  `db_mutex` is free: once a `pkg_open` has failed it waits for ever. Nobody has
  to change a file.
- `RbTree`: a call that has begun goes on: it has one caller and no lock.
- `BlockHeap`, `Dlink`, `Dict`, `Cron`: safety only; `GcInTime` and `ClockFresh` are bounds on time.

## Proofs

The theorems hold for every value of the constants that satisfies the named
assumptions of the modules.

- `PkgCacheProofs`. `TypeCorrect` needs `TypeInv`: at each label the locals a thread
  uses there have been set, and saved cursors point to nodes that exist.
  `MutualExclusion` adds `LockInv`: an importing thread implies that `db_mutex` is
  taken, and there is one of them. It assumes that no header is corrupt, because
  the error path unlocks twice. `PkgIdsUnique` and `EntriesAttributed` add
  `NumbersInv`: numbers in handles, in entries and in the register of the one thread
  inside `db_pkg_add` are at most `g_pkgid`, and one number never meets two
  packages. A handle released under a running import is part of it.
  The four properties of one thread rest on `SerialInv`: a handle is in the list at most
  once and a name belongs to one listed handle (`ListedOnce`, `NamedOnce`), the entries
  stored for a running import are those up to its position (`ImportInv`), `refcnt` is what
  the caller holds and has yet to return (`CountInv`), and a listed handle whose import is
  over has all its entries (`EntryInv`). `NoLeak` adds `LeakInv` and assumes that every file
  can be opened and locked: otherwise the handle that `pkg_open` has allocated is lost.
- `BlockHeapProofs`. `HeapInv` (type, partition, counters) is inductive for any number of
  threads whose list operations are atomic; the refinement of `ElementPool`
  follows from it. `Swept` needs one thread: `PassedInUse`, at most one of the
  blocks behind the collector has no element in use.
- `DlinkProofs`. `IInv` says that the pointers are those of `order`, that listed nodes
  are allocated and that different lists share no node; for the walk, that what
  is present and not yet visited lies from the cursor on. One lemma says what
  inserting, and one what removing, does to the shape of a list.
- `LifeCycleProofs`. `BarrierInv` follows the Big Lock: `main` has it from its first step
  to the unlock. `PidInv` follows the pid file: when starts do not overlap its
  content is the process that opened it last. `AbsoluteCleanExit` needs no such condition.
- `DictProofs`. A key is in one slot (`KeysOnce`), a search for it reaches that slot
  before any empty one (`AllReached`), a key still to be copied is not in the new
  table (`Apart`), and the new table is at least twice the old one (`CopyInv`), which is
  why copying never resizes again. A null value is stored and replaces nothing (`StoredFacts`). `FillInv` counts: without deletions the occupied
  slots are at most `fill`, which is less than two thirds of `size`.
- `PkgDirProofs`. `DepthInv`: the i-th call has a depth of at least i, and one that has
  called another has counted it, so the stack is below the limit although `depth`
  counts siblings. Every directory on the stack is visible, and events are about
  entries of a watched root (`GoodQueue`); hidden ones never leave the queue, so what a
  thread asks for is visible (`CallsOK`).
  `WalkComplete` (that the walk misses nothing) rests on `TodoInv`: what is still to be
  opened is below an entry that a stream on the stack has yet to return, or below a root still
  to come, or is what the thread waits to import. `AskInv`: for that there is no handle while
  it is due, so its import does not fail; if the main thread imports it meanwhile, it is
  opened. `Walked` and the depths it compares are recursive functions over the tree of
  directories. `LoopsAssumption` (finitely many directories, none below itself) gives
  each a rank; by a least counterexample (`LeastNumber`, `TreeInduction`) the recursion has
  one solution, which the lemmas unfold. `CountOK` bounds the counter of every call on the
  stack: at most the worst count of its directory, plus one for every subdirectory it has
  already counted or that was removed.
- `CronProofs`. `ParseInv`: the flag is whether the last line is in a comment, the name is
  the section that the next line belongs to, both read off the history; two lemmas
  say what one line more changes. `TimeInv` follows a timer: outside its round the next
  time is at most a period after its last work (for the packages, after `pkg_gc` or the
  `gc_all` that calls it), and it is not yet due or the round that
  keeps it waiting began before it was; inside, the round began in time.
- `RbTreeProofs`. `Shape(t, N, D)` says that t is a search tree of the nodes N, by a witness D
  that gives for each node what is at or below it: links agree in both directions,
  a node's set is itself and those of its children, and each child's set is on its side of
  the node. For every change of links a lemma gives the new witness: a rotation
  (`RotateShape`), a new leaf (`GrowShape`), a node with one child taken out (`SpliceShape`), a
  node that takes its successor's name (`RenameShape`). What the loops and recursions compute
  (`SearchIs`, `DescentIs`, `OutermostIs`, `NeighbourIs`, `TraverseIs`, `BlackHeightIs`)
  follows by induction on the size of D, upwards or downwards (`FromBelow`, `FromAbove`), after
  a function with the wanted values has been shown to solve the recursion, so that `CHOOSE`
  has a solution to take.
  `TreeInv` adds to the shape that the fix-ups stand on nodes and that the root is red only
  while a fix-up stands on it, which is why every red parent has a parent. It holds in spoilt
  trees too, and with it `Neighbours`, `SetSpec` and half of `FixupSafe`.
  `ColorInv` is conditional on `~spoilt`. Its heights H, again a witness, are even but for the side
  of `par` where the current node of a deletion is one black node short (`Even`), and red
  meets red only at the current node (`Reds`). The lack makes the sibling's height positive, so
  there is a sibling; each round moves the lack up or fills it.

Every invariant, action property and refinement of the passing runs is proved. Only
model-checked: the liveness properties (`Reclaimed`, `CleanOpenReturns`,
`Settles`, `CleanDiscovered`, `CallEnds`), which rest on fairness.

## Deviations

Where the code does not do what its comments or headers say, or what a reader
would expect. Three have a violated run, named below; the others were seen by giving the
models other constants, or by reading.

Package cache
- A failed `open` or `flock`, or an archive that libarchive refuses, leaves `db_mutex`
  locked (`pkg.c:236`, `255`); the next import hangs (`cache_failed_open`). In the
  last case the handle stays cached and later calls return it.
- A damaged header leads to `db_rollback` and then `db_commit` (`pkg.c:266`), two
  unlocks. With another thread inside its transaction two packages get one number,
  against `database.c:42` (`UniquePkgIds` with `Corrupt` not empty and two openers).
- Two threads that miss together import a package twice (`OneHandlePerName` with two openers; the comment at
  207 says "If it does, use it" of a package in the cache). With `vfs.locking.host` the
  second `flock` fails, although both open a package that is in order, and `db_mutex` stays
  locked (`pkg.c:240`).
- A hit returns a handle whose import is in progress (`pkg.c:247`, `HeldComplete` with two
  openers); the collector releases a handle during its import because `refcnt` is still 0
  (`pkg.c:368`, `HeldHandlesLive` with an opener and a collector).

Block heap
- The collector removes the first block of the heap like any other (`balloc.c:350`), while
  the comment at 328 says that it "will never remove the root node of the heap": a heap that has grown to two blocks and
  is given back whole has none after a collection. `Swept` asks neither for the one nor for the other.
- With two threads `blockheap_alloc` may find no element after it has seen one
  (`balloc.c:273`): in `BlockHeap` with two threads one can be at "take" when `free` is empty.

Life cycle
- Starts that overlap both serve the jail (`unix.c:188`, `main.c:116`).
- `SIGTERM` between `fopen` and the assignment of `pidfile_name` leaves the file (`unix.c:202`);
  so does a kill or the exit of the vfs thread, and every later start is refused.
- A relative `path.pid` is not found after the cell thread has changed to `/` (`life_cwd`).
- A thread that reads the configuration while `goodbye` frees it faults, and the pid file
  stays (`main.c:58`, `ReadFreed`). `goodbye` runs in a signal handler and allocates.
- `SIGQUIT` only sets `conf.dying`: the threads end, `ev_loop` does not return (`main.c:177`).
- `execv` in the cell thread replaces the daemon (`cell.c:84`, against the
  supervision described at 112 to 119).

Dictionary
- `dict_get` does not return `defval` for a missing key but NULL (`dict.h:90`,
  `dict.c:348`; `DictMap` allows both); `dict_del` of a
  missing key returns 0, not -1 (`dict.h:110`), and turns an empty slot into a deleted
  one. After as many such calls as the table has empty slots the next search
  does not end (`dict.c:148`). The program deletes nothing.
- Replaced keys and values are leaked; blobs are dropped on resize.

Virtual file system
- An event for a hidden file hangs the main thread (`vfs_hidden`).
- A package that changes is not imported again, and one that is removed stays in the view:
  `pkg_open` finds the old handle, and `pkg_forget` does nothing (a
  handle "stale" in `PkgDir`).
- A watch that cannot be made is logged as started (`vfs.c:763`), and nothing tries again.
- A `path.pkg` with a `:` gets no watch: the test at `vfs.c:760` is the wrong way
  round. Subdirectories are never watched. `depth` counts siblings (`vfs.c:378`), so a directory
  with many subdirectories is cut off. A path without a dot ends the walk of its
  directory and leaks the stream (`vfs.c:387`).
- After an overflow of the kernel queue, changes are lost; without `pkgdir.prescan`
  so are those between `inotify_add_watch` and the list (`vfs.c:708`, `714`).
- The walk may call `pkg_open` on a file that is being written, and either thread on one that has
  gone; if that fails, the lock stays taken and the next import waits for ever.
- `strtok` has one position for all threads (`vfs.c:403`): a command typed while the first of
  several directories is walked loses the others. With one directory it is harmless.

Red-black tree
- `rb_delete_fixup` paints the near nephew red, which it is, and leaves the sibling black
  (`tree.c:285`, `312`) instead of exchanging their colours. After inserting 2, 1, 4, 3 and
  deleting 1 the next round reads a null sibling; in larger trees (thirteen keys, by
  simulation) the black heights differ silently. Up to nine keys it always ends the
  process (`DeleteFaults`).
- Deletion frees the node of the successor: a pointer a caller kept to it dangles.

Configuration and timers
- A key that is missing does not have the default its reader gives, since `dict_get` does not
  return it: without `log.level` or `path.log` the start faults (`shell.c:155`, `main.c:108`,
  `StartFaults`), without `cache.type` the vfs thread (`vfs.c:552`).
- A file that cannot be opened is closed (`conf.c:65`). A `[language]` line of separators only
  faults (`conf.c:160`).
- A comment that is opened and closed on one line stays open (`conf.c:101`); `@endif` ends a section
  (`conf.c:134`) and `@if` is a key; a repeated key keeps its old value when the new one is empty.
- A `global_gc` of 0, or without a number, divides by zero in the first tick (`cron.c:50`); with 1
  cron never collects. A `blockheap_gc` of 0 collects once.
- `timestr_to_time` does not free its copy (`timestr.c:33`), which `cron_tick` makes every second.
- `dconf_write` (no caller) does not notice that the dump has failed, since the test is for a
  negative result (`conf.c:209`), and removes the old file before it renames the new one.

Shell (by reading)
- `shell_get_menu` stops at the first entry with a submenu (`shell.c:481`) and returns NULL for every
  level but `main`, so the commands of the submenus are unknown there.
- The completion at `main` runs past the end of the menu, or for ever in a submenu (`shell.c:587`),
  against "Tab completion is enabled." (`shell.c:728`).
- The copy of the line is not a copy of the line (`shell.c:510`): commands have no arguments.
- A hint that matches nothing is lost (`shell.c:680`).

## Not modelled

- The FUSE handlers of `vfs.c`: the call of `vfs_fuse_init` is commented out, so no
  session exists. `vfs_watch_remove`: `IN_DELETE_SELF` has no name and the callback returns first.
- `pkg_map_file`, `pkg_extract_file`, `thread_shutdown`, `dconf_write`, namespaces: no caller. The
  module loader is not compiled by default. The lists of `lsd/list.c` are appended to and not
  read. The API hands out no message, and nobody registers a hook.
- The menus of the shell: constant tables and terminal input and output. Its commands are
  actions of the modules they act on (`gc now`, `shutdown`).
- The locks of the C library: `Log`, `localtime` and `free` in `signal_handler` and `goodbye` may
  wait for one that the interrupted thread holds (`unix.c:51`, `main.c:54`). A second `SIGTERM` in
  another thread, which would run `goodbye` beside the first.
- The insides of libev: the vfs thread adds a timer to the loop that the main thread runs
  (`cron.c:32`), which libev does not allow.
- Wrappers of one library call (debugger, i18n, file magic), stubs (control,
  scripting), and vendored code (SQLite, kilo, linenoise).
- libev, libarchive, libfuse and the kernel, beyond what the modules above say.

Of the C code in the repository by far the largest part is vendored (SQLite alone has
220 thousand lines); the program's own code, which the modules are about, has some
six thousand.

## Plan

Done: the package cache, the heap under it, the lists, the life cycle, the
dictionary, the discovery of packages, the tree, the configuration and the timers.
Next, in this order:

1. The position of `strtok` shared by `PkgDir` and the shell, for several directories.
2. The search of `pkg_handle_byname` node by node, under a list that changes.
