------------------------------- MODULE PkgDir --------------------------------
(***************************************************************************)
(* How packages are found (src/vfs.c): the vfs thread adds an inotify      *)
(* watch for path.pkg and then walks the directory tree, while the main    *)
(* thread handles batches of inotify events and anyone changes the files.  *)
(*                                                                         *)
(* A file or directory stands for its path.  The walk is one step per      *)
(* directory entry.  pkg_open is two: the search of pkg_list, and for a    *)
(* package that is not there the import, which waits for db_mutex and may  *)
(* fail with it locked (PkgCache has the inside of both).                  *)
(***************************************************************************)
EXTENDS Integers, Sequences, FiniteSets

CONSTANTS
    Roots,          \* path.pkg, split at ':'
    Dirs, Files,
    Parent,         \* the directory of each file, and of each directory but the roots
    Hidden,         \* what has a name that begins with '.'
    Dotted,         \* what has a '.' in its name
    Inotify,        \* pkgdir.inotify
    Prescan,        \* pkgdir.prescan
    MaxRecurse,     \* VFS_MAX_RECURSE
    QueueLimit,     \* max_queued_events of the kernel
    Refused,        \* complete files that pkg_open cannot take: no archives,
                    \* not readable, or locked by another process
    HostLocking,    \* vfs.locking.host
    Nameless, Overflow, NoFile,
    Volatile,       \* bound: the files and directories that change
    MaxChanges      \* bound: how often

RootDirs == {Roots[i] : i \in 1 .. Len(Roots)}
Inner == Files \cup (Dirs \ RootDirs)

ASSUME TreeAssumption ==
    /\ Roots \in Seq(Dirs) /\ Roots # <<>>
    /\ Dirs \cap Files = {}
    /\ Parent \in [Inner -> Dirs]
\* Directories have no loops.
ASSUME LoopsAssumption ==
    /\ IsFiniteSet(Dirs)
    /\ \E rank \in [Dirs -> 0 .. Cardinality(Dirs)] :
          \A x \in Dirs \ RootDirs : rank[Parent[x]] < rank[x]
ASSUME NamesAssumption ==
    /\ Hidden \subseteq Inner /\ Hidden \subseteq Dotted
    /\ Refused \subseteq Files /\ NoFile \notin Files
    /\ Nameless # Overflow /\ {Nameless, Overflow} \cap (Dirs \cup Files) = {}
ASSUME BoundsAssumption ==
    /\ Inotify \in BOOLEAN /\ Prescan \in BOOLEAN /\ HostLocking \in BOOLEAN
    /\ MaxRecurse \in Nat \ {0, 1} /\ QueueLimit \in Nat \ {0} /\ MaxChanges \in Nat
    /\ Volatile \subseteq Dirs \cup Files

VARIABLES
    fs,         \* the state of each file
    gone,       \* the directories that were removed
    changes,    \* bound
    watched,    \* the directories the kernel watches
    vfs_watch_list,
    queue,      \* the events the kernel holds
    batch,      \* the events in buf, from i on
    pc,         \* the vfs thread
    next,       \* the next part of path.pkg to walk
    stack,      \* the calls of vfs_dir_walk_recurse
    handle,     \* what pkg_list has for each path
    want,       \* what each thread wants to import, waiting for db_mutex
    db_locked,  \* db_mutex was left locked
    opened,     \* history: the files pkg_open returned a handle for since their last change
    changed     \* history: the files that changed since the walk began

calls == <<handle, want, db_locked>>
vars == <<fs, gone, changes, watched, vfs_watch_list, queue, batch, pc, next, stack,
          handle, want, db_locked, opened, changed>>

\* A handle without a reference, one in use, and one in use that does not have
\* what the file has now.
Handle == {"none", "idle", "held", "stale"}

Threads == {"vfs", "main"}

Event == [name : Inner \cup {Nameless, Overflow}, in : BOOLEAN]

\* A directory stream: the entries it has returned, and those it must still
\* return because they have been there since opendir.
Frame == [dir : Dirs, depth : Nat, owed : SUBSET Inner, seen : SUBSET Inner]

Exists(x) == IF x \in Files THEN fs[x] # "absent" ELSE x \notin gone

Entries(d) == {x \in Inner : Parent[x] = d /\ Exists(x)}

\* The path has a '.' somewhere, which is what strrchr looks for.
DottedPath ==
    LET dotted[x \in Dirs \cup Files] ==
            x \in Dotted \/ (x \notin RootDirs /\ dotted[Parent[x]])
    IN  dotted

-----------------------------------------------------------------------------
(* The kernel *)

\* One more event; an event like the last one is merged with it, and a full
\* queue takes one event that tells of the overflow.
Queued(q, e) ==
    IF q # <<>> /\ q[Len(q)] = e THEN q
    ELSE IF Len(q) < QueueLimit THEN Append(q, e)
    ELSE IF q[Len(q)].name = Overflow THEN q
    ELSE Append(q, [name |-> Overflow, in |-> FALSE])

Notify(x, in) ==
    queue' = IF x \in Inner /\ Parent[x] \in watched
             THEN Queued(queue, [name |-> x, in |-> in]) ELSE queue

\* x is no longer the entry a stream may have returned.
Replaced(x) ==
    stack' = [i \in DOMAIN stack |-> [stack[i] EXCEPT !.owed = @ \ {x}, !.seen = @ \ {x}]]

Change(x) ==
    /\ x \in Volatile /\ changes < MaxChanges /\ changes' = changes + 1
    /\ opened' = opened \ {x} /\ changed' = changed \cup {x}
    /\ handle' = [f \in Files |-> IF f = x /\ handle[f] = "held" THEN "stale" ELSE handle[f]]
    /\ UNCHANGED <<want, db_locked>>

\* Somebody begins to write a file, new or not.
BeginWrite(f) ==
    /\ Parent[f] \notin gone /\ fs[f] # "partial"
    /\ Change(f)
    /\ fs' = [fs EXCEPT ![f] = "partial"]
    /\ UNCHANGED <<gone, watched, vfs_watch_list, queue, batch, pc, next, stack>>

\* IN_CLOSE_WRITE
CloseWrite(f) ==
    /\ fs[f] = "partial"
    /\ fs' = [fs EXCEPT ![f] = "complete"]
    /\ changed' = changed \cup {f}
    /\ Notify(f, TRUE)
    /\ UNCHANGED <<gone, changes, watched, vfs_watch_list, batch, pc, next, stack, opened, calls>>

\* IN_MOVED_TO
MoveIn(f) ==
    /\ Parent[f] \notin gone /\ fs[f] # "partial"
    /\ Change(f)
    /\ fs' = [fs EXCEPT ![f] = "complete"]
    /\ Notify(f, TRUE)
    /\ UNCHANGED <<gone, watched, vfs_watch_list, batch, pc, next, stack>>

\* IN_DELETE, IN_MOVED_FROM
RemoveFile(f) ==
    /\ fs[f] = "complete"
    /\ Change(f)
    /\ fs' = [fs EXCEPT ![f] = "absent"]
    /\ Notify(f, FALSE) /\ Replaced(f)
    /\ UNCHANGED <<gone, watched, vfs_watch_list, batch, pc, next>>

\* IN_DELETE in its directory; IN_DELETE_SELF and IN_IGNORED, which have no
\* name, for a directory that is watched itself.
RemoveDir(d) ==
    /\ d \notin gone /\ Entries(d) = {}
    /\ Change(d)
    /\ gone' = gone \cup {d}
    /\ IF d \in watched
       THEN queue' = Queued(queue, [name |-> Nameless, in |-> FALSE])
       ELSE Notify(d, FALSE)
    /\ watched' = watched \ {d}
    /\ Replaced(d)
    /\ UNCHANGED <<fs, vfs_watch_list, batch, pc, next>>

Environment ==
    \/ \E f \in Files : BeginWrite(f) \/ CloseWrite(f) \/ MoveIn(f) \/ RemoveFile(f)
    \/ \E d \in Dirs : RemoveDir(d)

-----------------------------------------------------------------------------
(* The vfs thread *)

\* Any part of what changes may be there at the start, or be written just then.
Init ==
    /\ fs \in [Files -> {"absent", "partial", "complete"}] /\ gone \in SUBSET Dirs
    /\ gone \subseteq Volatile /\ \A f \in Files \ Volatile : fs[f] = "complete"
    /\ \A d \in gone : Entries(d) = {}
    /\ changes = 0
    /\ watched = {} /\ vfs_watch_list = {}
    /\ queue = <<>> /\ batch = <<>>
    /\ pc = IF Inotify THEN "watch" ELSE "scan"
    /\ next = 1 /\ stack = <<>>
    /\ handle = [f \in Files |-> "none"] /\ want = [t \in Threads |-> NoFile]
    /\ db_locked = FALSE
    /\ opened = {} /\ changed = {}

\* inotify_add_watch, for a path.pkg of one directory
WatchAdd ==
    /\ pc = "watch" /\ Len(Roots) = 1 /\ Roots[1] \notin gone
    /\ watched' = {Roots[1]}
    /\ pc' = "list"
    /\ UNCHANGED <<fs, gone, changes, vfs_watch_list, queue, batch, next, stack, opened, changed,
                   calls>>

\* inotify_init or inotify_add_watch fails: for want of a resource, because the
\* directory is not there, or because a path.pkg of several is taken for one.
WatchFails ==
    /\ pc = "watch"
    /\ pc' = "scan" /\ changed' = {}
    /\ UNCHANGED <<fs, gone, changes, watched, vfs_watch_list, queue, batch, next, stack, opened,
                   calls>>

\* dlink_add_tail_alloc
WatchList ==
    /\ pc = "list"
    /\ vfs_watch_list' = {Roots[1]}
    /\ pc' = "scan" /\ changed' = {}
    /\ UNCHANGED <<fs, gone, changes, watched, queue, batch, next, stack, opened, calls>>

Called(d, n) == [dir |-> d, depth |-> n, owed |-> Entries(d), seen |-> {}]

\* vfs_dir_walk: the next part of path.pkg, if opendir finds it
WalkRoot ==
    /\ pc = "scan" /\ Prescan /\ stack = <<>> /\ next <= Len(Roots)
    /\ stack' = IF Roots[next] \in gone THEN <<>> ELSE <<Called(Roots[next], 1)>>
    /\ next' = next + 1
    /\ UNCHANGED <<fs, gone, changes, watched, vfs_watch_list, queue, batch, pc, opened, changed,
                   calls>>

WalkDone ==
    /\ pc = "scan" /\ stack = <<>> /\ (next > Len(Roots) \/ ~Prescan)
    /\ pc' = "done"
    /\ UNCHANGED <<fs, gone, changes, watched, vfs_watch_list, queue, batch, next, stack,
                   opened, changed, calls>>

Top == Len(stack)

\* readdir returns an entry.
Returns(x) ==
    /\ Top > 0 /\ want["vfs"] = NoFile
    /\ Parent[x] = stack[Top].dir /\ x \notin stack[Top].seen /\ Exists(x)

Seen(x) == [stack EXCEPT ![Top].seen = @ \cup {x}]

\* pkg_open returns a handle for x; only a complete file counts.
Returned(x) == opened' = IF fs[x] = "complete" THEN opened \cup {x} ELSE opened

\* pkg_open up to db_begin: a handle in pkg_list is taken as it is, with one
\* more reference.
pkg_open(t, x) ==
    /\ IF handle[x] = "none"
       THEN want' = [want EXCEPT ![t] = x] /\ UNCHANGED <<handle, opened>>
       ELSE /\ handle' = [handle EXCEPT ![x] = IF @ = "idle" THEN "stale" ELSE @]
            /\ Returned(x) /\ UNCHANGED want
    /\ UNCHANGED db_locked

\* The other thread has the package meanwhile, and with it the lock, but for a
\* handle of a file that was replaced since.
Taken(x) == HostLocking /\ handle[x] # "none"
LockFails(x) == HostLocking /\ handle[x] = "held"

\* The import of an archive; a part of one has a part of the entries.
Import(t) ==
    LET x == want[t] IN
    /\ x # NoFile /\ ~db_locked
    /\ fs[x] # "absent" /\ x \notin Refused /\ ~LockFails(x)
    /\ handle' = [handle EXCEPT ![x] = IF fs[x] = "complete" THEN "held" ELSE "stale"]
    /\ want' = [want EXCEPT ![t] = NoFile]
    /\ Returned(x)
    /\ UNCHANGED <<fs, gone, changes, watched, vfs_watch_list, queue, batch, pc, next, stack,
                   db_locked, changed>>

\* open or flock fails: db_mutex stays locked.
OpenFails(t) ==
    LET x == want[t] IN
    /\ x # NoFile /\ ~db_locked
    /\ fs[x] = "absent" \/ x \in Refused \/ Taken(x)
    /\ want' = [want EXCEPT ![t] = NoFile]
    /\ db_locked' = TRUE
    /\ UNCHANGED <<fs, gone, changes, watched, vfs_watch_list, queue, batch, pc, next, stack,
                   handle, opened, changed>>

\* pkg_archive_open fails: db_mutex stays locked, and the handle is in pkg_list.
ArchiveFails(t) ==
    LET x == want[t] IN
    /\ x # NoFile /\ ~db_locked
    /\ fs[x] = "partial" \/ (fs[x] = "complete" /\ x \in Refused)
    /\ ~LockFails(x)
    /\ handle' = [handle EXCEPT ![x] = IF @ = "none" THEN "idle" ELSE @]
    /\ want' = [want EXCEPT ![t] = NoFile]
    /\ db_locked' = TRUE
    /\ UNCHANGED <<fs, gone, changes, watched, vfs_watch_list, queue, batch, pc, next, stack,
                   opened, changed>>

SkipHidden(x) ==
    /\ Returns(x) /\ x \in Hidden
    /\ stack' = Seen(x)
    /\ UNCHANGED <<fs, gone, changes, watched, vfs_watch_list, queue, batch, pc, next,
                   opened, changed, calls>>

\* Mutant: depth is not incremented.
RecurseFreely(x) ==
    /\ Returns(x) /\ x \in Dirs \ Hidden
    /\ stack[Top].depth < MaxRecurse
    /\ stack' = Append(Seen(x), Called(x, stack[Top].depth))
    /\ UNCHANGED <<fs, gone, changes, watched, vfs_watch_list, queue, batch, pc, next,
                   opened, changed, calls>>

\* depth is that of the whole loop: every subdirectory makes it one more.
Recurse(x) ==
    LET depth == stack[Top].depth + 1 IN
    /\ Returns(x) /\ x \in Dirs \ Hidden
    /\ depth < MaxRecurse
    /\ stack' = Append([Seen(x) EXCEPT ![Top].depth = depth], Called(x, depth))
    /\ UNCHANGED <<fs, gone, changes, watched, vfs_watch_list, queue, batch, pc, next,
                   opened, changed, calls>>

TooDeep(x) ==
    LET depth == stack[Top].depth + 1 IN
    /\ Returns(x) /\ x \in Dirs \ Hidden
    /\ depth >= MaxRecurse
    /\ stack' = [Seen(x) EXCEPT ![Top].depth = depth]
    /\ UNCHANGED <<fs, gone, changes, watched, vfs_watch_list, queue, batch, pc, next,
                   opened, changed, calls>>

WalkFile(x) ==
    /\ Returns(x) /\ x \in Files \ Hidden /\ DottedPath[x]
    /\ stack' = Seen(x)
    /\ pkg_open("vfs", x)
    /\ UNCHANGED <<fs, gone, changes, watched, vfs_watch_list, queue, batch, pc, next, changed>>

\* A path without a '.' ends the walk of its directory.
WalkNoExt(x) ==
    /\ Returns(x) /\ x \in Files \ Hidden /\ ~DottedPath[x]
    /\ stack' = SubSeq(stack, 1, Top - 1)
    /\ UNCHANGED <<fs, gone, changes, watched, vfs_watch_list, queue, batch, pc, next,
                   opened, changed, calls>>

\* Mutant: the stream ends after its first entry.
EndEarly ==
    /\ Top > 0 /\ want["vfs"] = NoFile /\ stack[Top].seen # {}
    /\ stack' = SubSeq(stack, 1, Top - 1)
    /\ UNCHANGED <<fs, gone, changes, watched, vfs_watch_list, queue, batch, pc, next,
                   opened, changed, calls>>

\* closedir
WalkEnd ==
    /\ Top > 0 /\ want["vfs"] = NoFile /\ stack[Top].owed \subseteq stack[Top].seen
    /\ stack' = SubSeq(stack, 1, Top - 1)
    /\ UNCHANGED <<fs, gone, changes, watched, vfs_watch_list, queue, batch, pc, next,
                   opened, changed, calls>>

VfsThread ==
    \/ WatchAdd \/ WatchFails \/ WatchList \/ WalkRoot \/ WalkDone \/ WalkEnd
    \/ Import("vfs") \/ OpenFails("vfs") \/ ArchiveFails("vfs")
    \/ \E x \in Inner : SkipHidden(x) \/ Recurse(x) \/ TooDeep(x) \/ WalkFile(x) \/ WalkNoExt(x)

-----------------------------------------------------------------------------
(* The main thread: vfs_inotify_evt_get *)

EvtRead ==
    /\ batch = <<>> /\ want["main"] = NoFile /\ queue # <<>>
    /\ batch' = queue /\ queue' = <<>>
    /\ UNCHANGED <<fs, gone, changes, watched, vfs_watch_list, pc, next, stack, opened, changed,
                   calls>>

\* Mutant: a hidden name is like any other.
NeverStuck == FALSE

\* The event at i.  A name that begins with '.' makes the loop start over with
\* the same i: no step follows.
Stuck == batch # <<>> /\ Head(batch).name \in Hidden

Handling == batch # <<>> /\ ~Stuck /\ want["main"] = NoFile

\* There is one watch at most, so an event has its descriptor if it is listed.
Registered(e) == e.name # Overflow /\ vfs_watch_list # {}

\* An event for a watch that is not in the list, or without a name: return.
EvtReturn ==
    /\ Handling
    /\ ~Registered(Head(batch)) \/ Head(batch).name = Nameless
    /\ batch' = <<>>
    /\ UNCHANGED <<fs, gone, changes, watched, vfs_watch_list, queue, pc, next, stack,
                   opened, changed, calls>>

EvtOpen ==
    /\ Handling
    /\ Registered(Head(batch)) /\ Head(batch).name # Nameless /\ Head(batch).in
    /\ batch' = Tail(batch)
    /\ pkg_open("main", Head(batch).name)
    /\ UNCHANGED <<fs, gone, changes, watched, vfs_watch_list, queue, pc, next, stack, changed>>

\* Mutant: the rest of the batch is dropped.
ForgetDropsRest ==
    /\ Handling
    /\ Registered(Head(batch)) /\ Head(batch).name # Nameless /\ ~Head(batch).in
    /\ batch' = <<>>
    /\ UNCHANGED <<fs, gone, changes, watched, vfs_watch_list, queue, pc, next, stack,
                   opened, changed, calls>>

\* pkg_forget calls a stub.
EvtForget ==
    /\ Handling
    /\ Registered(Head(batch)) /\ Head(batch).name # Nameless /\ ~Head(batch).in
    /\ batch' = Tail(batch)
    /\ UNCHANGED <<fs, gone, changes, watched, vfs_watch_list, queue, pc, next, stack,
                   opened, changed, calls>>

\* pkg_gc, some time after the handle was made
Collect(x) ==
    /\ batch = <<>> /\ want["main"] = NoFile
    /\ handle[x] = "idle" /\ handle' = [handle EXCEPT ![x] = "none"]
    /\ UNCHANGED <<fs, gone, changes, watched, vfs_watch_list, queue, batch, pc, next, stack,
                   want, db_locked, opened, changed>>

MainThread ==
    \/ EvtRead \/ EvtReturn \/ EvtOpen \/ EvtForget
    \/ Import("main") \/ OpenFails("main") \/ ArchiveFails("main")
    \/ \E x \in Files : Collect(x)

-----------------------------------------------------------------------------
Next == Environment \/ VfsThread \/ MainThread

\* Both threads go on while they can, which a thread that waits for a mutex that
\* was left locked cannot; nobody has to change a file.
Spec == Init /\ [][Next]_vars /\ WF_vars(VfsThread) /\ WF_vars(MainThread)

-----------------------------------------------------------------------------
(* Properties *)

\* The C types, one directory stream per call and one watch at most.
TypeOK ==
    /\ fs \in [Files -> {"absent", "partial", "complete"}]
    /\ gone \subseteq Dirs /\ changes \in 0 .. MaxChanges
    /\ watched \subseteq RootDirs /\ vfs_watch_list \subseteq RootDirs
    /\ queue \in Seq(Event) /\ batch \in Seq(Event) /\ Len(queue) <= QueueLimit + 1
    /\ pc \in {"watch", "list", "scan", "done"} /\ next \in 1 .. Len(Roots) + 1
    /\ stack \in Seq(Frame)
    /\ handle \in [Files -> Handle] /\ want \in [Threads -> Files \cup {NoFile}]
    /\ db_locked \in BOOLEAN
    /\ opened \subseteq Files /\ changed \subseteq Files \cup Dirs

\* "Anywhere VFS recurses, hard limit it to this": the calls of the walk.
DepthBounded == Len(stack) < MaxRecurse

\* What one reaches from the roots without passing a hidden name.
Visible ==
    {x \in Dirs \cup Files : \A S \in SUBSET (Dirs \cup Files) :
        RootDirs \subseteq S /\ (\A y \in Inner \ Hidden : Parent[y] \in S => y \in S) => x \in S}

\* "Skip over hidden/disabled items": neither thread ever asks for a file that is
\* hidden or below a hidden directory, be it found by the walk or by an event,
\* and none gets a handle.
HiddenNeverOpened ==
    \A f \in Files \ Visible : handle[f] = "none" /\ \A t \in Threads : want[t] # f

\* The largest depth with which the walk may come to a directory.
WorstDepth ==
    LET depth[d \in Dirs] ==
            IF d \in RootDirs THEN 1
            ELSE depth[Parent[d]]
                 + Cardinality({e \in (Dirs \ RootDirs) \ Hidden : Parent[e] = Parent[d]})
    IN  depth

\* Some file of the directory may end its walk.
CutShort(d) == \E f \in Files \ Hidden : Parent[f] = d /\ ~DottedPath[f]

\* The walk comes to the directory and reads it to its end.
Walked ==
    LET walked[d \in Dirs] ==
            /\ ~CutShort(d) /\ WorstDepth[d] < MaxRecurse
            /\ d \in RootDirs \/ (d \notin Hidden /\ walked[Parent[d]])
    IN  walked

\* "Load ALL packages in pkgdir": when the walk is over, pkg_open has returned a
\* handle for every package in a directory within its limits that did not change
\* meanwhile and that it can take, whatever happened to the others, and whatever
\* the other thread opened.  (A walk that waits for ever is never over.)
ScanFindsAll ==
    pc = "done" /\ Prescan =>
        \A f \in Files \ (Hidden \cup Refused) :
            fs[f] = "complete" /\ f \notin changed /\ Walked[Parent[f]] => f \in opened

Overflown == \E i \in DOMAIN queue : queue[i].name = Overflow
Unwatched == pc \in {"scan", "done"} /\ vfs_watch_list = {}

\* What nothing in the code makes good: events that are lost, a watch that could
\* not be made, and a failed pkg_open, after which the next import waits for ever.
Undone == Overflown \/ Unwatched \/ db_locked

\* "Use inotify to track changes to pkgdir": a package in the directory itself is
\* opened again after its last change, be it before, while or after the watch
\* is made and the directory walked, unless something above happens.
Discovered ==
    \/ <>Undone
    \/ \A f \in Files \ Hidden : Parent[f] \in RootDirs =>
           []<>(fs[f] = "complete" => f \in opened)

\* The same while no event for a hidden file has stopped the callback.
CleanDiscovered == <>Stuck \/ Discovered
=============================================================================
