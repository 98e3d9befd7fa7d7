------------------------------ MODULE PkgCache ------------------------------
(***************************************************************************)
(* The package cache of jailfs: src/pkg.c with the transaction lock and    *)
(* the package numbers of src/database.c.                                  *)
(*                                                                         *)
(* Threads call pkg_open, pkg_close and pkg_gc.  The list of handles, the  *)
(* handles themselves and the counter g_pkgid are shared; only the middle  *)
(* of pkg_open runs under db_mutex.  One action is one stretch of code     *)
(* between two points at which another thread can be observed; list and    *)
(* heap primitives are single steps (module BlockHeap looks inside them).  *)
(***************************************************************************)
EXTENDS Integers, Sequences, FiniteSets

CONSTANTS
    Threads,        \* the threads of the daemon
    Openers,        \* those that call pkg_open (vfs thread, inotify callback)
    Collectors,     \* those that call pkg_gc (timers, shell command "gc now")
    Closing,        \* TRUE if callers of pkg_open call pkg_close later
    Packages,       \* paths of package files
    Unreadable,     \* those on which stat, open or flock may fail
    Invalid,        \* those that libarchive may refuse to open
    Corrupt,        \* those in which reading a header may fail
    Files,          \* number of entries of each package
    HostLocking,    \* the configuration key vfs.locking.host
    Handles,        \* elements of heap_pkg
    NoName, NoHandle, \* NULL
    pkg_lifetime,   \* seconds a handle stays cached, tuning.timer.pkg_gc
    MaxNow,         \* bound on the clock
    MaxOpens        \* bound on the number of calls of pkg_open

ASSUME ThreadsAssumption == Openers \subseteq Threads /\ Collectors \subseteq Threads
ASSUME FlagsAssumption == Closing \in BOOLEAN /\ HostLocking \in BOOLEAN
ASSUME FilesAssumption == Files \in [Packages -> Nat]
ASSUME NamesAssumption == NoName \notin Packages /\ NoHandle \notin Handles
ASSUME BoundsAssumption ==
    pkg_lifetime \in Nat /\ MaxNow \in Nat /\ MaxOpens \in Nat

VARIABLES
    handle,     \* contents of every element of heap_pkg
    inUse,      \* elements handed out by blockheap_alloc and not yet freed
    nodes,      \* the dlink nodes ever created (they are never reused)
    linked,     \* those in pkg_list; its order is that of their numbers
    db_locked,  \* db_mutex
    g_pkgid,    \* the last package number given out
    now,        \* time(NULL)
    view,       \* entries vfs_add_path has stored
    held,       \* how many references each thread's callers hold
    pc, loc,    \* where each thread is, and its local variables
    opens       \* calls of pkg_open so far

vars == <<handle, inUse, nodes, linked, db_locked, g_pkgid, now, view, held,
          pc, loc, opens>>

\* struct pkg_handle, the nodes of pkg_list, and the locals of the functions.
pkg_handle == [name : Packages \cup {NoName}, pkgid : Int, fd : BOOLEAN,
               refcnt : Int, otime : Nat]
dlink_node == [data : Handles, next : Nat]
Locals == [path : Packages \cup {NoName}, h : Handles \cup {NoHandle},
           hdr : Nat, reg : Int, cur : Nat]

ZeroHandle == [name |-> NoName, pkgid |-> 0, fd |-> FALSE, refcnt |-> 0, otime |-> 0]

NoLocals == [path |-> NoName, h |-> NoHandle, hdr |-> 0, reg |-> 0, cur |-> 0]

Entry == [pkgid : Nat, pkg : Packages, file : Nat]

\* "idle": the thread is not inside a function of the cache.
Labels == {"idle", "begin", "alloc", "stat", "number", "open", "link", "archive",
           "scan", "failed", "commit", "bump", "bumped", "close", "gc", "clear", "unlink",
           "dead"}

-----------------------------------------------------------------------------
(* pkg_list *)

First(S) == IF S = {} THEN 0 ELSE CHOOSE n \in S : \A m \in S : n <= m

\* ptr->next; dlink_delete leaves the next pointer of the node it removes.
NextNode(n) ==
    IF n \in linked THEN First({m \in linked : n < m}) ELSE nodes[n].next

NameAt(n) == handle[nodes[n].data].name

\* Mutant: the search looks only at the head of the list.
LookupHeadOnly(p) ==
    First({n \in linked : n = First(linked) /\ NameAt(n) \in {p, NoName}})

\* The node at which the strcmp loop of pkg_handle_byname stops: the first one
\* whose name is the path, or is NULL (and then strcmp faults).
pkg_handle_byname(p) == First({n \in linked : NameAt(n) \in {p, NoName}})

\* An exclusive flock on the file is held through another descriptor.
LockedElsewhere(t) ==
    /\ HostLocking
    /\ \E g \in Handles \ {loc[t].h} :
           handle[g].fd /\ handle[g].name = loc[t].path

-----------------------------------------------------------------------------
Init ==
    /\ handle = [h \in Handles |-> ZeroHandle]
    /\ inUse = {}
    /\ nodes = << >>
    /\ linked = {}
    /\ db_locked = FALSE
    /\ g_pkgid = 1
    /\ now = pkg_lifetime + 1
    /\ view = {}
    /\ held = [t \in Threads |-> [h \in Handles |-> 0]]
    /\ pc = [t \in Threads |-> "idle"]
    /\ loc = [t \in Threads |-> NoLocals]
    /\ opens = 0

Goto(t, label) == pc' = [pc EXCEPT ![t] = label]

\* The call returns: its locals are gone.
Return(t) ==
    /\ Goto(t, "idle")
    /\ loc' = [loc EXCEPT ![t] = NoLocals]

\* The call gives up: nothing is left to do but to return NULL.
Fail(t) ==
    /\ Goto(t, "failed")
    /\ loc' = [loc EXCEPT ![t] = NoLocals]

-----------------------------------------------------------------------------
(* pkg_open *)

\* The search in the cache happens before any lock is taken.
Lookup(t, p) ==
    /\ pc[t] = "idle" /\ opens < MaxOpens
    /\ opens' = opens + 1
    /\ UNCHANGED <<handle, inUse, nodes, linked, db_locked, g_pkgid, now, view, held>>

LookupHit(t, p) ==
    LET n == pkg_handle_byname(p) IN
    /\ Lookup(t, p)
    /\ n # 0 /\ NameAt(n) = p
    /\ Goto(t, "bump")
    /\ loc' = [loc EXCEPT ![t] = [NoLocals EXCEPT !.path = p, !.h = nodes[n].data]]

LookupMiss(t, p) ==
    /\ Lookup(t, p)
    /\ pkg_handle_byname(p) = 0
    /\ Goto(t, "begin")
    /\ loc' = [loc EXCEPT ![t] = [NoLocals EXCEPT !.path = p]]

\* strcmp(NULL, path): the fault ends the process, and every thread with it.
LookupFault(t, p) ==
    LET n == pkg_handle_byname(p) IN
    /\ Lookup(t, p)
    /\ n # 0 /\ NameAt(n) = NoName
    /\ pc' = [s \in Threads |-> "dead"]
    /\ UNCHANGED loc

\* Mutant: the transaction starts without waiting for the lock.
BeginNoWait(t) ==
    /\ pc[t] = "begin"
    /\ db_locked' = TRUE
    /\ Goto(t, "alloc")
    /\ UNCHANGED <<handle, inUse, nodes, linked, g_pkgid, now, view, held, loc, opens>>

db_begin(t) ==
    /\ pc[t] = "begin" /\ ~db_locked
    /\ db_locked' = TRUE
    /\ Goto(t, "alloc")
    /\ UNCHANGED <<handle, inUse, nodes, linked, g_pkgid, now, view, held, loc, opens>>

\* blockheap_alloc zeroes the element; which free one it returns is left open.
Alloc(t) ==
    /\ pc[t] = "alloc"
    /\ \E h \in Handles \ inUse :
          /\ inUse' = inUse \cup {h}
          /\ handle' = [handle EXCEPT ![h] = [ZeroHandle EXCEPT !.name = loc[t].path]]
          /\ loc' = [loc EXCEPT ![t].h = h]
    /\ Goto(t, "stat")
    /\ UNCHANGED <<nodes, linked, db_locked, g_pkgid, now, view, held, opens>>

\* db_pkg_add returns -errno; pkg_open does not look at it.
StatFails(t) ==
    /\ pc[t] = "stat" /\ loc[t].path \in Unreadable
    /\ handle' = [handle EXCEPT ![loc[t].h].pkgid = -1]
    /\ Goto(t, "open")
    /\ UNCHANGED <<inUse, nodes, linked, db_locked, g_pkgid, now, view, held, loc, opens>>

\* ++g_pkgid is a read ...
NumberRead(t) ==
    /\ pc[t] = "stat"
    /\ loc' = [loc EXCEPT ![t].reg = g_pkgid]
    /\ Goto(t, "number")
    /\ UNCHANGED <<handle, inUse, nodes, linked, db_locked, g_pkgid, now, view, held, opens>>

\* Mutant: the number is computed and never stored.
NumberNotStored(t) ==
    /\ pc[t] = "number"
    /\ handle' = [handle EXCEPT ![loc[t].h].pkgid = loc[t].reg + 1]
    /\ Goto(t, "open")
    /\ UNCHANGED <<inUse, nodes, linked, db_locked, g_pkgid, now, view, held, loc, opens>>

\* ... and a write.
NumberWrite(t) ==
    /\ pc[t] = "number"
    /\ g_pkgid' = loc[t].reg + 1
    /\ handle' = [handle EXCEPT ![loc[t].h].pkgid = loc[t].reg + 1]
    /\ Goto(t, "open")
    /\ UNCHANGED <<inUse, nodes, linked, db_locked, now, view, held, loc, opens>>

\* open and flock succeed.
OpenFile(t) ==
    /\ pc[t] = "open" /\ ~LockedElsewhere(t)
    /\ handle' = [handle EXCEPT ![loc[t].h].fd = TRUE]
    /\ Goto(t, "link")
    /\ UNCHANGED <<inUse, nodes, linked, db_locked, g_pkgid, now, view, held, loc, opens>>

\* open or flock fails: pkg_release clears the handle, which is in no list and
\* so is not freed, and pkg_open returns NULL with db_mutex locked.
OpenFails(t) ==
    /\ pc[t] = "open"
    /\ loc[t].path \in Unreadable \/ LockedElsewhere(t)
    /\ handle' = [handle EXCEPT ![loc[t].h].name = NoName, ![loc[t].h].fd = FALSE]
    /\ Fail(t)
    /\ UNCHANGED <<inUse, nodes, linked, db_locked, g_pkgid, now, view, held, opens>>

\* dlink_add_tail_alloc: from here the collectors see the handle.
Link(t) ==
    /\ pc[t] = "link"
    /\ nodes' = Append(nodes, [data |-> loc[t].h, next |-> 0])
    /\ linked' = linked \cup {Len(nodes) + 1}
    /\ Goto(t, "archive")
    /\ UNCHANGED <<handle, inUse, db_locked, g_pkgid, now, view, held, loc, opens>>

ArchiveOpens(t) ==
    /\ pc[t] = "archive"
    /\ Goto(t, "scan")
    /\ UNCHANGED <<handle, inUse, nodes, linked, db_locked, g_pkgid, now, view, held, loc, opens>>

\* pkg_open returns NULL with the handle cached and db_mutex locked.
ArchiveFails(t) ==
    /\ pc[t] = "archive" /\ loc[t].path \in Invalid
    /\ Fail(t)
    /\ UNCHANGED <<handle, inUse, nodes, linked, db_locked, g_pkgid, now, view, held, opens>>

ReturnNull(t) ==
    /\ pc[t] = "failed"
    /\ Goto(t, "idle")
    /\ UNCHANGED <<handle, inUse, nodes, linked, db_locked, g_pkgid, now, view, held, loc, opens>>

\* An entry for a valid package number; vfs_find, a stub, never finds one that is
\* already there.
vfs_add_path(id, p, k) ==
    IF id < 1 THEN view ELSE view \cup {[pkgid |-> id, pkg |-> p, file |-> k]}

\* One round of the header loop; vfs_add_path refuses package numbers below 1.
ScanEntry(t) ==
    LET k == loc[t].hdr + 1 IN
    /\ pc[t] = "scan" /\ k <= Files[loc[t].path]
    /\ view' = vfs_add_path(handle[loc[t].h].pkgid, loc[t].path, k)
    /\ loc' = [loc EXCEPT ![t].hdr = k]
    /\ UNCHANGED <<handle, inUse, nodes, linked, db_locked, g_pkgid, now, held, pc, opens>>

\* Mutant: the loop stops before the last entry.
ScanStopsEarly(t) ==
    /\ pc[t] = "scan" /\ loc[t].hdr + 1 >= Files[loc[t].path]
    /\ Goto(t, "commit")
    /\ UNCHANGED <<handle, inUse, nodes, linked, db_locked, g_pkgid, now, view, held, loc, opens>>

\* ARCHIVE_EOF
ScanEnd(t) ==
    /\ pc[t] = "scan" /\ loc[t].hdr = Files[loc[t].path]
    /\ Goto(t, "commit")
    /\ UNCHANGED <<handle, inUse, nodes, linked, db_locked, g_pkgid, now, view, held, loc, opens>>

\* Any other result: db_rollback unlocks, then control runs into db_commit.
ScanError(t) ==
    /\ pc[t] = "scan" /\ loc[t].path \in Corrupt
    /\ db_locked' = FALSE
    /\ Goto(t, "commit")
    /\ UNCHANGED <<handle, inUse, nodes, linked, g_pkgid, now, view, held, loc, opens>>

\* Mutant: the successful path forgets the unlock.
CommitKeepsLock(t) ==
    /\ pc[t] = "commit"
    /\ Goto(t, "bump")
    /\ UNCHANGED <<handle, inUse, nodes, linked, db_locked, g_pkgid, now, view, held, loc, opens>>

\* pthread_mutex_unlock of a default mutex: it does not matter who locked it.
db_commit(t) ==
    /\ pc[t] = "commit"
    /\ db_locked' = FALSE
    /\ Goto(t, "bump")
    /\ UNCHANGED <<handle, inUse, nodes, linked, g_pkgid, now, view, held, loc, opens>>

\* otime = now and the read of refcnt++ ...
Bump(t) ==
    /\ pc[t] = "bump"
    /\ handle' = [handle EXCEPT ![loc[t].h].otime = now]
    /\ loc' = [loc EXCEPT ![t].reg = handle[loc[t].h].refcnt]
    /\ Goto(t, "bumped")
    /\ UNCHANGED <<inUse, nodes, linked, db_locked, g_pkgid, now, view, held, opens>>

\* ... its write, and the return of the handle to the caller.
Bumped(t) ==
    /\ pc[t] = "bumped"
    /\ handle' = [handle EXCEPT ![loc[t].h].refcnt = loc[t].reg + 1]
    /\ held' = [held EXCEPT ![t][loc[t].h] = @ + 1]
    /\ Return(t)
    /\ UNCHANGED <<inUse, nodes, linked, db_locked, g_pkgid, now, view, opens>>

-----------------------------------------------------------------------------
(* pkg_close: refcnt--, a read and a write *)

CloseRead(t, h) ==
    /\ Closing /\ pc[t] = "idle" /\ held[t][h] > 0
    /\ held' = [held EXCEPT ![t][h] = @ - 1]
    /\ loc' = [loc EXCEPT ![t] = [NoLocals EXCEPT !.h = h, !.reg = handle[h].refcnt]]
    /\ Goto(t, "close")
    /\ UNCHANGED <<handle, inUse, nodes, linked, db_locked, g_pkgid, now, view, opens>>

CloseWrite(t) ==
    /\ pc[t] = "close"
    /\ handle' = [handle EXCEPT ![loc[t].h].refcnt = loc[t].reg - 1]
    /\ Return(t)
    /\ UNCHANGED <<inUse, nodes, linked, db_locked, g_pkgid, now, view, held, opens>>

-----------------------------------------------------------------------------
(* pkg_gc *)

\* Mutant: the walk starts behind the head of the list.
GcSkipsHead(t) ==
    /\ t \in Collectors /\ pc[t] = "idle"
    /\ loc' = [loc EXCEPT ![t] =
                 [NoLocals EXCEPT !.cur = First(linked \ {First(linked)})]]
    /\ Goto(t, "gc")
    /\ UNCHANGED <<handle, inUse, nodes, linked, db_locked, g_pkgid, now, view, held, opens>>

GcStart(t) ==
    /\ t \in Collectors /\ pc[t] = "idle"
    /\ loc' = [loc EXCEPT ![t] = [NoLocals EXCEPT !.cur = First(linked)]]
    /\ Goto(t, "gc")
    /\ UNCHANGED <<handle, inUse, nodes, linked, db_locked, g_pkgid, now, view, held, opens>>

\* Mutant: references are not looked at.
ExpiredByTime(h) == now > handle[h].otime + pkg_lifetime

Expired(h) == handle[h].refcnt = 0 /\ now > handle[h].otime + pkg_lifetime

\* One round of DLINK_FOREACH_SAFE: the next node is read before the body runs.
GcKeep(t) ==
    /\ pc[t] = "gc" /\ loc[t].cur # 0
    /\ ~Expired(nodes[loc[t].cur].data)
    /\ loc' = [loc EXCEPT ![t].cur = NextNode(loc[t].cur)]
    /\ UNCHANGED <<handle, inUse, nodes, linked, db_locked, g_pkgid, now, view, held, pc, opens>>

GcChoose(t) ==
    /\ pc[t] = "gc" /\ loc[t].cur # 0
    /\ Expired(nodes[loc[t].cur].data)
    /\ loc' = [loc EXCEPT ![t].cur = NextNode(loc[t].cur),
                          ![t].h = nodes[loc[t].cur].data]
    /\ Goto(t, "clear")
    /\ UNCHANGED <<handle, inUse, nodes, linked, db_locked, g_pkgid, now, view, held, opens>>

\* pkg_release, first half: the name is freed and the file closed.
ReleaseClear(t) ==
    /\ pc[t] = "clear"
    /\ handle' = [handle EXCEPT ![loc[t].h].name = NoName, ![loc[t].h].fd = FALSE]
    /\ Goto(t, "unlink")
    /\ UNCHANGED <<inUse, nodes, linked, db_locked, g_pkgid, now, view, held, loc, opens>>

\* Mutant: the handle leaves the list and is not given back to the heap.
UnlinkOnly(t) ==
    LET n == First({m \in linked : nodes[m].data = loc[t].h}) IN
    /\ pc[t] = "unlink"
    /\ nodes' = IF n = 0 THEN nodes ELSE [nodes EXCEPT ![n].next = NextNode(n)]
    /\ linked' = linked \ {n}
    /\ loc' = [loc EXCEPT ![t].h = NoHandle]
    /\ Goto(t, "gc")
    /\ UNCHANGED <<handle, inUse, db_locked, g_pkgid, now, view, held, opens>>

\* pkg_release, second half: pkg_findnode, dlink_delete and blockheap_free,
\* which zeroes the element.
ReleaseUnlink(t) ==
    LET h == loc[t].h
        n == First({m \in linked : nodes[m].data = h})
    IN
    /\ pc[t] = "unlink"
    /\ IF n = 0 THEN UNCHANGED <<handle, inUse, nodes, linked>>
       ELSE /\ nodes' = [nodes EXCEPT ![n].next = NextNode(n)]
            /\ linked' = linked \ {n}
            /\ handle' = [handle EXCEPT ![h] = ZeroHandle]
            /\ inUse' = inUse \ {h}
    /\ loc' = [loc EXCEPT ![t].h = NoHandle]
    /\ Goto(t, "gc")
    /\ UNCHANGED <<db_locked, g_pkgid, now, view, held, opens>>

GcEnd(t) ==
    /\ pc[t] = "gc" /\ loc[t].cur = 0
    /\ Return(t)
    /\ UNCHANGED <<handle, inUse, nodes, linked, db_locked, g_pkgid, now, view, held, opens>>

-----------------------------------------------------------------------------
Tick ==
    /\ now < MaxNow
    /\ now' = now + 1
    /\ UNCHANGED <<handle, inUse, nodes, linked, db_locked, g_pkgid, view, held, pc, loc, opens>>

Open(t, p) == LookupHit(t, p) \/ LookupMiss(t, p) \/ LookupFault(t, p)

\* A thread that is inside a function of the cache goes on.
Step(t) ==
    \/ db_begin(t) \/ Alloc(t) \/ StatFails(t) \/ NumberRead(t) \/ NumberWrite(t)
    \/ OpenFile(t) \/ OpenFails(t) \/ Link(t) \/ ArchiveOpens(t) \/ ArchiveFails(t)
    \/ ReturnNull(t)
    \/ ScanEntry(t) \/ ScanEnd(t) \/ ScanError(t) \/ db_commit(t)
    \/ Bump(t) \/ Bumped(t) \/ CloseWrite(t)
    \/ GcKeep(t) \/ GcChoose(t) \/ ReleaseClear(t) \/ ReleaseUnlink(t) \/ GcEnd(t)

Next ==
    \/ Tick
    \/ \E t \in Threads : Step(t)
    \/ \E t \in Threads : GcStart(t)
    \/ \E t \in Threads, h \in Handles : CloseRead(t, h)
    \/ \E t \in Openers, p \in Packages : Open(t, p)

Spec == Init /\ [][Next]_vars

\* Every thread that can go on does so, the clock runs, and the collectors'
\* timers fire again and again.
Fairness ==
    /\ WF_vars(Tick)
    /\ \A t \in Threads : WF_vars(Step(t))
    /\ \A t \in Collectors : WF_vars(GcStart(t))

FairSpec == Spec /\ Fairness

-----------------------------------------------------------------------------
(* Properties *)

Linked(h) == \E n \in linked : nodes[n].data = h

\* Between db_begin and db_commit of pkg_open.
Importing(t) == pc[t] \in {"alloc", "stat", "number", "open", "link", "archive",
                           "scan", "commit"}

Clean == Packages \ (Unreadable \cup Invalid \cup Corrupt)

\* The values of the variables are those the C types and the bounds allow.
TypeOK ==
    /\ handle \in [Handles -> pkg_handle]
    /\ inUse \subseteq Handles
    /\ nodes \in Seq(dlink_node)
    /\ linked \subseteq 1 .. Len(nodes)
    /\ db_locked \in BOOLEAN
    /\ g_pkgid \in Nat
    /\ now \in Nat
    /\ view \subseteq Entry
    /\ held \in [Threads -> [Handles -> Nat]]
    /\ pc \in [Threads -> Labels]
    /\ loc \in [Threads -> Locals]
    /\ opens \in Nat

\* While no header is unreadable, the transaction lock does its work: two
\* threads are never between db_begin and db_commit of pkg_open together,
\* whatever else fails and however the collectors interleave.
DbMutualExclusion == \A s, t \in Threads : Importing(s) /\ Importing(t) => s = t

\* db_pkg_add gives every handle in use a package number of its own.
UniquePkgIds ==
    \A g, h \in inUse :
        handle[g].pkgid >= 1 /\ handle[g].pkgid = handle[h].pkgid => g = h

\* All entries of the view that carry the same package number are entries of
\* the same package, even if a collector releases a handle under pkg_open.
ViewAttribution ==
    \A d, e \in view : d.pkgid = e.pkgid => d.pkg = e.pkg

\* The cache never lists two handles for one package, and none without a name
\* that strcmp could meet, but the one that pkg_release is about to unlink.
OneHandlePerName ==
    \A m, n \in linked : NameAt(m) = NameAt(n) =>
        \/ m = n /\ NameAt(m) # NoName
        \/ \E t \in Threads : pc[t] = "unlink" /\ loc[t].h = nodes[m].data

\* A handle somebody still holds a reference to is allocated, named and listed.
HeldHandlesLive ==
    \A t \in Threads, h \in Handles : held[t][h] > 0 =>
        h \in inUse /\ handle[h].name # NoName /\ Linked(h)

\* The view holds every entry of a package, under the number of the handle,
\* once pkg_open has returned that handle.
HeldComplete ==
    \A t \in Threads, h \in Handles :
        held[t][h] > 0 /\ handle[h].name \in Clean =>
            \A k \in 1 .. Files[handle[h].name] :
                [pkgid |-> handle[h].pkgid, pkg |-> handle[h].name, file |-> k] \in view

\* pkg_release frees what it takes out of the list: an element in use is listed
\* or belongs to a running pkg_open.
NoLeak == \A h \in inUse : Linked(h) \/ \E t \in Threads : Importing(t) /\ loc[t].h = h

\* Every call of pkg_open that goes for the lock returns (or the process dies).
OpenReturns ==
    \A t \in Threads : pc[t] = "begin" ~> pc[t] \in {"idle", "dead"}

\* The same while no call has failed in its transaction, where open, flock and
\* libarchive can: as long as packages are clean, and no two threads miss on the
\* same one under host locking, every call that goes for the lock returns.
CleanOpenReturns == <>(\E t \in Threads : pc[t] = "failed") \/ OpenReturns

\* A listed handle without references that has outlived pkg_lifetime is
\* released by a later pkg_gc, unless it is opened again.
Reclaimed ==
    \A h \in Handles :
        Linked(h) /\ Expired(h) ~> ~Linked(h) \/ handle[h].refcnt > 0
=============================================================================
