------------------------------ MODULE LifeCycle ------------------------------
(***************************************************************************)
(* Start and end of jailfs processes that serve one jail: main of          *)
(* src/main.c, the start barrier of src/threads.c, the pid file and the    *)
(* signals of src/unix.c, and the launch of the inmate in src/cell.c.      *)
(*                                                                         *)
(* Thread 0 of a process is its main thread, the others are numbered in    *)
(* the order of main_threads.  The pid file is shared by the processes:    *)
(* its content, and who has the file that is now in the directory open.    *)
(* A signal is handled at any point, by any thread that exists.            *)
(***************************************************************************)
EXTENDS Naturals

CONSTANTS
    Procs,          \* processes started for the jail, each once
    NThreads,       \* threads that main creates
    Vfs, Cell,      \* positions of two of them
    Signals,        \* the signals that are sent
    SerialStart,    \* no two processes are in pidfile_open at once
    RelativePid,    \* path.pid is relative to the directory of the jail
    NoFile, Empty   \* contents of the pid file that are no process

ASSUME NThreadsAssumption == NThreads \in Nat
ASSUME FileAssumption == NoFile \notin Procs /\ Empty \notin Procs /\ NoFile # Empty
ASSUME ThreadAssumption == Vfs \in 1 .. NThreads /\ Cell \in 1 .. NThreads /\ Vfs # Cell
ASSUME FlagAssumption == SerialStart \in BOOLEAN /\ RelativePid \in BOOLEAN

Created == 1 .. NThreads
Tids == 0 .. NThreads

VARIABLES
    pidfile, sharers,   \* the file: its content, and the processes that have it open
    pc,                 \* where main is, or how the process ended
    pidfile_name,       \* whether pidfile_name is set
    moved,              \* whether the working directory is "/" already
    dying,              \* conf.dying
    core_ready,
    holder,             \* threads that hold core_ready_m
    made,               \* threads created
    at, left,           \* where each thread is, and its calls of thread_entry to go
    goodbye, handler    \* progress of goodbye, and the thread that runs it

vars == <<pidfile, sharers, pc, pidfile_name, moved, dying, core_ready, holder, made, at, left,
          goodbye, handler>>

file_vars == <<pidfile, sharers>>
barrier_vars == <<core_ready, holder, made, at, left>>
own_vars == <<pidfile_name, moved>>
end_vars == <<dying, goodbye, handler>>

Ended == {"refused", "gone", "returned", "killed", "replaced"}
MainSteps == {"init", "checked", "opened", "written", "threads", "ready", "unlocked", "loop", "running"}

Alive(p) == pc[p] \in MainSteps

\* The thread exists and is not busy with goodbye.
Runs(p, t) ==
    /\ Alive(p)
    /\ t # 0 => at[p][t] \notin {"none", "ended"}
    /\ goodbye[p] # "no" => handler[p] # t

MainAt(p, label) == pc[p] = label /\ Runs(p, 0)

Goto(p, label) == pc' = [pc EXCEPT ![p] = label]

\* The process ends: its threads and its memory are gone, its files are closed.
End(p, label) ==
    /\ Goto(p, label)
    /\ sharers' = sharers \ {p}
    /\ pidfile_name' = [pidfile_name EXCEPT ![p] = FALSE]
    /\ moved' = [moved EXCEPT ![p] = FALSE]
    /\ dying' = [dying EXCEPT ![p] = FALSE]
    /\ core_ready' = [core_ready EXCEPT ![p] = FALSE]
    /\ holder' = [holder EXCEPT ![p] = {}]
    /\ made' = [made EXCEPT ![p] = 0]
    /\ at' = [at EXCEPT ![p] = [t \in Created |-> "none"]]
    /\ left' = [left EXCEPT ![p] = [t \in Created |-> 0]]
    /\ goodbye' = [goodbye EXCEPT ![p] = "no"]
    /\ handler' = [handler EXCEPT ![p] = 0]
    /\ UNCHANGED pidfile

-----------------------------------------------------------------------------
Init ==
    /\ pidfile = NoFile /\ sharers = {}
    /\ pc = [p \in Procs |-> "off"]
    /\ pidfile_name = [p \in Procs |-> FALSE]
    /\ moved = [p \in Procs |-> FALSE]
    /\ dying = [p \in Procs |-> FALSE]
    /\ core_ready = [p \in Procs |-> FALSE]
    /\ holder = [p \in Procs |-> {}]
    /\ made = [p \in Procs |-> 0]
    /\ at = [p \in Procs |-> [t \in Created |-> "none"]]
    /\ left = [p \in Procs |-> [t \in Created |-> 0]]
    /\ goodbye = [p \in Procs |-> "no"]
    /\ handler = [p \in Procs |-> 0]

-----------------------------------------------------------------------------
(* main *)

\* Mutant: the Big Lock is not taken.
StartUnlocked(p) ==
    /\ pc[p] = "off"
    /\ SerialStart => \A q \in Procs : pc[q] \notin {"init", "checked"}
    /\ Goto(p, "init")
    /\ UNCHANGED <<file_vars, own_vars, end_vars, barrier_vars>>

\* The Big Lock, the signal handlers, the configuration, the heaps.
Start(p) ==
    /\ pc[p] = "off"
    /\ SerialStart => \A q \in Procs : pc[q] \notin {"init", "checked"}
    /\ holder' = [holder EXCEPT ![p] = {0}]
    /\ Goto(p, "init")
    /\ UNCHANGED <<file_vars, own_vars, end_vars, core_ready, made, at, left>>

\* pidfile_open: "Are we already running?"
PidRefused(p) ==
    /\ MainAt(p, "init") /\ pidfile # NoFile
    /\ End(p, "refused")

\* Mutant: an existing file is no obstacle.
PidUnchecked(p) ==
    /\ MainAt(p, "init")
    /\ Goto(p, "checked")
    /\ UNCHANGED <<file_vars, own_vars, end_vars, barrier_vars>>

PidChecked(p) ==
    /\ MainAt(p, "init") /\ pidfile = NoFile
    /\ Goto(p, "checked")
    /\ UNCHANGED <<file_vars, own_vars, end_vars, barrier_vars>>

\* fopen creates the file, or truncates the one that is there by now.
PidOpen(p) ==
    /\ MainAt(p, "checked")
    /\ pidfile' = Empty
    /\ sharers' = sharers \cup {p}
    /\ Goto(p, "opened")
    /\ UNCHANGED <<own_vars, end_vars, barrier_vars>>

\* A failure of fopen is logged, and fprintf writes to a null pointer.
PidOpenFails(p) ==
    /\ MainAt(p, "checked")
    /\ End(p, "killed")

\* The content goes to the file that was opened, which may be gone.
PidWrite(p) ==
    /\ MainAt(p, "opened")
    /\ pidfile' = IF p \in sharers THEN p ELSE pidfile
    /\ Goto(p, "written")
    /\ UNCHANGED <<sharers, own_vars, end_vars, barrier_vars>>

\* "Store the pid file name so we can unlink it on exit"
PidName(p) ==
    /\ MainAt(p, "written")
    /\ pidfile_name' = [pidfile_name EXCEPT ![p] = TRUE]
    /\ Goto(p, "threads")
    /\ UNCHANGED <<file_vars, moved, end_vars, barrier_vars>>

\* thread_create; the vfs thread calls thread_entry twice.
CreateThread(p) ==
    LET t == made[p] + 1 IN
    /\ MainAt(p, "threads") /\ made[p] < NThreads
    /\ made' = [made EXCEPT ![p] = t]
    /\ at' = [at EXCEPT ![p][t] = "entry"]
    /\ left' = [left EXCEPT ![p][t] = IF t = Vfs THEN 2 ELSE 1]
    /\ UNCHANGED <<file_vars, pc, own_vars, end_vars, core_ready, holder>>

\* main calls abort.
CreateFails(p) ==
    /\ MainAt(p, "threads") /\ made[p] < NThreads
    /\ End(p, "killed")

\* Mutant: the threads are let go before the last one is there.
ReadyEarly(p) ==
    /\ MainAt(p, "threads") /\ made[p] + 1 >= NThreads
    /\ core_ready' = [core_ready EXCEPT ![p] = TRUE]
    /\ Goto(p, "ready")
    /\ UNCHANGED <<file_vars, own_vars, end_vars, holder, made, at, left>>

Ready(p) ==
    /\ MainAt(p, "threads") /\ made[p] = NThreads
    /\ core_ready' = [core_ready EXCEPT ![p] = TRUE]
    /\ Goto(p, "ready")
    /\ UNCHANGED <<file_vars, own_vars, end_vars, holder, made, at, left>>

\* Mutant: the Big Lock is kept.
UnlockForgotten(p) ==
    /\ MainAt(p, "ready")
    /\ Goto(p, "unlocked")
    /\ UNCHANGED <<file_vars, own_vars, end_vars, barrier_vars>>

Unlock(p) ==
    /\ MainAt(p, "ready")
    /\ holder' = [holder EXCEPT ![p] = {}]
    /\ Goto(p, "unlocked")
    /\ UNCHANGED <<file_vars, own_vars, end_vars, core_ready, made, at, left>>

\* No thread is in pthread_cond_wait (BarrierOpen): nothing to wake.
Broadcast(p) ==
    /\ MainAt(p, "unlocked")
    /\ Goto(p, "loop")
    /\ UNCHANGED <<file_vars, own_vars, end_vars, barrier_vars>>

\* while (!conf.dying).  main returns without goodbye.
LoopLeft(p) ==
    /\ MainAt(p, "loop") /\ dying[p]
    /\ End(p, "returned")

\* ev_loop returns only when no timer is left, and cron_tick always is.
LoopEntered(p) ==
    /\ MainAt(p, "loop") /\ ~dying[p]
    /\ Goto(p, "running")
    /\ UNCHANGED <<file_vars, own_vars, end_vars, barrier_vars>>

-----------------------------------------------------------------------------
(* The other threads *)

\* thread_entry
EntryLock(p, t) ==
    /\ Runs(p, t) /\ at[p][t] = "entry" /\ holder[p] = {}
    /\ holder' = [holder EXCEPT ![p] = {t}]
    /\ at' = [at EXCEPT ![p][t] = "locked"]
    /\ UNCHANGED <<file_vars, pc, own_vars, end_vars, core_ready, made, left>>

\* core_ready is set, whence pthread_cond_wait is not called.
EntryPass(p, t) ==
    /\ Runs(p, t) /\ at[p][t] = "locked" /\ core_ready[p]
    /\ holder' = [holder EXCEPT ![p] = {}]
    /\ left' = [left EXCEPT ![p][t] = @ - 1]
    /\ at' = [at EXCEPT ![p][t] = IF left[p][t] = 1 THEN "past" ELSE "entry"]
    /\ UNCHANGED <<file_vars, pc, own_vars, end_vars, core_ready, made>>

\* while (!conf.dying), in every thread; the cell thread has moved by then.
ThreadEnds(p, t) ==
    /\ Runs(p, t) /\ at[p][t] = "past" /\ dying[p]
    /\ t = Cell => moved[p]
    /\ at' = [at EXCEPT ![p][t] = "ended"]
    /\ UNCHANGED <<file_vars, pc, own_vars, end_vars, core_ready, holder, made, left>>

\* thread_vfs_init: without a tmpfs for the cache the thread calls exit.
MountFails(p) ==
    /\ Runs(p, Vfs) /\ at[p][Vfs] = "past"
    /\ End(p, "returned")

\* jail_chroot: chdir("/"), for the process and not only for the thread.
JailChroot(p) ==
    /\ Runs(p, Cell) /\ at[p][Cell] = "past" /\ ~moved[p]
    /\ moved' = [moved EXCEPT ![p] = TRUE]
    /\ UNCHANGED <<file_vars, pc, pidfile_name, end_vars, barrier_vars>>

\* jail_container_launch: execv puts init in the place of the process.  When
\* it fails the thread sleeps and tries again.
CellLaunch(p) ==
    /\ Runs(p, Cell) /\ at[p][Cell] = "past" /\ moved[p] /\ ~dying[p]
    /\ End(p, "replaced")

-----------------------------------------------------------------------------
(* Signals *)

\* signal_handler in thread t, then goodbye
Term(p, t) ==
    /\ "SIGTERM" \in Signals /\ goodbye[p] = "no" /\ Runs(p, t)
    /\ dying' = [dying EXCEPT ![p] = TRUE]
    /\ goodbye' = [goodbye EXCEPT ![p] = "free"]
    /\ handler' = [handler EXCEPT ![p] = t]
    /\ UNCHANGED <<file_vars, pc, own_vars, barrier_vars>>

\* dlink_fini and dconf_fini
GoodbyeFree(p) ==
    /\ Alive(p) /\ goodbye[p] = "free"
    /\ goodbye' = [goodbye EXCEPT ![p] = "close"]
    /\ UNCHANGED <<file_vars, pc, own_vars, dying, handler, barrier_vars>>

\* Another thread looks a key up in the dictionary that is being freed, and
\* faults: the pid file stays.
ReadFreed(p, t) ==
    /\ goodbye[p] = "close" /\ Runs(p, t)
    /\ End(p, "killed")

\* pidfile_close before pidfile_open: fclose of a null pointer.
CloseFaults(p) ==
    /\ Alive(p) /\ goodbye[p] = "close" /\ pc[p] \in {"init", "checked"}
    /\ End(p, "killed")

\* Mutant: the file stays.
CloseOnly(p) ==
    /\ Alive(p) /\ goodbye[p] = "close" /\ pc[p] \notin {"init", "checked"}
    /\ goodbye' = [goodbye EXCEPT ![p] = "exit"]
    /\ pidfile_name' = [pidfile_name EXCEPT ![p] = FALSE]
    /\ UNCHANGED <<file_vars, pc, moved, dying, handler, barrier_vars>>

\* unlink finds the file by its name: not before the name is stored, and not by
\* a relative name once the working directory is another.
PidClose(p) ==
    /\ Alive(p) /\ goodbye[p] = "close" /\ pc[p] \notin {"init", "checked"}
    /\ IF pidfile_name[p] /\ ~(RelativePid /\ moved[p])
       THEN pidfile' = NoFile /\ sharers' = {}
       ELSE UNCHANGED file_vars
    /\ goodbye' = [goodbye EXCEPT ![p] = "exit"]
    /\ pidfile_name' = [pidfile_name EXCEPT ![p] = FALSE]
    /\ UNCHANGED <<pc, moved, dying, handler, barrier_vars>>

Exit(p) ==
    /\ Alive(p) /\ goodbye[p] = "exit"
    /\ End(p, "gone")

\* SIGQUIT only sets conf.dying.
Quit(p) ==
    /\ "SIGQUIT" \in Signals /\ Alive(p)
    /\ dying' = [dying EXCEPT ![p] = TRUE]
    /\ UNCHANGED <<file_vars, pc, own_vars, goodbye, handler, barrier_vars>>

\* SIGKILL; also SIGSEGV, whose handler returns to the instruction that failed.
Kill(p) ==
    /\ "SIGKILL" \in Signals /\ Alive(p)
    /\ End(p, "killed")

-----------------------------------------------------------------------------
Main(p) ==
    \/ PidRefused(p) \/ PidChecked(p) \/ PidOpen(p) \/ PidOpenFails(p) \/ PidWrite(p)
    \/ PidName(p) \/ CreateThread(p) \/ CreateFails(p) \/ Ready(p) \/ Unlock(p)
    \/ Broadcast(p) \/ LoopLeft(p) \/ LoopEntered(p)

Enter(p, t) == EntryLock(p, t) \/ EntryPass(p, t)

Jail(p) == MountFails(p) \/ JailChroot(p) \/ CellLaunch(p)

Leave(p) == GoodbyeFree(p) \/ CloseFaults(p) \/ PidClose(p) \/ Exit(p)

Next ==
    \E p \in Procs :
        \/ Start(p) \/ Main(p) \/ Jail(p) \/ Leave(p) \/ Quit(p) \/ Kill(p)
        \/ \E t \in Created : Enter(p, t) \/ ThreadEnds(p, t)
        \/ \E t \in Tids : Term(p, t) \/ ReadFreed(p, t)

Spec == Init /\ [][Next]_vars

\* The system schedules every thread that can run; the loops that test
\* conf.dying sleep, or wait for input, and are owed nothing.
Fairness ==
    \A p \in Procs :
        /\ WF_vars(Main(p)) /\ WF_vars(Leave(p))
        /\ \A t \in Created : WF_vars(Enter(p, t))

FairSpec == Spec /\ Fairness

-----------------------------------------------------------------------------
(* Properties *)

\* The C types.
TypeOK ==
    /\ pidfile \in Procs \cup {NoFile, Empty} /\ sharers \subseteq Procs
    /\ pc \in [Procs -> {"off"} \cup MainSteps \cup Ended]
    /\ pidfile_name \in [Procs -> BOOLEAN] /\ moved \in [Procs -> BOOLEAN] /\ dying \in [Procs -> BOOLEAN]
    /\ core_ready \in [Procs -> BOOLEAN]
    /\ holder \in [Procs -> SUBSET Tids] /\ made \in [Procs -> Tids]
    /\ at \in [Procs -> [Created -> {"none", "entry", "locked", "past", "ended"}]]
    /\ left \in [Procs -> [Created -> 0 .. 2]]
    /\ goodbye \in [Procs -> {"no", "free", "close", "exit"}] /\ handler \in [Procs -> Tids]

\* "block until main thread is read[y]": a thread that holds the lock finds
\* core_ready set, so that it never waits for a wake-up that could be lost.
BarrierOpen == \A p \in Procs : \A t \in Created : at[p][t] = "locked" => core_ready[p]

\* A thread is past the barrier only when main has done all of its start:
\* the pid file is named and every thread has been created.
StartComplete ==
    \A p \in Procs : \A t \in Created :
        Alive(p) /\ at[p][t] \in {"past", "ended"} =>
            /\ made[p] = NThreads
            /\ pidfile_name[p] \/ goodbye[p] = "exit"

\* goodbye removes the pid file of a process that has named it, the signal may
\* come as soon as pidfile_open has returned; only inside it the file is lost.
CleanExit ==
    \A p \in Procs :
        goodbye[p] = "exit" /\ (pc[p] = "threads" \/ made[p] > 0) => pidfile # p /\ p \notin sharers

\* The process has passed pidfile_open and has not given the jail up.
InService(p) ==
    pc[p] \in {"threads", "ready", "unlocked", "loop", "running"} /\ goodbye[p] # "exit"

\* "Are we already running?": no two processes serve the jail.
OneInstance == \A p, q \in Procs : InService(p) /\ InService(q) => p = q

\* The pid file names the process that serves the jail.
PidFileTrue == \A p \in Procs : InService(p) => pidfile = p

\* All threads are through the barrier and main is in its loop.
Started(p) ==
    pc[p] = "running" /\ goodbye[p] = "no" /\ \A t \in Created : at[p][t] \in {"past", "ended"}

\* Every start is completed, or ends the process; so does SIGTERM whenever it
\* comes and whichever thread it interrupts.
Settles == \A p \in Procs : []<>(~Alive(p) \/ Started(p))
=============================================================================
