--------------------------- MODULE LifeCycleProofs ---------------------------
(***************************************************************************)
(* What LifeCycle promises for any number of processes and threads.  The   *)
(* inductive invariant follows the Big Lock: main has it from its first    *)
(* step to the unlock, so that no thread can look at core_ready earlier.   *)
(* With the starts one at a time the pid file follows the process that has *)
(* opened it; the argument for that invariant (PidInv) rests on the first. *)
(***************************************************************************)
EXTENDS LifeCycle, TLAPS

\* main between its first step and the unlock
Holding == {"init", "checked", "opened", "written", "threads", "ready"}

\* main before the first thread_create
Single == {"off", "init", "checked", "opened", "written"}

\* main after pidfile_open
Serving == {"threads", "ready", "unlocked", "loop", "running"}

\* Threads exist up to made, and those at the barrier have calls to go.
ThreadsInv(p) ==
    /\ pc[p] \in Single => made[p] = 0
    /\ handler[p] <= made[p]
    /\ \A t \in Created :
          /\ t > made[p] => at[p][t] = "none"
          /\ at[p][t] \in {"entry", "locked"} => left[p][t] >= 1

\* Main has the lock until everything is ready.
LockInv(p) ==
    /\ pc[p] \in Holding => holder[p] = {0}
    /\ \A t \in Created :
          /\ at[p][t] = "locked" => holder[p] = {t}
          /\ at[p][t] \in {"locked", "past", "ended"} => core_ready[p]
    /\ pc[p] \in {"ready", "unlocked", "loop", "running"} => core_ready[p]
    /\ core_ready[p] => made[p] = NThreads /\ pc[p] \notin Single \cup {"threads"}

\* The name of the pid file is stored while the jail is served, and only then.
NameInv(p) ==
    /\ pc[p] \in Single => ~pidfile_name[p]
    /\ pc[p] \in Serving => (pidfile_name[p] <=> goodbye[p] # "exit")

BarrierInv == TypeOK /\ \A p \in Procs : ThreadsInv(p) /\ LockInv(p) /\ NameInv(p)

-----------------------------------------------------------------------------
(* The barrier *)

\* Facts about the one holder of a mutex.
LEMMA Singletons == \A x : {x} # {} /\ \A y : {x} = {y} => x = y
  OBVIOUS

\* While the lock is free, or a thread has it, nobody else is inside.
LEMMA OneHolder ==
    ASSUME BarrierInv, NEW p \in Procs
    PROVE  /\ pc[p] \in Holding => \A u \in Created : at[p][u] # "locked"
           /\ holder[p] = {} =>
                /\ pc[p] \notin Holding
                /\ \A u \in Created : at[p][u] # "locked"
           /\ \A t \in Created : holder[p] = {t} =>
                /\ pc[p] \notin Holding
                /\ \A u \in Created : u # t => at[p][u] # "locked"
<1>1. pc[p] \in Holding => holder[p] = {0}
  BY DEF BarrierInv, LockInv
<1>2. \A u \in Created : at[p][u] = "locked" => holder[p] = {u}
  BY DEF BarrierInv, LockInv
<1>3. 0 \notin Created
  BY DEF Created
<1> QED
  BY <1>1, <1>2, <1>3, Singletons

\* The first states satisfy the invariant.
LEMMA BarrierInit == Init => BarrierInv
  BY NThreadsAssumption DEF Init, BarrierInv, TypeOK, ThreadsInv, LockInv, NameInv, Single, Serving,
     Holding, Tids, Created, MainSteps, Ended

\* No step falsifies the invariant.
LEMMA BarrierStep == BarrierInv /\ [Next]_vars => BarrierInv'
<1> SUFFICES ASSUME BarrierInv, [Next]_vars PROVE BarrierInv'
  OBVIOUS
<1> USE NThreadsAssumption, ThreadAssumption DEF BarrierInv, TypeOK, ThreadsInv, LockInv, NameInv,
        Single, Serving, Holding, Tids, Created, MainSteps, Ended, Runs, MainAt, Alive, Goto, End,
        file_vars, own_vars, end_vars, barrier_vars
<1>1. ASSUME NEW p \in Procs, Start(p) PROVE BarrierInv'
  BY <1>1 DEF Start
<1>2. ASSUME NEW p \in Procs, PidRefused(p) PROVE BarrierInv'
  BY <1>2 DEF PidRefused
<1>3. ASSUME NEW p \in Procs, PidChecked(p) PROVE BarrierInv'
  BY <1>3 DEF PidChecked
<1>4. ASSUME NEW p \in Procs, PidOpen(p) PROVE BarrierInv'
  BY <1>4 DEF PidOpen
<1>5. ASSUME NEW p \in Procs, PidOpenFails(p) PROVE BarrierInv'
  BY <1>5 DEF PidOpenFails
<1>6. ASSUME NEW p \in Procs, PidWrite(p) PROVE BarrierInv'
  BY <1>6 DEF PidWrite
<1>7. ASSUME NEW p \in Procs, PidName(p) PROVE BarrierInv'
  BY <1>7 DEF PidName
<1>8. ASSUME NEW p \in Procs, CreateThread(p) PROVE BarrierInv'
  BY <1>8 DEF CreateThread
<1>9. ASSUME NEW p \in Procs, CreateFails(p) PROVE BarrierInv'
  BY <1>9 DEF CreateFails
<1>10. ASSUME NEW p \in Procs, Ready(p) PROVE BarrierInv'
  BY <1>10 DEF Ready
<1>11. ASSUME NEW p \in Procs, Unlock(p) PROVE BarrierInv'
  <2>1. \A u \in Created : at[p][u] # "locked"
    BY <1>11, OneHolder DEF Unlock
  <2> QED
    BY <1>11, <2>1 DEF Unlock
<1>12. ASSUME NEW p \in Procs, Broadcast(p) PROVE BarrierInv'
  BY <1>12 DEF Broadcast
<1>13. ASSUME NEW p \in Procs, LoopLeft(p) PROVE BarrierInv'
  BY <1>13 DEF LoopLeft
<1>14. ASSUME NEW p \in Procs, LoopEntered(p) PROVE BarrierInv'
  BY <1>14 DEF LoopEntered
<1>15. ASSUME NEW p \in Procs, MountFails(p) PROVE BarrierInv'
  BY <1>15 DEF MountFails
<1>16. ASSUME NEW p \in Procs, JailChroot(p) PROVE BarrierInv'
  BY <1>16 DEF JailChroot
<1>17. ASSUME NEW p \in Procs, CellLaunch(p) PROVE BarrierInv'
  BY <1>17 DEF CellLaunch
<1>18. ASSUME NEW p \in Procs, GoodbyeFree(p) PROVE BarrierInv'
  BY <1>18 DEF GoodbyeFree
<1>19. ASSUME NEW p \in Procs, CloseFaults(p) PROVE BarrierInv'
  BY <1>19 DEF CloseFaults
<1>20. ASSUME NEW p \in Procs, PidClose(p) PROVE BarrierInv'
  BY <1>20 DEF PidClose
<1>21. ASSUME NEW p \in Procs, Exit(p) PROVE BarrierInv'
  BY <1>21 DEF Exit
<1>22. ASSUME NEW p \in Procs, Quit(p) PROVE BarrierInv'
  BY <1>22 DEF Quit
<1>23. ASSUME NEW p \in Procs, Kill(p) PROVE BarrierInv'
  BY <1>23 DEF Kill
<1>24. ASSUME NEW p \in Procs, NEW t \in Created, EntryLock(p, t) PROVE BarrierInv'
  <2>1. holder[p] = {} /\ pc[p] \in MainSteps
    BY <1>24 DEF EntryLock
  <2>2. pc[p] \notin Holding /\ \A u \in Created : at[p][u] # "locked"
    BY <2>1, OneHolder
  <2>3. core_ready[p]
    BY <2>1, <2>2
  <2> QED
    BY <1>24, <2>2, <2>3 DEF EntryLock
<1>25. ASSUME NEW p \in Procs, NEW t \in Created, EntryPass(p, t) PROVE BarrierInv'
  <2>1. holder[p] = {t} /\ t # 0
    BY <1>25 DEF EntryPass
  <2>2. pc[p] \notin Holding /\ \A u \in Created : u # t => at[p][u] # "locked"
    BY <2>1, OneHolder
  <2> QED
    BY <1>25, <2>2 DEF EntryPass
<1>26. ASSUME NEW p \in Procs, NEW t \in Created, ThreadEnds(p, t) PROVE BarrierInv'
  BY <1>26 DEF ThreadEnds
<1>27. ASSUME NEW p \in Procs, NEW t \in Tids, Term(p, t) PROVE BarrierInv'
  BY <1>27 DEF Term
<1>28. ASSUME NEW p \in Procs, NEW t \in Tids, ReadFreed(p, t) PROVE BarrierInv'
  BY <1>28 DEF ReadFreed
<1>29. CASE UNCHANGED vars
  BY <1>29 DEF vars
<1> QED
  BY <1>1, <1>2, <1>3, <1>4, <1>5, <1>6, <1>7, <1>8, <1>9, <1>10, <1>11, <1>12, <1>13, <1>14, <1>15, <1>16, <1>17, <1>18, <1>19, <1>20, <1>21, <1>22, <1>23, <1>24, <1>25, <1>26, <1>27, <1>28, <1>29 DEF Next, Main, Jail, Leave, Enter

\* Type correctness of the life cycle, for any number of threads and processes:
\* a thread never calls thread_entry more often than it should.
THEOREM LifeTyped == Spec => []TypeOK
<1>1. BarrierInv => TypeOK
  BY DEF BarrierInv
<1> QED
  BY <1>1, BarrierInit, BarrierStep, PTL DEF Spec

\* thread_entry never has to wait: whoever gets the lock finds core_ready set,
\* so that the broadcast of main, made without the lock, cannot be missed.
THEOREM BarrierNeverWaits == Spec => []BarrierOpen
<1>1. BarrierInv => BarrierOpen
  BY DEF BarrierInv, LockInv, BarrierOpen
<1> QED
  BY <1>1, BarrierInit, BarrierStep, PTL DEF Spec

\* No thread does its work before main has stored the name of the pid file and
\* created every thread.
THEOREM ThreadsFindStartComplete == Spec => []StartComplete
<1>1. BarrierInv => StartComplete
  BY DEF BarrierInv, LockInv, NameInv, StartComplete, Serving, Single, Alive, MainSteps
<1> QED
  BY <1>1, BarrierInit, BarrierStep, PTL DEF Spec

-----------------------------------------------------------------------------
(* The pid file, when the starts come one at a time *)

\* The file follows the start of the process that found none.
PidInv ==
    /\ \A p, q \in Procs : pc[p] \in {"init", "checked"} /\ pc[q] \in {"init", "checked"} => p = q
    /\ \A p, q \in Procs : pc[p] = "opened" /\ pc[q] = "opened" => p = q
    /\ \A p \in Procs :
          /\ pc[p] = "checked" => pidfile = NoFile
          /\ pc[p] = "opened" => pidfile = Empty /\ p \in sharers
          /\ pc[p] = "written" => pidfile = p
          /\ InService(p) => pidfile = p

\* The first states satisfy the invariant.
LEMMA PidInit == Init => PidInv
  BY DEF Init, PidInv, InService

\* No step falsifies it.
LEMMA PidStep ==
    ASSUME SerialStart, BarrierInv, PidInv, [Next]_vars
    PROVE  PidInv'
<1> USE FileAssumption DEF PidInv, BarrierInv, TypeOK, ThreadsInv, NameInv, InService,
        Single, Serving, MainSteps, Ended, Runs, MainAt, Alive, Goto, End,
        file_vars, own_vars, end_vars, barrier_vars
<1>1. ASSUME NEW p \in Procs, Start(p) PROVE PidInv'
  BY <1>1 DEF Start
<1>2. ASSUME NEW p \in Procs, PidRefused(p) PROVE PidInv'
  BY <1>2 DEF PidRefused
<1>3. ASSUME NEW p \in Procs, PidChecked(p) PROVE PidInv'
  BY <1>3 DEF PidChecked
<1>4. ASSUME NEW p \in Procs, PidOpen(p) PROVE PidInv'
  BY <1>4 DEF PidOpen
<1>5. ASSUME NEW p \in Procs, PidOpenFails(p) PROVE PidInv'
  BY <1>5 DEF PidOpenFails
<1>6. ASSUME NEW p \in Procs, PidWrite(p) PROVE PidInv'
  BY <1>6 DEF PidWrite
<1>7. ASSUME NEW p \in Procs, PidName(p) PROVE PidInv'
  BY <1>7 DEF PidName
<1>8. ASSUME NEW p \in Procs, CreateThread(p) PROVE PidInv'
  BY <1>8 DEF CreateThread
<1>9. ASSUME NEW p \in Procs, CreateFails(p) PROVE PidInv'
  BY <1>9 DEF CreateFails
<1>10. ASSUME NEW p \in Procs, Ready(p) PROVE PidInv'
  BY <1>10 DEF Ready
<1>11. ASSUME NEW p \in Procs, Unlock(p) PROVE PidInv'
  BY <1>11 DEF Unlock
<1>12. ASSUME NEW p \in Procs, Broadcast(p) PROVE PidInv'
  BY <1>12 DEF Broadcast
<1>13. ASSUME NEW p \in Procs, LoopLeft(p) PROVE PidInv'
  BY <1>13 DEF LoopLeft
<1>14. ASSUME NEW p \in Procs, LoopEntered(p) PROVE PidInv'
  BY <1>14 DEF LoopEntered
<1>15. ASSUME NEW p \in Procs, MountFails(p) PROVE PidInv'
  BY <1>15 DEF MountFails
<1>16. ASSUME NEW p \in Procs, JailChroot(p) PROVE PidInv'
  BY <1>16 DEF JailChroot
<1>17. ASSUME NEW p \in Procs, CellLaunch(p) PROVE PidInv'
  BY <1>17 DEF CellLaunch
<1>18. ASSUME NEW p \in Procs, GoodbyeFree(p) PROVE PidInv'
  BY <1>18 DEF GoodbyeFree
<1>19. ASSUME NEW p \in Procs, CloseFaults(p) PROVE PidInv'
  BY <1>19 DEF CloseFaults
<1>20. ASSUME NEW p \in Procs, PidClose(p) PROVE PidInv'
  BY <1>20 DEF PidClose
<1>21. ASSUME NEW p \in Procs, Exit(p) PROVE PidInv'
  BY <1>21 DEF Exit
<1>22. ASSUME NEW p \in Procs, Quit(p) PROVE PidInv'
  BY <1>22 DEF Quit
<1>23. ASSUME NEW p \in Procs, Kill(p) PROVE PidInv'
  BY <1>23 DEF Kill
<1>24. ASSUME NEW p \in Procs, NEW t \in Created, EntryLock(p, t) PROVE PidInv'
  BY <1>24 DEF EntryLock
<1>25. ASSUME NEW p \in Procs, NEW t \in Created, EntryPass(p, t) PROVE PidInv'
  BY <1>25 DEF EntryPass
<1>26. ASSUME NEW p \in Procs, NEW t \in Created, ThreadEnds(p, t) PROVE PidInv'
  BY <1>26 DEF ThreadEnds
<1>27. ASSUME NEW p \in Procs, NEW t \in Tids, Term(p, t) PROVE PidInv'
  BY <1>27 DEF Term
<1>28. ASSUME NEW p \in Procs, NEW t \in Tids, ReadFreed(p, t) PROVE PidInv'
  BY <1>28 DEF ReadFreed
<1>29. CASE UNCHANGED vars
  BY <1>29 DEF vars
<1> QED
  BY <1>1, <1>2, <1>3, <1>4, <1>5, <1>6, <1>7, <1>8, <1>9, <1>10, <1>11, <1>12, <1>13, <1>14, <1>15, <1>16, <1>17, <1>18, <1>19, <1>20, <1>21, <1>22, <1>23, <1>24, <1>25, <1>26, <1>27, <1>28, <1>29 DEF Next, Main, Jail, Leave, Enter

\* The pid file names the process that serves the jail, as long as no two
\* processes are in pidfile_open at once.
THEOREM SerialPidFile == ASSUME SerialStart PROVE Spec => []PidFileTrue
<1>1. PidInv => PidFileTrue
  BY DEF PidInv, PidFileTrue
<1>2. BarrierInv /\ PidInv /\ [Next]_vars => PidInv'
  BY SerialStart, PidStep
<1> QED
  BY <1>1, <1>2, PidInit, BarrierInit, BarrierStep, PTL DEF Spec

\* "Are we already running?": no two processes serve the jail, under the same
\* condition.
THEOREM SerialOneInstance == ASSUME SerialStart PROVE Spec => []OneInstance
<1>1. PidInv => OneInstance
  BY DEF PidInv, OneInstance
<1>2. BarrierInv /\ PidInv /\ [Next]_vars => PidInv'
  BY SerialStart, PidStep
<1> QED
  BY <1>1, <1>2, PidInit, BarrierInit, BarrierStep, PTL DEF Spec

-----------------------------------------------------------------------------
(* The end of a process, however the starts overlap *)

\* CleanExit is inductive beside BarrierInv when path.pid is absolute.
LEMMA CleanStep ==
    ASSUME ~RelativePid, BarrierInv, CleanExit, [Next]_vars
    PROVE  CleanExit'
<1> USE NThreadsAssumption, FileAssumption DEF CleanExit, BarrierInv, TypeOK, ThreadsInv, NameInv,
        Tids, Created, Single, Serving, MainSteps, Ended, Runs, MainAt, Alive, Goto, End,
        file_vars, own_vars, end_vars, barrier_vars
<1>1. ASSUME NEW p \in Procs, Start(p) PROVE CleanExit'
  BY <1>1 DEF Start
<1>2. ASSUME NEW p \in Procs, PidRefused(p) PROVE CleanExit'
  BY <1>2 DEF PidRefused
<1>3. ASSUME NEW p \in Procs, PidChecked(p) PROVE CleanExit'
  BY <1>3 DEF PidChecked
<1>4. ASSUME NEW p \in Procs, PidOpen(p) PROVE CleanExit'
  BY <1>4 DEF PidOpen
<1>5. ASSUME NEW p \in Procs, PidOpenFails(p) PROVE CleanExit'
  BY <1>5 DEF PidOpenFails
<1>6. ASSUME NEW p \in Procs, PidWrite(p) PROVE CleanExit'
  BY <1>6 DEF PidWrite
<1>7. ASSUME NEW p \in Procs, PidName(p) PROVE CleanExit'
  BY <1>7 DEF PidName
<1>8. ASSUME NEW p \in Procs, CreateThread(p) PROVE CleanExit'
  BY <1>8 DEF CreateThread
<1>9. ASSUME NEW p \in Procs, CreateFails(p) PROVE CleanExit'
  BY <1>9 DEF CreateFails
<1>10. ASSUME NEW p \in Procs, Ready(p) PROVE CleanExit'
  BY <1>10 DEF Ready
<1>11. ASSUME NEW p \in Procs, Unlock(p) PROVE CleanExit'
  BY <1>11 DEF Unlock
<1>12. ASSUME NEW p \in Procs, Broadcast(p) PROVE CleanExit'
  BY <1>12 DEF Broadcast
<1>13. ASSUME NEW p \in Procs, LoopLeft(p) PROVE CleanExit'
  BY <1>13 DEF LoopLeft
<1>14. ASSUME NEW p \in Procs, LoopEntered(p) PROVE CleanExit'
  BY <1>14 DEF LoopEntered
<1>15. ASSUME NEW p \in Procs, MountFails(p) PROVE CleanExit'
  BY <1>15 DEF MountFails
<1>16. ASSUME NEW p \in Procs, JailChroot(p) PROVE CleanExit'
  BY <1>16 DEF JailChroot
<1>17. ASSUME NEW p \in Procs, CellLaunch(p) PROVE CleanExit'
  BY <1>17 DEF CellLaunch
<1>18. ASSUME NEW p \in Procs, GoodbyeFree(p) PROVE CleanExit'
  BY <1>18 DEF GoodbyeFree
<1>19. ASSUME NEW p \in Procs, CloseFaults(p) PROVE CleanExit'
  BY <1>19 DEF CloseFaults
<1>20. ASSUME NEW p \in Procs, PidClose(p) PROVE CleanExit'
  BY <1>20 DEF PidClose
<1>21. ASSUME NEW p \in Procs, Exit(p) PROVE CleanExit'
  BY <1>21 DEF Exit
<1>22. ASSUME NEW p \in Procs, Quit(p) PROVE CleanExit'
  BY <1>22 DEF Quit
<1>23. ASSUME NEW p \in Procs, Kill(p) PROVE CleanExit'
  BY <1>23 DEF Kill
<1>24. ASSUME NEW p \in Procs, NEW t \in Created, EntryLock(p, t) PROVE CleanExit'
  BY <1>24 DEF EntryLock
<1>25. ASSUME NEW p \in Procs, NEW t \in Created, EntryPass(p, t) PROVE CleanExit'
  BY <1>25 DEF EntryPass
<1>26. ASSUME NEW p \in Procs, NEW t \in Created, ThreadEnds(p, t) PROVE CleanExit'
  BY <1>26 DEF ThreadEnds
<1>27. ASSUME NEW p \in Procs, NEW t \in Tids, Term(p, t) PROVE CleanExit'
  BY <1>27 DEF Term
<1>28. ASSUME NEW p \in Procs, NEW t \in Tids, ReadFreed(p, t) PROVE CleanExit'
  BY <1>28 DEF ReadFreed
<1>29. CASE UNCHANGED vars
  BY <1>29 DEF vars
<1> QED
  BY <1>1, <1>2, <1>3, <1>4, <1>5, <1>6, <1>7, <1>8, <1>9, <1>10, <1>11, <1>12, <1>13, <1>14, <1>15, <1>16, <1>17, <1>18, <1>19, <1>20, <1>21, <1>22, <1>23, <1>24, <1>25, <1>26, <1>27, <1>28, <1>29 DEF Next, Main, Jail, Leave, Enter

\* pidfile_close leaves no pid file behind once threads have been created, for
\* an absolute path.pid and however many processes start at once.
THEOREM AbsoluteCleanExit == ASSUME ~RelativePid PROVE Spec => []CleanExit
<1>1. Init => CleanExit
  BY DEF Init, CleanExit
<1>2. BarrierInv /\ CleanExit /\ [Next]_vars => CleanExit'
  BY ~RelativePid, CleanStep
<1> QED
  BY <1>1, <1>2, BarrierInit, BarrierStep, PTL DEF Spec

=============================================================================
