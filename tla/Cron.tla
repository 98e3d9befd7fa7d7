-------------------------------- MODULE Cron --------------------------------
(***************************************************************************)
(* The timers of the main thread, after the configuration is loaded: the   *)
(* clock and the cron collection of src/cron.c, the collection that main   *)
(* asks for itself, the one of the packages that pkg_init asks for, and    *)
(* gc_all of src/gc.c, which the shell calls too.  The callbacks for input *)
(* on the descriptors of the same loop take turns with them.               *)
(*                                                                         *)
(* Time is counted in seconds.  A round of callbacks takes some, and the   *)
(* loop computes the next times from the time at which the round began.    *)
(***************************************************************************)
EXTENDS Config

CONSTANTS
    HeapKey,        \* tuning.timer.blockheap_gc
    GlobalKey,      \* tuning.timer.global_gc
    PkgKey,         \* tuning.timer.pkg_gc
    Required,       \* log.level and path.log
    DefaultPeriod,  \* 60
    MaxBusy,        \* seconds that a round of callbacks takes at most
    MaxNow          \* the end of time

ASSUME KeyAssumption == {HeapKey, GlobalKey, PkgKey} \cup Required \subseteq Keys
ASSUME ValueAssumption == Values \subseteq Nat \X Nat \X Nat \X Nat
ASSUME TimeAssumption ==
    DefaultPeriod \in Nat /\ MaxBusy \in Nat /\ MaxNow \in Nat /\ Nil \notin Nat

VARIABLES
    now,            \* what time(NULL) returns
    conf_now,       \* conf.now
    mn_now,         \* the time of the loop
    due,            \* when each timer is to fire, Nil when it is stopped
    pending,        \* callbacks still to be called in this round
    collected,      \* when gc_all ran last, at first the time of the start
    pkg_collected   \* the same for pkg_gc, which gc_all calls too

time_vars == <<now, conf_now, mn_now, due, pending, collected, pkg_collected>>
vars == <<conf_vars, time_vars>>

\* tick, gc.blockheap and gc.pkg; "io" stands for the callbacks of descriptors.
Timers == {"tick", "gc", "pkg"}
Callbacks == Timers \cup {"io"}

\* A time is written [Xd][Xh][Xm][X][s].
timestr_to_time(str, def) ==
    IF str = Nil THEN def ELSE str[1] * 86400 + str[2] * 3600 + str[3] * 60 + str[4]

HeapPeriod == timestr_to_time(dict[HeapKey], DefaultPeriod)
GlobalPeriod == timestr_to_time(dict[GlobalKey], DefaultPeriod)
PkgPeriod == timestr_to_time(dict[PkgKey], DefaultPeriod)

Repeat(t) == IF t = "tick" THEN 1 ELSE IF t = "gc" THEN HeapPeriod ELSE PkgPeriod

-----------------------------------------------------------------------------
Init ==
    /\ ConfigInit
    /\ now \in 0 .. 1 /\ conf_now = now /\ mn_now = now 
    /\ collected = now /\ pkg_collected = now
    /\ due = [t \in Timers |-> Nil]
    /\ pending = {}

Load == ConfigNext /\ UNCHANGED time_vars

\* Mutants: a timer is not scheduled.
StartTickOnly ==
    /\ stage = "loaded" /\ \A k \in Required : dict[k] # Nil
    /\ stage' = "loop"
    /\ due' = [t \in Timers |-> IF t = "tick" THEN mn_now ELSE Nil]
    /\ UNCHANGED <<dict, section, in_comment, read, now, conf_now, mn_now, pending, collected, pkg_collected>>

StartWithoutPkg ==
    /\ stage = "loaded" /\ \A k \in Required : dict[k] # Nil
    /\ stage' = "loop"
    /\ due' = [t \in Timers |-> IF t = "pkg" THEN Nil ELSE mn_now]
    /\ UNCHANGED <<dict, section, in_comment, read, now, conf_now, mn_now, pending, collected, pkg_collected>>

\* evt_timer_add_periodic, by main, cron_init and pkg_init: the first call is at
\* once.
StartTimers ==
    /\ stage = "loaded" /\ \A k \in Required : dict[k] # Nil
    /\ stage' = "loop"
    /\ due' = [t \in Timers |-> mn_now]
    /\ UNCHANGED <<dict, section, in_comment, read, now, conf_now, mn_now, pending, collected, pkg_collected>>

\* The default that main gives for a key that is missing is not used: dict_get
\* returns the value of an empty slot, and the comparison faults.
StartFaults ==
    /\ stage = "loaded" /\ \E k \in Required : dict[k] = Nil
    /\ stage' = "dead"
    /\ UNCHANGED <<dict, section, in_comment, read, time_vars>>

Due(t) == due[t] # Nil /\ due[t] <= now

\* The loop sleeps until the earliest timer is due.
Sleep ==
    /\ stage = "loop" /\ pending = {} /\ now < MaxNow
    /\ \A t \in Timers : ~Due(t)
    /\ now' = now + 1
    /\ UNCHANGED <<conf_vars, conf_now, mn_now, due, pending, collected, pkg_collected>>

\* A callback takes its time.
Work ==
    /\ stage = "loop" /\ pending # {} /\ now < MaxNow
    /\ now < mn_now + MaxBusy
    /\ now' = now + 1
    /\ UNCHANGED <<conf_vars, conf_now, mn_now, due, pending, collected, pkg_collected>>

\* When a timer fires next; one without a period is stopped.
Rearm(t) ==
    IF Repeat(t) = 0 THEN Nil
    ELSE IF due[t] + Repeat(t) < now THEN now ELSE due[t] + Repeat(t)

\* ev_loop finds timers that are due, input, or both.
Poll ==
    /\ stage = "loop" /\ pending = {}
    /\ \E io \in SUBSET {"io"} : pending' = io \cup {t \in Timers : Due(t)}
    /\ pending' # {}
    /\ mn_now' = now
    /\ due' = [t \in Timers |-> IF Due(t) THEN Rearm(t) ELSE due[t]]
    /\ UNCHANGED <<conf_vars, now, conf_now, collected, pkg_collected>>

gc_all == collected' = now /\ pkg_collected' = now

\* Mutant: the time is the one that the loop has.
TickCached ==
    /\ stage = "loop" /\ "tick" \in pending /\ GlobalPeriod # 0
    /\ conf_now' = conf_now
    /\ IF conf_now' % GlobalPeriod = 1 THEN gc_all ELSE UNCHANGED <<collected, pkg_collected>>
    /\ pending' = pending \ {"tick"}
    /\ UNCHANGED <<conf_vars, now, mn_now, due>>

\* cron_tick
Tick ==
    /\ stage = "loop" /\ "tick" \in pending /\ GlobalPeriod # 0
    /\ conf_now' = now
    /\ IF conf_now' % GlobalPeriod = 1 THEN gc_all ELSE UNCHANGED <<collected, pkg_collected>>
    /\ pending' = pending \ {"tick"}
    /\ UNCHANGED <<conf_vars, now, mn_now, due>>

\* A division by zero.
TickFaults ==
    /\ stage = "loop" /\ "tick" \in pending /\ GlobalPeriod = 0
    /\ stage' = "dead"
    /\ UNCHANGED <<dict, section, in_comment, read, time_vars>>

\* gc_all, as the callback of the timer gc.blockheap
Collect ==
    /\ stage = "loop" /\ "gc" \in pending
    /\ gc_all
    /\ pending' = pending \ {"gc"}
    /\ UNCHANGED <<conf_vars, now, conf_now, mn_now, due>>

\* pkg_gc, as the callback of the timer gc.pkg
CollectPkgs ==
    /\ stage = "loop" /\ "pkg" \in pending
    /\ pkg_collected' = now
    /\ pending' = pending \ {"pkg"}
    /\ UNCHANGED <<conf_vars, now, conf_now, mn_now, due, collected>>

\* The callback of a descriptor: vfs_inotify_evt_get.
Serve ==
    /\ stage = "loop" /\ "io" \in pending
    /\ pending' = pending \ {"io"}
    /\ UNCHANGED <<conf_vars, now, conf_now, mn_now, due, collected, pkg_collected>>

\* gc_all in the shell thread: the command "gc now"
ShellCollects ==
    /\ stage = "loop"
    /\ gc_all
    /\ UNCHANGED <<conf_vars, now, conf_now, mn_now, due, pending>>

Next ==
    \/ Load \/ StartTimers \/ StartFaults \/ Sleep \/ Work \/ Poll \/ Tick \/ TickFaults
    \/ Collect \/ CollectPkgs \/ Serve \/ ShellCollects

Spec == Init /\ [][Next]_vars

-----------------------------------------------------------------------------
(* Properties *)

\* The C types.
TypeOK ==
    /\ stage \in {"open", "load", "loaded", "loop", "dead"}
    /\ dict \in [Keys -> Values \cup {Nil}] /\ section \in Sections \cup {Nil}
    /\ in_comment \in BOOLEAN /\ read \in Seq(Line)
    /\ now \in Nat /\ conf_now \in Nat /\ mn_now \in Nat
    /\ collected \in Nat /\ pkg_collected \in Nat
    /\ due \in [Timers -> Nat \cup {Nil}] /\ pending \subseteq Callbacks

\* Unless its period is zero the collection of main is never later than the
\* period, the round that was running when it became due, and its own round:
\* also when cron_tick misses the one second in which it would collect.
GcInTime == stage = "loop" /\ HeapPeriod # 0 => now <= collected + HeapPeriod + 2 * MaxBusy

\* "We take care of package file cleanup here too": the packages are collected
\* within the period of gc.pkg and two rounds, also when the period of the
\* other collection is zero.
PkgsInTime ==
    stage = "loop" /\ PkgPeriod # 0 => now <= pkg_collected + PkgPeriod + 2 * MaxBusy

\* "Update the global time reference": conf.now lags behind by one period of
\* the tick and two rounds of callbacks, and is never ahead.
ClockFresh == stage = "loop" => conf_now <= now /\ now <= conf_now + 1 + 2 * MaxBusy
=============================================================================
