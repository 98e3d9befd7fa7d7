----------------------------- MODULE PkgDirProofs ----------------------------
(***************************************************************************)
(* The walk stays within VFS_MAX_RECURSE calls, misses no package that it  *)
(* should find, and neither thread asks for a hidden file, for any tree,   *)
(* any limits, any changes to the files and any failures of pkg_open.      *)
(***************************************************************************)
EXTENDS PkgDir, SequenceTheorems, FiniteSetTheorems, WellFoundedInduction, TLAPS

\* A call of the walk gets a depth that is at least its level, and a call that
\* has called another one has counted that one.
DepthInv ==
    \A i \in 1 .. Len(stack) :
        /\ stack[i].depth >= i
        /\ i < Len(stack) => stack[i].depth >= i + 1 /\ stack[i].depth < MaxRecurse

\* The directories being walked are visible.
StackInv == \A i \in 1 .. Len(stack) : stack[i].dir \in Visible

\* Events are about entries of a root; only files arrive.
GoodEvent(e) ==
    /\ e \in Event
    /\ e.in => e.name \in Files
    /\ e.name \in Inner => Parent[e.name] \in RootDirs

\* A queue beyond its limit ends with the event that tells so.
GoodQueue(q) ==
    /\ q \in Seq(Event) /\ \A i \in 1 .. Len(q) : GoodEvent(q[i])
    /\ Len(q) <= QueueLimit + 1
    /\ Len(q) > QueueLimit => q[Len(q)].name = Overflow

\* What pkg_list has and the threads wait for.
CallsOK ==
    /\ handle \in [Files -> Handle] /\ want \in [Threads -> Files \cup {NoFile}]
    /\ db_locked \in BOOLEAN
    /\ HiddenNeverOpened

IInv ==
    /\ TypeOK /\ DepthInv /\ StackInv
    /\ GoodQueue(queue) /\ GoodQueue(batch)
    /\ CallsOK

-----------------------------------------------------------------------------
(* The tree and the queue *)

LEMMA TreeFacts ==
    /\ Inner \subseteq Dirs \cup Files /\ Files \subseteq Inner /\ RootDirs \subseteq Dirs
    /\ \A x \in Inner : Parent[x] \in Dirs
<1>1. RootDirs \subseteq Dirs
  BY TreeAssumption DEF RootDirs
<1> QED
  BY <1>1, TreeAssumption DEF Inner

\* The roots are visible, and so is what is not hidden in a visible directory.
LEMMA VisibleFacts ==
    /\ RootDirs \subseteq Visible
    /\ \A x \in Inner \ Hidden : Parent[x] \in Visible => x \in Visible
<1>1. RootDirs \subseteq Visible
  BY TreeFacts DEF Visible
<1>2. ASSUME NEW x \in Inner \ Hidden, Parent[x] \in Visible PROVE x \in Visible
  <2>1. x \in Dirs \cup Files
    BY TreeFacts
  <2>2. ASSUME NEW S \in SUBSET (Dirs \cup Files), RootDirs \subseteq S,
               \A y \in Inner \ Hidden : Parent[y] \in S => y \in S
        PROVE  x \in S
    <3>1. Parent[x] \in S
      BY <1>2, <2>2 DEF Visible
    <3> QED
      BY <3>1, <2>2
  <2> QED
    BY <2>1, <2>2 DEF Visible
<1> QED
  BY <1>1, <1>2

\* An event that is queued keeps the queue as it should be.
LEMMA QueuedFacts ==
    ASSUME NEW q, GoodQueue(q), NEW e, GoodEvent(e)
    PROVE  GoodQueue(Queued(q, e))
<1> DEFINE o == [name |-> Overflow, in |-> FALSE]
<1>1. o \in Event /\ o.name = Overflow /\ ~o.in
  BY DEF Event
<1>2. GoodEvent(o)
  <2>1. Overflow \notin Inner
    BY TreeFacts, NamesAssumption
  <2> QED
    BY <1>1, <2>1 DEF GoodEvent
<1>3. q \in Seq(Event) /\ QueueLimit \in Nat \ {0} /\ e \in Event
  BY BoundsAssumption DEF GoodQueue, GoodEvent
<1> HIDE DEF o
<1>4. CASE Queued(q, e) = q
  BY <1>4
<1>5. ASSUME NEW x, GoodEvent(x), x \in Event, Queued(q, e) = Append(q, x),
             Len(q) < QueueLimit \/ (Len(q) = QueueLimit /\ x.name = Overflow)
      PROVE  GoodQueue(Queued(q, e))
  <2>1. /\ Append(q, x) \in Seq(Event) /\ Len(Append(q, x)) = Len(q) + 1
        /\ Append(q, x)[Len(q) + 1] = x
        /\ \A i \in 1 .. Len(q) : Append(q, x)[i] = q[i]
    BY <1>3, <1>5
  <2> QED
    BY <2>1, <1>3, <1>5 DEF GoodQueue
<1>6. CASE Len(q) < QueueLimit /\ Queued(q, e) = Append(q, e)
  BY <1>3, <1>5, <1>6
<1>7. CASE ~(Len(q) < QueueLimit) /\ Queued(q, e) # q /\ q[Len(q)].name # Overflow
           /\ Queued(q, e) = Append(q, o)
  <2>1. Len(q) = QueueLimit
    BY <1>3, <1>7 DEF GoodQueue
  <2> QED
    BY <1>1, <1>2, <1>3, <1>5, <1>7, <2>1
<1> QED
  BY <1>4, <1>6, <1>7 DEF Queued, o

\* What the kernel does when x changes.
LEMMA NotifyFacts ==
    ASSUME IInv, NEW x, NEW in \in BOOLEAN, in => x \in Files, Notify(x, in)
    PROVE  GoodQueue(queue')
<1>1. ASSUME x \in Inner, Parent[x] \in watched
      PROVE  GoodEvent([name |-> x, in |-> in])
  BY <1>1 DEF GoodEvent, Event, IInv, TypeOK
<1>2. CASE x \in Inner /\ Parent[x] \in watched
  BY <1>1, <1>2, QueuedFacts DEF Notify, IInv
<1>3. CASE ~(x \in Inner /\ Parent[x] \in watched)
  BY <1>3 DEF Notify, IInv
<1> QED
  BY <1>2, <1>3

-----------------------------------------------------------------------------
(* The stack *)

GoodStack(s) ==
    /\ s \in Seq(Frame)
    /\ \A i \in 1 .. Len(s) :
          /\ s[i].dir \in Visible /\ s[i].depth >= i
          /\ i < Len(s) => s[i].depth >= i + 1 /\ s[i].depth < MaxRecurse

LEMMA StackParts ==
    IInv <=> /\ TypeOK /\ GoodStack(stack)
             /\ GoodQueue(queue) /\ GoodQueue(batch) /\ CallsOK
  BY DEF IInv, GoodStack, DepthInv, StackInv, TypeOK

\* Frames that change in what they have returned only.
LEMMA SameFrames ==
    ASSUME GoodStack(stack), NEW s, s \in Seq(Frame), Len(s) = Len(stack),
           \A i \in 1 .. Len(stack) : s[i].dir = stack[i].dir /\ s[i].depth = stack[i].depth
    PROVE  GoodStack(s)
  BY DEF GoodStack

LEMMA ReplacedFacts ==
    ASSUME GoodStack(stack), NEW x, Replaced(x)
    PROVE  GoodStack(stack')
<1>1. stack \in Seq(Frame)
  BY DEF GoodStack
<1>2. ASSUME NEW i \in 1 .. Len(stack)
      PROVE  /\ stack'[i] \in Frame
             /\ stack'[i].dir = stack[i].dir /\ stack'[i].depth = stack[i].depth
  <2>1. stack[i] \in Frame
    BY <1>1
  <2>2. i \in DOMAIN stack
    BY <1>1
  <2>3. stack'[i] = [stack[i] EXCEPT !.owed = @ \ {x}, !.seen = @ \ {x}]
    BY <2>2 DEF Replaced
  <2> QED
    BY <2>1, <2>3 DEF Frame
<1>3. stack' \in Seq(Frame) /\ Len(stack') = Len(stack)
  <2>1. DOMAIN stack = 1 .. Len(stack) /\ Len(stack) \in Nat
    BY <1>1
  <2>2. stack' = [i \in 1 .. Len(stack) |-> stack'[i]]
    BY <2>1 DEF Replaced
  <2> QED
    BY <1>2, <2>1, <2>2, IsASeq
<1> QED
  BY <1>2, <1>3, SameFrames

\* An entry that readdir returns.
LEMMA ReturnFacts ==
    ASSUME GoodStack(stack), NEW x \in Inner, Returns(x)
    PROVE  /\ x \in Inner /\ Parent[x] = stack[Top].dir /\ Parent[x] \in Visible
           /\ Top \in 1 .. Len(stack) /\ Top \in Nat /\ stack[Top] \in Frame
           /\ Len(Seen(x)) = Top /\ Seen(x) \in Seq(Frame)
           /\ Seen(x)[Top] = [stack[Top] EXCEPT !.seen = @ \cup {x}]
           /\ \A i \in 1 .. Top - 1 : Seen(x)[i] = stack[i]
<1>1. stack \in Seq(Frame) /\ Top = Len(stack) /\ Top \in Nat /\ Top > 0
  BY DEF GoodStack, Top, Returns
<1>2. x \in Inner /\ Parent[x] = stack[Top].dir
  BY DEF Returns
<1>3. stack[Top] \in Frame /\ stack[Top].dir \in Visible
  BY <1>1 DEF GoodStack
<1>4. [stack[Top] EXCEPT !.seen = @ \cup {x}] \in Frame
  BY <1>2, <1>3 DEF Frame
<1> DEFINE f == [stack[Top] EXCEPT !.seen = @ \cup {x}]
<1>5. Seen(x) = [stack EXCEPT ![Top] = f]
  BY DEF Seen
<1>6. f \in Frame
  BY <1>4
<1> HIDE DEF f
<1>7. /\ Seen(x) \in Seq(Frame) /\ Len(Seen(x)) = Top /\ Seen(x)[Top] = f
      /\ \A i \in 1 .. Top - 1 : Seen(x)[i] = stack[i]
  BY <1>1, <1>5, <1>6, ExceptSeq
<1>8. Top \in 1 .. Len(stack)
  BY <1>1
<1> QED
  BY <1>1, <1>2, <1>3, <1>7, <1>8 DEF f

LEMMA SeenFacts ==
    ASSUME GoodStack(stack), NEW x \in Inner, Returns(x)
    PROVE  GoodStack(Seen(x))
<1>1. ASSUME NEW i \in 1 .. Len(stack)
      PROVE  Seen(x)[i].dir = stack[i].dir /\ Seen(x)[i].depth = stack[i].depth
  <2>1. CASE i = Top
    <3>1. stack[Top] \in Frame /\ Seen(x)[Top] = [stack[Top] EXCEPT !.seen = @ \cup {x}]
      BY ReturnFacts
    <3> QED
      BY <3>1, <2>1 DEF Frame
  <2>2. CASE i \in 1 .. Top - 1
    BY <2>2, ReturnFacts
  <2> QED
    BY <2>1, <2>2, ReturnFacts DEF Top
<1> QED
  BY <1>1, ReturnFacts, SameFrames DEF Top

\* The stack with the depth of its top counted up.
Counted(x) == [Seen(x) EXCEPT ![Top].depth = stack[Top].depth + 1]

LEMMA CountedFacts ==
    ASSUME GoodStack(stack), NEW x \in Inner, Returns(x)
    PROVE  /\ GoodStack(Counted(x)) /\ Len(Counted(x)) = Top
           /\ Counted(x)[Top].depth = stack[Top].depth + 1
           /\ stack[Top].depth + 1 >= Top + 1 /\ stack[Top].depth \in Nat
<1> DEFINE f == [Seen(x)[Top] EXCEPT !.depth = stack[Top].depth + 1]
<1>1. GoodStack(Seen(x)) /\ Top \in 1 .. Len(stack) /\ Len(Seen(x)) = Top /\ Len(stack) = Top
  BY SeenFacts, ReturnFacts DEF Top
<1>2. Seen(x)[Top] \in Frame /\ Seen(x)[Top].depth = stack[Top].depth
  <2>1. stack[Top] \in Frame /\ Seen(x)[Top] = [stack[Top] EXCEPT !.seen = @ \cup {x}] /\ x \in Inner
    BY ReturnFacts
  <2> QED
    BY <2>1 DEF Frame
<1>3. stack[Top].depth \in Nat /\ stack[Top].depth >= Top
  BY <1>1, ReturnFacts DEF Frame, GoodStack
<1>4. /\ f \in Frame /\ f.dir = Seen(x)[Top].dir /\ f.depth = stack[Top].depth + 1
  BY <1>2, <1>3 DEF Frame
<1>5. Counted(x) = [Seen(x) EXCEPT ![Top] = f]
  BY DEF Counted
<1> HIDE DEF f
<1>6. /\ Counted(x) \in Seq(Frame) /\ Len(Counted(x)) = Top /\ Counted(x)[Top] = f
      /\ \A i \in 1 .. Top - 1 : Counted(x)[i] = Seen(x)[i]
  BY <1>1, <1>4, <1>5 DEF GoodStack
<1> QED
  BY <1>1, <1>3, <1>4, <1>6 DEF GoodStack

LEMMA PoppedFacts ==
    ASSUME GoodStack(stack), Top > 0
    PROVE  GoodStack(SubSeq(stack, 1, Top - 1))
<1>1. stack \in Seq(Frame) /\ Top = Len(stack) /\ Top \in Nat
  BY DEF GoodStack, Top
<1>2. /\ SubSeq(stack, 1, Top - 1) \in Seq(Frame) /\ Len(SubSeq(stack, 1, Top - 1)) = Top - 1
      /\ \A i \in 1 .. Top - 1 : SubSeq(stack, 1, Top - 1)[i] = stack[i]
  BY <1>1
<1> QED
  BY <1>1, <1>2 DEF GoodStack

LEMMA CalledFacts ==
    ASSUME NEW d \in Dirs, NEW n \in Nat
    PROVE  Called(d, n) \in Frame /\ Called(d, n).dir = d /\ Called(d, n).depth = n
  BY DEF Called, Frame, Entries

LEMMA RecurseFacts ==
    ASSUME GoodStack(stack), NEW x \in Inner, Recurse(x)
    PROVE  GoodStack(stack')
<1>1. Returns(x) /\ x \in Dirs \ Hidden /\ stack[Top].depth + 1 < MaxRecurse
      /\ stack' = Append(Counted(x), Called(x, stack[Top].depth + 1))
  BY DEF Recurse, Counted
<1> DEFINE c == Called(x, stack[Top].depth + 1)
<1>2. /\ GoodStack(Counted(x)) /\ Len(Counted(x)) = Top
      /\ Counted(x)[Top].depth = stack[Top].depth + 1
      /\ stack[Top].depth + 1 >= Top + 1 /\ stack[Top].depth \in Nat /\ Top \in Nat
  BY <1>1, CountedFacts, ReturnFacts
<1>3. c \in Frame /\ c.dir = x /\ c.depth = stack[Top].depth + 1
  BY <1>1, <1>2, CalledFacts
<1>4. x \in Visible
  BY <1>1, ReturnFacts, VisibleFacts
<1> HIDE DEF c
<1>5. stack' = Append(Counted(x), c)
  BY <1>1 DEF c
<1>6. /\ stack' \in Seq(Frame) /\ Len(stack') = Top + 1 /\ stack'[Top + 1] = c
      /\ \A i \in 1 .. Top : stack'[i] = Counted(x)[i]
  BY <1>2, <1>3, <1>5 DEF GoodStack
<1>7. ASSUME NEW i \in 1 .. Top + 1
      PROVE  /\ stack'[i].dir \in Visible /\ stack'[i].depth >= i
             /\ i < Top + 1 => stack'[i].depth >= i + 1 /\ stack'[i].depth < MaxRecurse
  <2>1. CASE i = Top + 1
    BY <2>1, <1>2, <1>3, <1>4, <1>6
  <2>2. CASE i = Top
    BY <2>2, <1>1, <1>2, <1>6 DEF GoodStack
  <2>3. CASE i < Top
    <3>1. i \in 1 .. Len(Counted(x)) /\ i < Len(Counted(x)) /\ stack'[i] = Counted(x)[i]
      BY <2>3, <1>2, <1>6
    <3>2. /\ Counted(x)[i].dir \in Visible /\ Counted(x)[i].depth >= i
          /\ Counted(x)[i].depth >= i + 1 /\ Counted(x)[i].depth < MaxRecurse
      BY <3>1, <1>2 DEF GoodStack
    <3> QED
      BY <3>1, <3>2
  <2> QED
    BY <1>2, <2>1, <2>2, <2>3
<1> QED
  BY <1>6, <1>7 DEF GoodStack
-----------------------------------------------------------------------------
(* The steps *)

\* Any subset of the tree that is there.
LEMMA InitFacts == Init => IInv
<1> SUFFICES ASSUME Init PROVE IInv
  OBVIOUS
<1>1. queue = <<>> /\ batch = <<>> /\ stack = <<>> /\ opened = {}
  BY DEF Init
<1>0. CallsOK
  BY NamesAssumption DEF Init, CallsOK, Handle, Threads, HiddenNeverOpened
<1>2. GoodQueue(queue) /\ GoodQueue(batch)
  BY <1>1, BoundsAssumption DEF GoodQueue
<1>3. GoodStack(stack)
  BY <1>1 DEF GoodStack
<1>4. fs \in [Files -> {"absent", "partial", "complete"}] /\ gone \subseteq Dirs
  BY DEF Init
<1>5. pc \in {"watch", "list", "scan", "done"}
  BY DEF Init
<1>6. next \in 1 .. Len(Roots) + 1 /\ changes \in 0 .. MaxChanges
  BY TreeAssumption, BoundsAssumption DEF Init
<1>7. watched = {} /\ vfs_watch_list = {} /\ changed = {}
  BY DEF Init
<1>8. TypeOK
  BY <1>0, <1>1, <1>2, <1>3, <1>4, <1>5, <1>6, <1>7 DEF TypeOK, GoodQueue, GoodStack, CallsOK
<1> QED
  BY <1>0, <1>2, <1>3, <1>8, StackParts

\* What a change keeps.
LEMMA ChangeFacts ==
    ASSUME IInv, NEW x \in Dirs \cup Files, Change(x)
    PROVE  /\ changes' \in 0 .. MaxChanges /\ changed' \subseteq Files \cup Dirs
           /\ opened' \subseteq Files /\ CallsOK'
<1>1. changes \in 0 .. MaxChanges /\ changed \subseteq Files \cup Dirs
      /\ opened \subseteq Files /\ CallsOK
  BY DEF IInv, TypeOK
<1>2. CallsOK'
  <2>1. /\ handle' = [f \in Files |-> IF f = x /\ handle[f] = "held" THEN "stale" ELSE handle[f]]
        /\ want' = want /\ db_locked' = db_locked
    BY DEF Change
  <2>2. handle' \in [Files -> Handle] /\ \A f \in Files : handle[f] = "none" => handle'[f] = "none"
    BY <1>1, <2>1 DEF CallsOK, Handle
  <2> QED
    BY <1>1, <2>1, <2>2 DEF CallsOK, HiddenNeverOpened
<1> QED
  BY <1>1, <1>2, BoundsAssumption DEF Change

LEMMA SameCalls ==
    ASSUME CallsOK, UNCHANGED calls
    PROVE  CallsOK'
  BY DEF CallsOK, HiddenNeverOpened, calls

\* A step of the environment leaves the threads where they are.
LEMMA EnvFacts ==
    ASSUME IInv, UNCHANGED <<vfs_watch_list, batch, pc, next>>,
           fs' \in [Files -> {"absent", "partial", "complete"}], gone' \subseteq Dirs,
           changes' \in 0 .. MaxChanges, changed' \subseteq Files \cup Dirs,
           opened' \subseteq Files, CallsOK', watched' \subseteq watched,
           GoodQueue(queue'), GoodStack(stack')
    PROVE  IInv'
<1>1. TypeOK'
  <2>1. queue' \in Seq(Event) /\ Len(queue') <= QueueLimit + 1 /\ stack' \in Seq(Frame)
    BY DEF GoodQueue, GoodStack
  <2> QED
    BY <2>1 DEF IInv, TypeOK, CallsOK
<1>2. GoodQueue(batch')
  BY DEF IInv
<1>3. DepthInv' /\ StackInv'
  BY DEF GoodStack, DepthInv, StackInv
<1> QED
  BY <1>1, <1>2, <1>3 DEF IInv, GoodQueue

LEMMA EnvStep ==
    ASSUME IInv, Environment
    PROVE  IInv'
<1>1. /\ GoodStack(stack) /\ GoodQueue(queue) /\ gone \subseteq Dirs
      /\ fs \in [Files -> {"absent", "partial", "complete"}]
      /\ changes \in 0 .. MaxChanges /\ changed \subseteq Files \cup Dirs
      /\ opened \subseteq Files /\ CallsOK
  BY StackParts DEF IInv, TypeOK
<1>2. ASSUME NEW f \in Files, BeginWrite(f) PROVE IInv'
  <2>1. /\ changes' \in 0 .. MaxChanges /\ changed' \subseteq Files \cup Dirs
        /\ opened' \subseteq Files /\ CallsOK'
    BY <1>2, ChangeFacts DEF BeginWrite
  <2> QED
    BY <1>1, <1>2, <2>1, EnvFacts DEF BeginWrite
<1>3. ASSUME NEW f \in Files, CloseWrite(f) PROVE IInv'
  <2>1. GoodQueue(queue')
    BY <1>3, NotifyFacts DEF CloseWrite
  <2>2. /\ fs' \in [Files -> {"absent", "partial", "complete"}] /\ changed' \subseteq Files \cup Dirs
        /\ UNCHANGED <<gone, changes, watched, vfs_watch_list, batch, pc, next, stack, opened, calls>>
    BY <1>1, <1>3 DEF CloseWrite
  <2> QED
    BY <1>1, <2>1, <2>2, SameCalls, EnvFacts
<1>4. ASSUME NEW f \in Files, MoveIn(f) PROVE IInv'
  <2>1. /\ changes' \in 0 .. MaxChanges /\ changed' \subseteq Files \cup Dirs
        /\ opened' \subseteq Files /\ CallsOK'
    BY <1>4, ChangeFacts DEF MoveIn
  <2>2. GoodQueue(queue')
    BY <1>4, NotifyFacts DEF MoveIn
  <2> QED
    BY <1>1, <1>4, <2>1, <2>2, EnvFacts DEF MoveIn
<1>5. ASSUME NEW f \in Files, RemoveFile(f) PROVE IInv'
  <2>1. /\ changes' \in 0 .. MaxChanges /\ changed' \subseteq Files \cup Dirs
        /\ opened' \subseteq Files /\ CallsOK'
    BY <1>5, ChangeFacts DEF RemoveFile
  <2>2. GoodQueue(queue')
    BY <1>5, NotifyFacts DEF RemoveFile
  <2>3. GoodStack(stack')
    BY <1>1, <1>5, ReplacedFacts DEF RemoveFile
  <2> QED
    BY <1>1, <1>5, <2>1, <2>2, <2>3, EnvFacts DEF RemoveFile
<1>6. ASSUME NEW d \in Dirs, RemoveDir(d) PROVE IInv'
  <2>1. /\ changes' \in 0 .. MaxChanges /\ changed' \subseteq Files \cup Dirs
        /\ opened' \subseteq Files /\ CallsOK'
    BY <1>6, ChangeFacts DEF RemoveDir
  <2>2. GoodQueue(queue')
    <3>1. CASE d \in watched
      <4>1. GoodEvent([name |-> Nameless, in |-> FALSE])
        <5>1. Nameless \notin Inner
          BY TreeFacts, NamesAssumption
        <5> QED
          BY <5>1 DEF GoodEvent, Event
      <4> QED
        BY <1>1, <1>6, <3>1, <4>1, QueuedFacts DEF RemoveDir
    <3>2. CASE d \notin watched
      BY <1>6, <3>2, NotifyFacts DEF RemoveDir
    <3> QED
      BY <3>1, <3>2
  <2>3. GoodStack(stack')
    BY <1>1, <1>6, ReplacedFacts DEF RemoveDir
  <2>4. gone' \subseteq Dirs /\ watched' \subseteq watched
        /\ UNCHANGED <<fs, vfs_watch_list, batch, pc, next>>
    BY <1>1, <1>6 DEF RemoveDir
  <2> QED
    BY <1>1, <2>1, <2>2, <2>3, <2>4, EnvFacts
<1> QED
  BY <1>2, <1>3, <1>4, <1>5, <1>6 DEF Environment

\* pkg_open of something visible.
LEMMA OpenFacts ==
    ASSUME IInv, NEW t \in Threads, NEW x \in Files, x \in Visible, pkg_open(t, x)
    PROVE  opened' \subseteq Files /\ CallsOK'
<1>1. CallsOK /\ opened \subseteq Files
  BY DEF IInv, TypeOK
<1>2. CASE handle[x] = "none"
  <2>1. want' = [want EXCEPT ![t] = x] /\ handle' = handle /\ opened' = opened
        /\ db_locked' = db_locked
    BY <1>2 DEF pkg_open
  <2> QED
    BY <1>1, <2>1 DEF CallsOK, HiddenNeverOpened
<1>3. CASE handle[x] # "none"
  <2>1. /\ handle' = [handle EXCEPT ![x] = IF @ = "idle" THEN "stale" ELSE @]
        /\ want' = want /\ db_locked' = db_locked /\ Returned(x)
    BY <1>3 DEF pkg_open
  <2>2. handle' \in [Files -> Handle] /\ \A f \in Files : f # x => handle'[f] = handle[f]
    BY <1>1, <2>1 DEF CallsOK, Handle
  <2> QED
    BY <1>1, <2>1, <2>2 DEF CallsOK, HiddenNeverOpened, Returned
<1> QED
  BY <1>2, <1>3

\* A step of a thread leaves the files and the kernel's watch alone.
LEMMA ThreadFacts ==
    ASSUME IInv, UNCHANGED <<fs, gone, changes>>,
           watched' \subseteq RootDirs, vfs_watch_list' \subseteq RootDirs,
           pc' \in {"watch", "list", "scan", "done"}, next' \in 1 .. Len(Roots) + 1,
           changed' \subseteq changed,
           opened' \subseteq Files, CallsOK',
           GoodQueue(queue'), GoodQueue(batch'), GoodStack(stack')
    PROVE  IInv'
<1>1. TypeOK'
  <2>1. /\ queue' \in Seq(Event) /\ Len(queue') <= QueueLimit + 1 /\ stack' \in Seq(Frame)
        /\ batch' \in Seq(Event)
    BY DEF GoodQueue, GoodStack
  <2> QED
    BY <2>1 DEF IInv, TypeOK, CallsOK
<1>2. DepthInv' /\ StackInv'
  BY DEF GoodStack, DepthInv, StackInv
<1> QED
  BY <1>1, <1>2 DEF IInv, GoodQueue

\* The end of pkg_open, in either thread, and the collector.
LEMMA CallStep ==
    ASSUME IInv, NEW t \in Threads,
           Import(t) \/ OpenFails(t) \/ ArchiveFails(t) \/ \E x \in Files : Collect(x)
    PROVE  IInv'
<1>1. CallsOK /\ opened \subseteq Files
  BY DEF IInv, TypeOK
<1>2. UNCHANGED <<fs, gone, changes, watched, vfs_watch_list, queue, batch, pc, next, stack, changed>>
  BY DEF Import, OpenFails, ArchiveFails, Collect
<1>3. ASSUME NEW x \in Files, x \in Visible, NEW v \in Handle,
             handle' = [handle EXCEPT ![x] = v], db_locked' \in BOOLEAN,
             want' = want \/ want' = [want EXCEPT ![t] = NoFile]
      PROVE  CallsOK'
  <2>1. handle' \in [Files -> Handle] /\ \A f \in Files : f # x => handle'[f] = handle[f]
    BY <1>1, <1>3 DEF CallsOK
  <2>2. /\ want' \in [Threads -> Files \cup {NoFile}]
        /\ \A s \in Threads : want'[s] = want[s] \/ want'[s] = NoFile
    BY <1>1, <1>3 DEF CallsOK
  <2> QED
    BY <1>1, <1>3, <2>1, <2>2, NamesAssumption DEF CallsOK, HiddenNeverOpened
<1>4. ASSUME want[t] # NoFile PROVE want[t] \in Files /\ want[t] \in Visible
  BY <1>1, <1>4 DEF CallsOK, HiddenNeverOpened
<1>5. CallsOK' /\ opened' \subseteq Files
  <2>1. CASE Import(t)
    <3> DEFINE v == IF fs[want[t]] = "complete" THEN "held" ELSE "stale"
    <3>1. /\ want[t] # NoFile /\ handle' = [handle EXCEPT ![want[t]] = v]
          /\ want' = [want EXCEPT ![t] = NoFile] /\ db_locked' = db_locked /\ Returned(want[t])
      BY <2>1 DEF Import
    <3>2. v \in Handle /\ db_locked' \in BOOLEAN
      BY <1>1, <3>1 DEF Handle, CallsOK
    <3> HIDE DEF v
    <3> QED
      BY <1>1, <1>3, <1>4, <3>1, <3>2 DEF Returned
  <2>2. CASE OpenFails(t)
    <3>1. /\ want[t] # NoFile /\ handle' = handle /\ opened' = opened
          /\ want' = [want EXCEPT ![t] = NoFile] /\ db_locked' = TRUE
      BY <2>2 DEF OpenFails
    <3>2. want[t] \in Files /\ want[t] \in Visible
      BY <1>4, <3>1
    <3>3. handle[want[t]] \in Handle /\ handle' = [handle EXCEPT ![want[t]] = handle[want[t]]]
      BY <1>1, <3>1, <3>2 DEF CallsOK
    <3> QED
      BY <1>1, <1>3, <3>1, <3>2, <3>3
  <2>3. CASE ArchiveFails(t)
    <3> DEFINE v == IF handle[want[t]] = "none" THEN "idle" ELSE handle[want[t]]
    <3>1. /\ want[t] # NoFile /\ handle' = [handle EXCEPT ![want[t]] = v]
          /\ want' = [want EXCEPT ![t] = NoFile] /\ db_locked' = TRUE /\ opened' = opened
      BY <2>3 DEF ArchiveFails
    <3>2. want[t] \in Files /\ want[t] \in Visible
      BY <1>4, <3>1
    <3>3. v \in Handle
      BY <1>1, <3>2 DEF Handle, CallsOK
    <3> HIDE DEF v
    <3> QED
      BY <1>1, <1>3, <3>1, <3>2, <3>3
  <2>4. ASSUME NEW x \in Files, Collect(x) PROVE CallsOK' /\ opened' \subseteq Files
    <3>1. /\ handle[x] = "idle" /\ handle' = [handle EXCEPT ![x] = "none"]
          /\ want' = want /\ db_locked' = db_locked /\ opened' = opened
      BY <2>4 DEF Collect
    <3>2. x \in Visible /\ db_locked' \in BOOLEAN /\ "none" \in Handle
      BY <1>1, <3>1 DEF CallsOK, HiddenNeverOpened, Handle
    <3> QED
      BY <1>1, <1>3, <3>1, <3>2
  <2> QED
    BY <2>1, <2>2, <2>3, <2>4
<1>6. /\ GoodStack(stack) /\ GoodQueue(queue) /\ GoodQueue(batch)
      /\ watched \subseteq RootDirs /\ vfs_watch_list \subseteq RootDirs
      /\ pc \in {"watch", "list", "scan", "done"} /\ next \in 1 .. Len(Roots) + 1
  BY StackParts DEF IInv, TypeOK
<1>7. /\ GoodStack(stack') /\ GoodQueue(queue') /\ GoodQueue(batch')
      /\ watched' \subseteq RootDirs /\ vfs_watch_list' \subseteq RootDirs
      /\ pc' \in {"watch", "list", "scan", "done"} /\ next' \in 1 .. Len(Roots) + 1
      /\ UNCHANGED <<fs, gone, changes>> /\ changed' \subseteq changed
  BY <1>2, <1>6
<1> QED
  BY <1>5, <1>7, ThreadFacts

LEMMA VfsStep ==
    ASSUME IInv, VfsThread
    PROVE  IInv'
<1>1. /\ GoodStack(stack) /\ GoodQueue(queue) /\ GoodQueue(batch)
      /\ watched \subseteq RootDirs /\ vfs_watch_list \subseteq RootDirs
      /\ pc \in {"watch", "list", "scan", "done"} /\ next \in 1 .. Len(Roots) + 1
      /\ opened \subseteq Files /\ CallsOK
  BY StackParts DEF IInv, TypeOK
<1>2. Len(Roots) \in Nat \ {0} /\ \A i \in 1 .. Len(Roots) : Roots[i] \in RootDirs
  BY TreeAssumption DEF RootDirs
<1>3. CASE WatchAdd
  BY <1>1, <1>2, <1>3, SameCalls, ThreadFacts DEF WatchAdd
<1>4. CASE WatchFails
  BY <1>1, <1>4, SameCalls, ThreadFacts DEF WatchFails
<1>5. CASE WatchList
  BY <1>1, <1>2, <1>5, SameCalls, ThreadFacts DEF WatchList
<1>6. CASE WalkRoot
  <2>1. next \in 1 .. Len(Roots) /\ next' \in 1 .. Len(Roots) + 1
    BY <1>1, <1>2, <1>6 DEF WalkRoot
  <2>2. GoodStack(stack')
    <3>1. Roots[next] \in Dirs /\ Roots[next] \in Visible
      BY <1>2, <2>1, TreeFacts, VisibleFacts
    <3> DEFINE c == Called(Roots[next], 1)
    <3>2. c \in Frame /\ c.dir = Roots[next] /\ c.depth = 1
      BY <3>1, CalledFacts
    <3> HIDE DEF c
    <3>3. stack' = <<>> \/ stack' = <<c>>
      BY <1>6 DEF WalkRoot, c
    <3>4. CASE stack' = <<>>
      BY <3>4 DEF GoodStack
    <3>5. CASE stack' = <<c>>
      <4>1. stack' \in Seq(Frame) /\ Len(stack') = 1 /\ stack'[1] = c
        BY <3>2, <3>5
      <4> QED
        BY <3>1, <3>2, <4>1 DEF GoodStack
    <3> QED
      BY <3>3, <3>4, <3>5
  <2> QED
    BY <1>1, <1>6, <2>1, <2>2, SameCalls, ThreadFacts DEF WalkRoot
<1>7. CASE WalkDone
  BY <1>1, <1>7, SameCalls, ThreadFacts DEF WalkDone
<1>8. CASE WalkEnd
  <2>1. GoodStack(stack')
    BY <1>1, <1>8, PoppedFacts DEF WalkEnd
  <2> QED
    BY <1>1, <1>8, <2>1, SameCalls, ThreadFacts DEF WalkEnd
<1>9. ASSUME NEW x \in Inner, SkipHidden(x) PROVE IInv'
  <2>1. GoodStack(stack')
    BY <1>1, <1>9, SeenFacts DEF SkipHidden
  <2> QED
    BY <1>1, <1>9, <2>1, SameCalls, ThreadFacts DEF SkipHidden
<1>10. ASSUME NEW x \in Inner, Recurse(x) PROVE IInv'
  <2>1. GoodStack(stack')
    BY <1>1, <1>10, RecurseFacts
  <2> QED
    BY <1>1, <1>10, <2>1, SameCalls, ThreadFacts DEF Recurse
<1>11. ASSUME NEW x \in Inner, TooDeep(x) PROVE IInv'
  <2>1. Returns(x) /\ stack' = Counted(x)
    BY <1>11 DEF TooDeep, Counted
  <2>2. GoodStack(stack')
    BY <1>1, <2>1, CountedFacts
  <2> QED
    BY <1>1, <1>11, <2>2, SameCalls, ThreadFacts DEF TooDeep
<1>12. ASSUME NEW x \in Inner, WalkFile(x) PROVE IInv'
  <2>1. Returns(x) /\ x \in Files /\ x \notin Hidden /\ stack' = Seen(x) /\ pkg_open("vfs", x)
    BY <1>12 DEF WalkFile
  <2>2. GoodStack(stack')
    BY <1>1, <2>1, SeenFacts
  <2>3. x \in Visible
    BY <1>1, <2>1, ReturnFacts, VisibleFacts
  <2>4. opened' \subseteq Files /\ CallsOK'
    BY <2>1, <2>3, OpenFacts DEF Threads
  <2> QED
    BY <1>1, <1>12, <2>2, <2>4, ThreadFacts DEF WalkFile
<1>13. ASSUME NEW x \in Inner, WalkNoExt(x) PROVE IInv'
  <2>1. GoodStack(stack')
    BY <1>1, <1>13, PoppedFacts DEF WalkNoExt, Returns
  <2> QED
    BY <1>1, <1>13, <2>1, SameCalls, ThreadFacts DEF WalkNoExt
<1> QED
  BY <1>3, <1>4, <1>5, <1>6, <1>7, <1>8, <1>9, <1>10, <1>11, <1>12, <1>13, CallStep
     DEF VfsThread, Threads

LEMMA MainStep ==
    ASSUME IInv, MainThread
    PROVE  IInv'
<1>1. /\ GoodStack(stack) /\ GoodQueue(queue) /\ GoodQueue(batch)
      /\ watched \subseteq RootDirs /\ vfs_watch_list \subseteq RootDirs
      /\ pc \in {"watch", "list", "scan", "done"} /\ next \in 1 .. Len(Roots) + 1
      /\ opened \subseteq Files /\ CallsOK
  BY StackParts DEF IInv, TypeOK
<1>2. GoodQueue(<<>>)
  BY BoundsAssumption DEF GoodQueue
<1>3. ASSUME batch # <<>> PROVE GoodQueue(Tail(batch)) /\ GoodEvent(Head(batch))
  <2>1. batch \in Seq(Event) /\ Len(batch) \in Nat \ {0}
    BY <1>1, <1>3 DEF GoodQueue
  <2>2. /\ Tail(batch) \in Seq(Event) /\ Len(Tail(batch)) = Len(batch) - 1
        /\ \A i \in 1 .. Len(batch) - 1 : Tail(batch)[i] = batch[i + 1]
    BY <2>1, <1>3
  <2>3. Head(batch) = batch[1]
    BY <2>1
  <2> QED
    BY <1>1, <2>1, <2>2, <2>3, BoundsAssumption DEF GoodQueue
<1>4. CASE EvtRead
  BY <1>1, <1>2, <1>4, SameCalls, ThreadFacts DEF EvtRead
<1>5. CASE EvtReturn
  BY <1>1, <1>2, <1>5, SameCalls, ThreadFacts DEF EvtReturn
<1>6. CASE EvtOpen
  <2>1. /\ batch # <<>> /\ Head(batch).name \notin Hidden /\ Head(batch).in
        /\ batch' = Tail(batch) /\ pkg_open("main", Head(batch).name)
    BY <1>6 DEF EvtOpen, Handling, Stuck
  <2>2. Head(batch).name \in Files /\ Head(batch).name \in Visible
    BY <2>1, <1>3, TreeFacts, VisibleFacts DEF GoodEvent
  <2>3. opened' \subseteq Files /\ CallsOK'
    BY <2>1, <2>2, OpenFacts DEF Threads
  <2> QED
    BY <1>1, <1>3, <1>6, <2>1, <2>3, ThreadFacts DEF EvtOpen
<1>7. CASE EvtForget
  BY <1>1, <1>3, <1>7, SameCalls, ThreadFacts DEF EvtForget, Handling
<1> QED
  BY <1>4, <1>5, <1>6, <1>7, CallStep DEF MainThread, Threads

-----------------------------------------------------------------------------
(* The theorems *)

\* The inductive invariant.
THEOREM FindInv == Spec => []IInv
<1>1. IInv /\ [Next]_vars => IInv'
  <2> SUFFICES ASSUME IInv, [Next]_vars PROVE IInv'
    OBVIOUS
  <2>1. CASE UNCHANGED vars
    BY <2>1 DEF vars, IInv, TypeOK, DepthInv, StackInv, GoodQueue, CallsOK, HiddenNeverOpened
  <2> QED
    BY <2>1, EnvStep, VfsStep, MainStep DEF Next
<1> QED
  BY <1>1, InitFacts, PTL DEF Spec

\* The state of the search for packages keeps its type, whatever happens to the
\* files; in particular the queue never exceeds its limit by more than one.
THEOREM FindTyped == Spec => []TypeOK
<1>1. IInv => TypeOK
  BY DEF IInv
<1> QED
  BY <1>1, FindInv, PTL

\* vfs_dir_walk_recurse never has VFS_MAX_RECURSE calls on the stack, in any
\* tree: the count of subdirectories is an upper bound for the level.
THEOREM WalkBounded == Spec => []DepthBounded
<1>1. IInv => DepthBounded
  <2> SUFFICES ASSUME IInv PROVE Len(stack) < MaxRecurse
    BY DEF DepthBounded
  <2>1. Len(stack) \in Nat /\ MaxRecurse \in Nat \ {0, 1} /\ stack \in Seq(Frame)
    BY BoundsAssumption DEF IInv, TypeOK
  <2>2. CASE Len(stack) <= 1
    BY <2>1, <2>2
  <2>3. CASE Len(stack) > 1
    <3>1. Len(stack) - 1 \in 1 .. Len(stack) /\ Len(stack) - 1 < Len(stack)
      BY <2>1, <2>3
    <3>2. /\ stack[Len(stack) - 1].depth >= Len(stack) - 1 + 1
          /\ stack[Len(stack) - 1].depth < MaxRecurse
      BY <3>1 DEF IInv, DepthInv
    <3>3. stack[Len(stack) - 1] \in Frame
      BY <2>1, <3>1, ElementOfSeq
    <3>4. stack[Len(stack) - 1].depth \in Nat
      BY <3>3 DEF Frame
    <3> QED
      BY <2>1, <3>2, <3>4
  <2> QED
    BY <2>1, <2>2, <2>3
<1> QED
  BY <1>1, FindInv, PTL

\* Neither the walk nor the inotify callback asks pkg_open for a hidden file or a
\* file below a hidden directory, and pkg_list never has one.
THEOREM HiddenStayClosed == Spec => []HiddenNeverOpened
<1>1. IInv => HiddenNeverOpened
  BY DEF IInv, CallsOK
<1> QED
  BY <1>1, FindInv, PTL

-----------------------------------------------------------------------------
(* Functions defined by recursion over the tree of directories *)

\* A set of numbers that is not empty has a least element.
LEMMA LeastNumber ==
    ASSUME NEW S, S \subseteq Nat, S # {}
    PROVE  \E n \in S : \A m \in S : n <= m
<1>1. PICK n \in S : \A m \in S : ~ (<<m, n>> \in OpToRel(<, Nat))
  BY NatLessThanWellFounded, WFMin
<1>2. \A m \in S : n <= m
  <2>1. SUFFICES ASSUME NEW m \in S, m < n PROVE FALSE
    OBVIOUS
  <2>2. <<m, n>> \in OpToRel(<, Nat)
    BY <2>1 DEF OpToRel
  <2> QED BY <1>1, <2>2
<1> QED BY <1>2

\* What holds for the roots, and for a directory if for its parent, holds for
\* every directory.
LEMMA TreeInduction ==
    ASSUME NEW S, RootDirs \subseteq S,
           \A d \in Dirs \ RootDirs : Parent[d] \in S => d \in S
    PROVE  Dirs \subseteq S
<1>1. PICK rank \in [Dirs -> 0 .. Cardinality(Dirs)] :
          \A d \in Dirs \ RootDirs : rank[Parent[d]] < rank[d]
  BY LoopsAssumption
<1>2. \A d \in Dirs : rank[d] \in Nat
  BY LoopsAssumption, FS_CardinalityType
<1>3. SUFFICES ASSUME Dirs \ S # {} PROVE FALSE
  OBVIOUS
<1> DEFINE R == {rank[d] : d \in Dirs \ S}
<1>4. PICK n \in R : \A m \in R : n <= m
  <2>1. R \subseteq Nat /\ R # {}
    BY <1>2, <1>3
  <2> QED BY <2>1, LeastNumber
<1>5. PICK d \in Dirs \ S : rank[d] = n
  BY <1>4
<1>6. d \notin RootDirs /\ Parent[d] \in Dirs \ S
  BY <1>5, TreeFacts DEF Inner
<1>7. rank[Parent[d]] \in R /\ rank[Parent[d]] < n
  BY <1>1, <1>5, <1>6
<1> QED BY <1>2, <1>4, <1>5, <1>6, <1>7

Follows(g, b, F) ==
    /\ g = [d \in Dirs |-> g[d]]
    /\ \A d \in Dirs : g[d] = IF d \in RootDirs THEN b[d] ELSE F[d][g[Parent[d]]]

\* A value for each root, and a rule from a directory to its subdirectories,
\* give a value to every directory.
LEMMA Recursion ==
    ASSUME NEW b, NEW F
    PROVE  \E g : Follows(g, b, F)
<1> DEFINE Rule(g, d) == IF d \in RootDirs THEN b[d] ELSE F[d][g[Parent[d]]]
<1>1. PICK rank \in [Dirs -> 0 .. Cardinality(Dirs)] :
          \A d \in Dirs \ RootDirs : rank[Parent[d]] < rank[d]
  BY LoopsAssumption
<1>2. Cardinality(Dirs) \in Nat /\ \A d \in Dirs : rank[d] \in Nat
  BY LoopsAssumption, FS_CardinalityType
<1>3. \A d \in Dirs \ RootDirs : Parent[d] \in Dirs
  BY TreeFacts DEF Inner
<1> DEFINE Upto(n) == \E g : g = [d \in Dirs |-> g[d]] /\ \A d \in Dirs : rank[d] < n => g[d] = Rule(g, d)
           bad == {n \in Nat : ~Upto(n)}
<1>4. bad = {}
  <2> SUFFICES ASSUME bad # {} PROVE FALSE
    OBVIOUS
  <2>1. PICK n \in bad : \A m \in bad : n <= m
    BY LeastNumber
  <2>2. n # 0
    <3>1. \A d \in Dirs : ~ (rank[d] < 0)
      BY <1>2
    <3>2. Upto(0)
      <4> DEFINE g == [d \in Dirs |-> b]
      <4>1. g = [d \in Dirs |-> g[d]]
        OBVIOUS
      <4> HIDE DEF g
      <4> QED BY <3>1, <4>1
    <3> QED BY <3>2
  <2>3. n \in Nat /\ n - 1 \in Nat /\ n - 1 < n
    BY <2>1, <2>2
  <2>4. PICK g : \A d \in Dirs : rank[d] < n - 1 => g[d] = Rule(g, d)
    <3>1. n - 1 \notin bad
      <4> HIDE DEF bad
      <4> QED BY <2>1, <2>3
    <3>2. Upto(n - 1)
      <4> HIDE DEF Upto
      <4> QED BY <2>3, <3>1
    <3> QED BY <3>2
  <2> DEFINE h == [d \in Dirs |-> Rule(g, d)]
  <2>5. h = [d \in Dirs |-> h[d]]
    OBVIOUS
  <2>6. ASSUME NEW d \in Dirs, rank[d] < n PROVE h[d] = Rule(h, d)
    <3>1. CASE d \in RootDirs
      BY <3>1
    <3>2. CASE d \notin RootDirs
      <4>1. Parent[d] \in Dirs /\ rank[Parent[d]] < n - 1
        BY <1>1, <1>2, <1>3, <2>1, <2>6, <3>2
      <4>2. h[Parent[d]] = g[Parent[d]]
        BY <2>4, <4>1
      <4> QED BY <3>2, <4>1, <4>2
    <3> QED BY <3>1, <3>2
  <2>7. Upto(n)
    <3> HIDE DEF h
    <3> QED BY <2>5, <2>6
  <2> QED BY <2>1, <2>7
<1>5. Upto(Cardinality(Dirs) + 1)
  <2> HIDE DEF Upto
  <2> QED BY <1>2, <1>4
<1>6. \A d \in Dirs : rank[d] < Cardinality(Dirs) + 1
  BY <1>1, <1>2
<1>7. PICK g : g = [d \in Dirs |-> g[d]] /\ \A d \in Dirs : g[d] = Rule(g, d)
  BY <1>5, <1>6
<1> QED BY <1>7 DEF Follows

\* The subdirectories that the walk counts.
Subdirs(d) == {e \in (Dirs \ RootDirs) \ Hidden : Parent[e] = d}

\* How many they are is a number.
LEMMA SubdirsFinite ==
    ASSUME NEW d PROVE IsFiniteSet(Subdirs(d)) /\ Cardinality(Subdirs(d)) \in Nat
<1>1. Subdirs(d) \subseteq Dirs
  BY DEF Subdirs
<1> QED BY <1>1, LoopsAssumption, FS_Subset, FS_CardinalityType

\* The largest depth at which the walk comes to a directory is what its
\* definition says.
LEMMA WorstDepthIs ==
    /\ WorstDepth \in [Dirs -> Nat]
    /\ \A d \in Dirs : WorstDepth[d] =
           IF d \in RootDirs THEN 1
           ELSE WorstDepth[Parent[d]] + Cardinality(Subdirs(Parent[d]))
<1> DEFINE Rule(g, d) == IF d \in RootDirs THEN 1
                         ELSE g[Parent[d]] + Cardinality(Subdirs(Parent[d]))
           b == [d \in Dirs |-> 1]
           F == [d \in Dirs |-> [v \in Nat |-> v + Cardinality(Subdirs(Parent[d]))]]
<1>1. \A d \in Dirs \ RootDirs : Parent[d] \in Dirs
  BY TreeFacts DEF Inner
<1>2. PICK g : /\ g = [d \in Dirs |-> g[d]]
               /\ \A d \in Dirs : g[d] = IF d \in RootDirs THEN b[d] ELSE F[d][g[Parent[d]]]
  <2> HIDE DEF b, F
  <2>1. PICK g : Follows(g, b, F)
    BY Recursion
  <2> QED BY <2>1 DEF Follows
<1>3. \A d \in Dirs : g[d] \in Nat
  <2>1. \A d \in RootDirs : d \in Dirs /\ g[d] = 1
    BY <1>2, TreeFacts
  <2>2. ASSUME NEW d \in Dirs \ RootDirs, g[Parent[d]] \in Nat PROVE g[d] \in Nat
    <3>1. g[d] = F[d][g[Parent[d]]]
      <4> HIDE DEF F, b
      <4> QED BY <1>2
    <3>2. F[d][g[Parent[d]]] = g[Parent[d]] + Cardinality(Subdirs(Parent[d]))
      BY <2>2
    <3>3. Cardinality(Subdirs(Parent[d])) \in Nat
      BY SubdirsFinite
    <3> QED BY <2>2, <3>1, <3>2, <3>3
  <2> DEFINE S == {d \in Dirs : g[d] \in Nat}
  <2>3. RootDirs \subseteq S /\ \A d \in Dirs \ RootDirs : Parent[d] \in S => d \in S
    <3> HIDE DEF F, b
    <3> QED BY <1>1, <2>1, <2>2
  <2>4. Dirs \subseteq S
    <3> HIDE DEF S
    <3> QED BY <2>3, TreeInduction
  <2> QED BY <2>4
<1>4. g = [d \in Dirs |-> Rule(g, d)]
  BY <1>1, <1>2, <1>3
<1>5. WorstDepth = CHOOSE f : f = [d \in Dirs |-> Rule(f, d)]
  BY DEF WorstDepth, Subdirs
<1>6. WorstDepth = [d \in Dirs |-> Rule(WorstDepth, d)]
  <2> HIDE DEF Rule
  <2> QED BY <1>4, <1>5
<1>7. \A d \in Dirs : WorstDepth[d] = Rule(WorstDepth, d)
  BY <1>6
<1>8. Dirs \subseteq {d \in Dirs : WorstDepth[d] \in Nat}
  <2>1. RootDirs \subseteq {d \in Dirs : WorstDepth[d] \in Nat}
    BY <1>7, TreeFacts
  <2>2. \A d \in Dirs \ RootDirs : WorstDepth[Parent[d]] \in Nat => WorstDepth[d] \in Nat
    BY <1>7, SubdirsFinite
  <2> QED BY <1>1, <2>1, <2>2, TreeInduction
<1> QED BY <1>6, <1>7, <1>8

\* A directory that the walk reads to its end has no file that cuts it short, is
\* within the limit, and is a root or a visible part of such a directory.
LEMMA WalkedIs ==
    \A d \in Dirs : Walked[d] =>
        /\ ~CutShort(d) /\ WorstDepth[d] < MaxRecurse
        /\ d \in RootDirs \/ (d \notin Hidden /\ Walked[Parent[d]])
<1> DEFINE Rule(g, d) == /\ ~CutShort(d) /\ WorstDepth[d] < MaxRecurse
                         /\ d \in RootDirs \/ (d \notin Hidden /\ g[Parent[d]])
           b == [d \in Dirs |-> ~CutShort(d) /\ WorstDepth[d] < MaxRecurse]
           F == [d \in Dirs |-> [v \in BOOLEAN |->
                    ~CutShort(d) /\ WorstDepth[d] < MaxRecurse /\ d \notin Hidden /\ v]]
<1>1. \A d \in Dirs \ RootDirs : Parent[d] \in Dirs
  BY TreeFacts DEF Inner
<1>2. PICK g : /\ g = [d \in Dirs |-> g[d]]
               /\ \A d \in Dirs : g[d] = IF d \in RootDirs THEN b[d] ELSE F[d][g[Parent[d]]]
  <2> HIDE DEF b, F
  <2>1. PICK g : Follows(g, b, F)
    BY Recursion
  <2> QED BY <2>1 DEF Follows
<1>3. \A d \in Dirs : g[d] \in BOOLEAN
  <2>1. RootDirs \subseteq {d \in Dirs : g[d] \in BOOLEAN}
    BY <1>2, TreeFacts
  <2>2. \A d \in Dirs \ RootDirs : g[Parent[d]] \in BOOLEAN => g[d] \in BOOLEAN
    BY <1>2
  <2> QED BY <1>1, <2>1, <2>2, TreeInduction
<1>4. \A d \in Dirs : g[d] = Rule(g, d)
  <2> TAKE d \in Dirs
  <2>1. CASE d \in RootDirs
    BY <1>2, <2>1
  <2>2. CASE d \notin RootDirs
    <3>1. g[Parent[d]] \in BOOLEAN
      BY <1>1, <1>3, <2>2
    <3> QED BY <1>2, <2>2, <3>1
  <2> QED BY <2>1, <2>2
<1>5. g = [d \in Dirs |-> Rule(g, d)]
  <2> HIDE DEF Rule
  <2>1. g = [d \in Dirs |-> g[d]]
    BY <1>2
  <2> QED BY <1>4, <2>1
<1>6. Walked = CHOOSE f : f = [d \in Dirs |-> Rule(f, d)]
  BY DEF Walked
<1>7. Walked = [d \in Dirs |-> Rule(Walked, d)]
  <2> HIDE DEF Rule
  <2> QED BY <1>5, <1>6
<1>8. \A d \in Dirs : Walked[d] = Rule(Walked, d)
  BY <1>7
<1> QED BY <1>8

-----------------------------------------------------------------------------
(* What lies below a directory *)

\* x and what one reaches from it by going down.
Below(x) ==
    {y \in Dirs \cup Files : \A S \in SUBSET (Dirs \cup Files) :
        x \in S /\ (\A z \in Inner : Parent[z] \in S => z \in S) => y \in S}

\* A set that has x and the entries of its directories has all that is below x.
LEMMA BelowLeast ==
    ASSUME NEW x, NEW S, S \subseteq Dirs \cup Files, x \in S,
           \A z \in Inner : Parent[z] \in S => z \in S
    PROVE  Below(x) \subseteq S
  BY DEF Below

LEMMA BelowFacts ==
    ASSUME NEW x \in Dirs \cup Files
    PROVE  /\ x \in Below(x)
           /\ \A z \in Inner : Parent[z] \in Below(x) => z \in Below(x)
  BY TreeFacts DEF Below

\* What is below a directory and not the directory is below one of its entries.
LEMMA BelowEntry ==
    ASSUME NEW x \in Dirs \cup Files, NEW f \in Below(x), f # x
    PROVE  \E z \in Inner : Parent[z] = x /\ f \in Below(z)
<1> DEFINE T == {y \in Dirs \cup Files : \E z \in Inner : Parent[z] = x /\ y \in Below(z)}
           S == {x} \cup T
<1>1. S \subseteq Dirs \cup Files /\ x \in S
  OBVIOUS
<1>2. ASSUME NEW w \in Inner, Parent[w] \in S PROVE w \in S
  <2>1. w \in Dirs \cup Files
    BY TreeFacts
  <2>2. CASE Parent[w] = x
    BY <2>1, <2>2, BelowFacts
  <2>3. CASE Parent[w] # x
    <3>1. PICK z \in Inner : Parent[z] = x /\ Parent[w] \in Below(z)
      BY <1>2, <2>3
    <3>2. w \in Below(z)
      BY <3>1, BelowFacts, TreeFacts
    <3> QED BY <2>1, <3>1, <3>2
  <2> QED BY <2>2, <2>3
<1>3. Below(x) \subseteq S
  <2> HIDE DEF S
  <2> QED BY <1>1, <1>2, BelowLeast
<1> QED BY <1>3

\* Nothing else is below a file.
LEMMA BelowFile ==
    ASSUME NEW x \in Files, NEW f \in Below(x)
    PROVE  f = x
<1>1. SUFFICES ASSUME f # x PROVE FALSE
  OBVIOUS
<1>2. PICK z \in Inner : Parent[z] = x
  BY <1>1, BelowEntry
<1> QED BY <1>2, TreeFacts, TreeAssumption

\* What goes from each entry to its directory goes from what is below x to x.
LEMMA Upwards ==
    ASSUME NEW E, \A z \in Inner : z \in E => Parent[z] \in E,
           NEW x \in Dirs \cup Files, NEW f \in Below(x), f \in E
    PROVE  x \in E
<1> DEFINE S == {y \in Dirs \cup Files : y \in E => x \in E}
<1>1. x \in S /\ S \subseteq Dirs \cup Files
  OBVIOUS
<1>2. ASSUME NEW z \in Inner, Parent[z] \in S PROVE z \in S
  BY <1>2, TreeFacts
<1>3. Below(x) \subseteq S
  <2> HIDE DEF S
  <2> QED BY <1>1, <1>2, BelowLeast
<1> QED BY <1>3

\* Everything is below some root.
LEMMA RootAbove ==
    ASSUME NEW f \in Dirs \cup Files
    PROVE  \E r \in RootDirs : f \in Below(r)
<1> DEFINE S == {d \in Dirs : \E r \in RootDirs : d \in Below(r)}
<1>1. RootDirs \subseteq S
  BY BelowFacts, TreeFacts
<1>2. ASSUME NEW d \in Dirs \ RootDirs, Parent[d] \in S PROVE d \in S
  <2>1. PICK r \in RootDirs : Parent[d] \in Below(r)
    BY <1>2
  <2>2. d \in Below(r)
    BY <2>1, BelowFacts, TreeFacts DEF Inner
  <2> QED BY <2>2
<1>3. Dirs \subseteq S
  <2> HIDE DEF S
  <2> QED BY <1>1, <1>2, TreeInduction
<1>4. CASE f \in Dirs
  BY <1>3, <1>4
<1>5. CASE f \in Files
  <2>1. PICK r \in RootDirs : Parent[f] \in Below(r)
    BY <1>3, <1>5, TreeFacts
  <2> QED BY <1>5, <2>1, BelowFacts, TreeFacts
<1> QED BY <1>4, <1>5

\* The walk is to come by here.
OnWay(x) == IF x \in Files THEN x \notin Hidden /\ Walked[Parent[x]] ELSE Walked[x]

\* It comes to an entry only from its directory, and to no hidden one.
LEMMA WayUp ==
    ASSUME NEW x \in Inner, OnWay(x)
    PROVE  OnWay(Parent[x]) /\ Walked[Parent[x]] /\ x \notin Hidden
<1>1. Parent[x] \in Dirs /\ Parent[x] \notin Files
  BY TreeFacts, TreeAssumption
<1>2. CASE x \in Files
  BY <1>1, <1>2 DEF OnWay
<1>3. CASE x \notin Files
  <2>1. x \in Dirs \ RootDirs /\ Walked[x]
    BY <1>3 DEF Inner, OnWay
  <2>2. Walked[Parent[x]] /\ x \notin Hidden
    BY <2>1, WalkedIs
  <2> QED BY <1>1, <2>2 DEF OnWay
<1> QED BY <1>2, <1>3

LEMMA WayBelow ==
    ASSUME NEW x \in Dirs \cup Files, NEW f \in Below(x), OnWay(f)
    PROVE  OnWay(x)
<1> DEFINE E == {y \in Dirs \cup Files : OnWay(y)}
<1>1. f \in E
  BY DEF Below
<1>2. \A z \in Inner : z \in E => Parent[z] \in E
  BY WayUp, TreeFacts
<1>3. x \in E
  <2> HIDE DEF E
  <2> QED BY <1>1, <1>2, Upwards
<1> QED BY <1>3

\* There is nothing in a directory that was removed.
GoneInv == \A x \in Inner : Parent[x] \in gone => ~Exists(x)

-----------------------------------------------------------------------------
(* How deep the walk counts *)

\* The subdirectories that a call has counted or will not meet.
Past(fr, g) == {e \in Subdirs(fr.dir) : e \in fr.seen \cup g}

CountOK(fr, g) == fr.depth <= WorstDepth[fr.dir] + Cardinality(Past(fr, g))

LEMMA PastFacts ==
    ASSUME NEW fr, NEW g
    PROVE  IsFiniteSet(Past(fr, g)) /\ Cardinality(Past(fr, g)) \in Nat
<1>1. Past(fr, g) \subseteq Subdirs(fr.dir)
  BY DEF Past
<1> QED BY <1>1, SubdirsFinite, FS_Subset, FS_CardinalityType

\* A call that has more behind it may have the depth it has.
LEMMA MorePast ==
    ASSUME NEW fr \in Frame, NEW f2 \in Frame, NEW g, NEW g2, CountOK(fr, g),
           f2.dir = fr.dir, f2.depth = fr.depth,
           \A e \in Subdirs(fr.dir) : e \in fr.seen \cup g => e \in f2.seen \cup g2
    PROVE  CountOK(f2, g2)
<1>1. Past(fr, g) \subseteq Past(f2, g2)
  BY DEF Past
<1>2. Cardinality(Past(fr, g)) <= Cardinality(Past(f2, g2))
  BY <1>1, PastFacts, FS_Subset
<1>3. /\ WorstDepth[fr.dir] \in Nat /\ fr.depth \in Nat
      /\ Cardinality(Past(fr, g)) \in Nat /\ Cardinality(Past(f2, g2)) \in Nat
  BY WorstDepthIs, PastFacts DEF Frame
<1> QED BY <1>2, <1>3 DEF CountOK

\* One more subdirectory makes the depth one more, which is at most what the
\* subdirectory may have.
LEMMA OneMore ==
    ASSUME NEW fr \in Frame, NEW f2 \in Frame, NEW g, CountOK(fr, g),
           NEW x, x \in Subdirs(fr.dir), x \notin fr.seen \cup g,
           f2.dir = fr.dir, f2.depth = fr.depth + 1, f2.seen = fr.seen \cup {x}
    PROVE  CountOK(f2, g) /\ fr.depth + 1 <= WorstDepth[x]
<1>1. Past(f2, g) = Past(fr, g) \cup {x} /\ x \notin Past(fr, g)
  BY DEF Past
<1>2. Cardinality(Past(f2, g)) = Cardinality(Past(fr, g)) + 1
  BY <1>1, PastFacts, FS_AddElement
<1>3. Past(f2, g) \subseteq Subdirs(fr.dir)
  BY DEF Past
<1>4. Cardinality(Past(f2, g)) <= Cardinality(Subdirs(fr.dir))
  BY <1>3, SubdirsFinite, FS_Subset
<1>5. WorstDepth[x] = WorstDepth[fr.dir] + Cardinality(Subdirs(fr.dir))
  BY WorstDepthIs DEF Subdirs
<1>6. /\ WorstDepth[fr.dir] \in Nat /\ fr.depth \in Nat /\ Cardinality(Subdirs(fr.dir)) \in Nat
      /\ Cardinality(Past(fr, g)) \in Nat /\ Cardinality(Past(f2, g)) \in Nat
  BY WorstDepthIs, PastFacts, SubdirsFinite DEF Frame
<1> QED BY <1>2, <1>4, <1>5, <1>6 DEF CountOK

-----------------------------------------------------------------------------
(* The walk misses nothing *)

OwedOK(fr) == \A x \in fr.owed : Parent[x] = fr.dir

\* Each call has counted no more subdirectories than it has behind it, and its
\* stream owes entries of its directory.
FramesOK(s, g) == \A i \in 1 .. Len(s) : CountOK(s[i], g) /\ OwedOK(s[i])

PlaceInv ==
    /\ pc \in {"watch", "list"} => next = 1 /\ stack = <<>>
    /\ pc = "done" => stack = <<>> /\ (next > Len(Roots) \/ ~Prescan)

\* The walk has x before it: a part of path.pkg or an entry owed to a call.
Todo(x) ==
    \/ \E j \in next .. Len(Roots) : Roots[j] = x
    \/ \E i \in 1 .. Len(stack) : x \in stack[i].owed \ stack[i].seen

\* A package that the walk should open and has not, and one it has not asked for.
Due(f) ==
    OnWay(f) /\ f \notin Refused /\ fs[f] = "complete" /\ f \notin changed /\ f \notin opened
Wanted(f) == Due(f) /\ want["vfs"] # f

\* Only a call of the walk asks; and for a package that the walk still should
\* open there is no handle, so that its import does not fail.
AskInv ==
    /\ stack = <<>> => want["vfs"] = NoFile
    /\ \A f \in Files : want["vfs"] = f /\ Due(f) => handle[f] = "none"

\* It is, or is below, something the walk has before it.
TodoInv ==
    pc \in {"scan", "done"} /\ Prescan =>
        \A f \in Files : Wanted(f) => \E x \in Dirs \cup Files : f \in Below(x) /\ Todo(x)

WalkInv == GoneInv /\ FramesOK(stack, gone) /\ PlaceInv /\ TodoInv

\* What is there is in a directory that is there.
LEMMA ThereUp ==
    ASSUME GoneInv', NEW z \in Inner, Exists(z)'
    PROVE  Parent[z] \in Dirs /\ Exists(Parent[z])'
<1>1. Parent[z] \in Dirs /\ Parent[z] \notin Files
  BY TreeFacts, TreeAssumption
<1>2. Parent[z] \notin gone'
  BY DEF GoneInv
<1> QED BY <1>1, <1>2 DEF Exists

\* A step that puts something else before the walk for what it takes away.
LEMMA Shift ==
    ASSUME TodoInv, GoneInv', pc \in {"scan", "done"} \/ ~Prescan,
           \A f \in Files : Wanted(f)' => Wanted(f),
           \A f \in Files, x \in Dirs \cup Files :
               Wanted(f)' /\ f \in Below(x) /\ Todo(x) /\ OnWay(x) /\ Exists(x)' =>
                   \E z \in Dirs \cup Files : f \in Below(z) /\ Todo(z)'
    PROVE  TodoInv'
<1>1. SUFFICES ASSUME Prescan, NEW f \in Files, Wanted(f)'
               PROVE  \E z \in Dirs \cup Files : f \in Below(z) /\ Todo(z)'
  BY DEF TodoInv
<1>2. PICK x \in Dirs \cup Files : f \in Below(x) /\ Todo(x)
  BY <1>1 DEF TodoInv
<1>3. OnWay(x)
  BY <1>1, <1>2, WayBelow DEF Wanted, Due
<1>4. Exists(x)'
  <2> DEFINE E == {y \in Dirs \cup Files : Exists(y)'}
  <2>1. f \in E
    BY <1>1 DEF Wanted, Due, Exists
  <2>2. \A z \in Inner : z \in E => Parent[z] \in E
    BY ThereUp
  <2>3. x \in E
    <3> HIDE DEF E
    <3> QED BY <1>2, <2>1, <2>2, Upwards
  <2> QED BY <2>3
<1> QED BY <1>1, <1>2, <1>3, <1>4

\* A step that leaves the walk where it is.
LEMMA QuietStep ==
    ASSUME WalkInv, UNCHANGED <<stack, next, gone>>, GoneInv', PlaceInv',
           pc \in {"scan", "done"} \/ pc' = pc,
           \A f \in Files : Wanted(f)' => Wanted(f)
    PROVE  WalkInv'
<1>1. FramesOK(stack', gone')
  BY DEF WalkInv
<1>2. TodoInv'
  <2>1. CASE pc \in {"scan", "done"}
    <3>1. \A x : Todo(x) => Todo(x)'
      BY DEF Todo
    <3> QED BY <2>1, <3>1, Shift DEF WalkInv
  <2>2. CASE pc \notin {"scan", "done"}
    BY <2>2 DEF TodoInv
  <2> QED BY <2>1, <2>2
<1> QED BY <1>1, <1>2 DEF WalkInv

\* A change to a file that leaves it in a directory that is there.
LEMMA FileStep ==
    ASSUME IInv, WalkInv, NEW f \in Files, NEW v \in {"absent", "partial", "complete"},
           fs' = [fs EXCEPT ![f] = v], v # "absent" => Parent[f] \notin gone,
           gone' = gone, changed' = changed \cup {f},
           opened \ {f} \subseteq opened', want' = want
    PROVE  GoneInv' /\ \A g \in Files : Wanted(g)' => Wanted(g)
<1>1. fs \in [Files -> {"absent", "partial", "complete"}]
  BY DEF IInv, TypeOK
<1>2. ASSUME NEW g \in Files, g # f PROVE fs'[g] = fs[g]
  BY <1>1, <1>2
<1>3. fs'[f] = v
  BY <1>1
<1>4. GoneInv'
  BY <1>2, <1>3 DEF WalkInv, GoneInv, Exists
<1>5. ASSUME NEW g \in Files, Wanted(g)' PROVE Wanted(g)
  <2>1. g # f
    BY <1>5 DEF Wanted, Due
  <2> QED BY <1>2, <1>5, <2>1 DEF Wanted, Due
<1> QED BY <1>4, <1>5

\* The calls when a file or a directory is removed.
LEMMA ReplacedFrames ==
    ASSUME GoodStack(stack), NEW x, Replaced(x)
    PROVE  /\ stack' \in Seq(Frame) /\ Len(stack') = Len(stack)
           /\ \A i \in 1 .. Len(stack) :
                 /\ stack[i] \in Frame /\ stack'[i] \in Frame
                 /\ stack'[i].dir = stack[i].dir /\ stack'[i].depth = stack[i].depth
                 /\ stack'[i].owed = stack[i].owed \ {x} /\ stack'[i].seen = stack[i].seen \ {x}
<1>1. stack \in Seq(Frame) /\ stack' \in Seq(Frame)
  BY ReplacedFacts DEF GoodStack
<1>2. DOMAIN stack = 1 .. Len(stack) /\ Len(stack) \in Nat
  BY <1>1
<1>3. Len(stack') = Len(stack)
  <2>1. DOMAIN stack' = DOMAIN stack
    BY DEF Replaced
  <2>2. DOMAIN stack' = 1 .. Len(stack') /\ Len(stack') \in Nat
    BY <1>1
  <2> QED BY <1>2, <2>1, <2>2
<1>4. ASSUME NEW i \in 1 .. Len(stack)
      PROVE  /\ stack'[i].dir = stack[i].dir /\ stack'[i].depth = stack[i].depth
             /\ stack'[i].owed = stack[i].owed \ {x} /\ stack'[i].seen = stack[i].seen \ {x}
             /\ stack[i] \in Frame /\ stack'[i] \in Frame
  <2>1. stack[i] \in Frame /\ stack'[i] \in Frame
    BY <1>1, <1>3, ElementOfSeq
  <2>2. stack'[i] = [stack[i] EXCEPT !.owed = @ \ {x}, !.seen = @ \ {x}]
    BY <1>2 DEF Replaced
  <2> QED BY <2>1, <2>2 DEF Frame
<1> QED BY <1>1, <1>3, <1>4

\* A removal takes nothing else from the walk.
LEMMA RemovalStep ==
    ASSUME IInv, WalkInv, NEW x, Replaced(x), UNCHANGED <<pc, next>>,
           gone \subseteq gone', x \in Dirs => x \in gone', ~Exists(x)', GoneInv',
           \A f \in Files : Wanted(f)' => Wanted(f)
    PROVE  WalkInv'
<1>1. GoodStack(stack)
  BY StackParts
<1>2. FramesOK(stack', gone')
  <2> SUFFICES ASSUME NEW i \in 1 .. Len(stack')
               PROVE  CountOK(stack'[i], gone') /\ OwedOK(stack'[i])
    BY DEF FramesOK
  <2>1. i \in 1 .. Len(stack)
    BY <1>1, ReplacedFrames
  <2>2. CountOK(stack[i], gone) /\ OwedOK(stack[i])
    BY <2>1 DEF WalkInv, FramesOK
  <2>3. /\ stack[i] \in Frame /\ stack'[i] \in Frame
        /\ stack'[i].dir = stack[i].dir /\ stack'[i].depth = stack[i].depth
        /\ stack'[i].owed = stack[i].owed \ {x} /\ stack'[i].seen = stack[i].seen \ {x}
    BY <1>1, <2>1, ReplacedFrames
  <2>4. OwedOK(stack'[i])
    BY <2>2, <2>3 DEF OwedOK
  <2>5. \A e \in Subdirs(stack[i].dir) :
            e \in stack[i].seen \cup gone => e \in stack'[i].seen \cup gone'
    BY <2>3 DEF Subdirs
  <2> QED BY <2>2, <2>3, <2>4, <2>5, MorePast
<1>3. PlaceInv'
  <2>1. ASSUME stack = <<>> PROVE stack' = <<>>
    <3>1. stack' \in Seq(Frame) /\ Len(stack') = 0
      BY <1>1, <2>1, ReplacedFrames
    <3> QED BY <3>1, EmptySeq
  <2> QED BY <2>1 DEF WalkInv, PlaceInv
<1>4. TodoInv'
  <2>1. CASE pc \in {"scan", "done"}
    <3>1. ASSUME NEW y, Todo(y), y # x PROVE Todo(y)'
      <4>1. CASE \E j \in next .. Len(Roots) : Roots[j] = y
        BY <4>1 DEF Todo
      <4>2. CASE \E i \in 1 .. Len(stack) : y \in stack[i].owed \ stack[i].seen
        <5>1. PICK i \in 1 .. Len(stack) : y \in stack[i].owed \ stack[i].seen
          BY <4>2
        <5>2. i \in 1 .. Len(stack') /\ y \in stack'[i].owed \ stack'[i].seen
          BY <1>1, <3>1, <5>1, ReplacedFrames
        <5> QED BY <5>2 DEF Todo
      <4> QED BY <3>1, <4>1, <4>2 DEF Todo
    <3> QED BY <2>1, <3>1, Shift DEF WalkInv
  <2>2. CASE pc \notin {"scan", "done"}
    BY <2>2 DEF TodoInv
  <2> QED BY <2>1, <2>2
<1> QED BY <1>2, <1>3, <1>4 DEF WalkInv

LEMMA WalkEnvStep ==
    ASSUME IInv, WalkInv, Environment
    PROVE  WalkInv'
<1>1. fs \in [Files -> {"absent", "partial", "complete"}] /\ gone \subseteq Dirs
  BY DEF IInv, TypeOK
<1>2. ASSUME NEW f \in Files, BeginWrite(f) PROVE WalkInv'
  <2>1. GoneInv' /\ \A g \in Files : Wanted(g)' => Wanted(g)
    BY <1>2, FileStep DEF BeginWrite, Change
  <2>2. PlaceInv'
    BY <1>2 DEF BeginWrite, WalkInv, PlaceInv
  <2> QED BY <1>2, <2>1, <2>2, QuietStep DEF BeginWrite
<1>3. ASSUME NEW f \in Files, CloseWrite(f) PROVE WalkInv'
  <2>1. Parent[f] \notin gone
    BY <1>3, TreeFacts DEF WalkInv, GoneInv, Exists, CloseWrite
  <2>2. GoneInv' /\ \A g \in Files : Wanted(g)' => Wanted(g)
    BY <1>3, <2>1, FileStep DEF CloseWrite, calls
  <2>3. PlaceInv'
    BY <1>3 DEF CloseWrite, WalkInv, PlaceInv
  <2> QED BY <1>3, <2>2, <2>3, QuietStep DEF CloseWrite
<1>4. ASSUME NEW f \in Files, MoveIn(f) PROVE WalkInv'
  <2>1. GoneInv' /\ \A g \in Files : Wanted(g)' => Wanted(g)
    BY <1>4, FileStep DEF MoveIn, Change
  <2>2. PlaceInv'
    BY <1>4 DEF MoveIn, WalkInv, PlaceInv
  <2> QED BY <1>4, <2>1, <2>2, QuietStep DEF MoveIn
<1>5. ASSUME NEW f \in Files, RemoveFile(f) PROVE WalkInv'
  <2>1. GoneInv' /\ \A g \in Files : Wanted(g)' => Wanted(g)
    BY <1>5, FileStep DEF RemoveFile, Change
  <2>2. ~Exists(f)'
    BY <1>1, <1>5 DEF RemoveFile, Exists
  <2>3. f \notin Dirs
    BY TreeAssumption
  <2>4. Replaced(f) /\ UNCHANGED <<gone, pc, next>>
    BY <1>5 DEF RemoveFile
  <2> QED BY <2>1, <2>2, <2>3, <2>4, RemovalStep
<1>6. ASSUME NEW d \in Dirs, RemoveDir(d) PROVE WalkInv'
  <2>1. /\ fs' = fs /\ gone' = gone \cup {d} /\ UNCHANGED <<pc, next>> /\ Replaced(d)
        /\ changed' = changed \cup {d} /\ opened' = opened \ {d} /\ Entries(d) = {}
        /\ want' = want
    BY <1>6 DEF RemoveDir, Change
  <2>2. d \notin Files
    BY TreeAssumption
  <2>3. \A g \in Files : Wanted(g)' => Wanted(g)
    BY <2>1, <2>2 DEF Wanted, Due
  <2>4. GoneInv'
    <3>1. ASSUME NEW x \in Inner, Parent[x] \in gone' PROVE ~Exists(x)'
      <4>1. ~Exists(x)
        BY <2>1, <3>1 DEF WalkInv, GoneInv, Entries
      <4> QED BY <2>1, <4>1 DEF Exists
    <3> QED BY <3>1 DEF GoneInv
  <2>5. ~Exists(d)'
    BY <2>1, <2>2 DEF Exists
  <2> QED BY <2>1, <2>3, <2>4, <2>5, RemovalStep
<1> QED
  BY <1>2, <1>3, <1>4, <1>5, <1>6 DEF Environment

\* The calls when the stream of the top one has returned x and its depth is n.
Grown(s, x, n) ==
    /\ s \in Seq(Frame) /\ Len(s) = Top /\ s[Top] \in Frame
    /\ \A i \in 1 .. Top - 1 : s[i] = stack[i]
    /\ s[Top].dir = stack[Top].dir /\ s[Top].depth = n
    /\ s[Top].owed = stack[Top].owed /\ s[Top].seen = stack[Top].seen \cup {x}

LEMMA GrownFacts ==
    ASSUME GoodStack(stack), NEW x \in Inner, Returns(x)
    PROVE  /\ Grown(Seen(x), x, stack[Top].depth)
           /\ Grown(Counted(x), x, stack[Top].depth + 1)
<1>1. /\ Top \in Nat /\ Top \in 1 .. Len(stack) /\ Top = Len(stack) /\ stack[Top] \in Frame
      /\ Seen(x) \in Seq(Frame) /\ Len(Seen(x)) = Top
      /\ Seen(x)[Top] = [stack[Top] EXCEPT !.seen = @ \cup {x}]
      /\ \A i \in 1 .. Top - 1 : Seen(x)[i] = stack[i]
  BY ReturnFacts DEF Top
<1>2. /\ Seen(x)[Top] \in Frame /\ Seen(x)[Top].dir = stack[Top].dir
      /\ Seen(x)[Top].depth = stack[Top].depth
      /\ Seen(x)[Top].owed = stack[Top].owed /\ Seen(x)[Top].seen = stack[Top].seen \cup {x}
  BY <1>1 DEF Frame
<1> DEFINE f == [Seen(x)[Top] EXCEPT !.depth = stack[Top].depth + 1]
<1>3. /\ f \in Frame /\ f.dir = Seen(x)[Top].dir /\ f.depth = stack[Top].depth + 1
      /\ f.owed = Seen(x)[Top].owed /\ f.seen = Seen(x)[Top].seen
  BY <1>2, CountedFacts DEF Frame
<1>4. Counted(x) = [Seen(x) EXCEPT ![Top] = f]
  BY DEF Counted
<1> HIDE DEF f
<1>5. /\ Counted(x) \in Seq(Frame) /\ Len(Counted(x)) = Top /\ Counted(x)[Top] = f
      /\ \A i \in 1 .. Top - 1 : Counted(x)[i] = Seen(x)[i]
  BY <1>1, <1>3, <1>4
<1> QED BY <1>1, <1>2, <1>3, <1>5 DEF Grown

\* The stream of the top call returned something that is not counted.
LEMMA GrownFrames ==
    ASSUME GoodStack(stack), FramesOK(stack, gone), NEW x \in Inner, Returns(x)
    PROVE  FramesOK(Seen(x), gone)
<1>1. Grown(Seen(x), x, stack[Top].depth)
  BY GrownFacts
<1>2. Top \in Nat /\ Top = Len(stack) /\ Top \in 1 .. Len(stack) /\ stack[Top] \in Frame
  BY ReturnFacts DEF Top
<1>3. CountOK(stack[Top], gone) /\ OwedOK(stack[Top])
  BY <1>2 DEF FramesOK
<1>4. CountOK(Seen(x)[Top], gone)
  BY <1>1, <1>2, <1>3, MorePast DEF Grown
<1>5. OwedOK(Seen(x)[Top])
  BY <1>1, <1>3 DEF Grown, OwedOK
<1>6. \A i \in 1 .. Top - 1 : CountOK(Seen(x)[i], gone) /\ OwedOK(Seen(x)[i])
  BY <1>1, <1>2 DEF Grown, FramesOK
<1> QED BY <1>1, <1>2, <1>4, <1>5, <1>6 DEF Grown, FramesOK

\* It returned a subdirectory that is counted.
LEMMA CountedFrames ==
    ASSUME GoodStack(stack), FramesOK(stack, gone), NEW x \in Inner, Returns(x), x \in Dirs \ Hidden
    PROVE  FramesOK(Counted(x), gone) /\ stack[Top].depth + 1 <= WorstDepth[x]
<1>1. Grown(Counted(x), x, stack[Top].depth + 1)
  BY GrownFacts
<1>2. Top \in Nat /\ Top = Len(stack) /\ Top \in 1 .. Len(stack) /\ stack[Top] \in Frame
  BY ReturnFacts DEF Top
<1>3. CountOK(stack[Top], gone) /\ OwedOK(stack[Top])
  BY <1>2 DEF FramesOK
<1>4. x \in Subdirs(stack[Top].dir) /\ x \notin stack[Top].seen \cup gone
  BY TreeAssumption DEF Returns, Subdirs, Inner, Exists
<1>5. CountOK(Counted(x)[Top], gone) /\ stack[Top].depth + 1 <= WorstDepth[x]
  BY <1>1, <1>2, <1>3, <1>4, OneMore DEF Grown
<1>6. OwedOK(Counted(x)[Top])
  BY <1>1, <1>3 DEF Grown, OwedOK
<1>7. \A i \in 1 .. Top - 1 : CountOK(Counted(x)[i], gone) /\ OwedOK(Counted(x)[i])
  BY <1>1, <1>2 DEF Grown, FramesOK
<1> QED BY <1>1, <1>2, <1>5, <1>6, <1>7 DEF Grown, FramesOK

\* What was before the walk still is, but for what was returned.
LEMMA GrownTodo ==
    ASSUME GoodStack(stack), NEW x \in Inner, Returns(x), NEW n, NEW s, Grown(s, x, n),
           next' = next, NEW m \in Nat, Len(stack') = Top + m,
           \A i \in 1 .. Top : stack'[i] = s[i],
           NEW y, Todo(y), y # x
    PROVE  Todo(y)'
<1>1. Top \in Nat /\ Top = Len(stack) /\ Top \in 1 .. Len(stack)
  BY ReturnFacts DEF Top
<1>2. CASE \E j \in next .. Len(Roots) : Roots[j] = y
  BY <1>2 DEF Todo
<1>3. CASE \E i \in 1 .. Len(stack) : y \in stack[i].owed \ stack[i].seen
  <2>1. PICK i \in 1 .. Len(stack) : y \in stack[i].owed \ stack[i].seen
    BY <1>3
  <2>2. i \in 1 .. Len(stack')
    BY <1>1, <2>1
  <2>3. y \in stack'[i].owed \ stack'[i].seen
    <3>1. CASE i = Top
      BY <1>1, <2>1, <3>1 DEF Grown
    <3>2. CASE i \in 1 .. Top - 1
      BY <1>1, <2>1, <3>2 DEF Grown
    <3> QED BY <1>1, <2>1, <3>1, <3>2
  <2> QED BY <2>2, <2>3 DEF Todo
<1> QED BY <1>2, <1>3 DEF Todo

\* The calls when the top one has returned.
LEMMA PoppedFrames ==
    ASSUME GoodStack(stack), FramesOK(stack, gone), Top > 0, next' = next,
           stack' = SubSeq(stack, 1, Top - 1)
    PROVE  /\ FramesOK(stack', gone)
           /\ \A y : Todo(y) => Todo(y)' \/ y \in stack[Top].owed \ stack[Top].seen
<1>1. stack \in Seq(Frame) /\ Top = Len(stack) /\ Top \in Nat
  BY DEF GoodStack, Top
<1>2. /\ Len(stack') = Top - 1
      /\ \A i \in 1 .. Top - 1 : stack'[i] = stack[i]
  BY <1>1
<1>3. FramesOK(stack', gone)
  BY <1>1, <1>2 DEF FramesOK
<1>4. ASSUME NEW y, Todo(y), y \notin stack[Top].owed \ stack[Top].seen PROVE Todo(y)'
  <2>1. CASE \E j \in next .. Len(Roots) : Roots[j] = y
    BY <2>1 DEF Todo
  <2>2. CASE \E i \in 1 .. Len(stack) : y \in stack[i].owed \ stack[i].seen
    <3>1. PICK i \in 1 .. Len(stack) : y \in stack[i].owed \ stack[i].seen
      BY <2>2
    <3>2. i \in 1 .. Top - 1
      BY <1>1, <1>4, <3>1
    <3>3. i \in 1 .. Len(stack') /\ y \in stack'[i].owed \ stack'[i].seen
      BY <1>2, <3>1, <3>2
    <3> QED BY <3>3 DEF Todo
  <2> QED BY <1>4, <2>1, <2>2 DEF Todo
<1> QED BY <1>3, <1>4

\* A call for a directory that is there owes all that is in it.
LEMMA CalledTodo ==
    ASSUME GoneInv', fs' = fs, gone' = gone, NEW x \in Dirs, NEW n,
           NEW i \in 1 .. Len(stack'), stack'[i] = Called(x, n),
           NEW f \in Files, f \in Below(x), Wanted(f)'
    PROVE  \E z \in Dirs \cup Files : f \in Below(z) /\ Todo(z)'
<1>1. f # x
  BY TreeAssumption
<1>2. PICK z \in Inner : Parent[z] = x /\ f \in Below(z)
  BY <1>1, BelowEntry
<1>3. z \in Dirs \cup Files
  BY TreeFacts
<1>4. Exists(z)'
  <2> DEFINE E == {y \in Dirs \cup Files : Exists(y)'}
  <2>1. f \in E
    BY DEF Wanted, Due, Exists
  <2>2. \A w \in Inner : w \in E => Parent[w] \in E
    BY ThereUp
  <2>3. z \in E
    <3> HIDE DEF E
    <3> QED BY <1>2, <1>3, <2>1, <2>2, Upwards
  <2> QED BY <2>3
<1>5. z \in Entries(x)
  BY <1>2, <1>4 DEF Entries, Exists
<1>6. z \in stack'[i].owed \ stack'[i].seen
  BY <1>5 DEF Called
<1> QED BY <1>2, <1>3, <1>6 DEF Todo

\* The end of pkg_open: what the walk has asked for is opened, or is no longer due.
LEMMA WalkCallStep ==
    ASSUME IInv, AskInv, WalkInv, NEW t \in Threads,
           Import(t) \/ OpenFails(t) \/ ArchiveFails(t) \/ \E x \in Files : Collect(x)
    PROVE  WalkInv'
<1>1. UNCHANGED <<fs, gone, pc, next, stack, changed>>
  BY DEF Import, OpenFails, ArchiveFails, Collect
<1>2. CallsOK
  BY DEF IInv
<1>3. ASSUME NEW f \in Files, Wanted(f)' PROVE Wanted(f)
  <2>1. opened \subseteq opened' /\ Due(f)
    <3>1. opened \subseteq opened'
      BY DEF Import, OpenFails, ArchiveFails, Collect, Returned
    <3> QED BY <1>1, <1>3, <3>1 DEF Wanted, Due
  <2>2. SUFFICES ASSUME want["vfs"] = f PROVE FALSE
    BY <2>1 DEF Wanted
  <2>3. want'["vfs"] # f
    BY <1>3 DEF Wanted
  <2>4. t = "vfs" /\ (Import(t) \/ OpenFails(t) \/ ArchiveFails(t))
    <3>1. CASE \E x \in Files : Collect(x)
      BY <2>2, <2>3, <3>1 DEF Collect
    <3>2. CASE Import(t) \/ OpenFails(t) \/ ArchiveFails(t)
      <4>1. want' = [want EXCEPT ![t] = NoFile]
        BY <3>2 DEF Import, OpenFails, ArchiveFails
      <4> QED BY <1>2, <2>2, <2>3, <3>2, <4>1 DEF CallsOK, Threads
    <3> QED BY <3>1, <3>2
  <2>5. handle[f] = "none" /\ fs[f] = "complete" /\ f \notin Refused
    BY <2>1, <2>2 DEF AskInv, Due
  <2>6. CASE Import(t)
    BY <1>3, <2>2, <2>4, <2>5, <2>6 DEF Import, Returned, Wanted, Due
  <2>7. CASE OpenFails(t)
    BY <2>2, <2>4, <2>5, <2>7 DEF OpenFails, Taken
  <2>8. CASE ArchiveFails(t)
    BY <2>2, <2>4, <2>5, <2>8 DEF ArchiveFails
  <2> QED BY <2>4, <2>6, <2>7, <2>8
<1>4. GoneInv' /\ PlaceInv'
  BY <1>1 DEF WalkInv, GoneInv, PlaceInv, Exists
<1> QED BY <1>1, <1>3, <1>4, QuietStep

LEMMA WalkVfsStep ==
    ASSUME IInv, AskInv, WalkInv, VfsThread
    PROVE  WalkInv'
<1>1. /\ GoodStack(stack) /\ FramesOK(stack, gone) /\ GoneInv /\ TodoInv /\ PlaceInv
      /\ next \in 1 .. Len(Roots) + 1 /\ pc \in {"watch", "list", "scan", "done"}
      /\ stack \in Seq(Frame) /\ CallsOK
  BY StackParts DEF IInv, TypeOK, WalkInv
<1>2. Len(Roots) \in Nat \ {0} /\ \A i \in 1 .. Len(Roots) : Roots[i] \in RootDirs /\ Roots[i] \in Dirs
  BY TreeAssumption DEF RootDirs
<1>3. CASE WatchAdd
  <2>1. GoneInv' /\ FramesOK(stack', gone') /\ PlaceInv'
    BY <1>1, <1>3 DEF WatchAdd, GoneInv, Exists, PlaceInv
  <2>2. TodoInv'
    BY <1>3 DEF WatchAdd, TodoInv
  <2> QED BY <2>1, <2>2 DEF WalkInv
<1>4. CASE WatchFails \/ WatchList
  <2>1. /\ pc \in {"watch", "list"} /\ pc' = "scan" /\ UNCHANGED <<fs, gone, next, stack, opened>>
        /\ changed' = {}
    BY <1>4 DEF WatchFails, WatchList
  <2>2. GoneInv' /\ FramesOK(stack', gone') /\ PlaceInv'
    BY <1>1, <2>1 DEF GoneInv, Exists, PlaceInv
  <2>3. TodoInv'
    <3> SUFFICES ASSUME NEW f \in Files
                 PROVE  \E x \in Dirs \cup Files : f \in Below(x) /\ Todo(x)'
      BY DEF TodoInv
    <3>1. PICK r \in RootDirs : f \in Below(r)
      BY RootAbove
    <3>2. PICK j \in 1 .. Len(Roots) : Roots[j] = r
      BY DEF RootDirs
    <3>3. next' = 1
      BY <1>1, <2>1 DEF PlaceInv
    <3> QED BY <3>1, <3>2, <3>3, TreeFacts DEF Todo
  <2> QED BY <2>2, <2>3 DEF WalkInv
<1>5. CASE WalkDone
  <2>1. PlaceInv' /\ GoneInv' /\ pc = "scan" /\ \A f \in Files : Wanted(f)' => Wanted(f)
    BY <1>1, <1>5 DEF WalkDone, PlaceInv, GoneInv, Exists, Wanted, Due, calls
  <2> QED BY <1>5, <2>1, QuietStep DEF WalkDone
<1>6. CASE WalkRoot
  <2>1. /\ pc = "scan" /\ stack = <<>> /\ next \in 1 .. Len(Roots) /\ next' = next + 1
        /\ UNCHANGED <<fs, gone, opened, changed, pc, want>>
        /\ stack' = IF Roots[next] \in gone THEN <<>> ELSE <<Called(Roots[next], 1)>>
    BY <1>1, <1>2, <1>6 DEF WalkRoot, calls
  <2>2. GoneInv' /\ PlaceInv' /\ \A f \in Files : Wanted(f)' => Wanted(f)
    BY <1>1, <2>1 DEF PlaceInv, GoneInv, Exists, Wanted, Due
  <2> DEFINE r == Roots[next]
             c == Called(r, 1)
  <2>3. r \in RootDirs /\ r \in Dirs /\ r \notin Files
    BY <1>2, <2>1, TreeAssumption
  <2>4. /\ c \in Frame /\ c.dir = r /\ c.depth = 1 /\ c.owed = Entries(r) /\ c.seen = {}
    BY <2>3, CalledFacts DEF Called
  <2>5. CASE r \in gone
    <3>1. stack' = <<>>
      BY <2>1, <2>5
    <3>2. FramesOK(stack', gone')
      BY <3>1 DEF FramesOK
    <3>3. ASSUME NEW x, Todo(x), Exists(x)' PROVE Todo(x)'
      <4>1. PICK j \in next .. Len(Roots) : Roots[j] = x
        BY <2>1, <3>3 DEF Todo
      <4>2. j # next
        BY <2>1, <2>3, <2>5, <3>3, <4>1 DEF Exists
      <4>3. j \in next' .. Len(Roots)
        BY <1>2, <2>1, <4>1, <4>2
      <4> QED BY <4>1, <4>3 DEF Todo
    <3> QED BY <1>1, <2>1, <2>2, <3>2, <3>3, Shift DEF WalkInv
  <2>6. CASE r \notin gone
    <3>1. stack' = <<c>>
      BY <2>1, <2>6
    <3>2. Len(stack') = 1 /\ stack'[1] = c
      <4> HIDE DEF c
      <4> QED BY <3>1
    <3>3. CountOK(c, gone)
      <4>1. WorstDepth[r] = 1 /\ Cardinality(Past(c, gone)) \in Nat
        BY <2>3, WorstDepthIs, PastFacts
      <4> QED BY <2>4, <4>1 DEF CountOK
    <3>4. FramesOK(stack', gone')
      <4>1. OwedOK(c)
        BY <2>4 DEF OwedOK, Entries
      <4> HIDE DEF c
      <4> QED BY <2>1, <3>2, <3>3, <4>1 DEF FramesOK
    <3>5. ASSUME NEW x, Todo(x), x # r PROVE Todo(x)'
      <4>1. PICK j \in next .. Len(Roots) : Roots[j] = x
        BY <2>1, <3>5 DEF Todo
      <4>2. j \in next' .. Len(Roots)
        BY <1>2, <2>1, <3>5, <4>1
      <4> QED BY <4>1, <4>2 DEF Todo
    <3>6. ASSUME NEW f \in Files, Wanted(f)', f \in Below(r)
          PROVE  \E z \in Dirs \cup Files : f \in Below(z) /\ Todo(z)'
      <4>1. 1 \in 1 .. Len(stack') /\ stack'[1] = Called(r, 1)
        BY <3>2
      <4> HIDE DEF r, c
      <4> QED BY <2>1, <2>2, <2>3, <3>6, <4>1, CalledTodo
    <3> HIDE DEF r, c
    <3> QED BY <1>1, <2>1, <2>2, <3>4, <3>5, <3>6, Shift DEF WalkInv
  <2> QED BY <2>5, <2>6
<1>7. ASSUME Top > 0, UNCHANGED <<fs, gone, pc, next, opened, changed, want>>
      PROVE  /\ pc = "scan" /\ GoneInv' /\ PlaceInv'
             /\ \A f \in Files : Wanted(f)' => Wanted(f)
  <2>1. stack # <<>>
    BY <1>7 DEF Top
  <2> QED BY <1>1, <1>7, <2>1 DEF PlaceInv, GoneInv, Exists, Wanted, Due
<1>8. CASE WalkEnd
  <2>1. /\ Top > 0 /\ stack' = SubSeq(stack, 1, Top - 1) /\ stack[Top].owed \subseteq stack[Top].seen
        /\ UNCHANGED <<fs, gone, pc, next, opened, changed, want>>
    BY <1>8 DEF WalkEnd, calls
  <2>2. FramesOK(stack', gone') /\ \A y : Todo(y) => Todo(y)'
    BY <1>1, <2>1, PoppedFrames
  <2> QED BY <1>1, <1>7, <2>1, <2>2, Shift DEF WalkInv
<1>9. ASSUME NEW x \in Inner, SkipHidden(x) PROVE WalkInv'
  <2>1. /\ Returns(x) /\ x \in Hidden /\ stack' = Seen(x) /\ Top > 0
        /\ UNCHANGED <<fs, gone, pc, next, opened, changed, want>>
    BY <1>9 DEF SkipHidden, Returns, calls
  <2>2. FramesOK(stack', gone')
    BY <1>1, <2>1, GrownFrames
  <2>3. Grown(Seen(x), x, stack[Top].depth) /\ Len(stack') = Top + 0 /\ next' = next
        /\ \A i \in 1 .. Top : stack'[i] = Seen(x)[i]
    <3>1. Grown(Seen(x), x, stack[Top].depth)
      BY <1>1, <2>1, GrownFacts
    <3>2. Len(Seen(x)) = Top /\ Top \in Nat
      BY <1>1, <2>1, ReturnFacts
    <3> QED BY <2>1, <3>1, <3>2
  <2>4. ASSUME NEW y, Todo(y), OnWay(y) PROVE Todo(y)'
    <3>1. y # x
      BY <2>1, <2>4, WayUp
    <3> QED BY <1>1, <2>1, <2>3, <2>4, <3>1, GrownTodo
  <2> QED BY <1>1, <1>7, <2>1, <2>2, <2>4, Shift DEF WalkInv
<1>10. ASSUME NEW x \in Inner, Recurse(x) PROVE WalkInv'
  <2> DEFINE n == stack[Top].depth + 1
             c == Called(x, n)
  <2>1. /\ Returns(x) /\ x \in Dirs \ Hidden /\ stack' = Append(Counted(x), c) /\ Top > 0
        /\ UNCHANGED <<fs, gone, pc, next, opened, changed, want>>
    BY <1>10 DEF Recurse, Counted, Returns, calls
  <2>2. Grown(Counted(x), x, n) /\ FramesOK(Counted(x), gone) /\ n <= WorstDepth[x]
    BY <1>1, <2>1, GrownFacts, CountedFrames
  <2>3. Top \in Nat /\ n \in Nat
    BY <1>1, <2>1, CountedFacts, ReturnFacts
  <2>4. c \in Frame /\ c.dir = x /\ c.depth = n /\ c.owed = Entries(x) /\ c.seen = {}
    BY <2>1, <2>3, CalledFacts DEF Called
  <2>5. CountOK(c, gone) /\ OwedOK(c)
    <3>1. WorstDepth[x] \in Nat /\ Cardinality(Past(c, gone)) \in Nat
      BY <2>1, WorstDepthIs, PastFacts
    <3>2. CountOK(c, gone)
      <4> HIDE DEF n, c
      <4> QED BY <2>2, <2>3, <2>4, <3>1 DEF CountOK
    <3> QED BY <2>4, <3>2 DEF OwedOK, Entries
  <2> HIDE DEF c, n
  <2>6. /\ Len(stack') = Top + 1 /\ stack'[Top + 1] = c
        /\ \A i \in 1 .. Top : stack'[i] = Counted(x)[i]
    BY <2>1, <2>2, <2>3, <2>4 DEF Grown
  <2>7. FramesOK(stack', gone')
    BY <2>1, <2>2, <2>3, <2>5, <2>6 DEF FramesOK, Grown
  <2>8. ASSUME NEW y, Todo(y), y # x PROVE Todo(y)'
    BY <1>1, <2>1, <2>2, <2>6, <2>8, GrownTodo
  <2>9. ASSUME NEW f \in Files, Wanted(f)', f \in Below(x)
        PROVE  \E z \in Dirs \cup Files : f \in Below(z) /\ Todo(z)'
    <3>1. Top + 1 \in 1 .. Len(stack') /\ stack'[Top + 1] = Called(x, n) /\ GoneInv'
      BY <1>7, <2>1, <2>3, <2>6 DEF c
    <3> QED BY <2>1, <2>9, <3>1, CalledTodo
  <2> QED BY <1>1, <1>7, <2>1, <2>7, <2>8, <2>9, Shift DEF WalkInv
<1>11. ASSUME NEW x \in Inner, TooDeep(x) PROVE WalkInv'
  <2>1. /\ Returns(x) /\ x \in Dirs \ Hidden /\ stack' = Counted(x) /\ Top > 0
        /\ stack[Top].depth + 1 >= MaxRecurse
        /\ UNCHANGED <<fs, gone, pc, next, opened, changed, want>>
    BY <1>11 DEF TooDeep, Counted, Returns, calls
  <2>2. /\ Grown(Counted(x), x, stack[Top].depth + 1) /\ FramesOK(stack', gone')
        /\ stack[Top].depth + 1 <= WorstDepth[x]
    BY <1>1, <2>1, GrownFacts, CountedFrames
  <2>3. ~OnWay(x)
    <3>1. WorstDepth[x] \in Nat /\ stack[Top].depth \in Nat /\ MaxRecurse \in Nat
      BY <1>1, <2>1, WorstDepthIs, CountedFacts, BoundsAssumption
    <3>2. ~(WorstDepth[x] < MaxRecurse)
      BY <2>1, <2>2, <3>1
    <3>3. ~Walked[x]
      BY <2>1, <3>2, WalkedIs
    <3> QED BY <2>1, <3>3, TreeAssumption DEF OnWay
  <2>4. Len(stack') = Top + 0 /\ next' = next /\ \A i \in 1 .. Top : stack'[i] = Counted(x)[i]
    BY <1>1, <2>1, <2>2, ReturnFacts DEF Grown
  <2>5. ASSUME NEW y, Todo(y), OnWay(y) PROVE Todo(y)'
    BY <1>1, <2>1, <2>2, <2>3, <2>4, <2>5, GrownTodo
  <2> QED BY <1>1, <1>7, <2>1, <2>2, <2>5, Shift DEF WalkInv
<1>12. ASSUME NEW x \in Inner, WalkFile(x) PROVE WalkInv'
  <2>1. /\ Returns(x) /\ x \in Files /\ stack' = Seen(x) /\ Top > 0 /\ pkg_open("vfs", x)
        /\ want["vfs"] = NoFile
        /\ UNCHANGED <<fs, gone, pc, next, changed>>
    BY <1>12 DEF WalkFile, Returns
  <2>2. FramesOK(stack', gone')
    BY <1>1, <2>1, GrownFrames
  <2>3. Grown(Seen(x), x, stack[Top].depth) /\ Len(stack') = Top + 0 /\ next' = next
        /\ \A i \in 1 .. Top : stack'[i] = Seen(x)[i]
    <3>1. Grown(Seen(x), x, stack[Top].depth)
      BY <1>1, <2>1, GrownFacts
    <3>2. Len(Seen(x)) = Top /\ Top \in Nat
      BY <1>1, <2>1, ReturnFacts
    <3> QED BY <2>1, <3>1, <3>2
  <2>4. opened \subseteq opened' /\ (fs[x] = "complete" => x \in opened' \/ want'["vfs"] = x)
    <3>1. CASE handle[x] = "none"
      BY <1>1, <2>1, <3>1 DEF pkg_open, CallsOK, Threads
    <3>2. CASE handle[x] # "none"
      BY <2>1, <3>2 DEF pkg_open, Returned
    <3> QED BY <3>1, <3>2
  <2>5. /\ pc = "scan" /\ GoneInv' /\ PlaceInv'
        /\ \A f \in Files : Wanted(f)' => Wanted(f)
    <3>1. stack # <<>>
      BY <2>1 DEF Top
    <3> QED BY <1>1, <2>1, <2>4, <3>1, NamesAssumption DEF PlaceInv, GoneInv, Exists, Wanted, Due
  <2>6. ASSUME NEW f \in Files, Wanted(f)', NEW y \in Dirs \cup Files, f \in Below(y), Todo(y)
        PROVE  Todo(y)'
    <3>1. y # x
      <4>1. SUFFICES ASSUME y = x PROVE FALSE
        OBVIOUS
      <4>2. f = x
        BY <2>1, <2>6, <4>1, BelowFile
      <4> QED BY <2>1, <2>4, <2>6, <4>2 DEF Wanted, Due
    <3> QED BY <1>1, <2>1, <2>3, <2>6, <3>1, GrownTodo
  <2> QED BY <1>1, <2>1, <2>2, <2>5, <2>6, Shift DEF WalkInv
<1>13. ASSUME NEW x \in Inner, WalkNoExt(x) PROVE WalkInv'
  <2>1. /\ Returns(x) /\ x \in Files \ Hidden /\ ~DottedPath[x] /\ Top > 0
        /\ stack' = SubSeq(stack, 1, Top - 1) /\ Parent[x] = stack[Top].dir
        /\ UNCHANGED <<fs, gone, pc, next, opened, changed, want>>
    BY <1>13 DEF WalkNoExt, Returns, calls
  <2>2. FramesOK(stack', gone')
        /\ \A y : Todo(y) => Todo(y)' \/ y \in stack[Top].owed \ stack[Top].seen
    BY <1>1, <2>1, PoppedFrames
  <2>3. stack[Top] \in Frame /\ OwedOK(stack[Top])
    BY <1>1, <2>1, ReturnFacts DEF FramesOK
  <2>4. ASSUME NEW y, Todo(y), OnWay(y) PROVE Todo(y)'
    <3>1. SUFFICES ASSUME y \in stack[Top].owed PROVE FALSE
      BY <2>2, <2>4
    <3>2. y \in Inner /\ Parent[y] = Parent[x]
      BY <2>1, <2>3, <3>1 DEF OwedOK, Frame
    <3>3. Walked[Parent[x]]
      BY <2>4, <3>2, WayUp
    <3>4. CutShort(Parent[x]) /\ Parent[x] \in Dirs
      BY <2>1, TreeFacts DEF CutShort
    <3> QED BY <3>3, <3>4, WalkedIs
  <2> QED BY <1>1, <1>7, <2>1, <2>2, <2>4, Shift DEF WalkInv
<1> QED
  BY <1>3, <1>4, <1>5, <1>6, <1>8, <1>9, <1>10, <1>11, <1>12, <1>13, WalkCallStep
     DEF VfsThread, Threads

LEMMA WalkMainStep ==
    ASSUME IInv, AskInv, WalkInv, MainThread
    PROVE  WalkInv'
<1>1. CASE EvtRead \/ EvtReturn \/ EvtOpen \/ EvtForget
  <2>1. UNCHANGED <<fs, gone, pc, next, stack, changed>>
    BY <1>1 DEF EvtRead, EvtReturn, EvtOpen, EvtForget
  <2>2. opened \subseteq opened' /\ want'["vfs"] = want["vfs"]
    <3>1. CASE EvtOpen
      BY <3>1 DEF EvtOpen, pkg_open, Returned, IInv, CallsOK, Threads
    <3> QED
      BY <1>1, <3>1 DEF EvtRead, EvtReturn, EvtForget, calls
  <2>3. GoneInv' /\ PlaceInv' /\ \A f \in Files : Wanted(f)' => Wanted(f)
    BY <2>1, <2>2 DEF WalkInv, GoneInv, PlaceInv, Exists, Wanted, Due
  <2> QED BY <2>1, <2>3, QuietStep
<1> QED
  BY <1>1, WalkCallStep DEF MainThread, Threads

\* The walk has asked for what it waits for, and nobody else opens it unnoticed.
LEMMA AskVfsStep ==
    ASSUME IInv, AskInv, PlaceInv, VfsThread
    PROVE  AskInv'
<1>1. CallsOK /\ GoodStack(stack)
  BY StackParts DEF IInv
<1>2. CASE want'["vfs"] = NoFile
  BY <1>2, NamesAssumption DEF AskInv
<1>3. ASSUME want["vfs"] = NoFile, UNCHANGED calls PROVE AskInv'
  BY <1>2, <1>3 DEF calls
<1>4. CASE WatchAdd \/ WatchFails \/ WatchList \/ WalkRoot \/ WalkDone
  <2>1. stack = <<>> /\ UNCHANGED calls
    BY <1>4 DEF WatchAdd, WatchFails, WatchList, WalkRoot, WalkDone, PlaceInv
  <2> QED BY <1>3, <2>1 DEF AskInv
<1>5. CASE WalkEnd
  BY <1>3, <1>5 DEF WalkEnd
<1>6. ASSUME NEW x \in Inner, SkipHidden(x) \/ Recurse(x) \/ TooDeep(x) \/ WalkNoExt(x)
      PROVE  AskInv'
  BY <1>3, <1>6 DEF SkipHidden, Recurse, TooDeep, WalkNoExt, Returns
<1>7. ASSUME NEW x \in Inner, WalkFile(x) PROVE AskInv'
  <2>1. /\ Returns(x) /\ x \in Files /\ stack' = Seen(x) /\ pkg_open("vfs", x)
        /\ want["vfs"] = NoFile
    BY <1>7 DEF WalkFile, Returns
  <2>2. CASE handle[x] = "none"
    <3>1. want'["vfs"] = x /\ handle' = handle
      BY <1>1, <2>1, <2>2 DEF pkg_open, CallsOK, Threads
    <3>2. stack' # <<>>
      <4>1. Len(Seen(x)) = Top /\ Top \in 1 .. Len(stack)
        BY <1>1, <2>1, ReturnFacts
      <4> QED BY <2>1, <4>1
    <3> QED BY <2>2, <3>1, <3>2 DEF AskInv
  <2>3. CASE handle[x] # "none"
    BY <1>2, <2>1, <2>3 DEF pkg_open
  <2> QED BY <2>2, <2>3
<1>8. CASE Import("vfs") \/ OpenFails("vfs") \/ ArchiveFails("vfs")
  <2>1. want' = [want EXCEPT !["vfs"] = NoFile]
    BY <1>8 DEF Import, OpenFails, ArchiveFails
  <2> QED BY <1>1, <1>2, <2>1 DEF CallsOK, Threads
<1> QED
  BY <1>4, <1>5, <1>6, <1>7, <1>8 DEF VfsThread

\* A step of the others, as the walk sees it.
LEMMA AskKept ==
    ASSUME AskInv, want'["vfs"] = want["vfs"], stack' = <<>> => stack = <<>>,
           \A f \in Files : Due(f)' => Due(f) /\ (handle[f] = "none" => handle'[f] = "none")
    PROVE  AskInv'
  BY DEF AskInv

LEMMA AskMainStep ==
    ASSUME IInv, AskInv, MainThread
    PROVE  AskInv'
<1>1. CallsOK
  BY DEF IInv
<1>2. UNCHANGED <<fs, stack, changed>>
  BY DEF MainThread, EvtRead, EvtReturn, EvtOpen, EvtForget, Import, OpenFails, ArchiveFails, Collect
<1>3. ASSUME want'["vfs"] = want["vfs"], opened \subseteq opened',
             \A f \in Files : Due(f)' => (handle[f] = "none" => handle'[f] = "none")
      PROVE  AskInv'
  BY <1>2, <1>3, AskKept DEF Due
<1>4. CASE EvtRead \/ EvtReturn \/ EvtForget
  BY <1>3, <1>4 DEF EvtRead, EvtReturn, EvtForget, calls
<1>5. CASE EvtOpen
  <2> DEFINE x == Head(batch).name
  <2>1. pkg_open("main", x)
    BY <1>5 DEF EvtOpen
  <2> HIDE DEF x
  <2>2. want'["vfs"] = want["vfs"] /\ opened \subseteq opened'
    BY <1>1, <2>1 DEF pkg_open, Returned, CallsOK, Threads
  <2>3. ASSUME NEW f \in Files, handle[f] = "none" PROVE handle'[f] = "none"
    <3>1. CASE handle[x] = "none"
      BY <2>1, <2>3, <3>1 DEF pkg_open
    <3>2. CASE handle[x] # "none"
      <4>1. f # x /\ handle' = [handle EXCEPT ![x] = IF @ = "idle" THEN "stale" ELSE @]
        BY <2>1, <2>3, <3>2 DEF pkg_open
      <4> QED BY <1>1, <2>3, <4>1 DEF CallsOK
    <3> QED BY <3>1, <3>2
  <2> QED BY <1>3, <2>2, <2>3
<1>6. CASE Import("main") \/ OpenFails("main") \/ ArchiveFails("main")
  <2>1. want' = [want EXCEPT !["main"] = NoFile] /\ opened \subseteq opened'
    BY <1>6 DEF Import, OpenFails, ArchiveFails, Returned
  <2>2. want'["vfs"] = want["vfs"]
    BY <1>1, <2>1 DEF CallsOK, Threads
  <2>3. ASSUME NEW f \in Files, Due(f)', handle[f] = "none" PROVE handle'[f] = "none"
    <3>1. CASE OpenFails("main")
      BY <2>3, <3>1 DEF OpenFails
    <3>2. CASE Import("main")
      <4>1. f # want["main"]
        BY <1>2, <2>3, <3>2 DEF Import, Returned, Due
      <4> QED BY <1>1, <2>3, <3>2, <4>1 DEF Import, CallsOK
    <3>3. CASE ArchiveFails("main")
      <4>1. f # want["main"]
        BY <1>2, <2>3, <3>3 DEF ArchiveFails, Due
      <4> QED BY <1>1, <2>3, <3>3, <4>1 DEF ArchiveFails, CallsOK
    <3> QED BY <1>6, <3>1, <3>2, <3>3
  <2> QED BY <1>3, <2>1, <2>2, <2>3
<1>7. ASSUME NEW x \in Files, Collect(x) PROVE AskInv'
  <2>1. want' = want /\ opened' = opened /\ handle' = [handle EXCEPT ![x] = "none"]
    BY <1>7 DEF Collect
  <2>2. \A f \in Files : handle[f] = "none" => handle'[f] = "none"
    BY <1>1, <2>1 DEF CallsOK
  <2> QED BY <1>3, <2>1, <2>2
<1> QED
  BY <1>4, <1>5, <1>6, <1>7 DEF MainThread

LEMMA AskEnvStep ==
    ASSUME IInv, AskInv, Environment
    PROVE  AskInv'
<1>1. CallsOK /\ GoodStack(stack) /\ fs \in [Files -> {"absent", "partial", "complete"}]
  BY StackParts DEF IInv, TypeOK
<1>2. ASSUME NEW x, Replaced(x), stack' = <<>> PROVE stack = <<>>
  <2>1. stack \in Seq(Frame) /\ Len(stack') = Len(stack)
    BY <1>1, <1>2, ReplacedFrames DEF GoodStack
  <2> QED BY <1>2, <2>1, EmptySeq
<1>3. ASSUME NEW x \in Dirs \cup Files, Change(x), \A f \in Files : f # x => fs'[f] = fs[f],
             stack' = <<>> => stack = <<>>
      PROVE  AskInv'
  <2>1. /\ want' = want /\ changed' = changed \cup {x} /\ opened' = opened \ {x}
        /\ \A f \in Files : handle[f] = "none" => handle'[f] = "none"
    BY <1>3 DEF Change
  <2>2. \A f \in Files : Due(f)' => Due(f)
    BY <1>3, <2>1 DEF Due
  <2> QED BY <1>3, <2>1, <2>2, AskKept
<1>4. ASSUME NEW f \in Files, BeginWrite(f) PROVE AskInv'
  BY <1>1, <1>3, <1>4 DEF BeginWrite
<1>5. ASSUME NEW f \in Files, MoveIn(f) PROVE AskInv'
  BY <1>1, <1>3, <1>5 DEF MoveIn
<1>6. ASSUME NEW f \in Files, RemoveFile(f) PROVE AskInv'
  BY <1>1, <1>2, <1>3, <1>6 DEF RemoveFile
<1>7. ASSUME NEW d \in Dirs, RemoveDir(d) PROVE AskInv'
  BY <1>2, <1>3, <1>7 DEF RemoveDir
<1>8. ASSUME NEW f \in Files, CloseWrite(f) PROVE AskInv'
  <2>1. /\ UNCHANGED <<handle, want, stack, opened>> /\ changed' = changed \cup {f}
        /\ fs' = [fs EXCEPT ![f] = "complete"]
    BY <1>8 DEF CloseWrite, calls
  <2>2. \A g \in Files : Due(g)' => Due(g)
    BY <1>1, <2>1 DEF Due
  <2> QED BY <2>1, <2>2, AskKept
<1> QED
  BY <1>4, <1>5, <1>6, <1>7, <1>8 DEF Environment

LEMMA WalkInit == Init => WalkInv
<1> SUFFICES ASSUME Init PROVE WalkInv
  OBVIOUS
<1>1. /\ next = 1 /\ stack = <<>> /\ pc \in {"watch", "scan"} /\ Len(stack) = 0
      /\ \A d \in gone : Entries(d) = {}
  BY DEF Init
<1>2. GoneInv
  BY <1>1 DEF GoneInv, Entries
<1>3. FramesOK(stack, gone)
  BY <1>1 DEF FramesOK
<1>4. PlaceInv
  BY <1>1 DEF PlaceInv
<1>5. TodoInv
  <2> SUFFICES ASSUME NEW f \in Files PROVE \E x \in Dirs \cup Files : f \in Below(x) /\ Todo(x)
    BY DEF TodoInv
  <2>1. PICK r \in RootDirs : f \in Below(r)
    BY RootAbove
  <2>2. PICK j \in 1 .. Len(Roots) : Roots[j] = r
    BY DEF RootDirs
  <2> QED BY <1>1, <2>1, <2>2, TreeFacts DEF Todo
<1> QED BY <1>2, <1>3, <1>4, <1>5 DEF WalkInv

LEMMA AskInit == Init => AskInv
  BY NamesAssumption DEF Init, AskInv, Threads

\* vfs_dir_walk loads all packages of path.pkg: when it is over, every package
\* that did not change meanwhile, in any tree, has been opened, unless pkg_open
\* cannot take it or a hidden name, VFS_MAX_RECURSE or a file without an extension
\* is in its way; what happens to other files and directories during the walk, and
\* what the callback of the main thread opens or fails to open, makes no difference.
THEOREM WalkComplete == Spec => []ScanFindsAll
<1>1. IInv /\ AskInv /\ WalkInv /\ [Next]_vars => AskInv' /\ WalkInv'
  <2> SUFFICES ASSUME IInv, AskInv, WalkInv, [Next]_vars PROVE AskInv' /\ WalkInv'
    OBVIOUS
  <2>1. CASE UNCHANGED vars
    <3>1. UNCHANGED <<fs, gone, pc, next, stack, changed, opened, handle, want>>
      BY <2>1 DEF vars
    <3>2. GoneInv' /\ PlaceInv' /\ \A f \in Files : Wanted(f)' => Wanted(f)
      BY <3>1 DEF WalkInv, GoneInv, PlaceInv, Exists, Wanted, Due
    <3>3. AskInv'
      BY <3>1, AskKept DEF Due
    <3> QED BY <3>1, <3>2, <3>3, QuietStep
  <2>2. PlaceInv
    BY DEF WalkInv
  <2> QED
    BY <2>1, <2>2, WalkEnvStep, WalkVfsStep, WalkMainStep, AskEnvStep, AskVfsStep, AskMainStep DEF Next
<1>2. IInv /\ AskInv /\ WalkInv => ScanFindsAll
  <2> SUFFICES ASSUME IInv, AskInv, WalkInv, pc = "done", Prescan,
                      NEW f \in Files \ (Hidden \cup Refused), fs[f] = "complete", f \notin changed,
                      Walked[Parent[f]], f \notin opened
               PROVE  FALSE
    BY DEF ScanFindsAll
  <2>1. Wanted(f)
    BY NamesAssumption DEF Wanted, Due, OnWay, AskInv, WalkInv, PlaceInv
  <2>2. PICK x : Todo(x)
    BY <2>1 DEF WalkInv, TodoInv
  <2>3. stack = <<>> /\ next > Len(Roots) /\ next \in Nat /\ Len(Roots) \in Nat
    BY TreeAssumption DEF WalkInv, PlaceInv, IInv, TypeOK
  <2> QED BY <2>2, <2>3 DEF Todo
<1> QED
  BY <1>1, <1>2, FindInv, WalkInit, AskInit, PTL DEF Spec
=============================================================================
