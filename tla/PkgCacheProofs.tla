--------------------------- MODULE PkgCacheProofs ---------------------------
(* Theorems about PkgCache, for every set of threads, packages and handles. *)
EXTENDS PkgCache, WellFoundedInduction, TLAPS

\* The head of a list that is not empty is one of its nodes, and the first.
LEMMA FirstProperty ==
    ASSUME NEW S, S \subseteq Nat
    PROVE  \/ S = {} /\ First(S) = 0
           \/ First(S) \in S /\ \A m \in S : First(S) <= m
<1>1. CASE S = {}
  BY <1>1 DEF First
<1>2. CASE S # {}
  <2>1. PICK x \in S : \A y \in S : ~ (<<y, x>> \in OpToRel(<, Nat))
    BY <1>2, NatLessThanWellFounded, WFMin
  <2>2. \A y \in S : x <= y
    <3>1. SUFFICES ASSUME NEW y \in S, y < x PROVE FALSE
      OBVIOUS
    <3>2. <<y, x>> \in OpToRel(<, Nat)
      BY <3>1 DEF OpToRel
    <3> QED BY <2>1, <3>2
  <2> QED BY <1>2, <2>2 DEF First
<1> QED BY <1>1, <1>2

\* Labels at which pkg_open works on a path, and on a handle.
HasPath == {"begin", "alloc", "stat", "number", "open", "link", "archive", "scan", "commit"}
HasHandle == {"stat", "number", "open", "link", "archive", "scan", "commit",
              "bump", "bumped", "close", "clear", "unlink"}

LocalOK(t) ==
    /\ pc[t] \in HasPath => loc[t].path \in Packages
    /\ pc[t] \in HasHandle => loc[t].h \in Handles
    /\ pc[t] = "number" => loc[t].reg \in Nat
    /\ loc[t].cur <= Len(nodes)

LocalsOK == \A t \in Threads : LocalOK(t)

NodesOK == \A n \in 1 .. Len(nodes) : nodes[n].next <= Len(nodes)

\* The type invariant, with what the locals point to.
TypeInv == TypeOK /\ LocalsOK /\ NodesOK

\* The type invariant holds at first.
LEMMA InitTypeInv == Init => TypeInv
<1> SUFFICES ASSUME Init PROVE TypeInv
  OBVIOUS
<1>1. handle \in [Handles -> pkg_handle]
  BY DEF Init, ZeroHandle, pkg_handle
<1>2. loc \in [Threads -> Locals]
  BY DEF Init, NoLocals, Locals
<1>3. held \in [Threads -> [Handles -> Nat]] /\ pc \in [Threads -> Labels]
  BY DEF Init, Labels
<1>4. nodes \in Seq(dlink_node) /\ Len(nodes) = 0
  BY DEF Init
<1>5. /\ inUse \subseteq Handles /\ linked \subseteq 1 .. Len(nodes)
      /\ db_locked \in BOOLEAN /\ g_pkgid \in Nat /\ now \in Nat
      /\ view \subseteq Entry /\ opens \in Nat
  <2>1. db_locked \in BOOLEAN
    BY DEF Init
  <2>2. g_pkgid \in Nat /\ now \in Nat /\ opens \in Nat
    BY BoundsAssumption DEF Init
  <2>3. inUse \subseteq Handles /\ linked \subseteq 1 .. Len(nodes) /\ view \subseteq Entry
    BY DEF Init
  <2> QED BY <2>1, <2>2, <2>3
<1>6. LocalsOK
  BY <1>4 DEF Init, LocalsOK, LocalOK, NoLocals, HasPath, HasHandle
<1>7. NodesOK
  BY <1>4 DEF NodesOK
<1>8. TypeOK
  BY <1>1, <1>2, <1>3, <1>4, <1>5 DEF TypeOK
<1> QED BY <1>6, <1>7, <1>8 DEF TypeInv

\* An element of a sequence has the type of its elements.
LEMMA ElementType ==
    ASSUME NEW T, NEW s \in Seq(T), NEW n \in 1 .. Len(s) PROVE s[n] \in T
OBVIOUS

\* pkg_list is made of nodes that exist.
LEMMA ListTypes ==
    ASSUME TypeOK
    PROVE  /\ nodes \in Seq(dlink_node)
           /\ Len(nodes) \in Nat
           /\ linked \subseteq 1 .. Len(nodes)
           /\ linked \subseteq Nat
           /\ \A n \in 1 .. Len(nodes) : nodes[n].data \in Handles /\ nodes[n].next \in Nat
<1>1. nodes \in Seq(dlink_node) /\ linked \subseteq 1 .. Len(nodes)
  BY DEF TypeOK
<1>2. Len(nodes) \in Nat
  BY <1>1
<1>3. linked \subseteq Nat
  BY <1>1, <1>2
<1>4. \A n \in 1 .. Len(nodes) : nodes[n] \in dlink_node
  BY <1>1, ElementType
<1>5. \A n \in 1 .. Len(nodes) : nodes[n].data \in Handles /\ nodes[n].next \in Nat
  BY <1>4 DEF dlink_node
<1> QED BY <1>1, <1>2, <1>3, <1>5

\* The first node of a part of the list, or NULL.
LEMMA FirstType ==
    ASSUME NEW L \in Nat, NEW S, S \subseteq 1 .. L
    PROVE  First(S) \in 0 .. L
<1>1. First(S) = 0 \/ First(S) \in S
  BY FirstProperty, S \subseteq Nat
<1>2. CASE First(S) = 0
  BY <1>2
<1>3. CASE First(S) \in S
  <2>1. First(S) \in 1 .. L
    BY <1>3
  <2>2. \A k \in 1 .. L : k \in 0 .. L
    OBVIOUS
  <2> QED BY <2>1, <2>2
<1> QED BY <1>1, <1>2, <1>3

\* The pointers a walk over the list follows.
LEMMA NextNodeType ==
    ASSUME TypeOK, NodesOK, NEW n \in 1 .. Len(nodes)
    PROVE  NextNode(n) \in 0 .. Len(nodes)
<1> USE ListTypes
<1>1. CASE n \in linked
  <2>1. {m \in linked : n < m} \subseteq 1 .. Len(nodes)
    OBVIOUS
  <2>2. First({m \in linked : n < m}) \in 0 .. Len(nodes)
    BY <2>1, FirstType
  <2> QED BY <1>1, <2>2 DEF NextNode
<1>2. CASE n \notin linked
  <2>1. nodes[n].next \in 0 .. Len(nodes)
    BY DEF NodesOK
  <2> QED BY <1>2, <2>1 DEF NextNode
<1> QED BY <1>1, <1>2


\* What the locals of a thread and the fields of a handle can be.
LEMMA LocalTypes ==
    ASSUME TypeInv, NEW t \in Threads
    PROVE  /\ loc[t] \in Locals /\ loc[t].hdr \in Nat /\ loc[t].reg \in Int
           /\ loc[t].cur \in 0 .. Len(nodes)
           /\ pc[t] \in HasPath => loc[t].path \in Packages
           /\ pc[t] \in HasHandle => loc[t].h \in Handles
           /\ pc[t] = "number" => loc[t].reg \in Nat
<1>1. loc[t] \in Locals
  BY DEF TypeInv, TypeOK
<1>2. LocalOK(t)
  BY DEF TypeInv, LocalsOK
<1>3. loc[t].hdr \in Nat /\ loc[t].reg \in Int /\ loc[t].cur \in Nat
  BY <1>1 DEF Locals
<1> QED BY <1>1, <1>2, <1>3, ListTypes DEF LocalOK, TypeInv

\* What the type of a handle says of its fields.
LEMMA HandleTypes ==
    ASSUME TypeOK, NEW h \in Handles
    PROVE  /\ handle[h] \in pkg_handle /\ handle[h].pkgid \in Int
           /\ handle[h].refcnt \in Int /\ handle[h].otime \in Nat
BY DEF TypeOK, pkg_handle

\* The two constant records have their types.
LEMMA ConstantTypes == ZeroHandle \in pkg_handle /\ NoLocals \in Locals
BY DEF ZeroHandle, pkg_handle, NoLocals, Locals

\* Assignments to one local, and to one field, of the right type.
LEMMA LocalsUpdate ==
    ASSUME NEW l \in Locals
    PROVE  /\ \A x \in Int : [l EXCEPT !.reg = x] \in Locals
           /\ \A x \in Nat : [l EXCEPT !.hdr = x] \in Locals
           /\ \A x \in Nat : [l EXCEPT !.cur = x] \in Locals
           /\ \A x \in Handles \cup {NoHandle} : [l EXCEPT !.h = x] \in Locals
           /\ \A x \in Packages : [l EXCEPT !.path = x] \in Locals
<1>1. \A x \in Int : [l EXCEPT !.reg = x] \in Locals
  BY DEF Locals
<1>2. \A x \in Nat : [l EXCEPT !.hdr = x] \in Locals
  BY DEF Locals
<1>3. \A x \in Nat : [l EXCEPT !.cur = x] \in Locals
  BY DEF Locals
<1>4. \A x \in Handles \cup {NoHandle} : [l EXCEPT !.h = x] \in Locals
  BY DEF Locals
<1>5. \A x \in Packages : [l EXCEPT !.path = x] \in Locals
  BY DEF Locals
<1> QED BY <1>1, <1>2, <1>3, <1>4, <1>5

\* A field of one handle gets a value of its type.
LEMMA HandleUpdate ==
    ASSUME NEW r \in pkg_handle
    PROVE  /\ \A x \in Int : [r EXCEPT !.pkgid = x] \in pkg_handle
           /\ \A x \in Int : [r EXCEPT !.refcnt = x] \in pkg_handle
           /\ \A x \in Packages : [r EXCEPT !.name = x] \in pkg_handle
<1>1. \A x \in Int : [r EXCEPT !.pkgid = x] \in pkg_handle
  BY DEF pkg_handle
<1>2. \A x \in Int : [r EXCEPT !.refcnt = x] \in pkg_handle
  BY DEF pkg_handle
<1>3. \A x \in Packages : [r EXCEPT !.name = x] \in pkg_handle
  BY DEF pkg_handle
<1> QED BY <1>1, <1>2, <1>3

\* One handle gets a new value of its type.
LEMMA HandleAssign ==
    ASSUME TypeOK, NEW h \in Handles, NEW x \in Int
    PROVE  /\ [handle EXCEPT ![h].pkgid = x] \in [Handles -> pkg_handle]
           /\ [handle EXCEPT ![h].refcnt = x] \in [Handles -> pkg_handle]
<1>1. handle \in [Handles -> pkg_handle] /\ handle[h] \in pkg_handle
  BY DEF TypeOK
<1>2. /\ [handle[h] EXCEPT !.pkgid = x] \in pkg_handle
      /\ [handle[h] EXCEPT !.refcnt = x] \in pkg_handle
  BY <1>1, HandleUpdate
<1> QED BY <1>1, <1>2

\* The locals of one thread get a new value of their type.
LEMMA LocalsAssign ==
    ASSUME TypeOK, NEW t \in Threads, NEW x \in Nat
    PROVE  /\ [loc EXCEPT ![t].hdr = x] \in [Threads -> Locals]
           /\ [loc EXCEPT ![t].cur = x] \in [Threads -> Locals]
<1>1. loc \in [Threads -> Locals] /\ loc[t] \in Locals
  BY DEF TypeOK
<1>2. [loc[t] EXCEPT !.hdr = x] \in Locals /\ [loc[t] EXCEPT !.cur = x] \in Locals
  BY <1>1, LocalsUpdate
<1> QED BY <1>1, <1>2

\* dlink_delete leaves a list of the same nodes behind.
LEMMA UnlinkNodes ==
    ASSUME TypeOK, NodesOK, NEW n \in 1 .. Len(nodes), NEW ns,
           ns = [nodes EXCEPT ![n].next = NextNode(n)]
    PROVE  /\ ns \in Seq(dlink_node) /\ Len(ns) = Len(nodes)
           /\ \A m \in 1 .. Len(nodes) : ns[m].next <= Len(nodes)
<1>1. NextNode(n) \in 0 .. Len(nodes) /\ NextNode(n) \in Nat
  BY NextNodeType, ListTypes
<1>2. nodes[n] \in dlink_node
  BY ElementType, ListTypes
<1>3. [nodes[n] EXCEPT !.next = NextNode(n)] \in dlink_node
  BY <1>1, <1>2 DEF dlink_node
<1>4. ns = [nodes EXCEPT ![n] = [nodes[n] EXCEPT !.next = NextNode(n)]]
  OBVIOUS
<1>5. ns \in Seq(dlink_node) /\ Len(ns) = Len(nodes)
  BY <1>3, <1>4, ListTypes
<1>6. ASSUME NEW m \in 1 .. Len(nodes) PROVE ns[m].next <= Len(nodes)
  <2>1. CASE m = n
    BY <1>1, <1>2, <1>4, <2>1, ListTypes DEF dlink_node
  <2>2. CASE m # n
    BY <1>4, <2>2, ListTypes DEF NodesOK
  <2> QED BY <2>1, <2>2
<1> QED BY <1>5, <1>6

\* pkg_release takes at most the node of its own handle out of the list.
LEMMA UnlinkStep ==
    ASSUME TypeOK, NodesOK, NEW t, ReleaseUnlink(t)
    PROVE  \/ UNCHANGED <<nodes, linked>>
           \/ /\ nodes' \in Seq(dlink_node) /\ Len(nodes') = Len(nodes)
              /\ \A m \in 1 .. Len(nodes) : nodes'[m].next <= Len(nodes)
              /\ linked' \subseteq linked
<1> DEFINE n == First({m \in linked : nodes[m].data = loc[t].h})
<1>1. CASE n = 0
  BY <1>1 DEF ReleaseUnlink
<1>2. CASE n # 0
  <2>1. n \in 0 .. Len(nodes)
    BY FirstType, ListTypes, {m \in linked : nodes[m].data = loc[t].h} \subseteq 1 .. Len(nodes)
  <2>2. n \in 1 .. Len(nodes)
    BY <1>2, <2>1, ListTypes
  <2>3. nodes' = [nodes EXCEPT ![n].next = NextNode(n)] /\ linked' \subseteq linked
    BY <1>2 DEF ReleaseUnlink
  <2> QED BY <2>2, <2>3, UnlinkNodes
<1> QED BY <1>1, <1>2

\* A step of any thread, and the clock, keep the types.
LEMMA NextTypeInv == TypeInv /\ [Next]_vars => TypeInv'
<1> SUFFICES ASSUME TypeInv, [Next]_vars PROVE TypeInv'
  OBVIOUS
<1> USE DEF TypeInv, Goto, Return, Fail
<1>a. /\ handle \in [Handles -> pkg_handle] /\ loc \in [Threads -> Locals]
      /\ pc \in [Threads -> Labels] /\ now \in Nat /\ g_pkgid \in Nat
  BY DEF TypeOK
<1>1. ASSUME NEW t \in Threads, Step(t) PROVE TypeInv'
  <2>a. /\ loc[t] \in Locals /\ loc[t].hdr \in Nat /\ loc[t].reg \in Int
        /\ loc[t].cur \in 0 .. Len(nodes)
        /\ pc[t] \in HasPath => loc[t].path \in Packages
        /\ pc[t] \in HasHandle => loc[t].h \in Handles
        /\ pc[t] = "number" => loc[t].reg \in Nat
    BY <1>1, LocalTypes
  <2>1. CASE db_begin(t)
    <3>1. handle' \in [Handles -> pkg_handle]
      BY <1>a, <2>a, <2>1, ConstantTypes DEF db_begin, HasHandle, HasPath, pkg_handle
    <3>2. loc' \in [Threads -> Locals]
      BY <1>a, <2>a, <2>1, HandleTypes, ListTypes, ConstantTypes, LocalsUpdate DEF db_begin, HasHandle
    <3>3. pc' \in [Threads -> Labels]
      BY <1>a, <2>1 DEF db_begin, Labels
    <3>4. LocalsOK' /\ NodesOK'
      BY <1>a, <2>a, <2>1, ListTypes DEF db_begin, LocalsOK, LocalOK, NodesOK, HasPath, HasHandle, NoLocals, Locals
    <3>5. TypeOK'
      BY <2>a, <2>1, <3>1, <3>2, <3>3 DEF db_begin, TypeOK
    <3> QED BY <3>4, <3>5
  <2>2. CASE Alloc(t)
    <3>1. handle' \in [Handles -> pkg_handle]
      BY <1>a, <2>a, <2>2, ConstantTypes, HandleUpdate DEF Alloc, HasPath
    <3>2. loc' \in [Threads -> Locals]
      BY <1>a, <2>a, <2>2, HandleTypes, ListTypes, ConstantTypes, LocalsUpdate DEF Alloc, HasHandle
    <3>3. pc' \in [Threads -> Labels]
      BY <1>a, <2>2 DEF Alloc, Labels
    <3>4. LocalsOK' /\ NodesOK'
      BY <1>a, <2>a, <2>2, ListTypes DEF Alloc, LocalsOK, LocalOK, NodesOK, HasPath, HasHandle, NoLocals, Locals
    <3>5. TypeOK'
      BY <2>a, <2>2, <3>1, <3>2, <3>3 DEF Alloc, TypeOK
    <3> QED BY <3>4, <3>5
  <2>3. CASE StatFails(t)
    <3>1. handle' \in [Handles -> pkg_handle]
      BY <2>a, <2>3, HandleAssign, -1 \in Int DEF StatFails, HasHandle
    <3>2. loc' \in [Threads -> Locals]
      BY <1>a, <2>a, <2>3, HandleTypes, ListTypes, ConstantTypes, LocalsUpdate DEF StatFails, HasHandle
    <3>3. pc' \in [Threads -> Labels]
      BY <1>a, <2>3 DEF StatFails, Labels
    <3>4. LocalsOK' /\ NodesOK'
      BY <1>a, <2>a, <2>3, ListTypes DEF StatFails, LocalsOK, LocalOK, NodesOK, HasPath, HasHandle, NoLocals, Locals
    <3>5. TypeOK'
      BY <2>a, <2>3, <3>1, <3>2, <3>3 DEF StatFails, TypeOK
    <3> QED BY <3>4, <3>5
  <2>4. CASE NumberRead(t)
    <3>1. handle' \in [Handles -> pkg_handle]
      BY <1>a, <2>a, <2>4, ConstantTypes DEF NumberRead, HasHandle, HasPath, pkg_handle
    <3>2. loc' \in [Threads -> Locals]
      BY <1>a, <2>a, <2>4, HandleTypes, ListTypes, ConstantTypes, LocalsUpdate DEF NumberRead, HasHandle
    <3>3. pc' \in [Threads -> Labels]
      BY <1>a, <2>4 DEF NumberRead, Labels
    <3>4. LocalsOK' /\ NodesOK'
      BY <1>a, <2>a, <2>4, ListTypes DEF NumberRead, LocalsOK, LocalOK, NodesOK, HasPath, HasHandle, NoLocals, Locals
    <3>5. TypeOK'
      BY <2>a, <2>4, <3>1, <3>2, <3>3 DEF NumberRead, TypeOK
    <3> QED BY <3>4, <3>5
  <2>5. CASE NumberWrite(t)
    <3>1. handle' \in [Handles -> pkg_handle]
      BY <2>a, <2>5, HandleAssign, loc[t].reg + 1 \in Int DEF NumberWrite, HasHandle
    <3>2. loc' \in [Threads -> Locals]
      BY <1>a, <2>a, <2>5, HandleTypes, ListTypes, ConstantTypes, LocalsUpdate DEF NumberWrite, HasHandle
    <3>3. pc' \in [Threads -> Labels]
      BY <1>a, <2>5 DEF NumberWrite, Labels
    <3>4. LocalsOK' /\ NodesOK'
      BY <1>a, <2>a, <2>5, ListTypes DEF NumberWrite, LocalsOK, LocalOK, NodesOK, HasPath, HasHandle, NoLocals, Locals
    <3>5. TypeOK'
      BY <2>a, <2>5, <3>1, <3>2, <3>3 DEF NumberWrite, TypeOK
    <3> QED BY <3>4, <3>5
  <2>6. CASE OpenFile(t)
    <3>1. handle' \in [Handles -> pkg_handle]
      BY <1>a, <2>a, <2>6, ConstantTypes DEF OpenFile, HasHandle, HasPath, pkg_handle
    <3>2. loc' \in [Threads -> Locals]
      BY <1>a, <2>a, <2>6, HandleTypes, ListTypes, ConstantTypes, LocalsUpdate DEF OpenFile, HasHandle
    <3>3. pc' \in [Threads -> Labels]
      BY <1>a, <2>6 DEF OpenFile, Labels
    <3>4. LocalsOK' /\ NodesOK'
      BY <1>a, <2>a, <2>6, ListTypes DEF OpenFile, LocalsOK, LocalOK, NodesOK, HasPath, HasHandle, NoLocals, Locals
    <3>5. TypeOK'
      BY <2>a, <2>6, <3>1, <3>2, <3>3 DEF OpenFile, TypeOK
    <3> QED BY <3>4, <3>5
  <2>7. CASE OpenFails(t)
    <3>1. handle' \in [Handles -> pkg_handle]
      BY <1>a, <2>a, <2>7, ConstantTypes DEF OpenFails, HasHandle, HasPath, pkg_handle
    <3>2. loc' \in [Threads -> Locals]
      BY <1>a, <2>a, <2>7, HandleTypes, ListTypes, ConstantTypes, LocalsUpdate DEF OpenFails, HasHandle
    <3>3. pc' \in [Threads -> Labels]
      BY <1>a, <2>7 DEF OpenFails, Labels
    <3>4. LocalsOK' /\ NodesOK'
      BY <1>a, <2>a, <2>7, ListTypes DEF OpenFails, LocalsOK, LocalOK, NodesOK, HasPath, HasHandle, NoLocals, Locals
    <3>5. TypeOK'
      BY <2>a, <2>7, <3>1, <3>2, <3>3 DEF OpenFails, TypeOK
    <3> QED BY <3>4, <3>5
  <2>8. CASE Link(t)
    <3>1. handle' \in [Handles -> pkg_handle]
      BY <1>a, <2>a, <2>8, ConstantTypes DEF Link, HasHandle, HasPath, pkg_handle
    <3>2. loc' \in [Threads -> Locals]
      BY <1>a, <2>a, <2>8, HandleTypes, ListTypes, ConstantTypes, LocalsUpdate DEF Link, HasHandle
    <3>3. pc' \in [Threads -> Labels]
      BY <1>a, <2>8 DEF Link, Labels
    <3>4. LocalsOK' /\ NodesOK'
      BY <1>a, <2>a, <2>8, ListTypes DEF Link, LocalsOK, LocalOK, NodesOK, HasPath, HasHandle, NoLocals, Locals
    <3>5. TypeOK'
      <4>1. [data |-> loc[t].h, next |-> 0] \in dlink_node
        BY <2>a, <2>8 DEF Link, HasHandle, dlink_node
      <4>2. nodes' \in Seq(dlink_node) /\ Len(nodes') = Len(nodes) + 1
        BY <2>8, <4>1, ListTypes DEF Link
      <4>3. linked' \subseteq 1 .. Len(nodes')
        BY <2>8, <4>2, ListTypes DEF Link
      <4> QED BY <2>8, <3>1, <3>2, <3>3, <4>2, <4>3 DEF Link, TypeOK
    <3> QED BY <3>4, <3>5
  <2>9. CASE ArchiveOpens(t)
    <3>1. handle' \in [Handles -> pkg_handle]
      BY <1>a, <2>a, <2>9, ConstantTypes DEF ArchiveOpens, HasHandle, HasPath, pkg_handle
    <3>2. loc' \in [Threads -> Locals]
      BY <1>a, <2>a, <2>9, HandleTypes, ListTypes, ConstantTypes, LocalsUpdate DEF ArchiveOpens, HasHandle
    <3>3. pc' \in [Threads -> Labels]
      BY <1>a, <2>9 DEF ArchiveOpens, Labels
    <3>4. LocalsOK' /\ NodesOK'
      BY <1>a, <2>a, <2>9, ListTypes DEF ArchiveOpens, LocalsOK, LocalOK, NodesOK, HasPath, HasHandle, NoLocals, Locals
    <3>5. TypeOK'
      BY <2>a, <2>9, <3>1, <3>2, <3>3 DEF ArchiveOpens, TypeOK
    <3> QED BY <3>4, <3>5
  <2>10. CASE ArchiveFails(t)
    <3>1. handle' \in [Handles -> pkg_handle]
      BY <1>a, <2>a, <2>10, ConstantTypes DEF ArchiveFails, HasHandle, HasPath, pkg_handle
    <3>2. loc' \in [Threads -> Locals]
      BY <1>a, <2>a, <2>10, HandleTypes, ListTypes, ConstantTypes, LocalsUpdate DEF ArchiveFails, HasHandle
    <3>3. pc' \in [Threads -> Labels]
      BY <1>a, <2>10 DEF ArchiveFails, Labels
    <3>4. LocalsOK' /\ NodesOK'
      BY <1>a, <2>a, <2>10, ListTypes DEF ArchiveFails, LocalsOK, LocalOK, NodesOK, HasPath, HasHandle, NoLocals, Locals
    <3>5. TypeOK'
      BY <2>a, <2>10, <3>1, <3>2, <3>3 DEF ArchiveFails, TypeOK
    <3> QED BY <3>4, <3>5
  <2>11. CASE ScanEntry(t)
    <3>1. handle' \in [Handles -> pkg_handle]
      BY <1>a, <2>a, <2>11, ConstantTypes DEF ScanEntry, vfs_add_path, HasHandle, HasPath, pkg_handle
    <3>2. loc' \in [Threads -> Locals]
      BY <2>a, <2>11, LocalsAssign, loc[t].hdr + 1 \in Nat DEF ScanEntry, vfs_add_path
    <3>3. pc' \in [Threads -> Labels]
      BY <1>a, <2>11 DEF ScanEntry, vfs_add_path, Labels
    <3>4. LocalsOK' /\ NodesOK'
      BY <1>a, <2>a, <2>11, ListTypes DEF ScanEntry, vfs_add_path, LocalsOK, LocalOK, NodesOK, HasPath, HasHandle, NoLocals, Locals
    <3>5. TypeOK'
      <4>1. handle[loc[t].h].pkgid \in Int
        BY <2>a, <2>11, HandleTypes DEF ScanEntry, vfs_add_path, HasHandle
      <4>2. handle[loc[t].h].pkgid >= 1 =>
              [pkgid |-> handle[loc[t].h].pkgid, pkg |-> loc[t].path,
               file |-> loc[t].hdr + 1] \in Entry
        BY <2>a, <2>11, <4>1 DEF ScanEntry, vfs_add_path, HasPath, Entry
      <4>3. view' \subseteq Entry
        BY <2>11, <4>1, <4>2 DEF ScanEntry, vfs_add_path, TypeOK
      <4> QED BY <2>11, <3>1, <3>2, <3>3, <4>3 DEF ScanEntry, vfs_add_path, TypeOK
    <3> QED BY <3>4, <3>5
  <2>12. CASE ScanEnd(t)
    <3>1. handle' \in [Handles -> pkg_handle]
      BY <1>a, <2>a, <2>12, ConstantTypes DEF ScanEnd, HasHandle, HasPath, pkg_handle
    <3>2. loc' \in [Threads -> Locals]
      BY <1>a, <2>a, <2>12, HandleTypes, ListTypes, ConstantTypes, LocalsUpdate DEF ScanEnd, HasHandle
    <3>3. pc' \in [Threads -> Labels]
      BY <1>a, <2>12 DEF ScanEnd, Labels
    <3>4. LocalsOK' /\ NodesOK'
      BY <1>a, <2>a, <2>12, ListTypes DEF ScanEnd, LocalsOK, LocalOK, NodesOK, HasPath, HasHandle, NoLocals, Locals
    <3>5. TypeOK'
      BY <2>a, <2>12, <3>1, <3>2, <3>3 DEF ScanEnd, TypeOK
    <3> QED BY <3>4, <3>5
  <2>13. CASE ScanError(t)
    <3>1. handle' \in [Handles -> pkg_handle]
      BY <1>a, <2>a, <2>13, ConstantTypes DEF ScanError, HasHandle, HasPath, pkg_handle
    <3>2. loc' \in [Threads -> Locals]
      BY <1>a, <2>a, <2>13, HandleTypes, ListTypes, ConstantTypes, LocalsUpdate DEF ScanError, HasHandle
    <3>3. pc' \in [Threads -> Labels]
      BY <1>a, <2>13 DEF ScanError, Labels
    <3>4. LocalsOK' /\ NodesOK'
      BY <1>a, <2>a, <2>13, ListTypes DEF ScanError, LocalsOK, LocalOK, NodesOK, HasPath, HasHandle, NoLocals, Locals
    <3>5. TypeOK'
      BY <2>a, <2>13, <3>1, <3>2, <3>3 DEF ScanError, TypeOK
    <3> QED BY <3>4, <3>5
  <2>14. CASE db_commit(t)
    <3>1. handle' \in [Handles -> pkg_handle]
      BY <1>a, <2>a, <2>14, ConstantTypes DEF db_commit, HasHandle, HasPath, pkg_handle
    <3>2. loc' \in [Threads -> Locals]
      BY <1>a, <2>a, <2>14, HandleTypes, ListTypes, ConstantTypes, LocalsUpdate DEF db_commit, HasHandle
    <3>3. pc' \in [Threads -> Labels]
      BY <1>a, <2>14 DEF db_commit, Labels
    <3>4. LocalsOK' /\ NodesOK'
      BY <1>a, <2>a, <2>14, ListTypes DEF db_commit, LocalsOK, LocalOK, NodesOK, HasPath, HasHandle, NoLocals, Locals
    <3>5. TypeOK'
      BY <2>a, <2>14, <3>1, <3>2, <3>3 DEF db_commit, TypeOK
    <3> QED BY <3>4, <3>5
  <2>15. CASE Bump(t)
    <3>1. handle' \in [Handles -> pkg_handle]
      BY <1>a, <2>a, <2>15, ConstantTypes DEF Bump, HasHandle, HasPath, pkg_handle
    <3>2. loc' \in [Threads -> Locals]
      BY <1>a, <2>a, <2>15, HandleTypes, ListTypes, ConstantTypes, LocalsUpdate DEF Bump, HasHandle
    <3>3. pc' \in [Threads -> Labels]
      BY <1>a, <2>15 DEF Bump, Labels
    <3>4. LocalsOK' /\ NodesOK'
      BY <1>a, <2>a, <2>15, ListTypes DEF Bump, LocalsOK, LocalOK, NodesOK, HasPath, HasHandle, NoLocals, Locals
    <3>5. TypeOK'
      BY <2>a, <2>15, <3>1, <3>2, <3>3 DEF Bump, TypeOK
    <3> QED BY <3>4, <3>5
  <2>16. CASE Bumped(t)
    <3>1. handle' \in [Handles -> pkg_handle]
      BY <2>a, <2>16, HandleAssign, loc[t].reg + 1 \in Int DEF Bumped, HasHandle
    <3>2. loc' \in [Threads -> Locals]
      BY <1>a, <2>a, <2>16, HandleTypes, ListTypes, ConstantTypes, LocalsUpdate DEF Bumped, HasHandle
    <3>3. pc' \in [Threads -> Labels]
      BY <1>a, <2>16 DEF Bumped, Labels
    <3>4. LocalsOK' /\ NodesOK'
      BY <1>a, <2>a, <2>16, ListTypes DEF Bumped, LocalsOK, LocalOK, NodesOK, HasPath, HasHandle, NoLocals, Locals
    <3>5. TypeOK'
      BY <2>a, <2>16, <3>1, <3>2, <3>3 DEF Bumped, TypeOK
    <3> QED BY <3>4, <3>5
  <2>17. CASE CloseWrite(t)
    <3>1. handle' \in [Handles -> pkg_handle]
      BY <2>a, <2>17, HandleAssign, loc[t].reg - 1 \in Int DEF CloseWrite, HasHandle
    <3>2. loc' \in [Threads -> Locals]
      BY <1>a, <2>a, <2>17, HandleTypes, ListTypes, ConstantTypes, LocalsUpdate DEF CloseWrite, HasHandle
    <3>3. pc' \in [Threads -> Labels]
      BY <1>a, <2>17 DEF CloseWrite, Labels
    <3>4. LocalsOK' /\ NodesOK'
      BY <1>a, <2>a, <2>17, ListTypes DEF CloseWrite, LocalsOK, LocalOK, NodesOK, HasPath, HasHandle, NoLocals, Locals
    <3>5. TypeOK'
      BY <2>a, <2>17, <3>1, <3>2, <3>3 DEF CloseWrite, TypeOK
    <3> QED BY <3>4, <3>5
  <2>18. CASE GcKeep(t)
    <3>1. handle' \in [Handles -> pkg_handle]
      BY <1>a, <2>a, <2>18, ConstantTypes DEF GcKeep, HasHandle, HasPath, pkg_handle
    <3>2. loc' \in [Threads -> Locals]
      <4>1. NextNode(loc[t].cur) \in Nat
        BY <2>a, <2>18, NextNodeType, ListTypes DEF GcKeep
      <4> QED BY <4>1, <2>18, LocalsAssign DEF GcKeep
    <3>3. pc' \in [Threads -> Labels]
      BY <1>a, <2>18 DEF GcKeep, Labels
    <3>4. LocalsOK' /\ NodesOK'
      <4>1. NextNode(loc[t].cur) \in 0 .. Len(nodes)
        BY <2>a, <2>18, NextNodeType, ListTypes DEF GcKeep
      <4> QED BY <1>a, <2>18, <4>1, ListTypes DEF GcKeep, LocalsOK, LocalOK, NodesOK, Locals
    <3>5. TypeOK'
      BY <2>a, <2>18, <3>1, <3>2, <3>3 DEF GcKeep, TypeOK
    <3> QED BY <3>4, <3>5
  <2>19. CASE GcChoose(t)
    <3>1. handle' \in [Handles -> pkg_handle]
      BY <1>a, <2>a, <2>19, ConstantTypes DEF GcChoose, HasHandle, HasPath, pkg_handle
    <3>2. loc' \in [Threads -> Locals]
      <4>1. /\ NextNode(loc[t].cur) \in Nat
            /\ nodes[loc[t].cur].data \in Handles
        BY <2>a, <2>19, NextNodeType, ListTypes DEF GcChoose
      <4> QED BY <1>a, <2>a, <2>19, <4>1, LocalsUpdate DEF GcChoose, Locals
    <3>3. pc' \in [Threads -> Labels]
      BY <1>a, <2>19 DEF GcChoose, Labels
    <3>4. LocalsOK' /\ NodesOK'
      <4>1. /\ NextNode(loc[t].cur) \in 0 .. Len(nodes)
            /\ nodes[loc[t].cur].data \in Handles
        BY <2>a, <2>19, NextNodeType, ListTypes DEF GcChoose
      <4> QED BY <1>a, <2>a, <2>19, <4>1, ListTypes DEF GcChoose, LocalsOK, LocalOK, NodesOK, HasPath, HasHandle, Locals
    <3>5. TypeOK'
      BY <2>a, <2>19, <3>1, <3>2, <3>3 DEF GcChoose, TypeOK
    <3> QED BY <3>4, <3>5
  <2>20. CASE ReleaseClear(t)
    <3>1. handle' \in [Handles -> pkg_handle]
      BY <1>a, <2>a, <2>20, ConstantTypes DEF ReleaseClear, HasHandle, HasPath, pkg_handle
    <3>2. loc' \in [Threads -> Locals]
      BY <1>a, <2>a, <2>20, HandleTypes, ListTypes, ConstantTypes, LocalsUpdate DEF ReleaseClear, HasHandle
    <3>3. pc' \in [Threads -> Labels]
      BY <1>a, <2>20 DEF ReleaseClear, Labels
    <3>4. LocalsOK' /\ NodesOK'
      BY <1>a, <2>a, <2>20, ListTypes DEF ReleaseClear, LocalsOK, LocalOK, NodesOK, HasPath, HasHandle, NoLocals, Locals
    <3>5. TypeOK'
      BY <2>a, <2>20, <3>1, <3>2, <3>3 DEF ReleaseClear, TypeOK
    <3> QED BY <3>4, <3>5
  <2>21. CASE ReleaseUnlink(t)
    <3>1. handle' \in [Handles -> pkg_handle]
      BY <1>a, <2>a, <2>21, ConstantTypes DEF ReleaseUnlink, HasHandle, HasPath, pkg_handle
    <3>2. loc' \in [Threads -> Locals]
      BY <1>a, <2>a, <2>21, HandleTypes, ListTypes, ConstantTypes, LocalsUpdate DEF ReleaseUnlink, HasHandle
    <3>3. pc' \in [Threads -> Labels]
      BY <1>a, <2>21 DEF ReleaseUnlink, Labels
    <3>4. LocalsOK' /\ NodesOK'
      <4>1. \/ UNCHANGED <<nodes, linked>>
            \/ /\ nodes' \in Seq(dlink_node) /\ Len(nodes') = Len(nodes)
               /\ \A m \in 1 .. Len(nodes) : nodes'[m].next <= Len(nodes)
               /\ linked' \subseteq linked
        BY <2>21, UnlinkStep DEF ReleaseUnlink
      <4> QED BY <1>a, <2>a, <2>21, <4>1, ListTypes DEF ReleaseUnlink, LocalsOK, LocalOK, NodesOK, HasPath, HasHandle, Locals
    <3>5. TypeOK'
      <4>1. nodes' \in Seq(dlink_node) /\ linked' \subseteq 1 .. Len(nodes')
        BY <2>21, UnlinkStep, ListTypes DEF ReleaseUnlink
      <4>2. inUse' \subseteq Handles
        BY <2>21 DEF ReleaseUnlink, TypeOK
      <4> QED BY <2>21, <3>1, <3>2, <3>3, <4>1, <4>2 DEF ReleaseUnlink, TypeOK
    <3> QED BY <3>4, <3>5
  <2>22. CASE GcEnd(t)
    <3>1. handle' \in [Handles -> pkg_handle]
      BY <1>a, <2>a, <2>22, ConstantTypes DEF GcEnd, HasHandle, HasPath, pkg_handle
    <3>2. loc' \in [Threads -> Locals]
      BY <1>a, <2>a, <2>22, HandleTypes, ListTypes, ConstantTypes, LocalsUpdate DEF GcEnd, HasHandle
    <3>3. pc' \in [Threads -> Labels]
      BY <1>a, <2>22 DEF GcEnd, Labels
    <3>4. LocalsOK' /\ NodesOK'
      BY <1>a, <2>a, <2>22, ListTypes DEF GcEnd, LocalsOK, LocalOK, NodesOK, HasPath, HasHandle, NoLocals, Locals
    <3>5. TypeOK'
      BY <2>a, <2>22, <3>1, <3>2, <3>3 DEF GcEnd, TypeOK
    <3> QED BY <3>4, <3>5
  <2>23. CASE ReturnNull(t)
    <3>1. handle' \in [Handles -> pkg_handle]
      BY <1>a, <2>a, <2>23, ConstantTypes DEF ReturnNull, HasHandle, HasPath, pkg_handle
    <3>2. loc' \in [Threads -> Locals]
      BY <1>a, <2>a, <2>23, HandleTypes, ListTypes, ConstantTypes, LocalsUpdate DEF ReturnNull, HasHandle
    <3>3. pc' \in [Threads -> Labels]
      BY <1>a, <2>23 DEF ReturnNull, Labels
    <3>4. LocalsOK' /\ NodesOK'
      BY <1>a, <2>a, <2>23, ListTypes DEF ReturnNull, LocalsOK, LocalOK, NodesOK, HasPath, HasHandle, NoLocals, Locals
    <3>5. TypeOK'
      BY <2>a, <2>23, <3>1, <3>2, <3>3 DEF ReturnNull, TypeOK
    <3> QED BY <3>4, <3>5
  <2> QED BY <1>1, <2>1, <2>2, <2>3, <2>4, <2>5, <2>6, <2>7, <2>8, <2>9, <2>10, <2>11, <2>12, <2>13, <2>14, <2>15, <2>16, <2>17, <2>18, <2>19, <2>20, <2>21, <2>22, <2>23 DEF Step
<1>2. ASSUME NEW t \in Threads, GcStart(t) PROVE TypeInv'
  <2>1. First(linked) \in 0 .. Len(nodes) /\ First(linked) \in Nat
    BY FirstType, ListTypes
  <2>2. loc' \in [Threads -> Locals]
    BY <1>a, <1>2, <2>1, ConstantTypes, LocalsUpdate DEF GcStart
  <2>3. pc' \in [Threads -> Labels]
    BY <1>a, <1>2 DEF GcStart, Labels
  <2>4. LocalsOK' /\ NodesOK'
    BY <1>a, <1>2, <2>1, ListTypes
       DEF GcStart, LocalsOK, LocalOK, NodesOK, HasPath, HasHandle, NoLocals, Locals
  <2>5. TypeOK'
    BY <1>2, <2>2, <2>3 DEF GcStart, TypeOK
  <2> QED BY <2>4, <2>5
<1>3. ASSUME NEW t \in Threads, NEW h \in Handles, CloseRead(t, h) PROVE TypeInv'
  <2>1. handle[h].refcnt \in Int
    BY HandleTypes
  <2>2. loc' \in [Threads -> Locals]
    BY <1>a, <1>3, <2>1, ConstantTypes, LocalsUpdate DEF CloseRead, Locals
  <2>3. pc' \in [Threads -> Labels]
    BY <1>a, <1>3 DEF CloseRead, Labels
  <2>4. LocalsOK' /\ NodesOK'
    BY <1>a, <1>3, <2>1, ListTypes
       DEF CloseRead, LocalsOK, LocalOK, NodesOK, HasPath, HasHandle, NoLocals, Locals
  <2>5. TypeOK'
    BY <1>3, <2>2, <2>3 DEF CloseRead, TypeOK
  <2> QED BY <2>4, <2>5
<1>4. ASSUME NEW t \in Openers, NEW p \in Packages, Open(t, p) PROVE TypeInv'
  <2>a. t \in Threads
    BY ThreadsAssumption
  <2>1. CASE LookupHit(t, p)
    <3> DEFINE n == pkg_handle_byname(p)
    <3>1. n \in 1 .. Len(nodes)
      <4>1. n \in 0 .. Len(nodes)
        BY FirstType, ListTypes,
           {m \in linked : NameAt(m) \in {p, NoName}} \subseteq 1 .. Len(nodes)
           DEF pkg_handle_byname
      <4> QED BY <2>1, <4>1, ListTypes DEF LookupHit
    <3>2. nodes[n].data \in Handles
      BY <3>1, ListTypes
    <3>3. loc' = [loc EXCEPT ![t] = [NoLocals EXCEPT !.path = p, !.h = nodes[n].data]]
      BY <2>1 DEF LookupHit
    <3> HIDE DEF n
    <3>4. loc' \in [Threads -> Locals]
      BY <1>a, <2>a, <3>2, <3>3, ConstantTypes DEF Locals
    <3>5. pc' \in [Threads -> Labels]
      BY <1>a, <2>1 DEF LookupHit, Labels
    <3>6. LocalsOK' /\ NodesOK'
      <4>1. ASSUME NEW s \in Threads PROVE LocalOK(s)'
        <5>1. CASE s = t
          <6>1. loc'[s].h = nodes[n].data /\ loc'[s].cur = 0
            BY <1>a, <2>a, <3>3, <5>1 DEF NoLocals
          <6>2. pc'[s] = "bump" /\ nodes' = nodes
            BY <1>a, <2>a, <2>1, <5>1 DEF LookupHit, Lookup
          <6> QED BY <6>1, <6>2, <3>2, ListTypes DEF LocalOK, HasPath, HasHandle
        <5>2. CASE s # t
          BY <1>a, <2>1, <3>3, <5>2 DEF LookupHit, Lookup, LocalsOK, LocalOK
        <5> QED BY <5>1, <5>2
      <4>2. NodesOK'
        BY <2>1 DEF LookupHit, Lookup, NodesOK
      <4> QED BY <4>1, <4>2 DEF LocalsOK
    <3>7. TypeOK'
      BY <2>1, <3>4, <3>5 DEF LookupHit, Lookup, TypeOK
    <3> QED BY <3>6, <3>7
  <2>2. CASE LookupMiss(t, p)
    <3>1. loc' \in [Threads -> Locals]
      BY <1>a, <2>a, <2>2, ConstantTypes, LocalsUpdate DEF LookupMiss
    <3>2. pc' \in [Threads -> Labels]
      BY <1>a, <2>2 DEF LookupMiss, Labels
    <3>3. LocalsOK' /\ NodesOK'
      BY <1>a, <2>a, <2>2, ListTypes
         DEF LookupMiss, Lookup, LocalsOK, LocalOK, NodesOK, HasPath, HasHandle, NoLocals, Locals
    <3>4. TypeOK'
      BY <2>2, <3>1, <3>2 DEF LookupMiss, Lookup, TypeOK
    <3> QED BY <3>3, <3>4
  <2>3. CASE LookupFault(t, p)
    <3>1. LocalsOK' /\ NodesOK'
      BY <2>3 DEF LookupFault, Lookup, LocalsOK, LocalOK, NodesOK, HasPath, HasHandle
    <3>2. pc' \in [Threads -> Labels]
      BY <2>3 DEF LookupFault, Labels
    <3>3. opens' \in Nat
      BY <2>3 DEF LookupFault, Lookup, TypeOK
    <3>4. TypeOK'
      BY <2>3, <3>2, <3>3 DEF LookupFault, Lookup, TypeOK
    <3> QED BY <3>1, <3>4
  <2> QED BY <1>4, <2>1, <2>2, <2>3 DEF Open
<1>5. CASE Tick
  <2>1. LocalsOK' /\ NodesOK'
    BY <1>5 DEF Tick, LocalsOK, LocalOK, NodesOK
  <2>2. now' \in Nat
    BY <1>a, <1>5 DEF Tick
  <2>3. TypeOK'
    BY <1>5, <2>2 DEF Tick, TypeOK
  <2> QED BY <2>1, <2>3
<1>6. CASE UNCHANGED vars
  BY <1>6 DEF vars, TypeOK, LocalsOK, LocalOK, NodesOK
<1> QED BY <1>1, <1>2, <1>3, <1>4, <1>5, <1>6 DEF Next

\* The variables of the cache keep the types of their C declarations, whatever
\* the threads do and whichever operation fails.
THEOREM TypeCorrect == Spec => []TypeOK
<1>1. TypeInv => TypeOK
  BY DEF TypeInv
<1> QED BY <1>1, InitTypeInv, NextTypeInv, PTL DEF Spec

-----------------------------------------------------------------------------
(* Safety of the transaction lock, when no header is corrupt *)

\* Whoever is between db_begin and db_commit has the lock, and is alone there.
LockInv ==
    /\ \A t \in Threads : Importing(t) => db_locked
    /\ DbMutualExclusion

\* Every step keeps the lock invariant.
LEMMA NextLockInv ==
    ASSUME Corrupt = {}, TypeInv, LockInv, [Next]_vars
    PROVE  LockInv'
<1> USE DEF LockInv, DbMutualExclusion, Importing, Goto, Return, Fail
<1>a. pc \in [Threads -> Labels]
  BY DEF TypeInv, TypeOK
<1>1. ASSUME NEW t \in Threads, Step(t) PROVE LockInv'
  <2>1. CASE db_begin(t)
    BY <1>a, <2>1 DEF db_begin
  <2>2. CASE Alloc(t)
    BY <1>a, <2>2 DEF Alloc
  <2>3. CASE StatFails(t)
    BY <1>a, <2>3 DEF StatFails
  <2>4. CASE NumberRead(t)
    BY <1>a, <2>4 DEF NumberRead
  <2>5. CASE NumberWrite(t)
    BY <1>a, <2>5 DEF NumberWrite
  <2>6. CASE OpenFile(t)
    BY <1>a, <2>6 DEF OpenFile
  <2>7. CASE OpenFails(t)
    BY <1>a, <2>7 DEF OpenFails
  <2>8. CASE Link(t)
    BY <1>a, <2>8 DEF Link
  <2>9. CASE ArchiveOpens(t)
    BY <1>a, <2>9 DEF ArchiveOpens
  <2>10. CASE ArchiveFails(t)
    BY <1>a, <2>10 DEF ArchiveFails
  <2>11. CASE ScanEntry(t)
    BY <1>a, <2>11 DEF ScanEntry, vfs_add_path
  <2>12. CASE ScanEnd(t)
    BY <1>a, <2>12 DEF ScanEnd
  <2>13. CASE ScanError(t)
    BY <1>a, <2>13 DEF ScanError
  <2>14. CASE db_commit(t)
    BY <1>a, <2>14 DEF db_commit
  <2>15. CASE Bump(t)
    BY <1>a, <2>15 DEF Bump
  <2>16. CASE Bumped(t)
    BY <1>a, <2>16 DEF Bumped
  <2>17. CASE CloseWrite(t)
    BY <1>a, <2>17 DEF CloseWrite
  <2>18. CASE GcKeep(t)
    BY <1>a, <2>18 DEF GcKeep
  <2>19. CASE GcChoose(t)
    BY <1>a, <2>19 DEF GcChoose
  <2>20. CASE ReleaseClear(t)
    BY <1>a, <2>20 DEF ReleaseClear
  <2>21. CASE ReleaseUnlink(t)
    BY <1>a, <2>21 DEF ReleaseUnlink
  <2>22. CASE GcEnd(t)
    BY <1>a, <2>22 DEF GcEnd
  <2>23. CASE ReturnNull(t)
    BY <1>a, <2>23 DEF ReturnNull
  <2> QED BY <1>1, <2>1, <2>2, <2>3, <2>4, <2>5, <2>6, <2>7, <2>8, <2>9, <2>10, <2>11, <2>12, <2>13, <2>14, <2>15, <2>16, <2>17, <2>18, <2>19, <2>20, <2>21, <2>22, <2>23 DEF Step
<1>2. ASSUME NEW t \in Threads, GcStart(t) PROVE LockInv'
  BY <1>a, <1>2 DEF GcStart
<1>3. ASSUME NEW t \in Threads, NEW h \in Handles, CloseRead(t, h) PROVE LockInv'
  BY <1>a, <1>3 DEF CloseRead
<1>4. ASSUME NEW t \in Openers, NEW p \in Packages, Open(t, p) PROVE LockInv'
  <2>1. CASE LookupHit(t, p)
    BY <1>a, <2>1 DEF LookupHit, Lookup
  <2>2. CASE LookupMiss(t, p)
    BY <1>a, <2>2 DEF LookupMiss, Lookup
  <2>3. CASE LookupFault(t, p)
    BY <1>a, <2>3 DEF LookupFault, Lookup
  <2> QED BY <1>4, <2>1, <2>2, <2>3 DEF Open
<1>5. CASE Tick
  BY <1>5 DEF Tick
<1>6. CASE UNCHANGED vars
  BY <1>6 DEF vars
<1> QED BY <1>1, <1>2, <1>3, <1>4, <1>5, <1>6 DEF Next

\* Labels at which the number of the handle, if it got one, is that of its package.
Numbered == {"open", "link", "archive", "scan"}

\* Package numbers: none is above the counter, no two handles share one, and
\* the entries already in the view under the number of an import are its own.
NumbersInv ==
    /\ g_pkgid >= 1
    /\ \A h \in Handles : handle[h].pkgid <= g_pkgid
    /\ \A t \in Threads : pc[t] = "number" => loc[t].reg = g_pkgid
    /\ \A g, h \in Handles :
          handle[g].pkgid >= 1 /\ handle[g].pkgid = handle[h].pkgid => g = h
    /\ \A e \in view : e.pkgid <= g_pkgid
    /\ \A t \in Threads, e \in view :
          pc[t] \in Numbered /\ handle[loc[t].h].pkgid = e.pkgid => e.pkg = loc[t].path
    /\ \A e \in view : e.pkgid >= 1
    /\ ViewAttribution

\* A step that gives out no number and stores no entry.
LEMMA NumbersFrame ==
    ASSUME TypeInv, NumbersInv, g_pkgid' = g_pkgid, view' = view,
           \A h \in Handles : \/ handle'[h].pkgid = handle[h].pkgid
                              \/ handle'[h].pkgid \in {0, -1},
           \A s \in Threads : pc'[s] = "number" =>
               pc[s] = "number" /\ loc'[s].reg = loc[s].reg,
           \A s \in Threads : pc'[s] \in Numbered =>
               /\ loc'[s].h = loc[s].h /\ loc'[s].path = loc[s].path /\ loc[s].h \in Handles
               /\ pc[s] \in Numbered \/ handle'[loc[s].h].pkgid \in {0, -1}
    PROVE  NumbersInv'
<1>1. \A h \in Handles : handle[h].pkgid \in Int
  BY HandleTypes DEF TypeInv
<1>2. g_pkgid \in Nat /\ \A e \in view : e.pkgid \in Nat
  BY DEF TypeInv, TypeOK, Entry
<1>3. g_pkgid' >= 1 /\ \A h \in Handles : handle'[h].pkgid <= g_pkgid'
  BY <1>1, <1>2 DEF NumbersInv
<1>4. \A t \in Threads : pc'[t] = "number" => loc'[t].reg = g_pkgid'
  BY DEF NumbersInv
<1>5. \A g, h \in Handles :
         handle'[g].pkgid >= 1 /\ handle'[g].pkgid = handle'[h].pkgid => g = h
  BY <1>1 DEF NumbersInv
<1>6. \A t \in Threads, e \in view' :
         pc'[t] \in Numbered /\ handle'[loc'[t].h].pkgid = e.pkgid => e.pkg = loc'[t].path
  <2> SUFFICES ASSUME NEW t \in Threads, NEW e \in view,
                      pc'[t] \in Numbered, handle'[loc[t].h].pkgid = e.pkgid
               PROVE  e.pkg = loc[t].path
    OBVIOUS
  <2>1. e.pkgid \in Nat /\ e.pkgid >= 1
    BY <1>2 DEF NumbersInv
  <2>2. pc[t] \in Numbered /\ handle[loc[t].h].pkgid = e.pkgid
    BY <2>1
  <2> QED BY <2>2 DEF NumbersInv
<1> QED BY <1>3, <1>4, <1>5, <1>6 DEF NumbersInv, ViewAttribution

\* Every step keeps the invariant on package numbers.
LEMMA NextNumbersInv ==
    ASSUME TypeInv, LockInv, NumbersInv, [Next]_vars
    PROVE  NumbersInv'
<1> USE DEF Goto, Return, Fail
<1>a. /\ handle \in [Handles -> pkg_handle] /\ loc \in [Threads -> Locals]
      /\ pc \in [Threads -> Labels] /\ g_pkgid \in Nat
  BY DEF TypeInv, TypeOK
<1>b. \A s \in Threads : pc[s] \in Numbered => loc[s].h \in Handles
  BY LocalTypes DEF Numbered, HasHandle
<1>1. ASSUME NEW t \in Threads, Step(t) PROVE NumbersInv'
  <2>a. /\ loc[t] \in Locals
        /\ pc[t] \in HasPath => loc[t].path \in Packages
        /\ pc[t] \in HasHandle => loc[t].h \in Handles
    BY LocalTypes
  <2>1. CASE db_begin(t)
    <3>1. \A h \in Handles : \/ handle'[h].pkgid = handle[h].pkgid
                             \/ handle'[h].pkgid \in {0, -1}
      BY <1>a, <2>a, <2>1 DEF db_begin, HasHandle, pkg_handle, ZeroHandle
    <3>2. \A s \in Threads : pc'[s] = "number" =>
              pc[s] = "number" /\ loc'[s].reg = loc[s].reg
      BY <1>a, <2>1 DEF db_begin
    <3>3. \A s \in Threads : pc'[s] \in Numbered =>
              /\ loc'[s].h = loc[s].h /\ loc'[s].path = loc[s].path /\ loc[s].h \in Handles
              /\ pc[s] \in Numbered \/ handle'[loc[s].h].pkgid \in {0, -1}
      BY <1>a, <1>b, <2>a, <2>1 DEF db_begin, Numbered, HasHandle
    <3> QED BY <2>1, <3>1, <3>2, <3>3, NumbersFrame DEF db_begin
  <2>2. CASE Alloc(t)
    <3>1. \A h \in Handles : \/ handle'[h].pkgid = handle[h].pkgid
                             \/ handle'[h].pkgid \in {0, -1}
      BY <1>a, <2>a, <2>2 DEF Alloc, HasHandle, pkg_handle, ZeroHandle
    <3>2. \A s \in Threads : pc'[s] = "number" =>
              pc[s] = "number" /\ loc'[s].reg = loc[s].reg
      BY <1>a, <2>2 DEF Alloc
    <3>3. \A s \in Threads : pc'[s] \in Numbered =>
              /\ loc'[s].h = loc[s].h /\ loc'[s].path = loc[s].path /\ loc[s].h \in Handles
              /\ pc[s] \in Numbered \/ handle'[loc[s].h].pkgid \in {0, -1}
      BY <1>a, <1>b, <2>a, <2>2 DEF Alloc, Numbered, HasHandle
    <3> QED BY <2>2, <3>1, <3>2, <3>3, NumbersFrame DEF Alloc
  <2>3. CASE StatFails(t)
    <3>1. \A h \in Handles : \/ handle'[h].pkgid = handle[h].pkgid
                             \/ handle'[h].pkgid \in {0, -1}
      BY <1>a, <2>a, <2>3 DEF StatFails, HasHandle, pkg_handle, ZeroHandle
    <3>2. \A s \in Threads : pc'[s] = "number" =>
              pc[s] = "number" /\ loc'[s].reg = loc[s].reg
      BY <1>a, <2>3 DEF StatFails
    <3>3. \A s \in Threads : pc'[s] \in Numbered =>
              /\ loc'[s].h = loc[s].h /\ loc'[s].path = loc[s].path /\ loc[s].h \in Handles
              /\ pc[s] \in Numbered \/ handle'[loc[s].h].pkgid \in {0, -1}
      BY <1>a, <1>b, <2>a, <2>3 DEF StatFails, Numbered, HasHandle
    <3> QED BY <2>3, <3>1, <3>2, <3>3, NumbersFrame DEF StatFails
  <2>4. CASE NumberRead(t)
    <3>1. handle' = handle /\ g_pkgid' = g_pkgid /\ view' = view
      BY <2>4 DEF NumberRead
    <3>2. \A s \in Threads : pc'[s] = "number" => loc'[s].reg = g_pkgid
      BY <1>a, <2>a, <2>4 DEF NumberRead, NumbersInv, Locals
    <3>3. \A s \in Threads : pc'[s] \in Numbered =>
              pc[s] \in Numbered /\ loc'[s].h = loc[s].h /\ loc'[s].path = loc[s].path
      BY <1>a, <2>a, <2>4 DEF NumberRead, Numbered, Locals
    <3> QED BY <3>1, <3>2, <3>3 DEF NumbersInv, ViewAttribution
  <2>5. CASE NumberWrite(t)
    <3>1. /\ loc[t].reg = g_pkgid /\ g_pkgid' = g_pkgid + 1 /\ view' = view /\ loc' = loc
          /\ loc[t].h \in Handles
      BY <2>a, <2>5 DEF NumberWrite, NumbersInv, HasHandle
    <3>2. \A h \in Handles : handle'[h].pkgid =
              IF h = loc[t].h THEN g_pkgid + 1 ELSE handle[h].pkgid
      BY <1>a, <2>5, <3>1 DEF NumberWrite, pkg_handle
    <3>3. \A h \in Handles : handle[h].pkgid \in Int /\ handle[h].pkgid <= g_pkgid
      BY HandleTypes DEF NumbersInv, TypeInv
    <3>4. \A e \in view : e.pkgid \in Nat /\ e.pkgid <= g_pkgid /\ e.pkgid >= 1
      BY DEF NumbersInv, TypeInv, TypeOK, Entry
    <3>5. \A s \in Threads : pc'[s] \in Numbered \cup {"number"} => s = t /\ pc'[s] = "open"
      BY <1>a, <2>5 DEF NumberWrite, Numbered, LockInv, DbMutualExclusion, Importing
    <3>6. /\ g_pkgid' >= 1 /\ \A h \in Handles : handle'[h].pkgid <= g_pkgid'
          /\ \A e \in view' : e.pkgid <= g_pkgid' /\ e.pkgid >= 1
      BY <1>a, <3>1, <3>2, <3>3, <3>4
    <3>7. \A g, h \in Handles :
             handle'[g].pkgid >= 1 /\ handle'[g].pkgid = handle'[h].pkgid => g = h
      BY <1>a, <3>1, <3>2, <3>3 DEF NumbersInv
    <3>8. \A s \in Threads, e \in view' :
             pc'[s] \in Numbered /\ handle'[loc'[s].h].pkgid = e.pkgid => e.pkg = loc'[s].path
      BY <1>a, <3>1, <3>2, <3>4, <3>5
    <3>9. \A s \in Threads : pc'[s] = "number" => loc'[s].reg = g_pkgid'
      BY <3>5
    <3> QED BY <3>1, <3>6, <3>7, <3>8, <3>9 DEF NumbersInv, ViewAttribution
  <2>6. CASE OpenFile(t)
    <3>1. \A h \in Handles : \/ handle'[h].pkgid = handle[h].pkgid
                             \/ handle'[h].pkgid \in {0, -1}
      BY <1>a, <2>a, <2>6 DEF OpenFile, HasHandle, pkg_handle, ZeroHandle
    <3>2. \A s \in Threads : pc'[s] = "number" =>
              pc[s] = "number" /\ loc'[s].reg = loc[s].reg
      BY <1>a, <2>6 DEF OpenFile
    <3>3. \A s \in Threads : pc'[s] \in Numbered =>
              /\ loc'[s].h = loc[s].h /\ loc'[s].path = loc[s].path /\ loc[s].h \in Handles
              /\ pc[s] \in Numbered \/ handle'[loc[s].h].pkgid \in {0, -1}
      BY <1>a, <1>b, <2>a, <2>6 DEF OpenFile, Numbered, HasHandle
    <3> QED BY <2>6, <3>1, <3>2, <3>3, NumbersFrame DEF OpenFile
  <2>7. CASE OpenFails(t)
    <3>1. \A h \in Handles : \/ handle'[h].pkgid = handle[h].pkgid
                             \/ handle'[h].pkgid \in {0, -1}
      BY <1>a, <2>a, <2>7 DEF OpenFails, HasHandle, pkg_handle, ZeroHandle
    <3>2. \A s \in Threads : pc'[s] = "number" =>
              pc[s] = "number" /\ loc'[s].reg = loc[s].reg
      BY <1>a, <2>7 DEF OpenFails
    <3>3. \A s \in Threads : pc'[s] \in Numbered =>
              /\ loc'[s].h = loc[s].h /\ loc'[s].path = loc[s].path /\ loc[s].h \in Handles
              /\ pc[s] \in Numbered \/ handle'[loc[s].h].pkgid \in {0, -1}
      BY <1>a, <1>b, <2>a, <2>7 DEF OpenFails, Numbered, HasHandle
    <3> QED BY <2>7, <3>1, <3>2, <3>3, NumbersFrame DEF OpenFails
  <2>8. CASE Link(t)
    <3>1. \A h \in Handles : \/ handle'[h].pkgid = handle[h].pkgid
                             \/ handle'[h].pkgid \in {0, -1}
      BY <1>a, <2>a, <2>8 DEF Link, HasHandle, pkg_handle, ZeroHandle
    <3>2. \A s \in Threads : pc'[s] = "number" =>
              pc[s] = "number" /\ loc'[s].reg = loc[s].reg
      BY <1>a, <2>8 DEF Link
    <3>3. \A s \in Threads : pc'[s] \in Numbered =>
              /\ loc'[s].h = loc[s].h /\ loc'[s].path = loc[s].path /\ loc[s].h \in Handles
              /\ pc[s] \in Numbered \/ handle'[loc[s].h].pkgid \in {0, -1}
      BY <1>a, <1>b, <2>a, <2>8 DEF Link, Numbered, HasHandle
    <3> QED BY <2>8, <3>1, <3>2, <3>3, NumbersFrame DEF Link
  <2>9. CASE ArchiveOpens(t)
    <3>1. \A h \in Handles : \/ handle'[h].pkgid = handle[h].pkgid
                             \/ handle'[h].pkgid \in {0, -1}
      BY <1>a, <2>a, <2>9 DEF ArchiveOpens, HasHandle, pkg_handle, ZeroHandle
    <3>2. \A s \in Threads : pc'[s] = "number" =>
              pc[s] = "number" /\ loc'[s].reg = loc[s].reg
      BY <1>a, <2>9 DEF ArchiveOpens
    <3>3. \A s \in Threads : pc'[s] \in Numbered =>
              /\ loc'[s].h = loc[s].h /\ loc'[s].path = loc[s].path /\ loc[s].h \in Handles
              /\ pc[s] \in Numbered \/ handle'[loc[s].h].pkgid \in {0, -1}
      BY <1>a, <1>b, <2>a, <2>9 DEF ArchiveOpens, Numbered, HasHandle
    <3> QED BY <2>9, <3>1, <3>2, <3>3, NumbersFrame DEF ArchiveOpens
  <2>10. CASE ArchiveFails(t)
    <3>1. \A h \in Handles : \/ handle'[h].pkgid = handle[h].pkgid
                             \/ handle'[h].pkgid \in {0, -1}
      BY <1>a, <2>a, <2>10 DEF ArchiveFails, HasHandle, pkg_handle, ZeroHandle
    <3>2. \A s \in Threads : pc'[s] = "number" =>
              pc[s] = "number" /\ loc'[s].reg = loc[s].reg
      BY <1>a, <2>10 DEF ArchiveFails
    <3>3. \A s \in Threads : pc'[s] \in Numbered =>
              /\ loc'[s].h = loc[s].h /\ loc'[s].path = loc[s].path /\ loc[s].h \in Handles
              /\ pc[s] \in Numbered \/ handle'[loc[s].h].pkgid \in {0, -1}
      BY <1>a, <1>b, <2>a, <2>10 DEF ArchiveFails, Numbered, HasHandle
    <3> QED BY <2>10, <3>1, <3>2, <3>3, NumbersFrame DEF ArchiveFails
  <2>11. CASE ScanEntry(t)
    <3> DEFINE id == handle[loc[t].h].pkgid
               new == [pkgid |-> id, pkg |-> loc[t].path, file |-> loc[t].hdr + 1]
    <3>1. /\ handle' = handle /\ g_pkgid' = g_pkgid /\ pc' = pc /\ pc[t] = "scan"
          /\ view' \subseteq view \cup {new} /\ (id < 1 => view' = view)
      BY <2>11 DEF ScanEntry, vfs_add_path
    <3>2. \A s \in Threads : /\ loc'[s].h = loc[s].h /\ loc'[s].path = loc[s].path
                            /\ loc'[s].reg = loc[s].reg
      BY <1>a, <2>a, <2>11 DEF ScanEntry, vfs_add_path, Locals
    <3>3. id \in Int /\ id <= g_pkgid
      BY <1>b, <3>1, HandleTypes DEF NumbersInv, TypeInv, Numbered
    <3>4. \A e \in view' : e \in view \/ (e = new /\ id >= 1)
      BY <3>1, <3>3
    <3>5. \A e \in view : e.pkgid = id => e.pkg = loc[t].path
      BY <3>1 DEF NumbersInv, Numbered
    <3>6. \A s \in Threads : pc[s] \in Numbered => s = t
      BY <3>1 DEF LockInv, DbMutualExclusion, Importing, Numbered
    <3>7. new.pkgid = id /\ new.pkg = loc[t].path
      OBVIOUS
    <3> HIDE DEF new
    <3>8. \A e \in view' : e.pkgid >= 1 /\ e.pkgid <= g_pkgid
      BY <3>3, <3>4, <3>7 DEF NumbersInv
    <3>9. \A d, e \in view' : d.pkgid = e.pkgid => d.pkg = e.pkg
      BY <3>4, <3>5, <3>7 DEF NumbersInv, ViewAttribution
    <3>10. \A s \in Threads, e \in view' :
              pc'[s] \in Numbered /\ handle'[loc'[s].h].pkgid = e.pkgid => e.pkg = loc'[s].path
      BY <3>1, <3>2, <3>4, <3>5, <3>6, <3>7
    <3> QED BY <3>1, <3>2, <3>8, <3>9, <3>10 DEF NumbersInv, ViewAttribution
  <2>12. CASE ScanEnd(t)
    <3>1. \A h \in Handles : \/ handle'[h].pkgid = handle[h].pkgid
                             \/ handle'[h].pkgid \in {0, -1}
      BY <1>a, <2>a, <2>12 DEF ScanEnd, HasHandle, pkg_handle, ZeroHandle
    <3>2. \A s \in Threads : pc'[s] = "number" =>
              pc[s] = "number" /\ loc'[s].reg = loc[s].reg
      BY <1>a, <2>12 DEF ScanEnd
    <3>3. \A s \in Threads : pc'[s] \in Numbered =>
              /\ loc'[s].h = loc[s].h /\ loc'[s].path = loc[s].path /\ loc[s].h \in Handles
              /\ pc[s] \in Numbered \/ handle'[loc[s].h].pkgid \in {0, -1}
      BY <1>a, <1>b, <2>a, <2>12 DEF ScanEnd, Numbered, HasHandle
    <3> QED BY <2>12, <3>1, <3>2, <3>3, NumbersFrame DEF ScanEnd
  <2>13. CASE ScanError(t)
    <3>1. \A h \in Handles : \/ handle'[h].pkgid = handle[h].pkgid
                             \/ handle'[h].pkgid \in {0, -1}
      BY <1>a, <2>a, <2>13 DEF ScanError, HasHandle, pkg_handle, ZeroHandle
    <3>2. \A s \in Threads : pc'[s] = "number" =>
              pc[s] = "number" /\ loc'[s].reg = loc[s].reg
      BY <1>a, <2>13 DEF ScanError
    <3>3. \A s \in Threads : pc'[s] \in Numbered =>
              /\ loc'[s].h = loc[s].h /\ loc'[s].path = loc[s].path /\ loc[s].h \in Handles
              /\ pc[s] \in Numbered \/ handle'[loc[s].h].pkgid \in {0, -1}
      BY <1>a, <1>b, <2>a, <2>13 DEF ScanError, Numbered, HasHandle
    <3> QED BY <2>13, <3>1, <3>2, <3>3, NumbersFrame DEF ScanError
  <2>14. CASE db_commit(t)
    <3>1. \A h \in Handles : \/ handle'[h].pkgid = handle[h].pkgid
                             \/ handle'[h].pkgid \in {0, -1}
      BY <1>a, <2>a, <2>14 DEF db_commit, HasHandle, pkg_handle, ZeroHandle
    <3>2. \A s \in Threads : pc'[s] = "number" =>
              pc[s] = "number" /\ loc'[s].reg = loc[s].reg
      BY <1>a, <2>14 DEF db_commit
    <3>3. \A s \in Threads : pc'[s] \in Numbered =>
              /\ loc'[s].h = loc[s].h /\ loc'[s].path = loc[s].path /\ loc[s].h \in Handles
              /\ pc[s] \in Numbered \/ handle'[loc[s].h].pkgid \in {0, -1}
      BY <1>a, <1>b, <2>a, <2>14 DEF db_commit, Numbered, HasHandle
    <3> QED BY <2>14, <3>1, <3>2, <3>3, NumbersFrame DEF db_commit
  <2>15. CASE Bump(t)
    <3>1. \A h \in Handles : \/ handle'[h].pkgid = handle[h].pkgid
                             \/ handle'[h].pkgid \in {0, -1}
      BY <1>a, <2>a, <2>15 DEF Bump, HasHandle, pkg_handle, ZeroHandle
    <3>2. \A s \in Threads : pc'[s] = "number" =>
              pc[s] = "number" /\ loc'[s].reg = loc[s].reg
      BY <1>a, <2>15 DEF Bump
    <3>3. \A s \in Threads : pc'[s] \in Numbered =>
              /\ loc'[s].h = loc[s].h /\ loc'[s].path = loc[s].path /\ loc[s].h \in Handles
              /\ pc[s] \in Numbered \/ handle'[loc[s].h].pkgid \in {0, -1}
      BY <1>a, <1>b, <2>a, <2>15 DEF Bump, Numbered, HasHandle
    <3> QED BY <2>15, <3>1, <3>2, <3>3, NumbersFrame DEF Bump
  <2>16. CASE Bumped(t)
    <3>1. \A h \in Handles : \/ handle'[h].pkgid = handle[h].pkgid
                             \/ handle'[h].pkgid \in {0, -1}
      BY <1>a, <2>a, <2>16 DEF Bumped, HasHandle, pkg_handle, ZeroHandle
    <3>2. \A s \in Threads : pc'[s] = "number" =>
              pc[s] = "number" /\ loc'[s].reg = loc[s].reg
      BY <1>a, <2>16 DEF Bumped
    <3>3. \A s \in Threads : pc'[s] \in Numbered =>
              /\ loc'[s].h = loc[s].h /\ loc'[s].path = loc[s].path /\ loc[s].h \in Handles
              /\ pc[s] \in Numbered \/ handle'[loc[s].h].pkgid \in {0, -1}
      BY <1>a, <1>b, <2>a, <2>16 DEF Bumped, Numbered, HasHandle
    <3> QED BY <2>16, <3>1, <3>2, <3>3, NumbersFrame DEF Bumped
  <2>17. CASE CloseWrite(t)
    <3>1. \A h \in Handles : \/ handle'[h].pkgid = handle[h].pkgid
                             \/ handle'[h].pkgid \in {0, -1}
      BY <1>a, <2>a, <2>17 DEF CloseWrite, HasHandle, pkg_handle, ZeroHandle
    <3>2. \A s \in Threads : pc'[s] = "number" =>
              pc[s] = "number" /\ loc'[s].reg = loc[s].reg
      BY <1>a, <2>17 DEF CloseWrite
    <3>3. \A s \in Threads : pc'[s] \in Numbered =>
              /\ loc'[s].h = loc[s].h /\ loc'[s].path = loc[s].path /\ loc[s].h \in Handles
              /\ pc[s] \in Numbered \/ handle'[loc[s].h].pkgid \in {0, -1}
      BY <1>a, <1>b, <2>a, <2>17 DEF CloseWrite, Numbered, HasHandle
    <3> QED BY <2>17, <3>1, <3>2, <3>3, NumbersFrame DEF CloseWrite
  <2>18. CASE GcKeep(t)
    <3>1. \A h \in Handles : \/ handle'[h].pkgid = handle[h].pkgid
                             \/ handle'[h].pkgid \in {0, -1}
      BY <1>a, <2>a, <2>18 DEF GcKeep, HasHandle, pkg_handle, ZeroHandle
    <3>2. \A s \in Threads : pc'[s] = "number" =>
              pc[s] = "number" /\ loc'[s].reg = loc[s].reg
      BY <1>a, <2>18 DEF GcKeep
    <3>3. \A s \in Threads : pc'[s] \in Numbered =>
              /\ loc'[s].h = loc[s].h /\ loc'[s].path = loc[s].path /\ loc[s].h \in Handles
              /\ pc[s] \in Numbered \/ handle'[loc[s].h].pkgid \in {0, -1}
      BY <1>a, <1>b, <2>a, <2>18 DEF GcKeep, Numbered, HasHandle
    <3> QED BY <2>18, <3>1, <3>2, <3>3, NumbersFrame DEF GcKeep
  <2>19. CASE GcChoose(t)
    <3>1. \A h \in Handles : \/ handle'[h].pkgid = handle[h].pkgid
                             \/ handle'[h].pkgid \in {0, -1}
      BY <1>a, <2>a, <2>19 DEF GcChoose, HasHandle, pkg_handle, ZeroHandle
    <3>2. \A s \in Threads : pc'[s] = "number" =>
              pc[s] = "number" /\ loc'[s].reg = loc[s].reg
      BY <1>a, <2>19 DEF GcChoose
    <3>3. \A s \in Threads : pc'[s] \in Numbered =>
              /\ loc'[s].h = loc[s].h /\ loc'[s].path = loc[s].path /\ loc[s].h \in Handles
              /\ pc[s] \in Numbered \/ handle'[loc[s].h].pkgid \in {0, -1}
      BY <1>a, <1>b, <2>a, <2>19 DEF GcChoose, Numbered, HasHandle
    <3> QED BY <2>19, <3>1, <3>2, <3>3, NumbersFrame DEF GcChoose
  <2>20. CASE ReleaseClear(t)
    <3>1. \A h \in Handles : \/ handle'[h].pkgid = handle[h].pkgid
                             \/ handle'[h].pkgid \in {0, -1}
      BY <1>a, <2>a, <2>20 DEF ReleaseClear, HasHandle, pkg_handle, ZeroHandle
    <3>2. \A s \in Threads : pc'[s] = "number" =>
              pc[s] = "number" /\ loc'[s].reg = loc[s].reg
      BY <1>a, <2>20 DEF ReleaseClear
    <3>3. \A s \in Threads : pc'[s] \in Numbered =>
              /\ loc'[s].h = loc[s].h /\ loc'[s].path = loc[s].path /\ loc[s].h \in Handles
              /\ pc[s] \in Numbered \/ handle'[loc[s].h].pkgid \in {0, -1}
      BY <1>a, <1>b, <2>a, <2>20 DEF ReleaseClear, Numbered, HasHandle
    <3> QED BY <2>20, <3>1, <3>2, <3>3, NumbersFrame DEF ReleaseClear
  <2>21. CASE ReleaseUnlink(t)
    <3>1. \A h \in Handles : \/ handle'[h].pkgid = handle[h].pkgid
                             \/ handle'[h].pkgid \in {0, -1}
      BY <1>a, <2>a, <2>21 DEF ReleaseUnlink, HasHandle, pkg_handle, ZeroHandle
    <3>2. \A s \in Threads : pc'[s] = "number" =>
              pc[s] = "number" /\ loc'[s].reg = loc[s].reg
      BY <1>a, <2>21 DEF ReleaseUnlink
    <3>3. \A s \in Threads : pc'[s] \in Numbered =>
              /\ loc'[s].h = loc[s].h /\ loc'[s].path = loc[s].path /\ loc[s].h \in Handles
              /\ pc[s] \in Numbered \/ handle'[loc[s].h].pkgid \in {0, -1}
      BY <1>a, <1>b, <2>a, <2>21 DEF ReleaseUnlink, Numbered, HasHandle
    <3> QED BY <2>21, <3>1, <3>2, <3>3, NumbersFrame DEF ReleaseUnlink
  <2>22. CASE GcEnd(t)
    <3>1. \A h \in Handles : \/ handle'[h].pkgid = handle[h].pkgid
                             \/ handle'[h].pkgid \in {0, -1}
      BY <1>a, <2>a, <2>22 DEF GcEnd, HasHandle, pkg_handle, ZeroHandle
    <3>2. \A s \in Threads : pc'[s] = "number" =>
              pc[s] = "number" /\ loc'[s].reg = loc[s].reg
      BY <1>a, <2>22 DEF GcEnd
    <3>3. \A s \in Threads : pc'[s] \in Numbered =>
              /\ loc'[s].h = loc[s].h /\ loc'[s].path = loc[s].path /\ loc[s].h \in Handles
              /\ pc[s] \in Numbered \/ handle'[loc[s].h].pkgid \in {0, -1}
      BY <1>a, <1>b, <2>a, <2>22 DEF GcEnd, Numbered, HasHandle
    <3> QED BY <2>22, <3>1, <3>2, <3>3, NumbersFrame DEF GcEnd
  <2>23. CASE ReturnNull(t)
    <3>1. \A h \in Handles : \/ handle'[h].pkgid = handle[h].pkgid
                             \/ handle'[h].pkgid \in {0, -1}
      BY <1>a, <2>a, <2>23 DEF ReturnNull, HasHandle, pkg_handle, ZeroHandle
    <3>2. \A s \in Threads : pc'[s] = "number" =>
              pc[s] = "number" /\ loc'[s].reg = loc[s].reg
      BY <1>a, <2>23 DEF ReturnNull
    <3>3. \A s \in Threads : pc'[s] \in Numbered =>
              /\ loc'[s].h = loc[s].h /\ loc'[s].path = loc[s].path /\ loc[s].h \in Handles
              /\ pc[s] \in Numbered \/ handle'[loc[s].h].pkgid \in {0, -1}
      BY <1>a, <1>b, <2>a, <2>23 DEF ReturnNull, Numbered, HasHandle
    <3> QED BY <2>23, <3>1, <3>2, <3>3, NumbersFrame DEF ReturnNull
  <2> QED BY <1>1, <2>1, <2>2, <2>3, <2>4, <2>5, <2>6, <2>7, <2>8, <2>9, <2>10, <2>11, <2>12, <2>13, <2>14, <2>15, <2>16, <2>17, <2>18, <2>19, <2>20, <2>21, <2>22, <2>23 DEF Step
<1>2. ASSUME NEW t \in Threads, GcStart(t) PROVE NumbersInv'
  <2>1. \A s \in Threads : pc'[s] \in Numbered \cup {"number"} =>
            pc'[s] = pc[s] /\ loc'[s] = loc[s]
    BY <1>a, <1>2 DEF GcStart, Numbered
  <2> QED BY <1>2, <1>b, <2>1, NumbersFrame DEF GcStart
<1>3. ASSUME NEW t \in Threads, NEW h \in Handles, CloseRead(t, h) PROVE NumbersInv'
  <2>1. \A s \in Threads : pc'[s] \in Numbered \cup {"number"} =>
            pc'[s] = pc[s] /\ loc'[s] = loc[s]
    BY <1>a, <1>3 DEF CloseRead, Numbered
  <2> QED BY <1>3, <1>b, <2>1, NumbersFrame DEF CloseRead
<1>4. ASSUME NEW t \in Openers, NEW p \in Packages, Open(t, p) PROVE NumbersInv'
  <2>1. \A s \in Threads : pc'[s] \in Numbered \cup {"number"} =>
            pc'[s] = pc[s] /\ loc'[s] = loc[s]
    <3>1. CASE LookupHit(t, p)
      BY <1>a, <3>1 DEF LookupHit, Numbered
    <3>2. CASE LookupMiss(t, p)
      BY <1>a, <3>2 DEF LookupMiss, Numbered
    <3>3. CASE LookupFault(t, p)
      BY <3>3 DEF LookupFault, Numbered
    <3> QED BY <1>4, <3>1, <3>2, <3>3 DEF Open
  <2>2. handle' = handle /\ g_pkgid' = g_pkgid /\ view' = view
    BY <1>4 DEF Open, LookupHit, LookupMiss, LookupFault, Lookup
  <2> QED BY <1>b, <2>1, <2>2, NumbersFrame
<1>5. CASE Tick
  BY <1>5, <1>b, NumbersFrame DEF Tick
<1>6. CASE UNCHANGED vars
  BY <1>6, <1>b, NumbersFrame DEF vars
<1> QED BY <1>1, <1>2, <1>3, <1>4, <1>5, <1>6 DEF Next

\* Both invariants hold at first.
LEMMA InitSafe == Init => LockInv /\ NumbersInv
<1> SUFFICES ASSUME Init PROVE LockInv /\ NumbersInv
  OBVIOUS
<1>1. LockInv
  BY DEF Init, LockInv, DbMutualExclusion, Importing
<1>2. NumbersInv
  BY DEF Init, NumbersInv, ViewAttribution, ZeroHandle, Numbered
<1> QED BY <1>1, <1>2

\* If every header can be read, pkg_open's transactions exclude one another,
\* for any number of threads and whatever else fails or is collected.
THEOREM MutualExclusion ==
    ASSUME Corrupt = {} PROVE Spec => []DbMutualExclusion
<1>1. LockInv => DbMutualExclusion
  BY DEF LockInv
<1>2. TypeInv /\ LockInv /\ [Next]_vars => LockInv'
  BY NextLockInv
<1> QED BY <1>1, <1>2, InitSafe, InitTypeInv, NextTypeInv, PTL DEF Spec

\* If every header can be read, no two handles in use share a package number.
THEOREM PkgIdsUnique ==
    ASSUME Corrupt = {} PROVE Spec => []UniquePkgIds
<1>1. TypeInv /\ NumbersInv => UniquePkgIds
  BY DEF NumbersInv, UniquePkgIds, TypeInv, TypeOK
<1>2. TypeInv /\ LockInv /\ [Next]_vars => LockInv'
  BY NextLockInv
<1>3. TypeInv /\ LockInv /\ NumbersInv /\ [Next]_vars => NumbersInv'
  BY NextNumbersInv
<1> QED BY <1>1, <1>2, <1>3, InitSafe, InitTypeInv, NextTypeInv, PTL DEF Spec

\* If every header can be read, all entries of the view that carry one number
\* come from one package, even when a collector releases the handle of an
\* import that is still running.
THEOREM EntriesAttributed ==
    ASSUME Corrupt = {} PROVE Spec => []ViewAttribution
<1>1. NumbersInv => ViewAttribution
  BY DEF NumbersInv
<1>2. TypeInv /\ LockInv /\ [Next]_vars => LockInv'
  BY NextLockInv
<1>3. TypeInv /\ LockInv /\ NumbersInv /\ [Next]_vars => NumbersInv'
  BY NextNumbersInv
<1> QED BY <1>1, <1>2, <1>3, InitSafe, InitTypeInv, NextTypeInv, PTL DEF Spec

-----------------------------------------------------------------------------
(* The cache with one thread: what pkg_open, pkg_close and pkg_gc promise when
   calls do not overlap.  Any package may fail in any way. *)

Serial == \A s, t \in Threads : s = t

\* Listed handles are allocated, and listed once.
ListedOnce ==
    /\ \A n \in linked : nodes[n].data \in inUse
    /\ \A m, n \in linked : nodes[m].data = nodes[n].data => m = n

\* A name is listed once, and none is missing but in pkg_release.
NamedOnce ==
    /\ \A m, n \in linked : NameAt(m) = NameAt(n) /\ NameAt(m) # NoName => m = n
    /\ \A n \in linked : NameAt(n) = NoName =>
          \E t \in Threads : pc[t] = "unlink" /\ loc[t].h = nodes[n].data

Unlisted(p) == \A n \in linked : NameAt(n) # p

\* pkg_open on its way: the path is not listed before Link, its handle is after.
ImportInv(t) ==
    /\ pc[t] \in {"begin", "alloc", "stat", "number", "open", "link"} => Unlisted(loc[t].path)
    /\ pc[t] \in {"begin", "alloc"} => loc[t].h = NoHandle
    /\ pc[t] \in {"stat", "number", "open", "link"} =>
          loc[t].h \in inUse /\ ~Linked(loc[t].h) /\ handle[loc[t].h].name = loc[t].path
    /\ pc[t] \in {"archive", "scan", "commit"} =>
          Linked(loc[t].h) /\ handle[loc[t].h].name = loc[t].path
    /\ pc[t] \in {"bump", "bumped"} => Linked(loc[t].h)

\* refcnt counts the references held, and the one that pkg_close gives back;
\* nobody holds the handle of a running import.
CountInv(t) ==
    /\ \A h \in Handles : handle[h].refcnt =
          held[t][h] + IF pc[t] = "close" /\ loc[t].h = h THEN 1 ELSE 0
    /\ pc[t] \in {"bumped", "close"} => loc[t].reg = handle[loc[t].h].refcnt
    /\ pc[t] \in {"clear", "unlink"} => handle[loc[t].h].refcnt = 0
    /\ \A h \in Handles : held[t][h] > 0 => Linked(h)
    /\ pc[t] \in {"archive", "scan"} => held[t][loc[t].h] = 0

\* The first k entries of the package of a handle are in the view.
Complete(h, k) ==
    \A i \in 1 .. k :
        [pkgid |-> handle[h].pkgid, pkg |-> handle[h].name, file |-> i] \in view

\* A clean package is complete unless its import is running, and then it is
\* complete up to the header that was read last.
EntryInv(t) ==
    /\ pc[t] \in {"begin", "alloc", "stat", "number", "open", "link", "archive"} =>
          loc[t].hdr = 0
    /\ pc[t] \in {"open", "link", "archive", "scan"} /\ loc[t].path \in Clean =>
          handle[loc[t].h].pkgid >= 1
    /\ pc[t] = "scan" /\ loc[t].path \in Clean => Complete(loc[t].h, loc[t].hdr)
    /\ \A n \in linked :
          NameAt(n) \in Clean /\ ~ (pc[t] \in {"archive", "scan"} /\ loc[t].h = nodes[n].data)
          => Complete(nodes[n].data, Files[NameAt(n)])

SerialInv ==
    /\ ListedOnce /\ NamedOnce
    /\ \A t \in Threads : ImportInv(t) /\ CountInv(t) /\ EntryInv(t)

\* A step of the thread inside a function of the cache keeps the invariant.
LEMMA StepSerialInv ==
    ASSUME Serial, TypeInv, SerialInv, NEW t \in Threads, Step(t)
    PROVE  SerialInv'
<1> USE DEF Goto, Return, Fail
<1>a. /\ handle \in [Handles -> pkg_handle] /\ loc \in [Threads -> Locals]
      /\ pc \in [Threads -> Labels] /\ held \in [Threads -> [Handles -> Nat]]
      /\ inUse \subseteq Handles /\ loc[t] \in Locals
  BY DEF TypeInv, TypeOK
<1>b. \A s \in Threads : s = t
  BY DEF Serial
<1>c. /\ pc[t] \in HasPath => loc[t].path \in Packages
      /\ pc[t] \in HasHandle => loc[t].h \in Handles
      /\ loc[t].hdr \in Nat /\ loc[t].reg \in Int /\ (pc[t] = "number" => loc[t].reg \in Nat)
  BY LocalTypes
<1>d. \A n \in linked : n \in 1 .. Len(nodes) /\ nodes[n].data \in Handles
  BY ListTypes DEF TypeInv
<1>e. ListedOnce /\ NamedOnce /\ ImportInv(t) /\ CountInv(t) /\ EntryInv(t)
  BY DEF SerialInv
<1>f. ASSUME ListedOnce', NamedOnce', ImportInv(t)', CountInv(t)', EntryInv(t)' PROVE SerialInv'
  BY <1>b, <1>f DEF SerialInv
<1>1. CASE db_begin(t)
  <2>a. pc[t] = "begin" /\ pc'[t] = "alloc" /\ UNCHANGED <<handle, inUse, nodes, linked, view, held, loc>>
    BY <1>a, <1>1 DEF db_begin
  <2>1. ListedOnce'
    BY <1>b, <1>c, <1>d, <1>e, <2>a DEF ListedOnce, HasHandle, HasPath
  <2>2. NamedOnce'
    BY <1>b, <1>c, <1>d, <1>e, <2>a DEF NamedOnce, NameAt, HasHandle, HasPath
  <2>3. ImportInv(t)'
    BY <1>b, <1>c, <1>d, <1>e, <2>a DEF ImportInv, Unlisted, Linked, NameAt, HasHandle, HasPath
  <2>4. CountInv(t)'
    BY <1>b, <1>c, <1>d, <1>e, <2>a DEF CountInv, Linked, HasHandle, HasPath
  <2>5. EntryInv(t)'
    BY <1>b, <1>c, <1>d, <1>e, <2>a DEF EntryInv, Complete, NameAt, ImportInv, Linked, HasHandle, HasPath
  <2> QED BY <1>f, <2>1, <2>2, <2>3, <2>4, <2>5
<1>2. CASE Alloc(t)
  <2>a. PICK h \in Handles \ inUse :
          /\ inUse' = inUse \cup {h} /\ handle'[h].name = loc[t].path /\ handle'[h].refcnt = 0
          /\ \A g \in Handles \ {h} : handle'[g] = handle[g]
          /\ loc'[t].h = h /\ loc'[t].path = loc[t].path /\ loc'[t].hdr = loc[t].hdr
          /\ pc[t] = "alloc" /\ pc'[t] = "stat" /\ loc[t].path # NoName
          /\ nodes' = nodes /\ linked' = linked /\ held' = held /\ view' = view
    BY <1>a, <1>c, <1>2, NamesAssumption DEF Alloc, Locals, ZeroHandle, HasPath
  <2>1. ListedOnce'
    BY <1>b, <1>c, <1>d, <1>e, <2>a DEF ListedOnce, HasHandle, HasPath
  <2>2. NamedOnce'
    BY <1>b, <1>c, <1>d, <1>e, <2>a DEF ListedOnce, NamedOnce, NameAt, HasHandle, HasPath
  <2>3. ImportInv(t)'
    BY <1>b, <1>c, <1>d, <1>e, <2>a DEF ListedOnce, ImportInv, Unlisted, Linked, NameAt, HasHandle, HasPath
  <2>4. CountInv(t)'
    <3>1. \A g \in Handles : held[t][g] \in Nat
      BY <1>a
    <3>2. held[t][h] = 0
      BY <1>d, <1>e, <2>a, <3>1 DEF CountInv, ListedOnce, Linked
    <3>3. \A g \in Handles : handle'[g].refcnt = held[t][g]
      BY <1>e, <2>a, <3>1, <3>2 DEF CountInv
    <3>4. \A g \in Handles : held'[t][g] > 0 => Linked(g)'
      BY <1>e, <2>a DEF CountInv, Linked
    <3> QED BY <2>a, <3>1, <3>3, <3>4 DEF CountInv
  <2>5. EntryInv(t)'
    BY <1>b, <1>c, <1>d, <1>e, <2>a DEF ListedOnce, EntryInv, Complete, NameAt, HasHandle, HasPath
  <2> QED BY <1>f, <2>1, <2>2, <2>3, <2>4, <2>5
<1>3. CASE StatFails(t)
  <2>a. /\ \A g \in Handles : handle'[g].name = handle[g].name /\ handle'[g].refcnt = handle[g].refcnt
        /\ \A g \in Handles \ {loc[t].h} : handle'[g].pkgid = handle[g].pkgid
        /\ pc[t] = "stat" /\ pc'[t] = "open" /\ loc[t].path \notin Clean
        /\ UNCHANGED <<inUse, nodes, linked, view, held, loc>>
    BY <1>a, <1>c, <1>3 DEF StatFails, pkg_handle, Clean, HasHandle
  <2>1. ListedOnce'
    BY <1>b, <1>c, <1>d, <1>e, <2>a DEF ListedOnce, HasHandle, HasPath
  <2>2. NamedOnce'
    BY <1>b, <1>c, <1>d, <1>e, <2>a DEF NamedOnce, NameAt, HasHandle, HasPath
  <2>3. ImportInv(t)'
    BY <1>b, <1>c, <1>d, <1>e, <2>a DEF ImportInv, Unlisted, Linked, NameAt, HasHandle, HasPath
  <2>4. CountInv(t)'
    BY <1>b, <1>c, <1>d, <1>e, <2>a DEF CountInv, Linked, HasHandle, HasPath
  <2>5. EntryInv(t)'
    BY <1>b, <1>c, <1>d, <1>e, <2>a DEF EntryInv, Complete, NameAt, ImportInv, Linked, HasHandle, HasPath
  <2> QED BY <1>f, <2>1, <2>2, <2>3, <2>4, <2>5
<1>4. CASE NumberRead(t)
  <2>a. /\ pc[t] = "stat" /\ pc'[t] = "number"
        /\ loc'[t].path = loc[t].path /\ loc'[t].h = loc[t].h /\ loc'[t].hdr = loc[t].hdr
        /\ UNCHANGED <<handle, inUse, nodes, linked, view, held>>
    BY <1>a, <1>4 DEF NumberRead, Locals
  <2>1. ListedOnce'
    BY <1>b, <1>c, <1>d, <1>e, <2>a DEF ListedOnce, HasHandle, HasPath
  <2>2. NamedOnce'
    BY <1>b, <1>c, <1>d, <1>e, <2>a DEF NamedOnce, NameAt, HasHandle, HasPath
  <2>3. ImportInv(t)'
    BY <1>b, <1>c, <1>d, <1>e, <2>a DEF ImportInv, Unlisted, Linked, NameAt, HasHandle, HasPath
  <2>4. CountInv(t)'
    BY <1>b, <1>c, <1>d, <1>e, <2>a DEF CountInv, Linked, HasHandle, HasPath
  <2>5. EntryInv(t)'
    BY <1>b, <1>c, <1>d, <1>e, <2>a DEF EntryInv, Complete, NameAt, ImportInv, Linked, HasHandle, HasPath
  <2> QED BY <1>f, <2>1, <2>2, <2>3, <2>4, <2>5
<1>5. CASE NumberWrite(t)
  <2>a. /\ \A g \in Handles : handle'[g].name = handle[g].name /\ handle'[g].refcnt = handle[g].refcnt
        /\ \A g \in Handles \ {loc[t].h} : handle'[g].pkgid = handle[g].pkgid
        /\ handle'[loc[t].h].pkgid >= 1
        /\ pc[t] = "number" /\ pc'[t] = "open"
        /\ UNCHANGED <<inUse, nodes, linked, view, held, loc>>
    BY <1>a, <1>c, <1>5 DEF NumberWrite, pkg_handle, HasHandle
  <2>1. ListedOnce'
    BY <1>b, <1>c, <1>d, <1>e, <2>a DEF ListedOnce, HasHandle, HasPath
  <2>2. NamedOnce'
    BY <1>b, <1>c, <1>d, <1>e, <2>a DEF NamedOnce, NameAt, HasHandle, HasPath
  <2>3. ImportInv(t)'
    BY <1>b, <1>c, <1>d, <1>e, <2>a DEF ImportInv, Unlisted, Linked, NameAt, HasHandle, HasPath
  <2>4. CountInv(t)'
    BY <1>b, <1>c, <1>d, <1>e, <2>a DEF CountInv, Linked, HasHandle, HasPath
  <2>5. EntryInv(t)'
    BY <1>b, <1>c, <1>d, <1>e, <2>a DEF EntryInv, Complete, NameAt, ImportInv, Linked, HasHandle, HasPath
  <2> QED BY <1>f, <2>1, <2>2, <2>3, <2>4, <2>5
<1>6. CASE OpenFile(t)
  <2>a. /\ \A g \in Handles : /\ handle'[g].name = handle[g].name
                             /\ handle'[g].pkgid = handle[g].pkgid
                             /\ handle'[g].refcnt = handle[g].refcnt
        /\ pc[t] = "open" /\ pc'[t] = "link"
        /\ UNCHANGED <<inUse, nodes, linked, view, held, loc>>
    BY <1>a, <1>c, <1>6 DEF OpenFile, pkg_handle, HasHandle
  <2>1. ListedOnce'
    BY <1>b, <1>c, <1>d, <1>e, <2>a DEF ListedOnce, HasHandle, HasPath
  <2>2. NamedOnce'
    BY <1>b, <1>c, <1>d, <1>e, <2>a DEF NamedOnce, NameAt, HasHandle, HasPath
  <2>3. ImportInv(t)'
    BY <1>b, <1>c, <1>d, <1>e, <2>a DEF ImportInv, Unlisted, Linked, NameAt, HasHandle, HasPath
  <2>4. CountInv(t)'
    BY <1>b, <1>c, <1>d, <1>e, <2>a DEF CountInv, Linked, HasHandle, HasPath
  <2>5. EntryInv(t)'
    BY <1>b, <1>c, <1>d, <1>e, <2>a DEF EntryInv, Complete, NameAt, ImportInv, Linked, HasHandle, HasPath
  <2> QED BY <1>f, <2>1, <2>2, <2>3, <2>4, <2>5
<1>7. CASE OpenFails(t)
  <2>a. /\ \A g \in Handles : handle'[g].pkgid = handle[g].pkgid /\ handle'[g].refcnt = handle[g].refcnt
        /\ \A g \in Handles \ {loc[t].h} : handle'[g].name = handle[g].name
        /\ pc[t] = "open" /\ pc'[t] = "failed"
        /\ UNCHANGED <<inUse, nodes, linked, view, held>>
    BY <1>a, <1>c, <1>7 DEF OpenFails, pkg_handle, HasHandle
  <2>1. ListedOnce'
    BY <1>b, <1>c, <1>d, <1>e, <2>a DEF ListedOnce, HasHandle, HasPath
  <2>2. NamedOnce'
    BY <1>b, <1>c, <1>d, <1>e, <2>a DEF NamedOnce, NameAt, ImportInv, Linked, HasHandle, HasPath
  <2>3. ImportInv(t)'
    BY <1>b, <1>c, <1>d, <1>e, <2>a DEF ImportInv, Unlisted, Linked, NameAt, HasHandle, HasPath
  <2>4. CountInv(t)'
    BY <1>b, <1>c, <1>d, <1>e, <2>a DEF CountInv, Linked, HasHandle, HasPath
  <2>5. EntryInv(t)'
    BY <1>b, <1>c, <1>d, <1>e, <2>a DEF EntryInv, Complete, NameAt, ImportInv, Linked, HasHandle, HasPath
  <2> QED BY <1>f, <2>1, <2>2, <2>3, <2>4, <2>5
<1>8. CASE Link(t)
  <2>a. /\ \A n \in linked : nodes'[n] = nodes[n]
        /\ \E n : n \notin linked /\ linked' = linked \cup {n} /\ nodes'[n].data = loc[t].h
        /\ pc[t] = "link" /\ pc'[t] = "archive" /\ loc[t].path # NoName
        /\ UNCHANGED <<handle, inUse, view, held, loc>>
    BY <1>a, <1>c, <1>8, <1>d, ListTypes, NamesAssumption DEF Link, HasPath, TypeInv
  <2>1. ListedOnce'
    BY <1>b, <1>c, <1>d, <1>e, <2>a DEF ListedOnce, ImportInv, Linked, HasHandle, HasPath
  <2>2. NamedOnce'
    BY <1>b, <1>c, <1>d, <1>e, <2>a DEF NamedOnce, NameAt, ImportInv, Unlisted, HasHandle, HasPath
  <2>3. ImportInv(t)'
    BY <1>b, <1>c, <1>d, <1>e, <2>a DEF ImportInv, Unlisted, Linked, NameAt, HasHandle, HasPath
  <2>4. CountInv(t)'
    <3>1. held[t][loc[t].h] \in Nat /\ held[t][loc[t].h] = 0
      BY <1>a, <1>c, <1>e, <2>a DEF CountInv, ImportInv, HasHandle
    <3> QED BY <1>d, <1>e, <2>a, <3>1 DEF CountInv, Linked
  <2>5. EntryInv(t)'
    BY <1>b, <1>c, <1>d, <1>e, <2>a DEF EntryInv, Complete, NameAt, ImportInv, Linked, HasHandle, HasPath
  <2> QED BY <1>f, <2>1, <2>2, <2>3, <2>4, <2>5
<1>9. CASE ArchiveOpens(t)
  <2>a. pc[t] = "archive" /\ pc'[t] = "scan" /\ UNCHANGED <<handle, inUse, nodes, linked, view, held, loc>>
    BY <1>a, <1>9 DEF ArchiveOpens
  <2>1. ListedOnce'
    BY <1>b, <1>c, <1>d, <1>e, <2>a DEF ListedOnce, HasHandle, HasPath
  <2>2. NamedOnce'
    BY <1>b, <1>c, <1>d, <1>e, <2>a DEF NamedOnce, NameAt, HasHandle, HasPath
  <2>3. ImportInv(t)'
    BY <1>b, <1>c, <1>d, <1>e, <2>a DEF ImportInv, Unlisted, Linked, NameAt, HasHandle, HasPath
  <2>4. CountInv(t)'
    BY <1>b, <1>c, <1>d, <1>e, <2>a DEF CountInv, Linked, HasHandle, HasPath
  <2>5. EntryInv(t)'
    BY <1>b, <1>c, <1>d, <1>e, <2>a DEF EntryInv, Complete, NameAt, ImportInv, Linked, HasHandle, HasPath
  <2> QED BY <1>f, <2>1, <2>2, <2>3, <2>4, <2>5
<1>10. CASE ArchiveFails(t)
  <2>a. /\ pc[t] = "archive" /\ pc'[t] = "failed" /\ loc[t].path \notin Clean
        /\ UNCHANGED <<handle, inUse, nodes, linked, view, held>>
    BY <1>a, <1>10 DEF ArchiveFails, Clean
  <2>1. ListedOnce'
    BY <1>b, <1>c, <1>d, <1>e, <2>a DEF ListedOnce, HasHandle, HasPath
  <2>2. NamedOnce'
    BY <1>b, <1>c, <1>d, <1>e, <2>a DEF NamedOnce, NameAt, HasHandle, HasPath
  <2>3. ImportInv(t)'
    BY <1>b, <1>c, <1>d, <1>e, <2>a DEF ImportInv, Unlisted, Linked, NameAt, HasHandle, HasPath
  <2>4. CountInv(t)'
    BY <1>b, <1>c, <1>d, <1>e, <2>a DEF CountInv, Linked, HasHandle, HasPath
  <2>5. EntryInv(t)'
    BY <1>b, <1>c, <1>d, <1>e, <2>a DEF EntryInv, Complete, NameAt, ImportInv, Linked, HasHandle, HasPath
  <2> QED BY <1>f, <2>1, <2>2, <2>3, <2>4, <2>5
<1>11. CASE ScanEntry(t)
  <2>a. /\ pc[t] = "scan" /\ pc' = pc /\ loc'[t].hdr = loc[t].hdr + 1
        /\ loc'[t].h = loc[t].h /\ loc'[t].path = loc[t].path
        /\ view \subseteq view'
        /\ handle[loc[t].h].pkgid >= 1 =>
              [pkgid |-> handle[loc[t].h].pkgid, pkg |-> loc[t].path, file |-> loc[t].hdr + 1] \in view'
        /\ UNCHANGED <<handle, inUse, nodes, linked, held>>
    BY <1>a, <1>c, <1>11, HandleTypes DEF ScanEntry, vfs_add_path, Locals, HasHandle, TypeInv
  <2>1. ListedOnce'
    BY <1>b, <1>c, <1>d, <1>e, <2>a DEF ListedOnce, HasHandle, HasPath
  <2>2. NamedOnce'
    BY <1>b, <1>c, <1>d, <1>e, <2>a DEF NamedOnce, NameAt, HasHandle, HasPath
  <2>3. ImportInv(t)'
    BY <1>b, <1>c, <1>d, <1>e, <2>a DEF ImportInv, Unlisted, Linked, NameAt, HasHandle, HasPath
  <2>4. CountInv(t)'
    BY <1>b, <1>c, <1>d, <1>e, <2>a DEF CountInv, Linked, HasHandle, HasPath
  <2>5. EntryInv(t)'
    <3>1. loc[t].path \in Clean => \A i \in 1 .. loc[t].hdr + 1 :
              [pkgid |-> handle[loc[t].h].pkgid, pkg |-> loc[t].path, file |-> i] \in view'
      <4> SUFFICES ASSUME loc[t].path \in Clean, NEW i \in 1 .. loc[t].hdr + 1
                   PROVE  [pkgid |-> handle[loc[t].h].pkgid, pkg |-> loc[t].path, file |-> i] \in view'
        OBVIOUS
      <4>1. CASE i = loc[t].hdr + 1
        BY <1>e, <2>a, <4>1 DEF EntryInv
      <4>2. CASE i # loc[t].hdr + 1
        <5>1. i \in 1 .. loc[t].hdr
          BY <1>c, <4>2
        <5> QED BY <1>e, <2>a, <5>1 DEF EntryInv, Complete, ImportInv
      <4> QED BY <4>1, <4>2
    <3>2. \A n \in linked : NameAt(n) \in Clean /\ loc[t].h # nodes[n].data
              => Complete(nodes[n].data, Files[NameAt(n)])'
      BY <1>e, <2>a DEF EntryInv, Complete, NameAt
    <3>3. loc'[t].path \in Clean => Complete(loc[t].h, loc[t].hdr)'
      BY <1>e, <2>a, <3>1 DEF Complete, ImportInv
    <3> QED BY <1>e, <2>a, <3>2, <3>3 DEF EntryInv, NameAt
  <2> QED BY <1>f, <2>1, <2>2, <2>3, <2>4, <2>5
<1>12. CASE ScanEnd(t)
  <2>a. /\ pc[t] = "scan" /\ pc'[t] = "commit" /\ loc[t].hdr = Files[loc[t].path]
        /\ UNCHANGED <<handle, inUse, nodes, linked, view, held, loc>>
    BY <1>a, <1>12 DEF ScanEnd, Clean
  <2>1. ListedOnce'
    BY <1>b, <1>c, <1>d, <1>e, <2>a DEF ListedOnce, HasHandle, HasPath
  <2>2. NamedOnce'
    BY <1>b, <1>c, <1>d, <1>e, <2>a DEF NamedOnce, NameAt, HasHandle, HasPath
  <2>3. ImportInv(t)'
    BY <1>b, <1>c, <1>d, <1>e, <2>a DEF ImportInv, Unlisted, Linked, NameAt, HasHandle, HasPath
  <2>4. CountInv(t)'
    BY <1>b, <1>c, <1>d, <1>e, <2>a DEF CountInv, Linked, HasHandle, HasPath
  <2>5. EntryInv(t)'
    BY <1>b, <1>c, <1>d, <1>e, <2>a DEF EntryInv, Complete, NameAt, ImportInv, Linked, HasHandle, HasPath
  <2> QED BY <1>f, <2>1, <2>2, <2>3, <2>4, <2>5
<1>13. CASE ScanError(t)
  <2>a. /\ pc[t] = "scan" /\ pc'[t] = "commit" /\ loc[t].path \notin Clean
        /\ UNCHANGED <<handle, inUse, nodes, linked, view, held, loc>>
    BY <1>a, <1>13 DEF ScanError, Clean
  <2>1. ListedOnce'
    BY <1>b, <1>c, <1>d, <1>e, <2>a DEF ListedOnce, HasHandle, HasPath
  <2>2. NamedOnce'
    BY <1>b, <1>c, <1>d, <1>e, <2>a DEF NamedOnce, NameAt, HasHandle, HasPath
  <2>3. ImportInv(t)'
    BY <1>b, <1>c, <1>d, <1>e, <2>a DEF ImportInv, Unlisted, Linked, NameAt, HasHandle, HasPath
  <2>4. CountInv(t)'
    BY <1>b, <1>c, <1>d, <1>e, <2>a DEF CountInv, Linked, HasHandle, HasPath
  <2>5. EntryInv(t)'
    BY <1>b, <1>c, <1>d, <1>e, <2>a DEF EntryInv, Complete, NameAt, ImportInv, Linked, HasHandle, HasPath
  <2> QED BY <1>f, <2>1, <2>2, <2>3, <2>4, <2>5
<1>14. CASE db_commit(t)
  <2>a. /\ pc[t] = "commit" /\ pc'[t] = "bump"
        /\ UNCHANGED <<handle, inUse, nodes, linked, view, held, loc>>
    BY <1>a, <1>14 DEF db_commit, Clean
  <2>1. ListedOnce'
    BY <1>b, <1>c, <1>d, <1>e, <2>a DEF ListedOnce, HasHandle, HasPath
  <2>2. NamedOnce'
    BY <1>b, <1>c, <1>d, <1>e, <2>a DEF NamedOnce, NameAt, HasHandle, HasPath
  <2>3. ImportInv(t)'
    BY <1>b, <1>c, <1>d, <1>e, <2>a DEF ImportInv, Unlisted, Linked, NameAt, HasHandle, HasPath
  <2>4. CountInv(t)'
    BY <1>b, <1>c, <1>d, <1>e, <2>a DEF CountInv, Linked, HasHandle, HasPath
  <2>5. EntryInv(t)'
    BY <1>b, <1>c, <1>d, <1>e, <2>a DEF EntryInv, Complete, NameAt, ImportInv, Linked, HasHandle, HasPath
  <2> QED BY <1>f, <2>1, <2>2, <2>3, <2>4, <2>5
<1>15. CASE Bump(t)
  <2>a. /\ \A g \in Handles : /\ handle'[g].name = handle[g].name
                             /\ handle'[g].pkgid = handle[g].pkgid
                             /\ handle'[g].refcnt = handle[g].refcnt
        /\ pc[t] = "bump" /\ pc'[t] = "bumped"
        /\ loc'[t].h = loc[t].h /\ loc'[t].reg = handle[loc[t].h].refcnt
        /\ UNCHANGED <<inUse, nodes, linked, view, held>>
    BY <1>a, <1>c, <1>15 DEF Bump, pkg_handle, Locals, HasHandle
  <2>1. ListedOnce'
    BY <1>b, <1>c, <1>d, <1>e, <2>a DEF ListedOnce, HasHandle, HasPath
  <2>2. NamedOnce'
    BY <1>b, <1>c, <1>d, <1>e, <2>a DEF NamedOnce, NameAt, HasHandle, HasPath
  <2>3. ImportInv(t)'
    BY <1>b, <1>c, <1>d, <1>e, <2>a DEF ImportInv, Unlisted, Linked, NameAt, HasHandle, HasPath
  <2>4. CountInv(t)'
    BY <1>b, <1>c, <1>d, <1>e, <2>a DEF CountInv, Linked, HasHandle, HasPath
  <2>5. EntryInv(t)'
    BY <1>b, <1>c, <1>d, <1>e, <2>a DEF EntryInv, Complete, NameAt, ImportInv, Linked, HasHandle, HasPath
  <2> QED BY <1>f, <2>1, <2>2, <2>3, <2>4, <2>5
<1>16. CASE Bumped(t)
  <2>a. /\ \A g \in Handles : /\ handle'[g].name = handle[g].name
                             /\ handle'[g].pkgid = handle[g].pkgid
        /\ \A g \in Handles : handle'[g].refcnt =
              IF g = loc[t].h THEN loc[t].reg + 1 ELSE handle[g].refcnt
        /\ \A g \in Handles : held'[t][g] =
              IF g = loc[t].h THEN held[t][g] + 1 ELSE held[t][g]
        /\ pc[t] = "bumped" /\ pc'[t] = "idle"
        /\ UNCHANGED <<inUse, nodes, linked, view>>
    BY <1>a, <1>c, <1>16 DEF Bumped, pkg_handle, HasHandle
  <2>1. ListedOnce'
    BY <1>b, <1>c, <1>d, <1>e, <2>a DEF ListedOnce, HasHandle, HasPath
  <2>2. NamedOnce'
    BY <1>b, <1>c, <1>d, <1>e, <2>a DEF NamedOnce, NameAt, HasHandle, HasPath
  <2>3. ImportInv(t)'
    BY <1>b, <1>c, <1>d, <1>e, <2>a DEF ImportInv, Unlisted, Linked, NameAt, HasHandle, HasPath
  <2>4. CountInv(t)'
    <3>1. \A g \in Handles : held[t][g] \in Nat
      BY <1>a
    <3>2. \A g \in Handles : handle'[g].refcnt = held'[t][g]
      BY <1>c, <1>e, <2>a, <3>1 DEF CountInv, HasHandle
    <3>3. \A g \in Handles : held'[t][g] > 0 => Linked(g)
      BY <1>c, <1>e, <2>a, <3>1 DEF CountInv, ImportInv, HasHandle
    <3>4. \A g \in Handles : held'[t][g] > 0 => Linked(g)'
      BY <2>a, <3>3 DEF Linked
    <3> QED BY <1>a, <2>a, <3>1, <3>2, <3>4 DEF CountInv
  <2>5. EntryInv(t)'
    BY <1>b, <1>c, <1>d, <1>e, <2>a DEF EntryInv, Complete, NameAt, ImportInv, Linked, HasHandle, HasPath
  <2> QED BY <1>f, <2>1, <2>2, <2>3, <2>4, <2>5
<1>17. CASE CloseWrite(t)
  <2>a. /\ \A g \in Handles : /\ handle'[g].name = handle[g].name
                             /\ handle'[g].pkgid = handle[g].pkgid
        /\ \A g \in Handles : handle'[g].refcnt =
              IF g = loc[t].h THEN loc[t].reg - 1 ELSE handle[g].refcnt
        /\ pc[t] = "close" /\ pc'[t] = "idle"
        /\ UNCHANGED <<inUse, nodes, linked, view, held>>
    BY <1>a, <1>c, <1>17 DEF CloseWrite, pkg_handle, HasHandle
  <2>1. ListedOnce'
    BY <1>b, <1>c, <1>d, <1>e, <2>a DEF ListedOnce, HasHandle, HasPath
  <2>2. NamedOnce'
    BY <1>b, <1>c, <1>d, <1>e, <2>a DEF NamedOnce, NameAt, HasHandle, HasPath
  <2>3. ImportInv(t)'
    BY <1>b, <1>c, <1>d, <1>e, <2>a DEF ImportInv, Unlisted, Linked, NameAt, HasHandle, HasPath
  <2>4. CountInv(t)'
    <3>1. \A g \in Handles : held[t][g] \in Nat
      BY <1>a
    <3>2. \A g \in Handles : handle'[g].refcnt = held'[t][g]
      BY <1>c, <1>e, <2>a, <3>1 DEF CountInv, HasHandle
    <3>3. \A g \in Handles : held'[t][g] > 0 => Linked(g)
      BY <1>c, <1>e, <2>a, <3>1 DEF CountInv, HasHandle
    <3>4. \A g \in Handles : held'[t][g] > 0 => Linked(g)'
      BY <2>a, <3>3 DEF Linked
    <3> QED BY <1>a, <2>a, <3>1, <3>2, <3>4 DEF CountInv
  <2>5. EntryInv(t)'
    BY <1>b, <1>c, <1>d, <1>e, <2>a DEF EntryInv, Complete, NameAt, ImportInv, Linked, HasHandle, HasPath
  <2> QED BY <1>f, <2>1, <2>2, <2>3, <2>4, <2>5
<1>18. CASE GcKeep(t)
  <2>a. pc[t] = "gc" /\ pc'[t] = "gc" /\ UNCHANGED <<handle, inUse, nodes, linked, view, held>>
    BY <1>a, <1>18 DEF GcKeep
  <2>1. ListedOnce'
    BY <1>b, <1>c, <1>d, <1>e, <2>a DEF ListedOnce, HasHandle, HasPath
  <2>2. NamedOnce'
    BY <1>b, <1>c, <1>d, <1>e, <2>a DEF NamedOnce, NameAt, HasHandle, HasPath
  <2>3. ImportInv(t)'
    BY <1>b, <1>c, <1>d, <1>e, <2>a DEF ImportInv, Unlisted, Linked, NameAt, HasHandle, HasPath
  <2>4. CountInv(t)'
    BY <1>b, <1>c, <1>d, <1>e, <2>a DEF CountInv, Linked, HasHandle, HasPath
  <2>5. EntryInv(t)'
    BY <1>b, <1>c, <1>d, <1>e, <2>a DEF EntryInv, Complete, NameAt, ImportInv, Linked, HasHandle, HasPath
  <2> QED BY <1>f, <2>1, <2>2, <2>3, <2>4, <2>5
<1>19. CASE GcChoose(t)
  <2>a. /\ pc[t] = "gc" /\ pc'[t] = "clear" /\ loc'[t].h \in Handles
        /\ handle[loc'[t].h].refcnt = 0
        /\ UNCHANGED <<handle, inUse, nodes, linked, view, held>>
    BY <1>a, <1>c, <1>19, <1>d, LocalTypes, ListTypes DEF GcChoose, Expired, Locals, TypeInv
  <2>1. ListedOnce'
    BY <1>b, <1>c, <1>d, <1>e, <2>a DEF ListedOnce, HasHandle, HasPath
  <2>2. NamedOnce'
    BY <1>b, <1>c, <1>d, <1>e, <2>a DEF NamedOnce, NameAt, HasHandle, HasPath
  <2>3. ImportInv(t)'
    BY <1>b, <1>c, <1>d, <1>e, <2>a DEF ImportInv, Unlisted, Linked, NameAt, HasHandle, HasPath
  <2>4. CountInv(t)'
    BY <1>b, <1>c, <1>d, <1>e, <2>a DEF CountInv, Linked, HasHandle, HasPath
  <2>5. EntryInv(t)'
    BY <1>b, <1>c, <1>d, <1>e, <2>a DEF EntryInv, Complete, NameAt, ImportInv, Linked, HasHandle, HasPath
  <2> QED BY <1>f, <2>1, <2>2, <2>3, <2>4, <2>5
<1>20. CASE ReleaseClear(t)
  <2>a. /\ \A g \in Handles : handle'[g].pkgid = handle[g].pkgid /\ handle'[g].refcnt = handle[g].refcnt
        /\ \A g \in Handles \ {loc[t].h} : handle'[g].name = handle[g].name
        /\ handle'[loc[t].h].name = NoName
        /\ pc[t] = "clear" /\ pc'[t] = "unlink"
        /\ UNCHANGED <<inUse, nodes, linked, view, held, loc>>
    BY <1>a, <1>c, <1>20 DEF ReleaseClear, pkg_handle, HasHandle
  <2>1. ListedOnce'
    BY <1>b, <1>c, <1>d, <1>e, <2>a, NamesAssumption DEF ListedOnce, HasHandle, HasPath
  <2>2. NamedOnce'
    BY <1>b, <1>c, <1>d, <1>e, <2>a, NamesAssumption DEF NamedOnce, NameAt, HasHandle, HasPath
  <2>3. ImportInv(t)'
    BY <1>b, <1>c, <1>d, <1>e, <2>a, NamesAssumption DEF ImportInv, Unlisted, Linked, NameAt, HasHandle, HasPath
  <2>4. CountInv(t)'
    BY <1>b, <1>c, <1>d, <1>e, <2>a, NamesAssumption DEF CountInv, Linked, HasHandle, HasPath
  <2>5. EntryInv(t)'
    BY <1>d, <1>e, <2>a, NamesAssumption DEF EntryInv, Complete, NameAt, Clean
  <2> QED BY <1>f, <2>1, <2>2, <2>3, <2>4, <2>5
<1>21. CASE ReleaseUnlink(t)
  <2> DEFINE n == First({m \in linked : nodes[m].data = loc[t].h})
  <2>a. /\ loc[t].h \in Handles /\ pc[t] = "unlink" /\ pc'[t] = "gc"
        /\ view' = view /\ held' = held
    BY <1>a, <1>c, <1>21 DEF ReleaseUnlink, HasHandle
  <2>b. \/ n = 0 /\ \A m \in linked : nodes[m].data # loc[t].h
        \/ n \in linked /\ nodes[n].data = loc[t].h /\ n # 0
    <3>1. {m \in linked : nodes[m].data = loc[t].h} \subseteq Nat \ {0}
      BY <1>d, ListTypes DEF TypeInv
    <3> QED BY <3>1, FirstProperty
  <2>c. /\ handle'[loc[t].h].refcnt = 0 /\ handle' \in [Handles -> pkg_handle]
        /\ \A g \in Handles \ {loc[t].h} : handle'[g] = handle[g]
        /\ inUse \ {loc[t].h} \subseteq inUse'
        /\ \A m \in linked' : m \in linked /\ nodes[m].data # loc[t].h
        /\ \A m \in linked : nodes[m].data # loc[t].h => m \in linked'
        /\ \A m \in linked : nodes'[m].data = nodes[m].data
    <3>1. CASE n = 0
      BY <1>a, <1>e, <1>21, <2>a, <2>b, <3>1 DEF ReleaseUnlink, CountInv
    <3>2. CASE n # 0
      <4>1. /\ handle' = [handle EXCEPT ![loc[t].h] = ZeroHandle] /\ inUse' = inUse \ {loc[t].h}
            /\ nodes' = [nodes EXCEPT ![n].next = NextNode(n)] /\ linked' = linked \ {n}
        BY <1>21, <3>2 DEF ReleaseUnlink
      <4>2. \A m \in linked : nodes'[m].data = nodes[m].data
        <5>1. nodes \in Seq(dlink_node) /\ nodes[n] \in dlink_node
          BY <1>d, <2>b, <3>2, ListTypes, ElementType DEF TypeInv
        <5> QED BY <1>d, <4>1, <5>1 DEF dlink_node
      <4>3. \A m \in linked : nodes[m].data = loc[t].h => m = n
        BY <1>e, <2>b, <3>2 DEF ListedOnce
      <4> QED BY <1>a, <2>a, <2>b, <3>2, <4>1, <4>2, <4>3, ConstantTypes DEF ZeroHandle
    <3> QED BY <3>1, <3>2
  <2> HIDE DEF n
  <2>1. ListedOnce'
    BY <1>d, <1>e, <2>c DEF ListedOnce
  <2>2. NamedOnce'
    BY <1>b, <1>d, <1>e, <2>a, <2>c DEF NamedOnce, NameAt
  <2>3. ImportInv(t)'
    BY <2>a DEF ImportInv
  <2>4. CountInv(t)'
    <3>1. \A g \in Handles : held[t][g] \in Nat
      BY <1>a
    <3>2. held[t][loc[t].h] = 0
      BY <1>e, <2>a, <3>1 DEF CountInv
    <3>3. \A g \in Handles : handle'[g].refcnt = held[t][g]
      BY <1>e, <2>a, <2>c, <3>1, <3>2 DEF CountInv
    <3>4. \A g \in Handles : held[t][g] > 0 => Linked(g)'
      BY <1>e, <2>c, <3>2 DEF CountInv, Linked
    <3> QED BY <2>a, <3>1, <3>3, <3>4 DEF CountInv
  <2>5. EntryInv(t)'
    BY <1>d, <1>e, <2>a, <2>c DEF EntryInv, Complete, NameAt
  <2> QED BY <1>f, <2>1, <2>2, <2>3, <2>4, <2>5
<1>22. CASE GcEnd(t)
  <2>a. pc[t] = "gc" /\ pc'[t] = "idle" /\ UNCHANGED <<handle, inUse, nodes, linked, view, held>>
    BY <1>a, <1>22 DEF GcEnd
  <2>1. ListedOnce'
    BY <1>b, <1>c, <1>d, <1>e, <2>a DEF ListedOnce, HasHandle, HasPath
  <2>2. NamedOnce'
    BY <1>b, <1>c, <1>d, <1>e, <2>a DEF NamedOnce, NameAt, HasHandle, HasPath
  <2>3. ImportInv(t)'
    BY <1>b, <1>c, <1>d, <1>e, <2>a DEF ImportInv, Unlisted, Linked, NameAt, HasHandle, HasPath
  <2>4. CountInv(t)'
    BY <1>b, <1>c, <1>d, <1>e, <2>a DEF CountInv, Linked, HasHandle, HasPath
  <2>5. EntryInv(t)'
    BY <1>b, <1>c, <1>d, <1>e, <2>a DEF EntryInv, Complete, NameAt, ImportInv, Linked, HasHandle, HasPath
  <2> QED BY <1>f, <2>1, <2>2, <2>3, <2>4, <2>5
<1>23. CASE ReturnNull(t)
  <2>a. pc[t] = "failed" /\ pc'[t] = "idle" /\ UNCHANGED <<handle, inUse, nodes, linked, view, held>>
    BY <1>a, <1>23 DEF ReturnNull
  <2>1. ListedOnce'
    BY <1>b, <1>c, <1>d, <1>e, <2>a DEF ListedOnce, HasHandle, HasPath
  <2>2. NamedOnce'
    BY <1>b, <1>c, <1>d, <1>e, <2>a DEF NamedOnce, NameAt, HasHandle, HasPath
  <2>3. ImportInv(t)'
    BY <1>b, <1>c, <1>d, <1>e, <2>a DEF ImportInv, Unlisted, Linked, NameAt, HasHandle, HasPath
  <2>4. CountInv(t)'
    BY <1>b, <1>c, <1>d, <1>e, <2>a DEF CountInv, Linked, HasHandle, HasPath
  <2>5. EntryInv(t)'
    BY <1>b, <1>c, <1>d, <1>e, <2>a DEF EntryInv, Complete, NameAt, ImportInv, Linked, HasHandle, HasPath
  <2> QED BY <1>f, <2>1, <2>2, <2>3, <2>4, <2>5
<1> QED BY <1>1, <1>2, <1>3, <1>4, <1>5, <1>6, <1>7, <1>8, <1>9, <1>10, <1>11, <1>12, <1>13, <1>14, <1>15, <1>16, <1>17, <1>18, <1>19, <1>20, <1>21, <1>22, <1>23 DEF Step

\* A call that begins keeps the invariant: pkg_gc, pkg_close and pkg_open.
LEMMA CallSerialInv ==
    ASSUME Serial, TypeInv, SerialInv, NEW t \in Threads,
           \/ GcStart(t)
           \/ \E h \in Handles : CloseRead(t, h)
           \/ \E p \in Packages : Open(t, p)
    PROVE  SerialInv'
<1> USE DEF Goto
<1>a. /\ handle \in [Handles -> pkg_handle] /\ loc \in [Threads -> Locals]
      /\ pc \in [Threads -> Labels] /\ held \in [Threads -> [Handles -> Nat]]
  BY DEF TypeInv, TypeOK
<1>b. \A s \in Threads : s = t
  BY DEF Serial
<1>c. \A n \in linked : n \in Nat \ {0} /\ nodes[n].data \in Handles
  BY ListTypes DEF TypeInv
<1>d. ListedOnce /\ NamedOnce /\ ImportInv(t) /\ CountInv(t) /\ EntryInv(t)
  BY DEF SerialInv
<1>e. ASSUME ListedOnce', NamedOnce', ImportInv(t)', CountInv(t)', EntryInv(t)' PROVE SerialInv'
  BY <1>b, <1>e DEF SerialInv
<1>f. pc[t] = "idle" => \A n \in linked : NameAt(n) # NoName
  BY <1>b, <1>d DEF NamedOnce
<1>1. CASE GcStart(t)
  <2>a. /\ pc[t] = "idle" /\ pc'[t] = "gc"
        /\ UNCHANGED <<handle, inUse, nodes, linked, view, held>>
    BY <1>a, <1>1 DEF GcStart
  <2>1. ListedOnce' /\ NamedOnce' /\ ImportInv(t)'
    BY <1>d, <1>f, <2>a DEF ListedOnce, NamedOnce, NameAt, ImportInv
  <2>2. CountInv(t)'
    BY <1>d, <2>a DEF CountInv, Linked
  <2>3. EntryInv(t)'
    BY <1>d, <2>a DEF EntryInv, Complete, NameAt
  <2> QED BY <1>e, <2>1, <2>2, <2>3
<1>2. ASSUME NEW h \in Handles, CloseRead(t, h) PROVE SerialInv'
  <2>a. /\ pc[t] = "idle" /\ pc'[t] = "close" /\ held[t][h] > 0
        /\ \A g \in Handles : held'[t][g] = IF g = h THEN held[t][g] - 1 ELSE held[t][g]
        /\ loc'[t].h = h /\ loc'[t].reg = handle[h].refcnt
        /\ UNCHANGED <<handle, inUse, nodes, linked, view>>
    BY <1>a, <1>2 DEF CloseRead, NoLocals
  <2>1. ListedOnce' /\ NamedOnce' /\ ImportInv(t)'
    BY <1>d, <1>f, <2>a DEF ListedOnce, NamedOnce, NameAt, ImportInv
  <2>2. CountInv(t)'
    <3>1. \A g \in Handles : held[t][g] \in Nat /\ handle[g].refcnt = held[t][g]
      BY <1>a, <1>d, <2>a DEF CountInv
    <3>2. \A g \in Handles : held'[t][g] > 0 => Linked(g)'
      BY <1>d, <2>a, <3>1 DEF CountInv, Linked
    <3> QED BY <2>a, <3>1, <3>2 DEF CountInv
  <2>3. EntryInv(t)'
    BY <1>d, <2>a DEF EntryInv, Complete, NameAt
  <2> QED BY <1>e, <2>1, <2>2, <2>3
<1>3. ASSUME NEW p \in Packages, Open(t, p) PROVE SerialInv'
  <2> DEFINE found == {m \in linked : NameAt(m) \in {p, NoName}}
             n == First(found)
  <2>a. pc[t] = "idle" /\ UNCHANGED <<handle, inUse, nodes, linked, view, held>>
    BY <1>3 DEF Open, LookupHit, LookupMiss, LookupFault, Lookup
  <2>b. (n = 0 /\ found = {}) \/ (n \in found /\ n # 0)
    <3>1. found \subseteq Nat \ {0}
      BY <1>c
    <3> QED BY <3>1, FirstProperty
  <2>c. pkg_handle_byname(p) = n
    BY DEF pkg_handle_byname
  <2>1. CASE LookupHit(t, p)
    <3>1. n \in linked /\ pc'[t] = "bump" /\ loc'[t].h = nodes[n].data
      BY <1>a, <2>b, <2>c, <2>1 DEF LookupHit, NoLocals
    <3> HIDE DEF n
    <3>2. ListedOnce' /\ NamedOnce' /\ ImportInv(t)'
      BY <1>d, <1>f, <2>a, <3>1 DEF ListedOnce, NamedOnce, NameAt, ImportInv, Linked
    <3>3. CountInv(t)'
      BY <1>d, <2>a, <3>1 DEF CountInv, Linked
    <3>4. EntryInv(t)'
      BY <1>d, <2>a, <3>1 DEF EntryInv, Complete, NameAt
    <3> QED BY <1>e, <3>2, <3>3, <3>4
  <2>2. CASE LookupMiss(t, p)
    <3>1. found = {} /\ pc'[t] = "begin" /\ loc'[t].path = p /\ loc'[t].hdr = 0 /\ loc'[t].h = NoHandle
      BY <1>a, <2>b, <2>c, <2>2 DEF LookupMiss, NoLocals
    <3>2. \A m \in linked : NameAt(m) # p
      BY <3>1
    <3> HIDE DEF n, found
    <3>3. ListedOnce' /\ NamedOnce' /\ ImportInv(t)'
      BY <1>d, <1>f, <2>a, <3>1, <3>2 DEF ListedOnce, NamedOnce, NameAt, ImportInv, Unlisted
    <3>4. CountInv(t)'
      BY <1>d, <2>a, <3>1 DEF CountInv, Linked
    <3>5. EntryInv(t)'
      BY <1>d, <2>a, <3>1 DEF EntryInv, Complete, NameAt
    <3> QED BY <1>e, <3>3, <3>4, <3>5
  <2>3. CASE LookupFault(t, p)
    BY <1>f, <2>a, <2>b, <2>c, <2>3 DEF LookupFault
  <2> QED BY <1>3, <2>1, <2>2, <2>3 DEF Open
<1> QED BY <1>1, <1>2, <1>3

\* Every step of a cache with one thread keeps the invariant.
LEMMA NextSerialInv ==
    ASSUME Serial, TypeInv, SerialInv, [Next]_vars PROVE SerialInv'
<1>1. ASSUME UNCHANGED <<handle, inUse, nodes, linked, view, held, pc, loc>> PROVE SerialInv'
  <2>1. ListedOnce' /\ NamedOnce'
    BY <1>1 DEF SerialInv, ListedOnce, NamedOnce, NameAt
  <2>2. ASSUME NEW t \in Threads PROVE ImportInv(t)' /\ CountInv(t)'
    BY <1>1 DEF SerialInv, ImportInv, CountInv, Linked, Unlisted, NameAt
  <2>3. ASSUME NEW t \in Threads PROVE EntryInv(t)'
    BY <1>1 DEF SerialInv, EntryInv, Complete, NameAt
  <2> QED BY <2>1, <2>2, <2>3 DEF SerialInv
<1>2. CASE Tick
  BY <1>1, <1>2 DEF Tick
<1>3. CASE UNCHANGED vars
  BY <1>1, <1>3 DEF vars
<1> QED BY <1>2, <1>3, StepSerialInv, CallSerialInv, ThreadsAssumption DEF Next

\* The invariant holds at first.
LEMMA InitSerialInv == Init => SerialInv
<1> SUFFICES ASSUME Init PROVE SerialInv
  OBVIOUS
<1>1. ListedOnce /\ NamedOnce
  BY DEF Init, ListedOnce, NamedOnce
<1>2. ASSUME NEW t \in Threads PROVE ImportInv(t) /\ CountInv(t)
  BY DEF Init, ImportInv, CountInv, ZeroHandle
<1>3. ASSUME NEW t \in Threads PROVE EntryInv(t)
  BY DEF Init, EntryInv
<1> QED BY <1>1, <1>2, <1>3 DEF SerialInv

\* The cache of one thread never lists two handles for one package, nor one
\* without a name, whichever packages fail and whatever is collected.
THEOREM SerialOneHandle ==
    ASSUME Serial PROVE Spec => []OneHandlePerName
<1>1. SerialInv => OneHandlePerName
  BY DEF SerialInv, NamedOnce, OneHandlePerName
<1>2. TypeInv /\ SerialInv /\ [Next]_vars => SerialInv'
  BY NextSerialInv
<1> QED BY <1>1, <1>2, InitSerialInv, InitTypeInv, NextTypeInv, PTL DEF Spec

\* In a cache with one thread a handle that pkg_open has returned more often
\* than pkg_close took it back stays allocated, named and listed: no collection
\* comes between.
THEOREM SerialHeldLive ==
    ASSUME Serial PROVE Spec => []HeldHandlesLive
<1>1. TypeInv /\ SerialInv => HeldHandlesLive
  <2> SUFFICES ASSUME TypeInv, SerialInv, NEW t \in Threads, NEW h \in Handles, held[t][h] > 0
               PROVE  h \in inUse /\ handle[h].name # NoName /\ Linked(h)
    BY DEF HeldHandlesLive
  <2>1. held[t][h] \in Nat /\ CountInv(t) /\ \A s \in Threads : s = t
    BY DEF TypeInv, TypeOK, SerialInv, Serial
  <2>2. PICK n \in linked : nodes[n].data = h
    BY <2>1 DEF CountInv, Linked
  <2>3. ~ (pc[t] = "unlink" /\ loc[t].h = h)
    BY <2>1 DEF CountInv
  <2> QED BY <2>1, <2>2, <2>3 DEF SerialInv, ListedOnce, NamedOnce, NameAt, Linked
<1>2. TypeInv /\ SerialInv /\ [Next]_vars => SerialInv'
  BY NextSerialInv
<1> QED BY <1>1, <1>2, InitSerialInv, InitTypeInv, NextTypeInv, PTL DEF Spec

\* In a cache with one thread, once pkg_open has returned the handle of a package
\* that can be read, the view holds all entries of the package under its number.
THEOREM SerialHeldComplete ==
    ASSUME Serial PROVE Spec => []HeldComplete
<1>1. TypeInv /\ SerialInv => HeldComplete
  <2> SUFFICES ASSUME TypeInv, SerialInv, NEW t \in Threads, NEW h \in Handles,
                      held[t][h] > 0, handle[h].name \in Clean
               PROVE  Complete(h, Files[handle[h].name])
    BY DEF HeldComplete, Complete
  <2>1. CountInv(t) /\ EntryInv(t)
    BY DEF SerialInv
  <2>2. PICK n \in linked : nodes[n].data = h
    BY <2>1 DEF CountInv, Linked
  <2>3. ~ (pc[t] \in {"archive", "scan"} /\ loc[t].h = h)
    BY <2>1 DEF CountInv
  <2> QED BY <2>1, <2>2, <2>3 DEF EntryInv, NameAt
<1>2. TypeInv /\ SerialInv /\ [Next]_vars => SerialInv'
  BY NextSerialInv
<1> QED BY <1>1, <1>2, InitSerialInv, InitTypeInv, NextTypeInv, PTL DEF Spec

\* An element that is not in use has no name, and one that is in use is listed
\* or belongs to the running pkg_open.
LeakInv == NoLeak /\ \A h \in Handles \ inUse : handle[h].name = NoName

\* If every file can be read, no step loses an element of the heap.
LEMMA NextLeakInv ==
    ASSUME Serial, Unreadable = {}, TypeInv, SerialInv, LeakInv, [Next]_vars
    PROVE  LeakInv'
<1> USE DEF Goto, Return, Fail
<1>a. /\ handle \in [Handles -> pkg_handle] /\ loc \in [Threads -> Locals]
      /\ pc \in [Threads -> Labels] /\ inUse \subseteq Handles
  BY DEF TypeInv, TypeOK
<1>b. \A n \in linked : n \in 1 .. Len(nodes) /\ nodes[n].data \in Handles
  BY ListTypes DEF TypeInv
<1>c. ASSUME UNCHANGED <<inUse, nodes, linked>>,
             \A h \in Handles : handle'[h].name \in {handle[h].name, NoName},
             \A s \in Threads : Importing(s) =>
                 (Importing(s)' /\ loc'[s].h = loc[s].h) \/ loc[s].h \notin inUse \/ Linked(loc[s].h)
      PROVE  LeakInv'
  <2>1. NoLeak'
    BY <1>a, <1>c DEF LeakInv, NoLeak, Linked
  <2> QED BY <1>c, <2>1 DEF LeakInv
<1>1. ASSUME NEW t \in Threads, Step(t) PROVE LeakInv'
  <2>a. /\ loc[t] \in Locals /\ ImportInv(t) /\ \A s \in Threads : s = t
        /\ pc[t] \in HasHandle => loc[t].h \in Handles
    BY LocalTypes DEF SerialInv, Serial
  <2>1. CASE db_begin(t)
    BY <1>a, <1>c, <2>a, <2>1 DEF db_begin, Importing, ImportInv, HasHandle, Locals, pkg_handle
  <2>2. CASE Alloc(t)
    <3>1. PICK h \in Handles \ inUse :
            /\ inUse' = inUse \cup {h} /\ \A g \in Handles \ {h} : handle'[g] = handle[g]
            /\ loc'[t].h = h /\ pc[t] = "alloc" /\ pc'[t] = "stat"
            /\ nodes' = nodes /\ linked' = linked
      BY <1>a, <2>a, <2>2 DEF Alloc, Locals
    <3>2. \A g \in inUse : Linked(g)
      <4>1. loc[t].h = NoHandle
        BY <2>a, <3>1 DEF ImportInv
      <4> QED BY <1>a, <2>a, <4>1, NamesAssumption DEF LeakInv, NoLeak
    <3>3. NoLeak'
      BY <3>1, <3>2 DEF NoLeak, Linked, Importing
    <3> QED BY <3>1, <3>3 DEF LeakInv
  <2>3. CASE StatFails(t)
    BY <1>a, <1>c, <2>a, <2>3 DEF StatFails, Importing, ImportInv, HasHandle, Locals, pkg_handle
  <2>4. CASE NumberRead(t)
    BY <1>a, <1>c, <2>a, <2>4 DEF NumberRead, Importing, ImportInv, HasHandle, Locals, pkg_handle
  <2>5. CASE NumberWrite(t)
    BY <1>a, <1>c, <2>a, <2>5 DEF NumberWrite, Importing, ImportInv, HasHandle, Locals, pkg_handle
  <2>6. CASE OpenFile(t)
    BY <1>a, <1>c, <2>a, <2>6 DEF OpenFile, Importing, ImportInv, HasHandle, Locals, pkg_handle
  <2>7. CASE OpenFails(t)
    <3>1. PICK g \in Handles \ {loc[t].h} : handle[g].name = loc[t].path
      BY <2>7 DEF OpenFails, LockedElsewhere
    <3>2. loc[t].path \in Packages
      BY <2>7, LocalTypes DEF OpenFails, HasPath
    <3>3. g \in inUse
      BY <3>1, <3>2, NamesAssumption DEF LeakInv
    <3>4. Linked(g)
      BY <2>a, <3>1, <3>3 DEF LeakInv, NoLeak
    <3> QED BY <2>a, <2>7, <3>1, <3>4 DEF OpenFails, ImportInv, Unlisted, Linked, NameAt
  <2>8. CASE Link(t)
    <3>1. /\ \A n \in linked : nodes'[n] = nodes[n] /\ n \in linked'
          /\ \E n \in linked' : nodes'[n].data = loc[t].h
          /\ UNCHANGED <<handle, inUse>>
      BY <1>b, <2>8, ListTypes DEF Link, TypeInv
    <3>2. NoLeak'
      BY <2>a, <3>1 DEF LeakInv, NoLeak, Linked
    <3> QED BY <3>1, <3>2 DEF LeakInv
  <2>9. CASE ArchiveOpens(t)
    BY <1>a, <1>c, <2>a, <2>9 DEF ArchiveOpens, Importing, ImportInv, HasHandle, Locals, pkg_handle
  <2>10. CASE ArchiveFails(t)
    BY <1>a, <1>c, <2>a, <2>10 DEF ArchiveFails, Importing, ImportInv, HasHandle, Locals, pkg_handle
  <2>11. CASE ScanEntry(t)
    BY <1>a, <1>c, <2>a, <2>11 DEF ScanEntry, Importing, ImportInv, HasHandle, Locals, pkg_handle
  <2>12. CASE ScanEnd(t)
    BY <1>a, <1>c, <2>a, <2>12 DEF ScanEnd, Importing, ImportInv, HasHandle, Locals, pkg_handle
  <2>13. CASE ScanError(t)
    BY <1>a, <1>c, <2>a, <2>13 DEF ScanError, Importing, ImportInv, HasHandle, Locals, pkg_handle
  <2>14. CASE db_commit(t)
    BY <1>a, <1>c, <2>a, <2>14 DEF db_commit, Importing, ImportInv, HasHandle, Locals, pkg_handle
  <2>15. CASE Bump(t)
    BY <1>a, <1>c, <2>a, <2>15 DEF Bump, Importing, ImportInv, HasHandle, Locals, pkg_handle
  <2>16. CASE Bumped(t)
    BY <1>a, <1>c, <2>a, <2>16 DEF Bumped, Importing, ImportInv, HasHandle, Locals, pkg_handle
  <2>17. CASE CloseWrite(t)
    BY <1>a, <1>c, <2>a, <2>17 DEF CloseWrite, Importing, ImportInv, HasHandle, Locals, pkg_handle
  <2>18. CASE GcKeep(t)
    BY <1>a, <1>c, <2>a, <2>18 DEF GcKeep, Importing, ImportInv, HasHandle, Locals, pkg_handle
  <2>19. CASE GcChoose(t)
    BY <1>a, <1>c, <2>a, <2>19 DEF GcChoose, Importing, ImportInv, HasHandle, Locals, pkg_handle
  <2>20. CASE ReleaseClear(t)
    BY <1>a, <1>c, <2>a, <2>20 DEF ReleaseClear, Importing, ImportInv, HasHandle, Locals, pkg_handle
  <2>21. CASE ReleaseUnlink(t)
    <3> DEFINE n == First({m \in linked : nodes[m].data = loc[t].h})
    <3>1. CASE n = 0
      BY <1>c, <2>a, <2>21, <3>1 DEF ReleaseUnlink, Importing
    <3>2. CASE n # 0
      <4>1. /\ handle' = [handle EXCEPT ![loc[t].h] = ZeroHandle] /\ inUse' = inUse \ {loc[t].h}
            /\ nodes' = [nodes EXCEPT ![n].next = NextNode(n)] /\ linked' = linked \ {n}
            /\ pc[t] = "unlink"
        BY <2>21, <3>2 DEF ReleaseUnlink
      <4>2. n \in linked /\ nodes[n].data = loc[t].h
        <5>1. {m \in linked : nodes[m].data = loc[t].h} \subseteq Nat
          BY <1>b
        <5> QED BY <3>2, <5>1, FirstProperty
      <4>3. \A m \in linked : nodes'[m].data = nodes[m].data
        <5>1. nodes \in Seq(dlink_node) /\ nodes[n] \in dlink_node
          BY <1>b, <4>2, ListTypes, ElementType DEF TypeInv
        <5> QED BY <1>b, <4>1, <5>1 DEF dlink_node
      <4> HIDE DEF n
      <4>4. NoLeak'
        BY <2>a, <4>1, <4>2, <4>3 DEF LeakInv, NoLeak, Linked, Importing
      <4> QED BY <1>a, <4>1, <4>4 DEF LeakInv, ZeroHandle
    <3> QED BY <3>1, <3>2
  <2>22. CASE GcEnd(t)
    BY <1>a, <1>c, <2>a, <2>22 DEF GcEnd, Importing, ImportInv, HasHandle, Locals, pkg_handle
  <2>23. CASE ReturnNull(t)
    BY <1>a, <1>c, <2>a, <2>23 DEF ReturnNull, Importing, ImportInv, HasHandle, Locals, pkg_handle
  <2> QED BY <1>1, <2>1, <2>2, <2>3, <2>4, <2>5, <2>6, <2>7, <2>8, <2>9, <2>10, <2>11, <2>12, <2>13, <2>14, <2>15, <2>16, <2>17, <2>18, <2>19, <2>20, <2>21, <2>22, <2>23 DEF Step
<1>2. ASSUME NEW t \in Threads, GcStart(t) PROVE LeakInv'
  BY <1>a, <1>c, <1>2 DEF GcStart, Importing
<1>3. ASSUME NEW t \in Threads, NEW h \in Handles, CloseRead(t, h) PROVE LeakInv'
  BY <1>a, <1>c, <1>3 DEF CloseRead, Importing
<1>4. ASSUME NEW t \in Openers, NEW p \in Packages, Open(t, p) PROVE LeakInv'
  <2>1. /\ UNCHANGED <<handle, inUse, nodes, linked>>
        /\ \A s \in Threads : ~Importing(s)
    BY <1>4, ThreadsAssumption DEF Open, LookupHit, LookupMiss, LookupFault, Lookup, Importing, Serial
  <2> QED BY <1>c, <2>1
<1>5. CASE Tick
  BY <1>c, <1>5 DEF Tick, Importing
<1>6. CASE UNCHANGED vars
  BY <1>c, <1>6 DEF vars, Importing
<1> QED BY <1>1, <1>2, <1>3, <1>4, <1>5, <1>6 DEF Next

\* In a cache with one thread whose files can all be read, every element of the
\* heap that is in use is listed or belongs to the running pkg_open: neither a
\* refused archive nor a collection loses one.
THEOREM SerialNoLeak ==
    ASSUME Serial, Unreadable = {} PROVE Spec => []NoLeak
<1>1. LeakInv => NoLeak
  BY DEF LeakInv
<1>2. Init => LeakInv
  BY DEF Init, LeakInv, NoLeak, ZeroHandle
<1>3. TypeInv /\ SerialInv /\ [Next]_vars => SerialInv'
  BY NextSerialInv
<1>4. TypeInv /\ SerialInv /\ LeakInv /\ [Next]_vars => LeakInv'
  BY NextLeakInv
<1> QED BY <1>1, <1>2, <1>3, <1>4, InitSerialInv, InitTypeInv, NextTypeInv, PTL DEF Spec
=============================================================================
