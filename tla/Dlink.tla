-------------------------------- MODULE Dlink --------------------------------
(***************************************************************************)
(* The doubly linked lists of lsd/dlink.c, pointer by pointer, and the     *)
(* walk DLINK_FOREACH_SAFE of lsd/dlink.h over one of them.                *)
(*                                                                         *)
(* The variable order is not in the code.  It is what the callers have in  *)
(* mind: the sequence of nodes that each list stands for.  The guards use  *)
(* it for the duties of a caller (a node that is added is in no list, one  *)
(* that is removed is in the list it is removed from), and Represents says *)
(* that the pointers of the code agree with it after every operation.      *)
(***************************************************************************)
EXTENDS Naturals, Sequences

CONSTANTS
    Nodes,      \* list nodes, in the heap or handed out
    Lists,      \* list heads
    Values,     \* what a node's data points to
    Null        \* the null pointer

ASSUME NullAssumption == Null \notin Nodes \cup Lists \cup Values

VARIABLES
    next, prev, data,       \* dlink_node
    head, tail, length,     \* dlink_list
    allocated,              \* nodes between dlink_create and dlink_free
    order,                  \* auxiliary: the sequence each list stands for
    walked, pos, ahead,     \* a walk: its list and its two cursors
    visited, present        \* auxiliary: nodes seen; nodes listed throughout

node_vars == <<next, prev, data>>
list_vars == <<head, tail, length, order>>
walk_vars == <<walked, pos, ahead, visited, present>>
vars == <<node_vars, list_vars, allocated, walk_vars>>

-----------------------------------------------------------------------------
(* Sequences *)

Elements(s) == {s[i] : i \in 1 .. Len(s)}

\* s with x put at position k, and s without its k-th element.
Put(s, k, x) ==
    [i \in 1 .. Len(s) + 1 |-> IF i < k THEN s[i] ELSE IF i = k THEN x ELSE s[i - 1]]
Drop(s, k) == [i \in 1 .. Len(s) - 1 |-> IF i < k THEN s[i] ELSE s[i + 1]]

Loose(m) == m \in allocated /\ \A l \in Lists : m \notin Elements(order[l])

-----------------------------------------------------------------------------
(* Pointers *)

\* p->f = x where the code tests p first
Assign(f, p, x) == IF p = Null THEN f ELSE [f EXCEPT ![p] = x]

\* The four pointers of a list when m has been taken out of it.
NextWithout(m) == Assign(next, prev[m], next[m])
PrevWithout(m) == Assign(prev, next[m], prev[m])
HeadWithout(m, l) == IF prev[m] = Null THEN [head EXCEPT ![l] = next[m]] ELSE head

\* Mutant: the tail is left behind.
TailForgotten(m, l) == tail

TailWithout(m, l) == IF next[m] = Null THEN [tail EXCEPT ![l] = prev[m]] ELSE tail

-----------------------------------------------------------------------------
Init ==
    /\ next = [m \in Nodes |-> Null]
    /\ prev = [m \in Nodes |-> Null]
    /\ data = [m \in Nodes |-> Null]
    /\ head = [l \in Lists |-> Null]
    /\ tail = [l \in Lists |-> Null]
    /\ length = [l \in Lists |-> 0]
    /\ allocated = {}
    /\ order = [l \in Lists |-> << >>]
    /\ walked = Null /\ pos = Null /\ ahead = Null
    /\ visited = {} /\ present = {}

dlink_create(m) ==
    /\ m \notin allocated
    /\ allocated' = allocated \cup {m}
    /\ next' = [next EXCEPT ![m] = Null]
    /\ prev' = [prev EXCEPT ![m] = Null]
    /\ data' = [data EXCEPT ![m] = Null]
    /\ UNCHANGED <<list_vars, walk_vars>>

\* The heap clears the memory of the node.
dlink_free(m) ==
    /\ Loose(m)
    /\ allocated' = allocated \ {m}
    /\ next' = [next EXCEPT ![m] = Null]
    /\ prev' = [prev EXCEPT ![m] = Null]
    /\ data' = [data EXCEPT ![m] = Null]
    /\ UNCHANGED <<list_vars, walk_vars>>

dlink_add(v, m, l) ==
    /\ Loose(m)
    /\ data' = [data EXCEPT ![m] = v]
    /\ next' = [next EXCEPT ![m] = head[l]]
    /\ prev' = Assign([prev EXCEPT ![m] = Null], head[l], m)
    /\ tail' = IF head[l] = Null /\ tail[l] = Null THEN [tail EXCEPT ![l] = m] ELSE tail
    /\ head' = [head EXCEPT ![l] = m]
    /\ length' = [length EXCEPT ![l] = @ + 1]
    /\ order' = [order EXCEPT ![l] = Put(@, 1, m)]
    /\ UNCHANGED <<allocated, walk_vars>>

\* b is the k-th node of the list.  At the head this is dlink_add.
dlink_add_before(k, v, m, l) ==
    LET b == order[l][k] IN
    /\ Loose(m) /\ b # head[l]
    /\ data' = [data EXCEPT ![m] = v]
    /\ next' = [next EXCEPT ![prev[b]] = m, ![m] = b]
    /\ prev' = [prev EXCEPT ![m] = prev[b], ![b] = m]
    /\ length' = [length EXCEPT ![l] = @ + 1]
    /\ order' = [order EXCEPT ![l] = Put(@, k, m)]
    /\ UNCHANGED <<head, tail, allocated, walk_vars>>

dlink_add_tail(v, m, l) ==
    /\ Loose(m)
    /\ data' = [data EXCEPT ![m] = v]
    /\ prev' = [prev EXCEPT ![m] = tail[l]]
    /\ next' = IF head[l] = Null THEN [next EXCEPT ![m] = Null]
               ELSE Assign([next EXCEPT ![m] = Null], tail[l], m)
    /\ head' = IF head[l] = Null THEN [head EXCEPT ![l] = m] ELSE head
    /\ tail' = [tail EXCEPT ![l] = m]
    /\ length' = [length EXCEPT ![l] = @ + 1]
    /\ order' = [order EXCEPT ![l] = Put(@, Len(@) + 1, m)]
    /\ UNCHANGED <<allocated, walk_vars>>

\* While a list is walked, only the node the walk is at is taken out of it.
\* A walk only counts on nodes that stay.
MayRemove(m, l) == walked = l => m = pos
Stay(m) == present' = present \ {m} /\ UNCHANGED <<walked, pos, ahead, visited>>

\* The node keeps its own pointers.
dlink_delete(k, l) ==
    LET m == order[l][k] IN
    /\ MayRemove(m, l)
    /\ next' = NextWithout(m)
    /\ prev' = PrevWithout(m)
    /\ head' = HeadWithout(m, l)
    /\ tail' = TailWithout(m, l)
    /\ length' = [length EXCEPT ![l] = @ - 1]
    /\ order' = [order EXCEPT ![l] = Drop(@, k)]
    /\ Stay(m)
    /\ UNCHANGED <<data, allocated>>

\* dlink_find: the first node whose data is v.
FoundAt(k, v, l) ==
    data[order[l][k]] = v /\ \A j \in 1 .. k - 1 : data[order[l][j]] # v

dlink_find_delete(k, v, l) ==
    LET m == order[l][k] IN
    /\ FoundAt(k, v, l) /\ MayRemove(m, l)
    /\ next' = [NextWithout(m) EXCEPT ![m] = Null]
    /\ prev' = [PrevWithout(m) EXCEPT ![m] = Null]
    /\ head' = HeadWithout(m, l)
    /\ tail' = TailWithout(m, l)
    /\ length' = [length EXCEPT ![l] = @ - 1]
    /\ order' = [order EXCEPT ![l] = Drop(@, k)]
    /\ Stay(m)
    /\ UNCHANGED <<data, allocated>>

\* From one list to the head of another.
dlink_move(k, old, new) ==
    LET m == order[old][k] IN
    /\ old # new /\ MayRemove(m, old)
    /\ next' = [NextWithout(m) EXCEPT ![m] = head[new]]
    /\ prev' = Assign([PrevWithout(m) EXCEPT ![m] = Null], head[new], m)
    /\ head' = [HeadWithout(m, old) EXCEPT ![new] = m]
    /\ tail' = IF head[new] = Null /\ tail[new] = Null
               THEN [TailWithout(m, old) EXCEPT ![new] = m] ELSE TailWithout(m, old)
    /\ length' = [length EXCEPT ![old] = @ - 1, ![new] = @ + 1]
    /\ order' = [order EXCEPT ![old] = Drop(@, k), ![new] = Put(@, 1, m)]
    /\ Stay(m)
    /\ UNCHANGED <<data, allocated>>

-----------------------------------------------------------------------------
(* DLINK_FOREACH_SAFE(pos, ahead, head) *)

\* pos ? pos->next : NULL
After(p) == IF p = Null THEN Null ELSE next[p]

WalkStart(l) ==
    /\ walked = Null
    /\ walked' = l
    /\ pos' = head[l]
    /\ ahead' = After(head[l])
    /\ visited' = {}
    /\ present' = Elements(order[l])
    /\ UNCHANGED <<node_vars, list_vars, allocated>>

\* Mutant: DLINK_FOREACH, which reads the pointer after the body has run.
NextUnsafe ==
    /\ walked # Null /\ pos # Null
    /\ visited' = visited \cup {pos}
    /\ pos' = After(pos)
    /\ ahead' = After(After(pos))
    /\ UNCHANGED <<node_vars, list_vars, allocated, walked, present>>

\* The body has run for pos.
WalkNext ==
    /\ walked # Null /\ pos # Null
    /\ visited' = visited \cup {pos}
    /\ pos' = ahead
    /\ ahead' = After(ahead)
    /\ UNCHANGED <<node_vars, list_vars, allocated, walked, present>>

WalkEnd ==
    /\ walked # Null /\ pos = Null
    /\ walked' = Null
    /\ visited' = {} /\ present' = {}
    /\ UNCHANGED <<node_vars, list_vars, allocated, pos, ahead>>

-----------------------------------------------------------------------------
Positions(l) == 1 .. Len(order[l])

Next ==
    \/ \E m \in Nodes : dlink_create(m) \/ dlink_free(m)
    \/ \E m \in Nodes, v \in Values, l \in Lists :
          \/ dlink_add(v, m, l)
          \/ dlink_add_tail(v, m, l)
          \/ \E k \in Positions(l) : dlink_add_before(k, v, m, l)
    \/ \E l \in Lists : \E k \in Positions(l) :
          \/ dlink_delete(k, l)
          \/ \E v \in Values : dlink_find_delete(k, v, l)
          \/ \E new \in Lists : dlink_move(k, l, new)
    \/ \E l \in Lists : WalkStart(l)
    \/ WalkNext
    \/ WalkEnd

Spec == Init /\ [][Next]_vars

-----------------------------------------------------------------------------
(* Properties *)

\* The C types.
TypeOK ==
    /\ next \in [Nodes -> Nodes \cup {Null}]
    /\ prev \in [Nodes -> Nodes \cup {Null}]
    /\ data \in [Nodes -> Values \cup {Null}]
    /\ head \in [Lists -> Nodes \cup {Null}]
    /\ tail \in [Lists -> Nodes \cup {Null}]
    /\ length \in [Lists -> Nat]
    /\ allocated \subseteq Nodes
    /\ order \in [Lists -> Seq(Nodes)]
    /\ walked \in Lists \cup {Null}
    /\ pos \in Nodes \cup {Null} /\ ahead \in Nodes \cup {Null}
    /\ visited \subseteq Nodes /\ present \subseteq Nodes

\* The pointers and the length of one list.
Chained(l) ==
    LET s == order[l] IN
    /\ length[l] = Len(s)
    /\ head[l] = (IF Len(s) = 0 THEN Null ELSE s[1])
    /\ tail[l] = (IF Len(s) = 0 THEN Null ELSE s[Len(s)])
    /\ \A i \in Positions(l) :
          /\ next[s[i]] = (IF i = Len(s) THEN Null ELSE s[i + 1])
          /\ prev[s[i]] = (IF i = 1 THEN Null ELSE s[i - 1])

\* Following the pointers of a list forwards from head, or backwards from
\* tail, gives exactly the sequence it stands for, and length is its length.
\* dlink_move says what it assumes: "If m->next == NULL, then list->tail == m".
Represents == \A l \in Lists : Chained(l)

\* The node a walk will go to next is in its list, whatever the body did to
\* the node the walk is at: the cursor never points into freed memory.
CursorListed == walked # Null /\ ahead # Null => ahead \in Elements(order[walked])

\* A walk that has ended has seen every node that was listed throughout.
WalkComplete == walked # Null /\ pos = Null => present \subseteq visited
=============================================================================
