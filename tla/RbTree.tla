------------------------------- MODULE RbTree --------------------------------
(***************************************************************************)
(* The red-black tree of lsd/tree.c.  A node is named by the key its data  *)
(* holds; pull_out, which moves the data of the successor into the node    *)
(* that stays, renames that node.  The two branches of every loop of the   *)
(* source are mirror images: they are one action here, with the side as    *)
(* a parameter.  One step is one call up to its loop, or one round of it.  *)
(***************************************************************************)
EXTENDS Naturals, FiniteSets

CONSTANTS Keys, Nil

ASSUME KeysAssumption == Keys \subseteq Nat /\ Nil \notin Nat

Sides == {"left", "right"}
Other(s) == IF s = "left" THEN "right" ELSE "left"

VARIABLES
    nodes,      \* what make_node has allocated and nobody has freed
    tree,       \* [root, child, parent, color]
    pc, cur, par, \* the running fix-up, its current node and its parent
    last,       \* the last call
    spoilt      \* history: a deletion has met a red near nephew

vars == <<nodes, tree, pc, cur, par, last, spoilt>>

Ref == Keys \cup {Nil}

\* Assignment through a pointer, where the source tests it first.
Put(f, x, v) == IF x = Nil THEN f ELSE [f EXCEPT ![x] = v]

rb_color(t, x) == IF x = Nil THEN "black" ELSE t.color[x]

SideOf(t, x) == IF t.child["left"][t.parent[x]] = x THEN "left" ELSE "right"

\* y, which may be NULL, takes the place of x under the parent of x.
Replace(t, x, y) ==
    IF t.parent[x] = Nil THEN [t EXCEPT !.root = y]
    ELSE [t EXCEPT !.child[SideOf(t, x)][t.parent[x]] = y]

Paint(t, x, c) == [t EXCEPT !.color[x] = c]

\* left_rotate and right_rotate
rotate(t, s, x) ==
    LET y == t.child[Other(s)][x]
        inner == t.child[s][y]
        top == Replace(t, x, y)
    IN  IF y = Nil THEN t
        ELSE [top EXCEPT !.child[Other(s)][x] = inner,
                         !.child[s][y] = x,
                         !.parent = [Put(@, inner, x) EXCEPT ![y] = t.parent[x], ![x] = y]]

-----------------------------------------------------------------------------
(* The functions that only read *)

\* tree_minimum is Outermost("left", x), tree_maximum Outermost("right", x).
Outermost(s, x) ==
    LET out[y \in Keys] == IF tree.child[s][y] = Nil THEN y ELSE out[tree.child[s][y]]
    IN  out[x]

\* Mutant: the way up stops at the first parent.
NeighbourOfParent(s, x) ==
    IF tree.child[s][x] # Nil THEN Outermost(Other(s), tree.child[s][x]) ELSE tree.parent[x]

\* tree_successor is Neighbour("right", x), tree_predecessor Neighbour("left", x).
Neighbour(s, x) ==
    LET up[y \in Keys] ==
            IF tree.parent[y] = Nil \/ tree.child[s][tree.parent[y]] # y THEN tree.parent[y]
            ELSE up[tree.parent[y]]
    IN  IF tree.child[s][x] # Nil THEN Outermost(Other(s), tree.child[s][x]) ELSE up[x]

\* search_r
tree_search(k) ==
    LET search[x \in Ref] ==
            IF x = Nil \/ x = k THEN x
            ELSE search[tree.child[IF k < x THEN "left" ELSE "right"][x]]
    IN  search[tree.root]

\* The nodes traverse and destroy_node come to from a node.
traverse ==
    LET visit[x \in Ref] ==
            IF x = Nil THEN {}
            ELSE {x} \cup visit[tree.child["left"][x]] \cup visit[tree.child["right"][x]]
    IN  visit

-----------------------------------------------------------------------------
Init ==
    /\ nodes = {}
    /\ tree = [root |-> Nil, child |-> [s \in Sides |-> [x \in Keys |-> Nil]],
               parent |-> [x \in Keys |-> Nil], color |-> [x \in Keys |-> "red"]]
    /\ pc = "idle" /\ cur = Nil /\ par = Nil
    /\ last = <<"none">> /\ spoilt = FALSE

(* rb_insert *)

\* The last node of the descent of tree_insert.
Descent(k) ==
    LET down[x \in Keys] ==
            LET y == tree.child[IF k < x THEN "left" ELSE "right"][x]
            IN  IF y = Nil THEN x ELSE down[y]
    IN  IF tree.root = Nil THEN Nil ELSE down[tree.root]

\* tree_insert, then the node is painted red.
Insert(k) ==
    LET p == Descent(k) IN
    /\ pc = "idle" /\ k \notin nodes
    /\ nodes' = nodes \cup {k}
    /\ tree' = [root |-> IF p = Nil THEN k ELSE tree.root,
                child |-> IF p = Nil THEN tree.child
                          ELSE [tree.child EXCEPT ![IF k < p THEN "left" ELSE "right"][p] = k],
                parent |-> [tree.parent EXCEPT ![k] = p],
                color |-> [tree.color EXCEPT ![k] = "red"]]
    /\ pc' = "insert" /\ cur' = k /\ last' = <<"insert", k>>
    /\ UNCHANGED <<par, spoilt>>

RedParent == cur # tree.root /\ rb_color(tree, tree.parent[cur]) = "red"

\* A round of the loop, below the grandparent on side s.
InsertRound(s) ==
    LET p == tree.parent[cur]
        g == tree.parent[p]
        uncle == tree.child[Other(s)][g]
    IN
    /\ pc = "insert" /\ RedParent /\ SideOf(tree, p) = s
    /\ \/ /\ rb_color(tree, uncle) = "red"
          /\ tree' = Paint(Paint(Paint(tree, p, "black"), uncle, "black"), g, "red")
          /\ cur' = g
       \/ /\ rb_color(tree, uncle) = "black" /\ cur = tree.child[Other(s)][p]
          /\ tree' = rotate(tree, s, p)
          /\ cur' = p
       \/ /\ rb_color(tree, uncle) = "black" /\ cur # tree.child[Other(s)][p]
          /\ tree' = rotate(Paint(Paint(tree, p, "black"), g, "red"), Other(s), g)
          /\ UNCHANGED cur
    /\ UNCHANGED <<nodes, pc, par, last, spoilt>>

\* Mutant: the root may stay red.
RootUnpainted ==
    /\ pc = "insert" /\ ~RedParent
    /\ pc' = "idle" /\ cur' = Nil
    /\ UNCHANGED <<nodes, tree, par, last, spoilt>>

InsertDone ==
    /\ pc = "insert" /\ ~RedParent
    /\ tree' = Paint(tree, tree.root, "black")
    /\ pc' = "idle" /\ cur' = Nil
    /\ UNCHANGED <<nodes, par, last, spoilt>>

-----------------------------------------------------------------------------
(* rb_delete *)

\* The node x is called y from now on; y has left the tree.
Rename(t, x, y) ==
    LET new(z) == IF z = x THEN y ELSE z
        old(z) == IF z = y THEN x ELSE z
    IN  [root |-> new(t.root),
         child |-> [s \in Sides |-> [z \in Keys |-> IF z = x THEN Nil ELSE new(t.child[s][old(z)])]],
         parent |-> [z \in Keys |-> IF z = x THEN Nil ELSE new(t.parent[old(z)])],
         color |-> [z \in Keys |-> IF z = x THEN "red" ELSE t.color[old(z)]]]

\* Mutant: the only child is dropped with the node.
SpliceDrops(t, current, next) ==
    LET out == Replace(t, current, Nil) IN
    [out EXCEPT !.child = [s \in Sides |-> [@[s] EXCEPT ![current] = Nil]],
                !.parent[current] = Nil,
                !.color[current] = "red"]

\* current is taken out, next takes its place; current's own links are cleared
\* when it is freed.
Splice(t, current, next) ==
    LET out == Replace(t, current, next) IN
    [out EXCEPT !.child = [s \in Sides |-> [@[s] EXCEPT ![current] = Nil]],
                !.parent = [Put(@, next, t.parent[current]) EXCEPT ![current] = Nil],
                !.color[current] = "red"]

\* pull_out, and the call of rb_delete_fixup
Delete(k) ==
    LET current == IF \E s \in Sides : tree.child[s][k] = Nil THEN k ELSE Neighbour("right", k)
        next == IF tree.child["left"][current] # Nil THEN tree.child["left"][current]
                ELSE tree.child["right"][current]
        out == Splice(tree, current, next)
        p == tree.parent[current]
    IN
    /\ pc = "idle" /\ k \in nodes
    /\ nodes' = nodes \ {k}
    /\ tree' = IF current = k THEN out ELSE Rename(out, k, current)
    /\ last' = <<"delete", k>>
    /\ IF tree.color[current] = "black"
       THEN pc' = "delete" /\ cur' = next /\ par' = IF p = k THEN current ELSE p
       ELSE UNCHANGED <<pc, cur, par>>
    /\ UNCHANGED spoilt

Fixing == cur # tree.root /\ rb_color(tree, cur) = "black"

\* The side of the current node, which may be NULL.
CurSide == IF cur = tree.child["left"][par] THEN "left" ELSE "right"

\* The tree after the test for a red sibling.
BlackSibling(s) ==
    LET sibling == tree.child[Other(s)][par]
    IN  IF rb_color(tree, sibling) = "red"
        THEN rotate(Paint(Paint(tree, sibling, "black"), par, "red"), s, par)
        ELSE tree

\* Mutant: the sibling is not rotated.
SiblingStays(t, s, sibling) == t

\* The near nephew is red already when it is painted, and the sibling stays
\* black.
RaiseNear(t, s, sibling) ==
    rotate(Paint(t, t.child[s][sibling], "red"), Other(s), sibling)

\* Mutant: the rotation is missing.
FarUnrotated(t, s, sibling) ==
    Paint(Paint(Paint(t, sibling, t.color[par]), par, "black"), t.child[Other(s)][sibling], "black")

\* The far nephew takes the black node that the current side lacks.
RaiseSibling(t, s, sibling) ==
    rotate(Paint(Paint(Paint(t, sibling, t.color[par]), par, "black"),
                 t.child[Other(s)][sibling], "black"), s, par)

\* A round of rb_delete_fixup.
DeleteRound(s) ==
    LET t == BlackSibling(s)
        sibling == t.child[Other(s)][par]
        near == t.child[s][sibling]
        far == t.child[Other(s)][sibling]
    IN
    /\ pc = "delete" /\ Fixing /\ CurSide = s /\ sibling # Nil
    /\ \/ /\ rb_color(t, near) = "black" /\ rb_color(t, far) = "black"
          /\ tree' = Paint(t, sibling, "red")
          /\ cur' = par /\ par' = t.parent[par]
          /\ UNCHANGED spoilt
       \/ /\ rb_color(t, near) = "red" /\ rb_color(t, far) = "black"
          /\ tree' = RaiseNear(t, s, sibling)
          /\ spoilt' = TRUE
          /\ UNCHANGED <<cur, par>>
       \/ /\ rb_color(t, far) = "red"
          /\ tree' = RaiseSibling(t, s, sibling)
          /\ cur' = tree'.root /\ par' = Nil
          /\ UNCHANGED spoilt
    /\ UNCHANGED <<nodes, pc, last>>

\* There is no sibling: a null pointer is read and the process dies.
DeleteFaults(s) ==
    /\ pc = "delete" /\ Fixing /\ CurSide = s
    /\ BlackSibling(s).child[Other(s)][par] = Nil
    /\ pc' = "dead"
    /\ UNCHANGED <<nodes, tree, cur, par, last, spoilt>>

DeleteDone ==
    /\ pc = "delete" /\ ~Fixing
    /\ tree' = IF cur = Nil THEN tree ELSE Paint(tree, cur, "black")
    /\ pc' = "idle" /\ cur' = Nil /\ par' = Nil
    /\ UNCHANGED <<nodes, last, spoilt>>

-----------------------------------------------------------------------------
Fixup ==
    \/ InsertDone \/ DeleteDone
    \/ \E s \in Sides : InsertRound(s) \/ DeleteRound(s) \/ DeleteFaults(s)

Next == Fixup \/ \E k \in Keys : Insert(k) \/ Delete(k)

\* A call of rb_insert or rb_delete runs to its end.
Spec == Init /\ [][Next]_vars /\ WF_vars(Fixup)

-----------------------------------------------------------------------------
(* Properties *)

\* The set of keys a search finds changes with the calls and with nothing else:
\* no rotation, in any state of the colours, loses a key or brings one back.
Abstract == INSTANCE SortedSet WITH set <- {k \in Keys : tree_search(k) # Nil}
SetSpec == Abstract!Spec

Least(S) == IF S = {} THEN Nil ELSE CHOOSE x \in S : \A y \in S : x <= y
Greatest(S) == IF S = {} THEN Nil ELSE CHOOSE x \in S : \A y \in S : y <= x

\* Between calls the parent pointers lead every walk to the neighbour in the
\* order of the keys, and traverse and destroy_node come to every node.
Neighbours ==
    pc = "idle" =>
        /\ traverse[tree.root] = nodes
        /\ \A x \in nodes :
              /\ Neighbour("right", x) = Least({y \in nodes : y > x})
              /\ Neighbour("left", x) = Greatest({y \in nodes : y < x})

\* The number of black nodes down to a leaf, or Nil when the paths differ.
BlackHeight ==
    LET height[x \in Ref] ==
            LET l == height[tree.child["left"][x]]
                r == height[tree.child["right"][x]]
            IN  IF x = Nil THEN 0
                ELSE IF l = Nil \/ r = Nil \/ l # r THEN Nil
                ELSE l + (IF tree.color[x] = "black" THEN 1 ELSE 0)
    IN  height

\* Between calls the tree is a red-black tree, as long as no deletion has met a
\* red near nephew with a black far one.
RedBlack ==
    pc = "idle" /\ ~spoilt =>
        /\ rb_color(tree, tree.root) = "black"
        /\ \A x \in nodes : tree.color[x] = "red" =>
              \A s \in Sides : rb_color(tree, tree.child[s][x]) = "black"
        /\ BlackHeight[tree.root] # Nil

\* No round follows a null pointer: rb_insert has a grandparent in every tree,
\* rb_delete a sibling in every tree that is not spoilt.
FixupSafe ==
    /\ pc = "insert" /\ RedParent => tree.parent[tree.parent[cur]] # Nil
    /\ pc = "dead" => spoilt

\* Every call returns, even in a spoilt tree, or the process dies.
CallEnds == pc # "idle" ~> pc \in {"idle", "dead"}
=============================================================================
