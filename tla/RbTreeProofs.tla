----------------------------- MODULE RbTreeProofs ----------------------------
(***************************************************************************)
(* The search tree stays one, for any keys and any calls: its links agree, *)
(* its order is right, and what the loops and recursions over it compute.  *)
(***************************************************************************)
EXTENDS RbTree, FiniteSetTheorems, WellFoundedInduction, TLAPS

LEMMA RefFacts == Keys \subseteq Nat /\ Nil \notin Keys /\ Keys \subseteq Ref /\ Nil \in Ref
  BY KeysAssumption DEF Ref

LEMMA SideFacts ==
    /\ "left" \in Sides /\ "right" \in Sides /\ "left" # "right"
    /\ Other("left") = "right" /\ Other("right") = "left"
    /\ \A s \in Sides : Other(s) \in Sides /\ Other(s) # s /\ Other(Other(s)) = s
    /\ \A r, s \in Sides : r # s => r = Other(s)
  BY DEF Sides, Other

-----------------------------------------------------------------------------
(* What the assignments do *)

Colors == {"red", "black"}
Links == [Keys -> Ref]
Kids == [Sides -> Links]
Tree == [root : Ref, child : Kids, parent : Links, color : [Keys -> Colors]]

LEMMA TreeParts ==
    ASSUME NEW t \in Tree
    PROVE  /\ t.root \in Ref /\ t.child \in Kids /\ t.parent \in Links
           /\ t.color \in [Keys -> Colors]
           /\ \A s \in Sides, x \in Keys : t.child[s][x] \in Ref
           /\ \A x \in Keys : t.parent[x] \in Ref /\ t.color[x] \in Colors
  BY DEF Tree, Kids, Links

\* g is f but for x.
LinkSet(g, f, x, v) == g \in Links /\ \A z \in Keys : g[z] = IF z = x THEN v ELSE f[z]

LEMMA PutIs ==
    ASSUME NEW f \in Links, NEW x \in Ref, NEW v \in Ref
    PROVE  LinkSet(Put(f, x, v), f, x, v)
  BY RefFacts DEF Put, Ref, LinkSet, Links

SetKid(c, s, x, v) == [c EXCEPT ![s][x] = v]

KidSet(d, c, s, x, v) ==
    /\ d \in Kids
    /\ \A r \in Sides, z \in Keys : d[r][z] = IF r = s /\ z = x THEN v ELSE c[r][z]

LEMMA SetKidIs ==
    ASSUME NEW c \in Kids, NEW s \in Sides, NEW x \in Keys, NEW v \in Ref
    PROVE  KidSet(SetKid(c, s, x, v), c, s, x, v)
  BY DEF SetKid, Kids, KidSet, Links

Painted(u, t, x, c) ==
    /\ u \in Tree /\ u.root = t.root /\ u.child = t.child /\ u.parent = t.parent
    /\ \A z \in Keys : u.color[z] = IF z = x THEN c ELSE t.color[z]

LEMMA PaintIs ==
    ASSUME NEW t \in Tree, NEW x \in Keys, NEW c \in Colors
    PROVE  Painted(Paint(t, x, c), t, x, c)
  BY DEF Paint, Tree, Painted

\* y takes the place of x.
Replaced(u, t, x, y) ==
    /\ u \in Tree /\ u.parent = t.parent /\ u.color = t.color
    /\ u.root = IF t.parent[x] = Nil THEN y ELSE t.root
    /\ \A r \in Sides, z \in Keys :
          u.child[r][z] = IF z = t.parent[x] /\ r = SideOf(t, x) THEN y ELSE t.child[r][z]

LEMMA ReplaceIs ==
    ASSUME NEW t \in Tree, NEW x \in Keys, NEW y \in Ref
    PROVE  Replaced(Replace(t, x, y), t, x, y)
<1>1. CASE t.parent[x] = Nil
  <2>1. Replace(t, x, y) = [t EXCEPT !.root = y]
    BY <1>1 DEF Replace
  <2> QED BY <1>1, <2>1, RefFacts DEF Tree, Replaced
<1>2. CASE t.parent[x] # Nil
  <2> DEFINE c == SetKid(t.child, SideOf(t, x), t.parent[x], y)
  <2>1. Replace(t, x, y) = [t EXCEPT !.child = c]
    BY <1>2 DEF Replace, SetKid
  <2>2. t.parent[x] \in Keys /\ SideOf(t, x) \in Sides
    BY <1>2, TreeParts DEF Ref, SideOf, Sides
  <2>3. KidSet(c, t.child, SideOf(t, x), t.parent[x], y)
    BY <2>2, SetKidIs, TreeParts
  <2> HIDE DEF c
  <2>4. c \in Kids
    BY <2>3 DEF KidSet
  <2>5. /\ Replace(t, x, y) \in Tree /\ Replace(t, x, y).child = c
        /\ Replace(t, x, y).parent = t.parent /\ Replace(t, x, y).color = t.color
        /\ Replace(t, x, y).root = t.root
    BY <2>1, <2>4 DEF Tree
  <2> QED BY <1>2, <2>3, <2>5 DEF Replaced, KidSet
<1> QED BY <1>1, <1>2

\* y, the child of x on the other side of s, and x change places.
Rotated(u, t, s, x, y) ==
    /\ u \in Tree /\ u.color = t.color
    /\ u.root = IF t.parent[x] = Nil THEN y ELSE t.root
    /\ \A r \in Sides, z \in Keys :
          u.child[r][z] =
              IF r = s /\ z = y THEN x
              ELSE IF r = Other(s) /\ z = x THEN t.child[s][y]
              ELSE IF z = t.parent[x] /\ r = SideOf(t, x) THEN y
              ELSE t.child[r][z]
    /\ \A z \in Keys :
          u.parent[z] =
              IF z = x THEN y ELSE IF z = y THEN t.parent[x]
              ELSE IF z = t.child[s][y] THEN x ELSE t.parent[z]

LEMMA RotateIs ==
    ASSUME NEW t \in Tree, NEW s \in Sides, NEW x \in Keys, NEW y \in Keys, y = t.child[Other(s)][x]
    PROVE  Rotated(rotate(t, s, x), t, s, x, y)
<1> DEFINE u == rotate(t, s, x)
           top == Replace(t, x, y)
           inner == t.child[s][y]
           c1 == SetKid(top.child, Other(s), x, inner)
           c2 == SetKid(c1, s, y, x)
           f == Put(top.parent, inner, x)
           g == [f EXCEPT ![y] = t.parent[x], ![x] = y]
<1>1. inner \in Ref /\ y \in Ref /\ x \in Ref /\ Other(s) \in Sides /\ t.parent[x] \in Ref
  BY TreeParts, SideFacts, RefFacts
<1>2. Replaced(top, t, x, y)
  BY <1>1, ReplaceIs
<1>3. top.child \in Kids /\ top.parent \in Links /\ top.parent = t.parent /\ top \in Tree
  <2> HIDE DEF top
  <2> QED BY <1>2, TreeParts DEF Replaced
<1>4. KidSet(c1, top.child, Other(s), x, inner)
  BY <1>1, <1>3, SetKidIs
<1>5. KidSet(c2, c1, s, y, x)
  <2>1. c1 \in Kids
    BY <1>4 DEF KidSet
  <2> HIDE DEF c1
  <2> QED BY <1>1, <2>1, SetKidIs
<1>6. LinkSet(f, t.parent, inner, x)
  BY <1>1, <1>3, PutIs
<1>7. /\ g \in Links
      /\ \A z \in Keys : g[z] = IF z = x THEN y ELSE IF z = y THEN t.parent[x] ELSE f[z]
  <2>1. f \in Links
    BY <1>6 DEF LinkSet
  <2> HIDE DEF f
  <2> QED BY <1>1, <2>1 DEF Links
<1>8. u = [top EXCEPT !.child = c2, !.parent = g]
  <2>1. y # Nil
    BY RefFacts
  <2>2. u = [top EXCEPT !.child[Other(s)][x] = inner, !.child[s][y] = x,
                        !.parent = [Put(@, inner, x) EXCEPT ![y] = t.parent[x], ![x] = y]]
    BY <2>1 DEF rotate
  <2> HIDE DEF top, inner
  <2> QED BY <1>3, <2>2 DEF SetKid, Tree
<1> HIDE DEF u, top, c1, c2, f, g
<1>9. /\ u \in Tree /\ u.color = top.color /\ u.root = top.root /\ u.child = c2 /\ u.parent = g
  <2>1. c2 \in Kids
    BY <1>5 DEF KidSet
  <2> QED BY <1>3, <1>7, <1>8, <2>1 DEF Tree
<1>10. ASSUME NEW r \in Sides, NEW z \in Keys
       PROVE  u.child[r][z] =
                  IF r = s /\ z = y THEN x
                  ELSE IF r = Other(s) /\ z = x THEN inner
                  ELSE IF z = t.parent[x] /\ r = SideOf(t, x) THEN y
                  ELSE t.child[r][z]
  BY <1>2, <1>4, <1>5, <1>9 DEF Replaced, KidSet
<1>11. ASSUME NEW z \in Keys
       PROVE  u.parent[z] =
                  IF z = x THEN y ELSE IF z = y THEN t.parent[x]
                  ELSE IF z = inner THEN x ELSE t.parent[z]
  BY <1>6, <1>7, <1>9 DEF LinkSet
<1>12. Rotated(u, t, s, x, y)
  BY <1>2, <1>9, <1>10, <1>11 DEF Replaced, Rotated
<1> QED BY <1>12 DEF u

-----------------------------------------------------------------------------
(* Search trees *)

\* y is on side s of x in the order of the keys.
On(s, y, x) == IF s = "left" THEN y < x ELSE x < y

LEMMA OnFacts ==
    /\ \A s \in Sides, x \in Keys : ~On(s, x, x)
    /\ \A s \in Sides, x \in Keys, y \in Keys : On(s, y, x) => ~On(Other(s), y, x)
    /\ \A s \in Sides, x \in Keys, y \in Keys : On(s, y, x) <=> On(Other(s), x, y)
    /\ \A s \in Sides, x \in Keys, y \in Keys : x # y => On(s, y, x) \/ On(Other(s), y, x)
    /\ \A s \in Sides, x \in Keys, y \in Keys, z \in Keys : On(s, z, y) /\ On(s, y, x) => On(s, z, x)
  BY KeysAssumption DEF On, Sides, Other

\* What a subtree holds, by a function D from the nodes.
Dn(D, x) == IF x = Nil THEN {} ELSE D[x]

\* t is a search tree of the nodes N, and D[x] holds what is at or below x.
Rooted(t, N, D) ==
    IF N = {} THEN t.root = Nil ELSE t.root \in N /\ D[t.root] = N /\ t.parent[t.root] = Nil
Unused(t, N) == \A x \in Keys \ N : t.parent[x] = Nil /\ \A s \in Sides : t.child[s][x] = Nil
KidsUp(t, N) ==
    \A x \in N, s \in Sides :
        t.child[s][x] # Nil => t.child[s][x] \in N /\ t.parent[t.child[s][x]] = x
ParentsDown(t, N) ==
    \A x \in N : x # t.root => t.parent[x] \in N /\ \E s \in Sides : t.child[s][t.parent[x]] = x
Covered(t, N, D) ==
    \A x \in N, s \in Sides :
        D[x] = {x} \cup Dn(D, t.child[s][x]) \cup Dn(D, t.child[Other(s)][x])
InOrder(t, N, D) ==
    \A x \in N, s \in Sides : \A y \in Dn(D, t.child[s][x]) : On(s, y, x)

Shape(t, N, D) ==
    /\ t \in Tree /\ N \subseteq Keys /\ IsFiniteSet(N) /\ D \in [N -> SUBSET N]
    /\ Rooted(t, N, D) /\ Unused(t, N) /\ KidsUp(t, N) /\ ParentsDown(t, N)
    /\ Covered(t, N, D) /\ InOrder(t, N, D)

LEMMA ShapeFacts ==
    ASSUME NEW t, NEW N, NEW D, Shape(t, N, D)
    PROVE  /\ Nil \notin N
           /\ \A x \in N : x \in D[x] /\ D[x] \subseteq N /\ IsFiniteSet(D[x])
           /\ \A x \in N, s \in Sides : t.child[s][x] \in N \cup {Nil}
           /\ \A x \in N, s \in Sides : t.child[s][x] # Nil =>
                 /\ D[t.child[s][x]] \subseteq D[x] /\ x \notin D[t.child[s][x]]
                 /\ On(s, t.child[s][x], x) /\ t.child[s][x] \in N
                 /\ t.parent[t.child[s][x]] = x /\ t.child[s][x] # t.root
                 /\ t.child[Other(s)][x] # t.child[s][x]
           /\ \A x \in N : t.parent[x] \in N \cup {Nil} /\ (t.parent[x] = Nil <=> x = t.root)
           /\ \A x \in N : x # t.root =>
                 /\ t.parent[x] \in N /\ SideOf(t, x) \in Sides
                 /\ t.child[SideOf(t, x)][t.parent[x]] = x
           /\ t.root \in N \cup {Nil}
<1>1. Nil \notin N /\ N \subseteq Keys
  BY RefFacts DEF Shape
<1>2. ASSUME NEW x \in N PROVE x \in D[x] /\ D[x] \subseteq N /\ IsFiniteSet(D[x])
  <2>1. D[x] \subseteq N
    BY DEF Shape
  <2>2. x \in D[x]
    BY SideFacts DEF Shape, Covered
  <2> QED BY <2>1, <2>2, FS_Subset DEF Shape
<1>3. ASSUME NEW x \in N, NEW s \in Sides, t.child[s][x] # Nil
      PROVE  /\ D[t.child[s][x]] \subseteq D[x] /\ x \notin D[t.child[s][x]]
             /\ On(s, t.child[s][x], x) /\ t.child[s][x] \in N
             /\ t.parent[t.child[s][x]] = x /\ t.child[s][x] # t.root
             /\ t.child[Other(s)][x] # t.child[s][x]
  <2> DEFINE c == t.child[s][x]
  <2>1. c \in N /\ t.parent[c] = x
    BY <1>3 DEF Shape, KidsUp
  <2>2. Dn(D, c) = D[c]
    BY <1>3 DEF Dn
  <2>3. D[c] \subseteq D[x]
    BY <2>2 DEF Shape, Covered
  <2>4. \A y \in D[c] : On(s, y, x)
    BY <2>2 DEF Shape, InOrder
  <2>5. x \notin D[c]
    BY <1>1, <2>4, OnFacts
  <2>6. On(s, c, x)
    BY <1>2, <2>1, <2>4
  <2>7. c # t.root
    BY <1>1, <2>1 DEF Shape, Rooted
  <2>8. t.child[Other(s)][x] # c
    <3>1. SUFFICES ASSUME t.child[Other(s)][x] = c PROVE FALSE
      OBVIOUS
    <3>2. On(Other(s), c, x)
      BY <1>2, <2>1, <2>2, <3>1, SideFacts DEF Shape, InOrder
    <3> QED BY <1>1, <2>1, <2>6, <3>2, OnFacts
  <2> QED BY <2>1, <2>3, <2>5, <2>6, <2>7, <2>8
<1>4. \A x \in N, s \in Sides : t.child[s][x] \in N \cup {Nil}
  BY DEF Shape, KidsUp
<1>5. ASSUME NEW x \in N, x # t.root
      PROVE  /\ t.parent[x] \in N /\ SideOf(t, x) \in Sides
             /\ t.child[SideOf(t, x)][t.parent[x]] = x
  <2>1. PICK s \in Sides : t.child[s][t.parent[x]] = x /\ t.parent[x] \in N
    BY <1>5 DEF Shape, ParentsDown
  <2> QED BY <2>1 DEF SideOf, Sides
<1>6. t.root \in N \cup {Nil}
  BY DEF Shape, Rooted
<1>7. ASSUME NEW x \in N PROVE t.parent[x] \in N \cup {Nil} /\ (t.parent[x] = Nil <=> x = t.root)
  BY <1>1, <1>5 DEF Shape, Rooted
<1> QED BY <1>1, <1>2, <1>3, <1>4, <1>5, <1>6, <1>7

\* A subtree has its size, which is less than that of what it is part of.
LEMMA SizeFacts ==
    ASSUME NEW t, NEW N, NEW D, Shape(t, N, D), NEW x \in N
    PROVE  /\ Cardinality(D[x]) \in Nat /\ Cardinality(D[x]) <= Cardinality(N) /\ Cardinality(N) \in Nat
           /\ \A s \in Sides : t.child[s][x] # Nil =>
                 Cardinality(D[t.child[s][x]]) < Cardinality(D[x])
<1>1. IsFiniteSet(D[x]) /\ D[x] \subseteq N /\ IsFiniteSet(N)
  BY ShapeFacts DEF Shape
<1>2. ASSUME NEW s \in Sides, t.child[s][x] # Nil
      PROVE  Cardinality(D[t.child[s][x]]) < Cardinality(D[x])
  <2>1. D[t.child[s][x]] \subseteq D[x] /\ D[t.child[s][x]] # D[x]
    BY <1>2, ShapeFacts
  <2>2. /\ Cardinality(D[t.child[s][x]]) <= Cardinality(D[x])
        /\ Cardinality(D[t.child[s][x]]) # Cardinality(D[x])
    BY <1>1, <2>1, FS_Subset
  <2>3. Cardinality(D[t.child[s][x]]) \in Nat /\ Cardinality(D[x]) \in Nat
    BY <1>1, <2>1, FS_Subset, FS_CardinalityType
  <2> QED BY <2>2, <2>3
<1> QED BY <1>1, <1>2, FS_Subset, FS_CardinalityType

\* A set of numbers that is not empty has a least element.
LEMMA LeastNumber ==
    ASSUME NEW S, S \subseteq Nat, S # {}
    PROVE  \E n \in S : \A m \in S : n <= m
<1>1. PICK n \in S : \A m \in S : ~ (<<m, n>> \in OpToRel(<, Nat))
  BY NatLessThanWellFounded, WFMin
<1>2. \A m \in S : n <= m
  <2>1. SUFFICES ASSUME NEW m \in S, m < n PROVE FALSE
    OBVIOUS
  <2>2. <<m, n>> \in OpToRel(<, Nat)
    BY <2>1 DEF OpToRel
  <2> QED BY <1>1, <2>2
<1> QED BY <1>2

\* What holds for a node if for its children holds for all nodes.
LEMMA FromBelow ==
    ASSUME NEW t, NEW N, NEW D, Shape(t, N, D), NEW S,
           \A x \in N : (\A s \in Sides : t.child[s][x] # Nil => t.child[s][x] \in S) => x \in S
    PROVE  N \subseteq S
<1>1. SUFFICES ASSUME N \ S # {} PROVE FALSE
  OBVIOUS
<1> DEFINE R == {Cardinality(D[x]) : x \in N \ S}
<1>2. R \subseteq Nat /\ R # {}
  BY <1>1, SizeFacts
<1>3. PICK n \in R : \A m \in R : n <= m
  <2> HIDE DEF R
  <2> QED BY <1>2, LeastNumber
<1>4. PICK x \in N \ S : n = Cardinality(D[x])
  BY <1>3
<1>5. PICK s \in Sides : t.child[s][x] # Nil /\ t.child[s][x] \notin S
  BY <1>4
<1>6. t.child[s][x] \in N \ S
  BY <1>4, <1>5, ShapeFacts
<1>7. Cardinality(D[t.child[s][x]]) < n /\ Cardinality(D[t.child[s][x]]) \in Nat /\ n \in Nat
  BY <1>4, <1>5, <1>6, SizeFacts
<1>8. n <= Cardinality(D[t.child[s][x]])
  BY <1>3, <1>6
<1> QED BY <1>7, <1>8

\* What holds for the root, and for a node if for its parent, holds for all nodes.
LEMMA FromAbove ==
    ASSUME NEW t, NEW N, NEW D, Shape(t, N, D), NEW S,
           t.root \in N => t.root \in S,
           \A x \in N : x # t.root /\ t.parent[x] \in S => x \in S
    PROVE  N \subseteq S
<1>1. SUFFICES ASSUME N \ S # {} PROVE FALSE
  OBVIOUS
<1> DEFINE Out(x) == Cardinality(N) - Cardinality(D[x])
           R == {Out(x) : x \in N \ S}
<1>2. \A x \in N : Out(x) \in Nat
  BY SizeFacts
<1>3. PICK n \in R : \A m \in R : n <= m
  <2>1. R \subseteq Nat /\ R # {}
    BY <1>1, <1>2
  <2> HIDE DEF R
  <2> QED BY <2>1, LeastNumber
<1>4. PICK x \in N \ S : n = Out(x)
  BY <1>3
<1>5. x # t.root /\ t.parent[x] \in N \ S
  BY <1>4, ShapeFacts
<1>6. Cardinality(D[x]) < Cardinality(D[t.parent[x]])
  BY <1>4, <1>5, ShapeFacts, SizeFacts, RefFacts
<1>7. Out(t.parent[x]) < Out(x)
  BY <1>4, <1>5, <1>6, SizeFacts
<1>8. n <= Out(t.parent[x])
  <2> HIDE DEF Out
  <2> QED BY <1>3, <1>5
<1> HIDE DEF Out
<1> QED BY <1>2, <1>4, <1>5, <1>7, <1>8

-----------------------------------------------------------------------------
(* A rotation *)

\* What the subtrees of x and y hold after the rotation.
Turned(t, D, s, x, y) ==
    [D EXCEPT ![x] = {x} \cup Dn(D, t.child[s][x]) \cup Dn(D, t.child[s][y]), ![y] = D[x]]

\* The nodes next to a rotation are different ones.
LEMMA RotateNodes ==
    ASSUME NEW t, NEW N, NEW D, Shape(t, N, D), NEW s \in Sides, NEW x \in N, NEW y \in N,
           y = t.child[Other(s)][x]
    PROVE  /\ x # y /\ On(Other(s), y, x) /\ t.parent[y] = x
           /\ t.parent[x] # x /\ t.parent[x] # y /\ t.child[s][y] # x /\ t.child[s][y] # y
           /\ t.child[s][x] # x /\ t.child[s][x] # y
           /\ t.child[Other(s)][y] # x /\ t.child[Other(s)][y] # y
           /\ y # t.root
           /\ \A r \in Sides, z \in N : t.child[r][z] = x => z = t.parent[x] /\ r = SideOf(t, x)
           /\ \A r \in Sides, z \in N : t.child[r][z] = y => z = x /\ r = Other(s)
           /\ \A r \in Sides, z \in N : t.child[s][y] # Nil /\ t.child[r][z] = t.child[s][y] => z = y /\ r = s
<1>1. x # Nil /\ y # Nil /\ Other(s) \in Sides /\ Other(Other(s)) = s /\ x \in Keys /\ y \in Keys
  BY ShapeFacts, SideFacts DEF Shape
<1>2. On(Other(s), y, x) /\ t.parent[y] = x /\ y # t.root /\ t.child[s][x] # y
  BY <1>1, ShapeFacts
<1>3. x # y
  BY <1>1, <1>2, OnFacts
<1>4. ASSUME NEW z \in N, NEW r \in Sides, t.child[r][z] # Nil
      PROVE  /\ t.child[r][z] # z /\ t.child[r][z] # t.root /\ t.child[r][z] \in N
             /\ t.parent[t.child[r][z]] = z
             /\ \A q \in Sides : t.child[q][z] = t.child[r][z] => q = r
  BY <1>4, ShapeFacts, SideFacts
<1>5. \A r \in Sides, z \in N : t.child[r][z] = y => z = x /\ r = Other(s)
  BY <1>1, <1>2, <1>4
<1>6. ASSUME NEW r \in Sides, NEW z \in N, t.child[r][z] = x
      PROVE  z = t.parent[x] /\ r = SideOf(t, x)
  <2>1. x # t.root /\ z = t.parent[x]
    BY <1>1, <1>4, <1>6
  <2>2. SideOf(t, x) \in Sides /\ t.child[SideOf(t, x)][z] = x
    BY <2>1, ShapeFacts
  <2> QED BY <1>1, <1>4, <1>6, <2>1, <2>2
<1>7. \A r \in Sides : t.child[r][y] # x
  <2>1. \A r \in Sides : t.child[r][y] # Nil => x \notin D[t.child[r][y]]
    BY <1>1, ShapeFacts, RefFacts
  <2>2. x \in D[x]
    BY ShapeFacts
  <2> QED BY <1>1, <2>1, <2>2
<1>8. t.parent[x] # x /\ t.parent[x] # y
  <2>1. CASE x = t.root
    BY <1>1, <2>1, ShapeFacts
  <2>2. CASE x # t.root
    BY <1>1, <1>4, <1>7, <2>2, ShapeFacts
  <2> QED BY <2>1, <2>2
<1>9. \A r \in Sides, z \in N : t.child[s][y] # Nil /\ t.child[r][z] = t.child[s][y] => z = y /\ r = s
  BY <1>4
<1> QED BY <1>1, <1>2, <1>3, <1>4, <1>5, <1>6, <1>7, <1>8, <1>9

LEMMA RotateShape ==
    ASSUME NEW t, NEW N, NEW D, Shape(t, N, D), NEW s \in Sides, NEW x \in N, NEW y \in N,
           y = t.child[Other(s)][x], NEW u, Rotated(u, t, s, x, y)
    PROVE  Shape(u, N, Turned(t, D, s, x, y))
<1> DEFINE p == t.parent[x]
           a == t.child[s][x]
           inner == t.child[s][y]
           outer == t.child[Other(s)][y]
           E == Turned(t, D, s, x, y)
<1>1. /\ x \in Keys /\ y \in Keys /\ N \subseteq Keys /\ Other(s) \in Sides /\ Other(s) # s
      /\ Other(Other(s)) = s /\ t \in Tree /\ IsFiniteSet(N) /\ D \in [N -> SUBSET N]
      /\ \A r \in Sides : r # s => r = Other(s)
  BY SideFacts DEF Shape
<1>2. /\ x # y /\ On(Other(s), y, x) /\ t.parent[y] = x /\ p # x /\ p # y
      /\ inner # x /\ inner # y /\ a # x /\ a # y /\ outer # x /\ outer # y /\ y # t.root
      /\ \A r \in Sides, z \in N : t.child[r][z] = x => z = p /\ r = SideOf(t, x)
      /\ \A r \in Sides, z \in N : t.child[r][z] = y => z = x /\ r = Other(s)
      /\ \A r \in Sides, z \in N : inner # Nil /\ t.child[r][z] = inner => z = y /\ r = s
  BY RotateNodes
<1>3. /\ Nil \notin N /\ \A z \in N, r \in Sides : t.child[r][z] \in N \cup {Nil}
      /\ p \in N \cup {Nil} /\ (p = Nil <=> x = t.root)
      /\ (p # Nil => SideOf(t, x) \in Sides /\ t.child[SideOf(t, x)][p] = x)
      /\ t.root \in N
  BY ShapeFacts DEF Shape, Rooted
<1>4. /\ a \in N \cup {Nil} /\ inner \in N \cup {Nil} /\ outer \in N \cup {Nil}
  BY <1>1, <1>3
<1>5. /\ u \in Tree /\ u.root = IF p = Nil THEN y ELSE t.root
      /\ \A r \in Sides, z \in Keys :
            u.child[r][z] = IF r = s /\ z = y THEN x
                            ELSE IF r = Other(s) /\ z = x THEN inner
                            ELSE IF z = p /\ r = SideOf(t, x) THEN y
                            ELSE t.child[r][z]
      /\ \A z \in Keys :
            u.parent[z] = IF z = x THEN y ELSE IF z = y THEN p
                          ELSE IF z = inner THEN x ELSE t.parent[z]
  BY DEF Rotated
<1>6. /\ D[x] = {x} \cup Dn(D, a) \cup D[y]
      /\ D[y] = {y} \cup Dn(D, inner) \cup Dn(D, outer)
      /\ y \in D[y] /\ x \in D[x]
  <2>1. /\ D[x] = {x} \cup Dn(D, a) \cup Dn(D, y) /\ Dn(D, y) = D[y]
        /\ D[y] = {y} \cup Dn(D, inner) \cup Dn(D, outer)
    BY <1>1, <1>3 DEF Shape, Covered, Dn
  <2> QED BY <2>1
<1>7. /\ E \in [N -> SUBSET N] /\ E[x] = {x} \cup Dn(D, a) \cup Dn(D, inner) /\ E[y] = D[x]
      /\ \A z \in N : z # x /\ z # y => E[z] = D[z]
  <2>1. Dn(D, a) \subseteq N /\ Dn(D, inner) \subseteq N /\ D[x] \subseteq N
    BY <1>1, <1>4 DEF Dn
  <2> HIDE DEF a, inner
  <2>2. E = [D EXCEPT ![x] = {x} \cup Dn(D, a) \cup Dn(D, inner), ![y] = D[x]]
    BY DEF Turned, a, inner
  <2> QED BY <1>1, <1>2, <2>1, <2>2
<1>8. /\ \A z \in N \cup {Nil} : z # x /\ z # y => Dn(E, z) = Dn(D, z)
      /\ Dn(E, y) = D[x] /\ Dn(D, x) = D[x] /\ Dn(D, y) = D[y] /\ Dn(E, x) = E[x]
  BY <1>3, <1>7 DEF Dn
<1> HIDE DEF p, a, inner, outer, E
<1>9. Rooted(u, N, E)
  <2>1. CASE p = Nil
    BY <1>1, <1>2, <1>3, <1>5, <1>7, <2>1 DEF Shape, Rooted
  <2>2. CASE p # Nil
    <3>1. t.root # x /\ t.root # y /\ t.parent[t.root] = Nil /\ D[t.root] = N
      BY <1>2, <1>3, <2>2 DEF Shape, Rooted
    <3>2. t.root # inner
      BY <1>1, <1>3, <3>1 DEF inner, Shape, KidsUp
    <3> QED BY <1>1, <1>3, <1>5, <1>7, <2>2, <3>1, <3>2 DEF Rooted
  <2> QED BY <2>1, <2>2
<1>10. Unused(u, N)
  <2> SUFFICES ASSUME NEW z \in Keys \ N
               PROVE  u.parent[z] = Nil /\ \A r \in Sides : u.child[r][z] = Nil
    BY DEF Unused
  <2>1. t.parent[z] = Nil /\ \A r \in Sides : t.child[r][z] = Nil
    BY DEF Shape, Unused
  <2>2. z # x /\ z # y /\ z # p /\ z # inner
    BY <1>3, <1>4, RefFacts
  <2> QED BY <1>5, <2>1, <2>2
<1>11. KidsUp(u, N)
  <2> SUFFICES ASSUME NEW z \in N, NEW r \in Sides, u.child[r][z] # Nil
               PROVE  u.child[r][z] \in N /\ u.parent[u.child[r][z]] = z
    BY DEF KidsUp
  <2>1. CASE r = s /\ z = y
    BY <1>1, <1>5, <2>1
  <2>2. CASE r = Other(s) /\ z = x
    <3>1. u.child[r][z] = inner
      BY <1>1, <1>2, <1>5, <2>2
    <3>2. inner \in N
      BY <1>4, <3>1
    <3> QED BY <1>1, <1>2, <1>5, <2>2, <3>1, <3>2
  <2>3. CASE z = p /\ r = SideOf(t, x)
    <3>1. u.child[r][z] = y
      BY <1>1, <1>2, <1>5, <2>3
    <3> QED BY <1>1, <1>2, <1>5, <2>3, <3>1
  <2>4. CASE ~(r = s /\ z = y) /\ ~(r = Other(s) /\ z = x) /\ ~(z = p /\ r = SideOf(t, x))
    <3> DEFINE c == t.child[r][z]
    <3>1. u.child[r][z] = c
      BY <1>1, <1>5, <2>4
    <3>2. c \in N /\ t.parent[c] = z
      BY <3>1 DEF Shape, KidsUp
    <3>3. c # x /\ c # y /\ c # inner
      BY <1>2, <1>3, <2>4, <3>2
    <3> HIDE DEF c
    <3> QED BY <1>1, <1>5, <3>1, <3>2, <3>3
  <2> QED BY <2>1, <2>2, <2>3, <2>4
<1>12. ParentsDown(u, N)
  <2> SUFFICES ASSUME NEW z \in N, z # u.root
               PROVE  u.parent[z] \in N /\ \E r \in Sides : u.child[r][u.parent[z]] = z
    BY DEF ParentsDown
  <2>1. CASE z = x
    BY <1>1, <1>5, <2>1
  <2>2. CASE z = y
    <3>1. p \in N /\ u.parent[z] = p
      BY <1>1, <1>2, <1>3, <1>5, <2>2
    <3>2. u.child[SideOf(t, x)][p] = y
      BY <1>1, <1>2, <1>3, <1>5, <3>1
    <3> QED BY <1>3, <2>2, <3>1, <3>2
  <2>3. CASE z = inner
    <3>1. u.parent[z] = x
      BY <1>1, <1>2, <1>5, <2>3
    <3>2. u.child[Other(s)][x] = inner
      BY <1>1, <1>2, <1>5
    <3> QED BY <1>1, <2>3, <3>1, <3>2
  <2>4. CASE z # x /\ z # y /\ z # inner
    <3>1. z # t.root
      BY <1>3, <1>5, <2>4
    <3>2. PICK r \in Sides : t.child[r][t.parent[z]] = z /\ t.parent[z] \in N
      BY <3>1 DEF Shape, ParentsDown
    <3>3. u.parent[z] = t.parent[z]
      BY <1>1, <1>5, <2>4
    <3>4. ~(r = s /\ t.parent[z] = y) /\ ~(r = Other(s) /\ t.parent[z] = x)
      BY <2>4, <3>2 DEF inner
    <3>5. ~(t.parent[z] = p /\ r = SideOf(t, x))
      BY <1>3, <2>4, <3>2
    <3>6. u.child[r][t.parent[z]] = z
      BY <1>1, <1>5, <3>2, <3>4, <3>5
    <3> QED BY <3>2, <3>3, <3>6
  <2> QED BY <2>1, <2>2, <2>3, <2>4
<1>13. ASSUME NEW z \in N
       PROVE  /\ E[z] = {z} \cup Dn(E, u.child[s][z]) \cup Dn(E, u.child[Other(s)][z])
              /\ \A r \in Sides : \A w \in Dn(E, u.child[r][z]) : On(r, w, z)
  <2>1. /\ D[z] = {z} \cup Dn(D, t.child[s][z]) \cup Dn(D, t.child[Other(s)][z])
        /\ \A r \in Sides : \A w \in Dn(D, t.child[r][z]) : On(r, w, z)
    BY DEF Shape, Covered, InOrder
  <2>2. CASE z = x
    <3>1. u.child[s][z] = a /\ u.child[Other(s)][z] = inner
      BY <1>1, <1>2, <1>5, <2>2 DEF a
    <3>2. Dn(E, a) = Dn(D, a) /\ Dn(E, inner) = Dn(D, inner)
      BY <1>2, <1>4, <1>8
    <3>3. \A w \in Dn(D, a) : On(s, w, x)
      BY <2>1, <2>2 DEF a
    <3>4. \A w \in Dn(D, inner) : On(Other(s), w, x)
      BY <1>1, <1>6, <1>8, <2>1, <2>2
    <3> QED BY <1>1, <1>7, <2>2, <3>1, <3>2, <3>3, <3>4
  <2>3. CASE z = y
    <3>1. u.child[s][z] = x /\ u.child[Other(s)][z] = outer
      BY <1>1, <1>2, <1>5, <2>3 DEF outer
    <3>2. Dn(E, x) = {x} \cup Dn(D, a) \cup Dn(D, inner) /\ Dn(E, outer) = Dn(D, outer)
      BY <1>2, <1>4, <1>7, <1>8
    <3>3. \A w \in Dn(D, outer) : On(Other(s), w, y)
      BY <1>1, <2>1, <2>3 DEF outer
    <3>4. \A w \in Dn(D, inner) : On(s, w, y)
      BY <2>1, <2>3 DEF inner
    <3>5. On(s, x, y)
      BY <1>1, <1>2, OnFacts
    <3>6. \A w \in Dn(D, a) : w \in Keys /\ On(s, w, x)
      <4>1. \A w \in Dn(D, a) : On(s, w, x)
        BY DEF Shape, InOrder, a
      <4>2. Dn(D, a) \subseteq Keys
        BY <1>1, <1>4 DEF Dn
      <4> QED BY <4>1, <4>2
    <3>7. \A w \in Dn(D, a) : On(s, w, y)
      BY <1>1, <3>5, <3>6, OnFacts
    <3>8. E[y] = {y} \cup Dn(E, x) \cup Dn(E, outer)
      BY <1>6, <1>7, <3>2
    <3>9. \A w \in Dn(E, x) : On(s, w, y)
      BY <3>2, <3>4, <3>5, <3>7
    <3> QED BY <1>1, <2>3, <3>1, <3>2, <3>3, <3>8, <3>9
  <2>4. CASE z # x /\ z # y
    <3>1. ASSUME NEW r \in Sides PROVE Dn(E, u.child[r][z]) = Dn(D, t.child[r][z])
      <4>1. CASE z = p /\ r = SideOf(t, x)
        <5>1. u.child[r][z] = y /\ t.child[r][z] = x
          BY <1>1, <1>3, <1>5, <2>4, <4>1
        <5> QED BY <1>8, <5>1
      <4>2. CASE ~(z = p /\ r = SideOf(t, x))
        <5>1. u.child[r][z] = t.child[r][z]
          BY <1>1, <1>5, <2>4, <4>2
        <5>2. t.child[r][z] # x /\ t.child[r][z] # y /\ t.child[r][z] \in N \cup {Nil}
          BY <1>2, <1>3, <2>4, <4>2
        <5> QED BY <1>8, <5>1, <5>2
      <4> QED BY <4>1, <4>2
    <3>2. E[z] = D[z]
      BY <1>7, <2>4
    <3> QED BY <1>1, <2>1, <3>1, <3>2
  <2> QED BY <2>2, <2>3, <2>4
<1>14. Covered(u, N, E) /\ InOrder(u, N, E)
  <2>1. ASSUME NEW z \in N, NEW r \in Sides
        PROVE  E[z] = {z} \cup Dn(E, u.child[r][z]) \cup Dn(E, u.child[Other(r)][z])
    BY <1>1, <1>13
  <2> QED BY <1>13, <2>1 DEF Covered, InOrder
<1>15. Shape(u, N, E)
  BY <1>1, <1>5, <1>7, <1>9, <1>10, <1>11, <1>12, <1>14 DEF Shape
<1> QED BY <1>15 DEF E

-----------------------------------------------------------------------------
(* Subtrees and the order *)

\* The membership of a subtree, from either side.
LEMMA Split ==
    ASSUME NEW t, NEW N, NEW D, Shape(t, N, D), NEW x \in N, NEW s \in Sides, NEW w \in D[x]
    PROVE  \/ w = x
           \/ t.child[s][x] # Nil /\ w \in D[t.child[s][x]] /\ On(s, w, x)
           \/ t.child[Other(s)][x] # Nil /\ w \in D[t.child[Other(s)][x]] /\ On(Other(s), w, x)
<1>1. w \in {x} \cup Dn(D, t.child[s][x]) \cup Dn(D, t.child[Other(s)][x]) /\ Other(s) \in Sides
  BY SideFacts DEF Shape, Covered
<1>2. \A r \in Sides : w \in Dn(D, t.child[r][x]) =>
          t.child[r][x] # Nil /\ w \in D[t.child[r][x]] /\ On(r, w, x)
  BY DEF Shape, InOrder, Dn
<1> QED BY <1>1, <1>2

\* A subtree holds the subtrees of what it holds, and the parent of what it
\* holds, but for its root.
LEMMA Nested ==
    ASSUME NEW t, NEW N, NEW D, Shape(t, N, D), NEW x \in N, NEW y \in D[x]
    PROVE  y \in N /\ D[y] \subseteq D[x] /\ (y # x => t.parent[y] \in D[x])
<1> DEFINE S == {z \in N : \A w \in D[z] : w \in N /\ D[w] \subseteq D[z] /\ (w # z => t.parent[w] \in D[z])}
<1>1. ASSUME NEW z \in N, \A s \in Sides : t.child[s][z] # Nil => t.child[s][z] \in S
      PROVE  z \in S
  <2> SUFFICES ASSUME NEW w \in D[z], w # z
               PROVE  w \in N /\ D[w] \subseteq D[z] /\ t.parent[w] \in D[z]
    BY ShapeFacts
  <2>1. PICK s \in Sides : t.child[s][z] # Nil /\ w \in D[t.child[s][z]]
    BY Split, SideFacts
  <2>2. t.child[s][z] \in S /\ D[t.child[s][z]] \subseteq D[z] /\ t.parent[t.child[s][z]] = z /\ z \in D[z]
    BY <1>1, <2>1, ShapeFacts
  <2> QED BY <2>1, <2>2
<1>2. N \subseteq S
  <2> HIDE DEF S
  <2> QED BY <1>1, FromBelow
<1> QED BY <1>2

\* What is not in a subtree is on one side of all of it.
LEMMA Apart ==
    ASSUME NEW t, NEW N, NEW D, Shape(t, N, D), NEW x \in N, NEW z \in N, z \notin D[x]
    PROVE  \E s \in Sides : \A w \in D[x] : On(s, z, w)
<1> DEFINE S == {y \in N : \A v \in N \ D[y] : \E s \in Sides : \A w \in D[y] : On(s, v, w)}
<1>1. t.root \in N => t.root \in S
  BY DEF Shape, Rooted
<1>2. ASSUME NEW y \in N, y # t.root, t.parent[y] \in S PROVE y \in S
  <2> DEFINE p == t.parent[y]
             q == SideOf(t, y)
  <2>1. p \in N /\ q \in Sides /\ t.child[q][p] = y /\ Other(q) \in Sides /\ N \subseteq Keys /\ y # Nil
    BY <1>2, ShapeFacts, SideFacts DEF Shape
  <2>2. D[y] \subseteq D[p] /\ D[y] \subseteq N
    BY <2>1, ShapeFacts
  <2> SUFFICES ASSUME NEW v \in N \ D[y] PROVE \E s \in Sides : \A w \in D[y] : On(s, v, w)
    OBVIOUS
  <2>3. CASE v \notin D[p]
    BY <1>2, <2>2, <2>3
  <2>4. CASE v \in D[p]
    <3>1. \A w \in D[y] : On(q, w, p)
      BY <2>1 DEF Shape, InOrder, Dn
    <3>2. \A w \in D[y] : On(Other(q), p, w)
      BY <2>1, <2>2, <3>1, OnFacts
    <3>3. v = p \/ On(Other(q), v, p)
      BY <2>1, <2>4, Split
    <3>4. \A w \in D[y] : On(Other(q), v, w)
      <4> HIDE DEF p, q
      <4> QED BY <2>1, <2>2, <3>2, <3>3, OnFacts
    <3> QED BY <2>1, <3>4
  <2> QED BY <2>3, <2>4
<1>3. N \subseteq S
  <2> HIDE DEF S
  <2> QED BY <1>1, <1>2, FromAbove
<1> QED BY <1>3

\* All of it is then on the same side of what is in it.
LEMMA Beyond ==
    ASSUME NEW t, NEW N, NEW D, Shape(t, N, D), NEW x \in N, NEW z \in N, z \notin D[x],
           NEW v \in D[x], NEW s \in Sides, On(s, z, v), NEW w \in D[x]
    PROVE  On(s, z, w)
<1>1. PICK r \in Sides : \A y \in D[x] : On(r, z, y)
  BY Apart
<1>2. z \in Keys /\ v \in Keys
  BY Nested DEF Shape
<1>3. r = s
  BY <1>1, <1>2, OnFacts, SideFacts
<1> QED BY <1>1, <1>3

-----------------------------------------------------------------------------
(* The ends of a subtree *)

\* m is the end of S on side s.
End(s, S, m) == m \in S /\ \A w \in S : w # m => On(s, m, w)

LEMMA EndUnique ==
    ASSUME NEW s \in Sides, NEW S, S \subseteq Keys, NEW m, NEW n, End(s, S, m), End(s, S, n)
    PROVE  m = n
  BY OnFacts DEF End

LEMMA EndUp ==
    ASSUME NEW t, NEW N, NEW D, Shape(t, N, D), NEW x \in N, NEW s \in Sides
    PROVE  /\ t.child[s][x] = Nil => End(s, D[x], x)
           /\ t.child[s][x] # Nil => \A m : End(s, D[t.child[s][x]], m) => End(s, D[x], m)
<1>1. N \subseteq Keys /\ Other(s) \in Sides /\ Other(Other(s)) = s /\ x \in D[x] /\ D[x] \subseteq N
  BY SideFacts, ShapeFacts DEF Shape
<1>2. ASSUME t.child[s][x] = Nil PROVE End(s, D[x], x)
  <2>1. ASSUME NEW w \in D[x], w # x PROVE On(s, x, w)
    <3>1. On(Other(s), w, x)
      BY <1>2, <2>1, Split
    <3> QED BY <1>1, <2>1, <3>1, OnFacts
  <2> QED BY <1>1, <2>1 DEF End
<1>3. ASSUME t.child[s][x] # Nil, NEW m, End(s, D[t.child[s][x]], m) PROVE End(s, D[x], m)
  <2>1. m \in D[t.child[s][x]] /\ D[t.child[s][x]] \subseteq D[x]
    BY <1>3, ShapeFacts DEF End
  <2>2. On(s, m, x)
    BY <1>3, <2>1 DEF Shape, InOrder, Dn
  <2>3. ASSUME NEW w \in D[x], w # m PROVE On(s, m, w)
    <3>1. CASE w \in D[t.child[s][x]]
      BY <1>3, <2>3, <3>1 DEF End
    <3>2. CASE w = x
      BY <2>2, <3>2
    <3>3. CASE On(Other(s), w, x)
      <4>1. On(s, x, w)
        BY <1>1, <3>3, OnFacts
      <4> QED BY <1>1, <2>1, <2>2, <4>1, OnFacts
    <3> QED BY <3>1, <3>2, <3>3, Split
  <2> QED BY <2>1, <2>3 DEF End
<1> QED BY <1>2, <1>3

LEMMA EndExists ==
    ASSUME NEW t, NEW N, NEW D, Shape(t, N, D), NEW x \in N, NEW s \in Sides
    PROVE  \E m : End(s, D[x], m)
<1> DEFINE S == {y \in N : \E m : End(s, D[y], m)}
<1>1. ASSUME NEW y \in N, \A r \in Sides : t.child[r][y] # Nil => t.child[r][y] \in S PROVE y \in S
  BY <1>1, EndUp
<1>2. N \subseteq S
  <2> HIDE DEF S
  <2> QED BY <1>1, FromBelow
<1> QED BY <1>2

\* The end has no child on that side.
LEMMA EndOpen ==
    ASSUME NEW t, NEW N, NEW D, Shape(t, N, D), NEW x \in N, NEW s \in Sides, NEW m, End(s, D[x], m)
    PROVE  m \in N /\ t.child[s][m] = Nil
<1>1. m \in N /\ D[m] \subseteq D[x] /\ N \subseteq Keys
  BY Nested DEF End, Shape
<1>2. SUFFICES ASSUME t.child[s][m] # Nil PROVE FALSE
  BY <1>1
<1> DEFINE c == t.child[s][m]
<1>3. c \in N /\ c \in D[c] /\ D[c] \subseteq D[m] /\ On(s, c, m)
  BY <1>1, <1>2, ShapeFacts
<1>4. c # m /\ On(s, m, c)
  BY <1>1, <1>3, OnFacts DEF End
<1> QED BY <1>1, <1>3, <1>4, OnFacts, SideFacts

-----------------------------------------------------------------------------
(* Neighbours *)

\* m is the nearest of S to x on side s, or Nil if there is none.
Nearest(s, S, x, m) ==
    \/ m = Nil /\ \A w \in S : ~On(s, w, x)
    \/ m \in S /\ On(s, m, x) /\ \A w \in S : On(s, w, x) /\ w # m => On(s, w, m)

LEMMA NearestUnique ==
    ASSUME NEW s \in Sides, NEW S, S \subseteq Keys, NEW x, NEW m, NEW n,
           Nearest(s, S, x, m), Nearest(s, S, x, n)
    PROVE  m = n
  BY OnFacts, SideFacts DEF Nearest

\* The nearest outside the subtree of y.
LEMMA NearestUp ==
    ASSUME NEW t, NEW N, NEW D, Shape(t, N, D), NEW y \in N, NEW s \in Sides
    PROVE  /\ t.parent[y] = Nil => Nearest(s, N \ D[y], y, Nil)
           /\ t.parent[y] # Nil /\ t.child[s][t.parent[y]] # y => Nearest(s, N \ D[y], y, t.parent[y])
           /\ t.parent[y] # Nil /\ t.child[s][t.parent[y]] = y =>
                 \A m : Nearest(s, N \ D[t.parent[y]], t.parent[y], m) => Nearest(s, N \ D[y], y, m)
<1> DEFINE p == t.parent[y]
           q == SideOf(t, y)
<1>1. N \subseteq Keys /\ Other(s) \in Sides /\ Other(Other(s)) = s /\ y \in D[y] /\ D[y] \subseteq N
  BY SideFacts, ShapeFacts DEF Shape
<1>2. ASSUME p = Nil PROVE Nearest(s, N \ D[y], y, Nil)
  BY <1>2, ShapeFacts DEF Nearest, Shape, Rooted
<1>3. ASSUME p # Nil
      PROVE  /\ p \in N /\ q \in Sides /\ t.child[q][p] = y /\ p \notin D[y] /\ D[y] \subseteq D[p]
             /\ On(q, y, p) /\ y \in D[p] /\ p \in D[p] /\ y # Nil
  BY <1>3, ShapeFacts
<1>4. ASSUME p # Nil, t.child[s][p] # y PROVE Nearest(s, N \ D[y], y, p)
  <2>1. q = Other(s)
    BY <1>3, <1>4, SideFacts
  <2>2. On(s, p, y)
    BY <1>1, <1>3, <1>4, <2>1, OnFacts
  <2>3. ASSUME NEW w \in N \ D[y], On(s, w, y), w # p PROVE On(s, w, p)
    <3>1. CASE w \in D[p]
      BY <1>1, <1>3, <1>4, <2>1, <2>3, <3>1, Split
    <3>2. CASE w \notin D[p]
      BY <1>3, <1>4, <2>3, <3>2, Beyond
    <3> QED BY <3>1, <3>2
  <2> QED BY <1>3, <1>4, <2>2, <2>3 DEF Nearest
<1>5. ASSUME p # Nil, t.child[s][p] = y, NEW m, Nearest(s, N \ D[p], p, m)
      PROVE  Nearest(s, N \ D[y], y, m)
  <2>1. On(s, y, p)
    BY <1>1, <1>3, <1>5, ShapeFacts
  <2>2. ASSUME NEW w \in N \ D[y], On(s, w, y) PROVE w \in N \ D[p] /\ On(s, w, p)
    <3>1. SUFFICES ASSUME w \in D[p] PROVE FALSE
      BY <1>3, <1>5, <2>2, Beyond
    <3>2. w = p \/ On(Other(s), w, p)
      BY <1>3, <1>5, <2>2, <3>1, Split
    <3>3. On(Other(s), p, y)
      BY <1>1, <1>3, <1>5, <2>1, OnFacts
    <3>4. On(Other(s), w, y)
      <4> HIDE DEF p
      <4> QED BY <1>1, <1>3, <1>5, <3>2, <3>3, OnFacts
    <3> QED BY <1>1, <2>2, <3>4, OnFacts
  <2>3. ASSUME m # Nil, m \in N \ D[p], On(s, m, p) PROVE m \in N \ D[y] /\ On(s, m, y)
    BY <1>3, <1>5, <2>3, Beyond
  <2> QED BY <1>5, <2>2, <2>3, RefFacts, <1>1 DEF Nearest
<1> QED BY <1>2, <1>4, <1>5

LEMMA NearestExists ==
    ASSUME NEW t, NEW N, NEW D, Shape(t, N, D), NEW x \in N, NEW s \in Sides
    PROVE  \E m : Nearest(s, N \ D[x], x, m)
<1> DEFINE S == {y \in N : \E m : Nearest(s, N \ D[y], y, m)}
<1>1. t.root \in N => t.root \in S
  BY NearestUp DEF Shape, Rooted
<1>2. ASSUME NEW y \in N, y # t.root, t.parent[y] \in S PROVE y \in S
  <2>1. t.parent[y] \in N /\ t.parent[y] # Nil
    BY <1>2, ShapeFacts
  <2>2. PICK m : Nearest(s, N \ D[t.parent[y]], t.parent[y], m)
    BY <1>2
  <2>3. \E n : Nearest(s, N \ D[y], y, n)
    BY <2>1, <2>2, NearestUp
  <2> QED BY <2>3
<1>3. N \subseteq S
  <2> HIDE DEF S
  <2> QED BY <1>1, <1>2, FromAbove
<1> QED BY <1>3

\* The nearest of all is the near end of the subtree on that side or, if there
\* is none, the nearest outside.
LEMMA NearestOfAll ==
    ASSUME NEW t, NEW N, NEW D, Shape(t, N, D), NEW x \in N, NEW s \in Sides
    PROVE  /\ t.child[s][x] # Nil =>
                 \A m : End(Other(s), D[t.child[s][x]], m) => Nearest(s, N, x, m)
           /\ t.child[s][x] = Nil => \A m : Nearest(s, N \ D[x], x, m) => Nearest(s, N, x, m)
<1>1. N \subseteq Keys /\ Other(s) \in Sides /\ Other(Other(s)) = s /\ x \in D[x] /\ D[x] \subseteq N
  BY SideFacts, ShapeFacts DEF Shape
<1>2. ASSUME t.child[s][x] # Nil, NEW m, End(Other(s), D[t.child[s][x]], m) PROVE Nearest(s, N, x, m)
  <2> DEFINE c == t.child[s][x]
  <2>1. m \in D[c] /\ D[c] \subseteq D[x] /\ m \in N /\ On(s, m, x)
    BY <1>1, <1>2, ShapeFacts DEF End, Shape, InOrder, Dn
  <2>2. ASSUME NEW w \in N, On(s, w, x), w # m PROVE On(s, w, m)
    <3>1. CASE w \in D[x]
      <4>1. w \in D[c]
        BY <1>1, <2>2, <3>1, Split, OnFacts
      <4>2. On(Other(s), m, w)
        BY <1>2, <2>2, <4>1 DEF End
      <4> QED BY <1>1, <2>1, <2>2, <4>2, OnFacts
    <3>2. CASE w \notin D[x]
      BY <1>1, <2>1, <2>2, <3>2, Beyond
    <3> QED BY <3>1, <3>2
  <2> QED BY <2>1, <2>2 DEF Nearest
<1>3. ASSUME t.child[s][x] = Nil, NEW m, Nearest(s, N \ D[x], x, m) PROVE Nearest(s, N, x, m)
  <2>1. ASSUME NEW w \in N, On(s, w, x) PROVE w \notin D[x]
    BY <1>1, <1>3, <2>1, Split, OnFacts
  <2> QED BY <1>3, <2>1 DEF Nearest
<1> QED BY <1>2, <1>3

-----------------------------------------------------------------------------
(* What the functions that only read compute *)

\* traverse comes to all that is below a node.
LEMMA TraverseIs ==
    ASSUME NEW D, Shape(tree, nodes, D)
    PROVE  /\ traverse[Nil] = {} /\ \A x \in nodes : traverse[x] = D[x]
           /\ traverse[tree.root] = nodes
<1> DEFINE Rule(f, x) == IF x = Nil THEN {}
                         ELSE {x} \cup f[tree.child["left"][x]] \cup f[tree.child["right"][x]]
           g == [x \in Ref |-> IF x \in nodes THEN D[x] ELSE IF x = Nil THEN {} ELSE {x}]
<1>1. Nil \notin nodes /\ nodes \subseteq Keys /\ Nil \in Ref /\ nodes \subseteq Ref
  BY ShapeFacts, RefFacts DEF Shape
<1>2. \A x \in nodes \cup {Nil} : g[x] = Dn(D, x)
  BY <1>1 DEF Dn
<1>3. ASSUME NEW x \in Ref PROVE g[x] = Rule(g, x)
  <2>1. CASE x = Nil
    BY <1>1, <2>1
  <2>2. CASE x \in nodes
    <3>1. D[x] = {x} \cup Dn(D, tree.child["left"][x]) \cup Dn(D, tree.child["right"][x])
      BY <2>2, SideFacts DEF Shape, Covered
    <3>2. \A s \in Sides : tree.child[s][x] \in nodes \cup {Nil}
      BY <2>2, ShapeFacts
    <3>3. g[x] = D[x] /\ x # Nil
      BY <1>1, <2>2
    <3> HIDE DEF g
    <3> QED BY <1>2, <3>1, <3>2, <3>3, SideFacts
  <2>3. CASE x \in Keys \ nodes
    <3>1. tree.child["left"][x] = Nil /\ tree.child["right"][x] = Nil /\ x # Nil
      BY <2>3, SideFacts, RefFacts DEF Shape, Unused
    <3> QED BY <1>1, <2>3, <3>1
  <2> QED BY <2>1, <2>2, <2>3 DEF Ref
<1>4. g = [x \in Ref |-> Rule(g, x)]
  <2>1. g = [x \in Ref |-> g[x]]
    OBVIOUS
  <2> HIDE DEF g, Rule
  <2> QED BY <1>3, <2>1
<1>5. traverse = CHOOSE f : f = [x \in Ref |-> Rule(f, x)]
  BY DEF traverse
<1>6. traverse = [x \in Ref |-> Rule(traverse, x)]
  <2> HIDE DEF g, Rule
  <2> QED BY <1>4, <1>5
<1>7. \A x \in Ref : traverse[x] = Rule(traverse, x)
  BY <1>6
<1>8. traverse[Nil] = {}
  BY <1>1, <1>7
<1> DEFINE S == {x \in nodes : traverse[x] = D[x]}
<1>9. ASSUME NEW x \in nodes, \A s \in Sides : tree.child[s][x] # Nil => tree.child[s][x] \in S
      PROVE  x \in S
  <2>1. \A s \in Sides : traverse[tree.child[s][x]] = Dn(D, tree.child[s][x])
    BY <1>8, <1>9, ShapeFacts DEF Dn
  <2>2. D[x] = {x} \cup Dn(D, tree.child["left"][x]) \cup Dn(D, tree.child["right"][x])
    BY SideFacts DEF Shape, Covered
  <2>3. traverse[x] = {x} \cup traverse[tree.child["left"][x]] \cup traverse[tree.child["right"][x]]
    BY <1>1, <1>7
  <2> QED BY <2>1, <2>2, <2>3, SideFacts
<1>10. nodes \subseteq S
  <2> HIDE DEF S
  <2> QED BY <1>9, FromBelow
<1>11. traverse[tree.root] = nodes
  BY <1>8, <1>10 DEF Shape, Rooted
<1> QED BY <1>8, <1>10, <1>11

\* The side of x on which a search for k goes on.
Way(k, x) == IF k < x THEN "left" ELSE "right"

LEMMA WayFacts ==
    ASSUME NEW k \in Keys, NEW x \in Keys, k # x
    PROVE  Way(k, x) \in Sides /\ On(Way(k, x), k, x)
  BY RefFacts DEF Way, On, Sides

LEMMA SearchIs ==
    ASSUME NEW D, Shape(tree, nodes, D), NEW k \in Keys
    PROVE  tree_search(k) = IF k \in nodes THEN k ELSE Nil
<1> DEFINE Rule(f, x) == IF x = Nil \/ x = k THEN x ELSE f[tree.child[Way(k, x)][x]]
           Val(x) == IF x \in nodes THEN (IF k \in D[x] THEN k ELSE Nil) ELSE (IF x = k THEN k ELSE Nil)
           g == [x \in Ref |-> Val(x)]
<1>1. Nil \notin nodes /\ nodes \subseteq Keys /\ Nil \in Ref /\ nodes \subseteq Ref /\ k # Nil
      /\ Nil \notin Keys
  BY ShapeFacts, RefFacts DEF Shape
<1>2. ASSUME NEW x \in nodes, x # k
      PROVE  /\ Way(k, x) \in Sides /\ tree.child[Way(k, x)][x] \in nodes \cup {Nil}
             /\ Val(x) = Val(tree.child[Way(k, x)][x])
  <2>1. x \in Keys /\ Way(k, x) \in Sides /\ On(Way(k, x), k, x)
    BY <1>1, <1>2, WayFacts
  <2> DEFINE c == tree.child[Way(k, x)][x]
  <2>2. c \in nodes \cup {Nil}
    BY <2>1, ShapeFacts
  <2>3. k \in D[x] => c # Nil /\ k \in D[c]
    BY <1>2, <2>1, Split, OnFacts
  <2>4. c # Nil => D[c] \subseteq D[x]
    BY <2>1, ShapeFacts
  <2> HIDE DEF c
  <2>5. Val(x) = Val(c)
    BY <1>1, <1>2, <2>2, <2>3, <2>4
  <2> QED BY <2>1, <2>2, <2>5 DEF c
<1>3. \A x \in nodes : x \in D[x]
  BY ShapeFacts
<1>4. ASSUME NEW x \in Ref PROVE g[x] = Rule(g, x)
  <2>1. CASE x = Nil \/ x = k
    BY <1>1, <1>3, <2>1
  <2>2. CASE x \in nodes /\ x # k
    <3>1. tree.child[Way(k, x)][x] \in Ref
      BY <1>1, <1>2, <2>2
    <3> HIDE DEF Val
    <3> QED BY <1>1, <1>2, <2>2, <3>1
  <2>3. CASE x \in Keys \ nodes /\ x # k
    <3>1. tree.child[Way(k, x)][x] = Nil
      BY <2>3, WayFacts DEF Shape, Unused
    <3> QED BY <1>1, <2>3, <3>1
  <2> QED BY <2>1, <2>2, <2>3 DEF Ref
<1>5. g = [x \in Ref |-> Rule(g, x)]
  <2>1. g = [x \in Ref |-> g[x]]
    OBVIOUS
  <2> HIDE DEF g, Rule
  <2> QED BY <1>4, <2>1
<1> DEFINE f == CHOOSE h : h = [x \in Ref |-> Rule(h, x)]
<1>6. tree_search(k) = f[tree.root]
  BY DEF tree_search, Way
<1>7. f = [x \in Ref |-> Rule(f, x)]
  <2> HIDE DEF g, Rule
  <2> QED BY <1>5
<1> HIDE DEF f
<1>8. \A x \in Ref : f[x] = Rule(f, x)
  BY <1>7
<1> HIDE DEF g
<1>9. f[Nil] = Nil /\ Val(Nil) = Nil
  BY <1>1, <1>8
<1> DEFINE S == {x \in nodes : f[x] = Val(x)}
<1>10. ASSUME NEW x \in nodes, \A s \in Sides : tree.child[s][x] # Nil => tree.child[s][x] \in S
       PROVE  x \in S
  <2>1. CASE x = k
    BY <1>1, <1>3, <1>8, <2>1
  <2>2. CASE x # k
    <3>1. f[x] = f[tree.child[Way(k, x)][x]]
      BY <1>1, <1>8, <2>2
    <3>2. f[tree.child[Way(k, x)][x]] = Val(tree.child[Way(k, x)][x])
      <4> HIDE DEF Val
      <4> QED BY <1>2, <1>9, <1>10, <2>2
    <3> HIDE DEF Val
    <3> QED BY <1>2, <2>2, <3>1, <3>2
  <2> QED BY <2>1, <2>2
<1>11. nodes \subseteq S
  <2> HIDE DEF S
  <2> QED BY <1>10, FromBelow
<1>12. f[tree.root] = Val(tree.root)
  BY <1>9, <1>11, ShapeFacts
<1> QED BY <1>1, <1>6, <1>12 DEF Shape, Rooted

\* tree_minimum and tree_maximum
LEMMA OutermostIs ==
    ASSUME NEW D, Shape(tree, nodes, D), NEW s \in Sides, NEW x \in nodes
    PROVE  End(s, D[x], Outermost(s, x))
<1> DEFINE Rule(f, y) == IF tree.child[s][y] = Nil THEN y ELSE f[tree.child[s][y]]
           Val(y) == IF y \in nodes THEN CHOOSE m : End(s, D[y], m) ELSE y
           g == [y \in Keys |-> Val(y)]
<1>1. nodes \subseteq Keys /\ Nil \notin Keys
  BY RefFacts DEF Shape
<1>2. \A y \in nodes : End(s, D[y], Val(y)) /\ D[y] \subseteq Keys
  BY <1>1, EndExists, ShapeFacts
<1>3. ASSUME NEW y \in Keys PROVE g[y] = Rule(g, y)
  <2>1. CASE y \in nodes /\ tree.child[s][y] = Nil
    <3>1. End(s, D[y], y)
      BY <2>1, EndUp
    <3>2. Val(y) = y
      <4> HIDE DEF Val
      <4> QED BY <1>2, <2>1, <3>1, EndUnique
    <3> QED BY <2>1, <3>2
  <2>2. CASE y \in nodes /\ tree.child[s][y] # Nil
    <3> DEFINE c == tree.child[s][y]
    <3>1. c \in nodes
      BY <2>2, ShapeFacts
    <3>2. End(s, D[y], Val(c))
      <4> HIDE DEF Val
      <4> QED BY <1>2, <2>2, <3>1, EndUp
    <3>3. Val(y) = Val(c)
      <4> HIDE DEF Val, c
      <4> QED BY <1>2, <2>2, <3>2, EndUnique
    <3> HIDE DEF Val
    <3> QED BY <1>1, <2>2, <3>1, <3>3
  <2>3. CASE y \notin nodes
    BY <2>3 DEF Shape, Unused
  <2> QED BY <2>1, <2>2, <2>3
<1>4. g = [y \in Keys |-> Rule(g, y)]
  <2>1. g = [y \in Keys |-> g[y]]
    OBVIOUS
  <2> HIDE DEF g, Rule
  <2> QED BY <1>3, <2>1
<1> DEFINE f == CHOOSE h : h = [y \in Keys |-> Rule(h, y)]
<1>5. Outermost(s, x) = f[x]
  BY DEF Outermost
<1>6. f = [y \in Keys |-> Rule(f, y)]
  <2> HIDE DEF g, Rule
  <2> QED BY <1>4
<1> HIDE DEF f, g, Val
<1>7. \A y \in Keys : f[y] = Rule(f, y)
  BY <1>6
<1> DEFINE S == {y \in nodes : End(s, D[y], f[y])}
<1>8. ASSUME NEW y \in nodes, \A r \in Sides : tree.child[r][y] # Nil => tree.child[r][y] \in S
      PROVE  y \in S
  BY <1>1, <1>7, <1>8, EndUp
<1>9. nodes \subseteq S
  <2> HIDE DEF S
  <2> QED BY <1>8, FromBelow
<1> QED BY <1>5, <1>9

\* tree_successor and tree_predecessor
LEMMA NeighbourIs ==
    ASSUME NEW D, Shape(tree, nodes, D), NEW s \in Sides, NEW x \in nodes
    PROVE  /\ Nearest(s, nodes, x, Neighbour(s, x))
           /\ tree.child[s][x] # Nil =>
                 /\ Neighbour(s, x) \in D[tree.child[s][x]]
                 /\ tree.child[Other(s)][Neighbour(s, x)] = Nil
<1> DEFINE Rule(f, y) == IF tree.parent[y] = Nil \/ tree.child[s][tree.parent[y]] # y
                         THEN tree.parent[y] ELSE f[tree.parent[y]]
           Val(y) == IF y \in nodes THEN CHOOSE m : Nearest(s, nodes \ D[y], y, m) ELSE Nil
           g == [y \in Keys |-> Val(y)]
<1>1. nodes \subseteq Keys /\ Nil \notin Keys /\ Other(s) \in Sides
  BY RefFacts, SideFacts DEF Shape
<1>2. \A y \in nodes : Nearest(s, nodes \ D[y], y, Val(y)) /\ nodes \ D[y] \subseteq Keys
  BY <1>1, NearestExists
<1>3. ASSUME NEW y \in Keys PROVE g[y] = Rule(g, y)
  <2>1. CASE y \in nodes /\ (tree.parent[y] = Nil \/ tree.child[s][tree.parent[y]] # y)
    <3>1. Nearest(s, nodes \ D[y], y, tree.parent[y])
      <4>1. CASE tree.parent[y] = Nil
        <5>1. Nearest(s, nodes \ D[y], y, Nil)
          BY <2>1, <4>1, NearestUp
        <5> QED BY <4>1, <5>1
      <4>2. CASE tree.parent[y] # Nil
        BY <2>1, <4>2, NearestUp
      <4> QED BY <4>1, <4>2
    <3>2. Val(y) = tree.parent[y]
      <4> HIDE DEF Val
      <4> QED BY <1>2, <2>1, <3>1, NearestUnique
    <3> HIDE DEF Val
    <3> QED BY <2>1, <3>2
  <2>2. CASE y \in nodes /\ ~(tree.parent[y] = Nil \/ tree.child[s][tree.parent[y]] # y)
    <3>1. tree.parent[y] \in nodes
      BY <2>2, ShapeFacts
    <3>2. Nearest(s, nodes \ D[y], y, Val(tree.parent[y]))
      <4> HIDE DEF Val
      <4> QED BY <1>2, <2>2, <3>1, NearestUp
    <3>3. Val(y) = Val(tree.parent[y])
      <4> HIDE DEF Val
      <4> QED BY <1>2, <2>2, <3>2, NearestUnique
    <3> HIDE DEF Val
    <3> QED BY <1>1, <2>2, <3>1, <3>3
  <2>3. CASE y \notin nodes
    BY <2>3 DEF Shape, Unused
  <2> QED BY <2>1, <2>2, <2>3
<1>4. g = [y \in Keys |-> Rule(g, y)]
  <2>1. g = [y \in Keys |-> g[y]]
    OBVIOUS
  <2> HIDE DEF g, Rule
  <2> QED BY <1>3, <2>1
<1> DEFINE f == CHOOSE h : h = [y \in Keys |-> Rule(h, y)]
<1>5. Neighbour(s, x) = IF tree.child[s][x] # Nil THEN Outermost(Other(s), tree.child[s][x]) ELSE f[x]
  BY DEF Neighbour
<1>6. f = [y \in Keys |-> Rule(f, y)]
  <2> HIDE DEF g, Rule
  <2> QED BY <1>4
<1> HIDE DEF f, g, Val
<1>7. \A y \in Keys : f[y] = Rule(f, y)
  BY <1>6
<1> DEFINE S == {y \in nodes : Nearest(s, nodes \ D[y], y, f[y])}
<1>8. ASSUME NEW y \in nodes, tree.parent[y] = Nil \/ tree.parent[y] \in S PROVE y \in S
  <2>1. f[y] = Rule(f, y)
    BY <1>1, <1>7
  <2>2. CASE tree.parent[y] = Nil
    <3>1. f[y] = Nil
      BY <2>1, <2>2
    <3>2. Nearest(s, nodes \ D[y], y, Nil)
      BY <2>2, NearestUp
    <3> QED BY <3>1, <3>2
  <2>3. CASE tree.parent[y] # Nil /\ tree.child[s][tree.parent[y]] # y
    <3>1. f[y] = tree.parent[y]
      BY <2>1, <2>3
    <3>2. Nearest(s, nodes \ D[y], y, tree.parent[y])
      BY <2>3, NearestUp
    <3> QED BY <3>1, <3>2
  <2>4. CASE tree.parent[y] # Nil /\ tree.child[s][tree.parent[y]] = y
    <3>1. f[y] = f[tree.parent[y]]
      BY <2>1, <2>4
    <3>2. Nearest(s, nodes \ D[tree.parent[y]], tree.parent[y], f[tree.parent[y]])
      BY <1>8, <2>4
    <3>3. Nearest(s, nodes \ D[y], y, f[tree.parent[y]])
      BY <2>4, <3>2, NearestUp
    <3> QED BY <3>1, <3>3
  <2> QED BY <2>2, <2>3, <2>4
<1>9. nodes \subseteq S
  <2>1. tree.root \in nodes => tree.root \in S
    <3>1. tree.root \in nodes => tree.parent[tree.root] = Nil
      BY ShapeFacts
    <3> HIDE DEF S
    <3> QED BY <1>8, <3>1
  <2>2. \A y \in nodes : y # tree.root /\ tree.parent[y] \in S => y \in S
    BY <1>8
  <2> HIDE DEF S
  <2> QED BY <2>1, <2>2, FromAbove
<1>10. CASE tree.child[s][x] = Nil
  BY <1>5, <1>9, <1>10, NearestOfAll
<1>11. CASE tree.child[s][x] # Nil
  <2>1. tree.child[s][x] \in nodes
    BY <1>11, ShapeFacts
  <2>2. End(Other(s), D[tree.child[s][x]], Neighbour(s, x))
    BY <1>1, <1>5, <1>11, <2>1, OutermostIs
  <2>3. Nearest(s, nodes, x, Neighbour(s, x))
    BY <1>11, <2>2, NearestOfAll
  <2>4. tree.child[Other(s)][Neighbour(s, x)] = Nil
    BY <1>1, <2>1, <2>2, EndOpen
  <2> QED BY <2>2, <2>3, <2>4 DEF End
<1> QED BY <1>10, <1>11

-----------------------------------------------------------------------------
(* tree_insert *)

\* Below x, k belongs under p: p has no child there, and k and p are on the same
\* side of every other node.
Fits(k, t, S, p) ==
    /\ p \in S /\ t.child[Way(k, p)][p] = Nil
    /\ \A w \in S, r \in Sides : w # p /\ On(r, p, w) => On(r, k, w)

LEMMA FitsUp ==
    ASSUME NEW t, NEW N, NEW D, Shape(t, N, D), NEW k \in Keys, k \notin N, NEW x \in N
    PROVE  /\ t.child[Way(k, x)][x] = Nil => \A p : Fits(k, t, D[x], p) <=> p = x
           /\ t.child[Way(k, x)][x] # Nil =>
                 \A p : Fits(k, t, D[x], p) <=> Fits(k, t, D[t.child[Way(k, x)][x]], p)
<1> DEFINE d == Way(k, x)
           c == t.child[d][x]
<1>1. N \subseteq Keys /\ x \in Keys /\ k # x /\ x \in D[x] /\ D[x] \subseteq Keys
  BY ShapeFacts DEF Shape
<1>2. d \in Sides /\ On(d, k, x) /\ Other(d) \in Sides /\ Other(Other(d)) = d /\ Other(d) # d
  BY <1>1, WayFacts, SideFacts
<1> HIDE DEF d
<1>3. ~On(Other(d), k, x)
  BY <1>1, <1>2, OnFacts
<1>4. ASSUME NEW w \in D[x], On(Other(d), w, x), NEW r \in Sides, NEW p \in D[x],
             p = x \/ On(d, p, x), On(r, p, w)
      PROVE  On(r, k, w)
  <2>1. On(d, x, w)
    BY <1>1, <1>2, <1>4, OnFacts
  <2>2. On(d, p, w) /\ On(d, k, w)
    BY <1>1, <1>2, <1>4, <2>1, OnFacts
  <2>3. r = d
    BY <1>1, <1>2, <1>4, <2>2, OnFacts, SideFacts
  <2> QED BY <2>2, <2>3
<1>5. ASSUME NEW p, Fits(k, t, D[x], p) PROVE p = x \/ (c # Nil /\ p \in D[c])
  <2>1. SUFFICES ASSUME p # x, On(Other(d), p, x) PROVE FALSE
    BY <1>2, <1>5, Split DEF Fits
  <2> QED BY <1>1, <1>2, <1>3, <1>5, <2>1 DEF Fits
<1>6. ASSUME c = Nil PROVE Fits(k, t, D[x], x)
  <2>1. ASSUME NEW w \in D[x], NEW r \in Sides, w # x, On(r, x, w) PROVE On(r, k, w)
    <3>1. On(Other(d), w, x)
      BY <1>2, <1>6, <2>1, Split
    <3> QED BY <1>1, <1>4, <2>1, <3>1
  <2> QED BY <1>1, <1>6, <2>1 DEF Fits, d
<1>7. ASSUME c # Nil, NEW p, Fits(k, t, D[x], p) PROVE Fits(k, t, D[c], p)
  <2>1. p # x
    BY <1>7 DEF Fits, d
  <2>2. D[c] \subseteq D[x]
    BY <1>2, <1>7, ShapeFacts
  <2> QED BY <1>5, <1>7, <2>1, <2>2 DEF Fits
<1>8. ASSUME c # Nil, NEW p, Fits(k, t, D[c], p) PROVE Fits(k, t, D[x], p)
  <2>1. D[c] \subseteq D[x] /\ p \in D[c]
    BY <1>2, <1>8, ShapeFacts DEF Fits
  <2>2. On(d, p, x)
    BY <1>2, <1>8, <2>1 DEF Shape, InOrder, Dn
  <2>3. ASSUME NEW w \in D[x], NEW r \in Sides, w # p, On(r, p, w) PROVE On(r, k, w)
    <3>1. CASE w \in D[c]
      BY <1>8, <2>3, <3>1 DEF Fits
    <3>2. CASE w = x
      <4>1. r = d
        BY <1>1, <1>2, <2>1, <2>2, <2>3, <3>2, OnFacts, SideFacts
      <4> QED BY <1>2, <3>2, <4>1
    <3>3. CASE On(Other(d), w, x)
      BY <1>4, <2>1, <2>2, <2>3, <3>3
    <3> QED BY <1>2, <3>1, <3>2, <3>3, Split
  <2> QED BY <1>8, <2>1, <2>3 DEF Fits
<1>9. ASSUME c = Nil PROVE \A p : Fits(k, t, D[x], p) <=> p = x
  BY <1>5, <1>6, <1>9
<1>10. ASSUME c # Nil PROVE \A p : Fits(k, t, D[x], p) <=> Fits(k, t, D[c], p)
  BY <1>7, <1>8, <1>10
<1> QED BY <1>9, <1>10 DEF d

LEMMA DescentIs ==
    ASSUME NEW D, Shape(tree, nodes, D), NEW k \in Keys, k \notin nodes
    PROVE  IF nodes = {} THEN Descent(k) = Nil ELSE Fits(k, tree, nodes, Descent(k))
<1> DEFINE Rule(f, x) == IF tree.child[Way(k, x)][x] = Nil THEN x ELSE f[tree.child[Way(k, x)][x]]
           Val(x) == IF x \in nodes THEN CHOOSE p : Fits(k, tree, D[x], p) ELSE x
           g == [x \in Keys |-> Val(x)]
           S == {x \in nodes : \E p : Fits(k, tree, D[x], p)}
<1>1. nodes \subseteq Keys /\ Nil \notin Keys /\ \A x \in nodes : Way(k, x) \in Sides
  BY RefFacts, WayFacts DEF Shape
<1>2. ASSUME NEW x \in Keys PROVE g[x] = Rule(g, x)
  <2>1. CASE x \in nodes /\ tree.child[Way(k, x)][x] = Nil
    <3>1. \A p : Fits(k, tree, D[x], p) <=> p = x
      BY <2>1, FitsUp
    <3>2. Val(x) = x
      BY <2>1, <3>1
    <3> QED BY <2>1, <3>2
  <2>2. CASE x \in nodes /\ tree.child[Way(k, x)][x] # Nil
    <3> DEFINE c == tree.child[Way(k, x)][x]
    <3>1. c \in nodes
      BY <1>1, <2>2, ShapeFacts
    <3>2. \A p : Fits(k, tree, D[x], p) <=> Fits(k, tree, D[c], p)
      BY <2>2, FitsUp
    <3>3. Val(x) = Val(c)
      <4> HIDE DEF c
      <4> QED BY <2>2, <3>1, <3>2
    <3> HIDE DEF Val
    <3> QED BY <1>1, <2>2, <3>1, <3>3
  <2>3. CASE x \notin nodes
    <3>1. \A s \in Sides : tree.child[s][x] = Nil
      BY <2>3 DEF Shape, Unused
    <3>2. Way(k, x) \in Sides
      BY DEF Way, Sides
    <3> QED BY <2>3, <3>1, <3>2
  <2> QED BY <2>1, <2>2, <2>3
<1>3. g = [x \in Keys |-> Rule(g, x)]
  <2>1. g = [x \in Keys |-> g[x]]
    OBVIOUS
  <2> HIDE DEF g, Rule
  <2> QED BY <1>2, <2>1
<1> DEFINE f == CHOOSE h : h = [x \in Keys |-> Rule(h, x)]
<1>4. Descent(k) = IF tree.root = Nil THEN Nil ELSE f[tree.root]
  BY DEF Descent, Way
<1>5. f = [x \in Keys |-> Rule(f, x)]
  <2> HIDE DEF g, Rule
  <2> QED BY <1>3
<1> HIDE DEF f, g, Val
<1>6. \A x \in Keys : f[x] = Rule(f, x)
  BY <1>5
<1> DEFINE T == {x \in nodes : Fits(k, tree, D[x], f[x])}
<1>7. ASSUME NEW x \in nodes, \A s \in Sides : tree.child[s][x] # Nil => tree.child[s][x] \in T
      PROVE  x \in T
  <2>1. f[x] = Rule(f, x)
    BY <1>1, <1>6
  <2>2. CASE tree.child[Way(k, x)][x] = Nil
    BY <2>1, <2>2, FitsUp
  <2>3. CASE tree.child[Way(k, x)][x] # Nil
    <3>1. tree.child[Way(k, x)][x] \in T /\ f[x] = f[tree.child[Way(k, x)][x]]
      BY <1>1, <1>7, <2>1, <2>3
    <3> QED BY <2>3, <3>1, FitsUp
  <2> QED BY <2>2, <2>3
<1>8. nodes \subseteq T
  <2> HIDE DEF T
  <2> QED BY <1>7, FromBelow
<1>9. CASE nodes = {}
  BY <1>4, <1>9 DEF Shape, Rooted
<1>10. CASE nodes # {}
  <2>1. tree.root \in nodes /\ D[tree.root] = nodes /\ tree.root # Nil
    BY <1>1, <1>10 DEF Shape, Rooted
  <2> QED BY <1>4, <1>8, <1>10, <2>1
<1> QED BY <1>9, <1>10

\* k becomes a leaf under p, or the root of an empty tree.
Grown(t, k, p) ==
    [root |-> IF p = Nil THEN k ELSE t.root,
     child |-> IF p = Nil THEN t.child ELSE SetKid(t.child, Way(k, p), p, k),
     parent |-> [t.parent EXCEPT ![k] = p],
     color |-> [t.color EXCEPT ![k] = "red"]]

\* The subtrees with p hold k too.
Wider(D, N, k, p) ==
    [z \in N \cup {k} |-> IF z = k THEN {k} ELSE IF p \in D[z] THEN D[z] \cup {k} ELSE D[z]]

LEMMA GrowShape ==
    ASSUME NEW t, NEW N, NEW D, Shape(t, N, D), NEW k \in Keys, k \notin N, NEW p,
           IF N = {} THEN p = Nil ELSE Fits(k, t, N, p),
           NEW u, u = Grown(t, k, p)
    PROVE  Shape(u, N \cup {k}, Wider(D, N, k, p))
<1> DEFINE d == Way(k, p)
           E == Wider(D, N, k, p)
           M == N \cup {k}
<1>1. /\ N \subseteq Keys /\ M \subseteq Keys /\ IsFiniteSet(M) /\ Nil \notin M /\ t \in Tree /\ Nil \notin N
  BY RefFacts, FS_AddElement DEF Shape
<1>2. p = Nil => N = {}
  BY <1>1 DEF Fits
<1>3. p # Nil => /\ p \in N /\ p \in Keys /\ p # k /\ d \in Sides /\ On(d, k, p) /\ t.child[d][p] = Nil
                 /\ \A w \in N, r \in Sides : w # p /\ On(r, p, w) => On(r, k, w)
  BY <1>1, WayFacts DEF Fits
<1>4. p \in Ref
  BY <1>1, <1>3, RefFacts
<1>5. p # Nil => KidSet(SetKid(t.child, d, p, k), t.child, d, p, k)
  BY <1>3, SetKidIs, TreeParts, RefFacts, <1>1
<1> HIDE DEF d
<1>6. /\ u.root = (IF p = Nil THEN k ELSE t.root)
      /\ u.child = (IF p = Nil THEN t.child ELSE SetKid(t.child, d, p, k))
      /\ u.parent = [t.parent EXCEPT ![k] = p]
      /\ u.color = [t.color EXCEPT ![k] = "red"]
  BY DEF Grown, d
<1>7. u \in Tree
  <2>1. u.child \in Kids
    BY <1>1, <1>5, <1>6, TreeParts DEF KidSet
  <2>2. u.root \in Ref
    BY <1>1, <1>6, TreeParts, RefFacts
  <2>3. u.parent \in Links
    BY <1>1, <1>4, <1>6, TreeParts DEF Links
  <2>4. u.color \in [Keys -> Colors]
    BY <1>1, <1>6, TreeParts DEF Colors
  <2> QED BY <1>6, <2>1, <2>2, <2>3, <2>4 DEF Tree, Grown
<1>8. \A z \in Keys, r \in Sides : u.child[r][z] = IF z = p /\ r = d THEN k ELSE t.child[r][z]
  <2>1. CASE p = Nil
    BY <1>6, <2>1, RefFacts
  <2>2. CASE p # Nil
    BY <1>5, <1>6, <2>2 DEF KidSet
  <2> QED BY <2>1, <2>2
<1>9. \A z \in Keys : u.parent[z] = IF z = k THEN p ELSE t.parent[z]
  BY <1>1, <1>6, TreeParts DEF Links
<1>10. t.parent[k] = Nil /\ \A r \in Sides : t.child[r][k] = Nil
  BY DEF Shape, Unused
<1>11. /\ E \in [M -> SUBSET M] /\ E[k] = {k}
       /\ \A z \in N : E[z] = IF p \in D[z] THEN D[z] \cup {k} ELSE D[z]
  <2>1. \A z \in N : D[z] \subseteq N
    BY ShapeFacts
  <2> QED BY <2>1 DEF Wider
<1> HIDE DEF E
<1>12. Rooted(u, M, E)
  <2>1. CASE p = Nil
    BY <1>1, <1>2, <1>6, <1>9, <1>11, <2>1 DEF Rooted
  <2>2. CASE p # Nil
    <3>1. t.root \in N /\ D[t.root] = N /\ t.parent[t.root] = Nil
      BY <1>3, <2>2 DEF Shape, Rooted
    <3> QED BY <1>1, <1>3, <1>6, <1>9, <1>11, <2>2, <3>1 DEF Rooted
  <2> QED BY <2>1, <2>2
<1>13. Unused(u, M)
  <2>1. ASSUME NEW z \in Keys \ M PROVE u.parent[z] = Nil /\ \A r \in Sides : u.child[r][z] = Nil
    <3>1. t.parent[z] = Nil /\ \A r \in Sides : t.child[r][z] = Nil
      BY DEF Shape, Unused
    <3>2. z # k /\ z # p
      BY <1>3, RefFacts
    <3> QED BY <1>8, <1>9, <3>1, <3>2
  <2> QED BY <2>1 DEF Unused
<1>14. KidsUp(u, M)
  <2> SUFFICES ASSUME NEW z \in M, NEW r \in Sides, u.child[r][z] # Nil
               PROVE  u.child[r][z] \in M /\ u.parent[u.child[r][z]] = z
    BY DEF KidsUp
  <2>1. CASE z = p /\ r = d
    BY <1>1, <1>8, <1>9, <2>1
  <2>2. CASE ~(z = p /\ r = d)
    <3>1. u.child[r][z] = t.child[r][z]
      BY <1>1, <1>8, <2>2
    <3>2. z \in N
      BY <1>10, <3>1
    <3>3. t.child[r][z] \in N /\ t.parent[t.child[r][z]] = z
      BY <3>1, <3>2, ShapeFacts
    <3> QED BY <1>1, <1>9, <3>1, <3>3
  <2> QED BY <2>1, <2>2
<1>15. ParentsDown(u, M)
  <2> SUFFICES ASSUME NEW z \in M, z # u.root
               PROVE  u.parent[z] \in M /\ \E r \in Sides : u.child[r][u.parent[z]] = z
    BY DEF ParentsDown
  <2>1. CASE z = k
    <3>1. p # Nil
      BY <1>6, <2>1
    <3> QED BY <1>1, <1>3, <1>8, <1>9, <2>1, <3>1
  <2>2. CASE z # k
    <3>1. z \in N /\ p # Nil /\ z # t.root
      BY <1>2, <1>6, <2>2
    <3>2. PICK r \in Sides : t.child[r][t.parent[z]] = z /\ t.parent[z] \in N
      BY <3>1 DEF Shape, ParentsDown
    <3>3. ~(t.parent[z] = p /\ r = d)
      BY <1>1, <1>3, <3>1, <3>2
    <3>4. u.parent[z] = t.parent[z] /\ u.child[r][t.parent[z]] = z
      BY <1>1, <1>8, <1>9, <2>2, <3>2, <3>3
    <3> QED BY <3>2, <3>4
  <2> QED BY <2>1, <2>2
<1>16. ASSUME NEW z \in N, NEW r \in Sides
       PROVE  Dn(E, u.child[r][z]) =
                  IF z = p /\ r = d THEN {k}
                  ELSE IF t.child[r][z] # Nil /\ p \in D[t.child[r][z]] THEN D[t.child[r][z]] \cup {k}
                  ELSE Dn(D, t.child[r][z])
  <2>1. CASE z = p /\ r = d
    <3>1. u.child[r][z] = k /\ k # Nil
      BY <1>1, <1>8, <2>1
    <3> QED BY <1>11, <2>1, <3>1 DEF Dn
  <2>2. CASE ~(z = p /\ r = d)
    <3>1. u.child[r][z] = t.child[r][z]
      BY <1>1, <1>8, <2>2
    <3>2. t.child[r][z] \in N \cup {Nil}
      BY ShapeFacts
    <3> QED BY <1>11, <2>2, <3>1, <3>2 DEF Dn
  <2> QED BY <2>1, <2>2
<1>17. ASSUME NEW z \in N, NEW r \in Sides
       PROVE  /\ E[z] = {z} \cup Dn(E, u.child[r][z]) \cup Dn(E, u.child[Other(r)][z])
              /\ \A w \in Dn(E, u.child[r][z]) : On(r, w, z)
  <2>1. /\ Other(r) \in Sides /\ Other(r) # r /\ p # Nil /\ p \in N /\ d \in Sides
        /\ \A q \in Sides : q # r => q = Other(r)
    BY <1>2, <1>3, SideFacts
  <2>2. D[z] = {z} \cup Dn(D, t.child[r][z]) \cup Dn(D, t.child[Other(r)][z])
    BY DEF Shape, Covered
  <2>3. \A q \in Sides : t.child[q][z] # Nil => Dn(D, t.child[q][z]) = D[t.child[q][z]]
    BY DEF Dn
  <2>4. \A q \in Sides : t.child[q][z] = Nil => Dn(D, t.child[q][z]) = {}
    BY DEF Dn
  <2>5. z = p => z \in D[z] /\ t.child[d][z] = Nil
    BY <1>3, <2>1, ShapeFacts
  <2>6. z = p => \A q \in Sides : t.child[q][z] # Nil => p \notin D[t.child[q][z]]
    BY ShapeFacts
  <2>7. E[z] = IF p \in D[z] THEN D[z] \cup {k} ELSE D[z]
    BY <1>11
  <2>8. E[z] = {z} \cup Dn(E, u.child[r][z]) \cup Dn(E, u.child[Other(r)][z])
    <3>1. CASE z = p
      <4>1. E[z] = D[z] \cup {k}
        BY <2>5, <2>7, <3>1
      <4>2. Dn(E, u.child[d][z]) = {k} /\ Dn(D, t.child[d][z]) = {}
        BY <1>16, <2>1, <2>4, <2>5, <3>1
      <4>3. \A q \in Sides : q # d => Dn(E, u.child[q][z]) = Dn(D, t.child[q][z])
        BY <1>16, <2>6, <3>1
      <4>4. CASE r = d
        BY <2>1, <2>2, <4>1, <4>2, <4>3, <4>4
      <4>5. CASE Other(r) = d
        BY <2>1, <2>2, <4>1, <4>2, <4>3, <4>5
      <4> QED BY <2>1, <4>4, <4>5
    <3>2. CASE z # p /\ p \in D[z]
      <4>1. \A q \in Sides : Dn(E, u.child[q][z]) =
                IF p \in Dn(D, t.child[q][z]) THEN Dn(D, t.child[q][z]) \cup {k} ELSE Dn(D, t.child[q][z])
        BY <1>16, <2>3, <2>4, <3>2
      <4>2. p \in Dn(D, t.child[r][z]) \/ p \in Dn(D, t.child[Other(r)][z])
        BY <2>2, <3>2
      <4> QED BY <2>1, <2>2, <2>7, <3>2, <4>1, <4>2
    <3>3. CASE p \notin D[z]
      <4>1. z # p
        BY <2>5, <3>3
      <4>2. \A q \in Sides : Dn(E, u.child[q][z]) = Dn(D, t.child[q][z])
        <5>1. \A q \in {r, Other(r)} : p \notin Dn(D, t.child[q][z])
          BY <2>2, <3>3
        <5> QED BY <1>16, <2>1, <2>3, <4>1, <5>1
      <4> QED BY <2>1, <2>2, <2>7, <3>3, <4>2
    <3> QED BY <3>1, <3>2, <3>3
  <2>9. ASSUME NEW w \in Dn(E, u.child[r][z]) PROVE On(r, w, z)
    <3>1. \A y \in Dn(D, t.child[r][z]) : On(r, y, z)
      BY DEF Shape, InOrder
    <3>2. CASE z = p /\ r = d
      BY <1>3, <1>16, <2>1, <2>9, <3>2
    <3>3. CASE ~(z = p /\ r = d) /\ w # k
      <4>1. Dn(E, u.child[r][z]) \subseteq Dn(D, t.child[r][z]) \cup {k}
        BY <1>16, <2>3, <3>3
      <4> QED BY <2>9, <3>1, <3>3, <4>1
    <3>4. CASE ~(z = p /\ r = d) /\ w = k
      <4>1. k \notin Dn(D, t.child[r][z])
        <5>1. Dn(D, t.child[r][z]) \subseteq N
          BY ShapeFacts DEF Dn
        <5> QED BY <5>1
      <4>2. p \in Dn(D, t.child[r][z])
        BY <1>16, <2>3, <2>9, <3>4, <4>1
      <4>3. On(r, p, z) /\ z # p
        BY <1>1, <2>1, <3>1, <4>2, OnFacts
      <4> QED BY <1>3, <2>1, <3>4, <4>3
    <3> QED BY <3>2, <3>3, <3>4
  <2> QED BY <2>8, <2>9
<1>18. ASSUME NEW r \in Sides PROVE u.child[r][k] = Nil
  BY <1>1, <1>3, <1>8, <1>10, RefFacts
<1>19. Covered(u, M, E) /\ InOrder(u, M, E)
  <2>1. ASSUME NEW r \in Sides
        PROVE  /\ E[k] = {k} \cup Dn(E, u.child[r][k]) \cup Dn(E, u.child[Other(r)][k])
               /\ \A w \in Dn(E, u.child[r][k]) : On(r, w, k)
    BY <1>11, <1>18, SideFacts DEF Dn
  <2> QED BY <1>17, <2>1 DEF Covered, InOrder
<1>20. Shape(u, M, E)
  BY <1>1, <1>7, <1>11, <1>12, <1>13, <1>14, <1>15, <1>19 DEF Shape
<1> QED BY <1>20 DEF E

-----------------------------------------------------------------------------
(* pull_out *)

\* c is out, and n is in its place.
Spliced(u, t, c, n) ==
    /\ u \in Tree /\ u.root = IF t.parent[c] = Nil THEN n ELSE t.root
    /\ \A r \in Sides, z \in Keys :
          u.child[r][z] = IF z = c THEN Nil
                          ELSE IF z = t.parent[c] /\ r = SideOf(t, c) THEN n ELSE t.child[r][z]
    /\ \A z \in Keys :
          u.parent[z] = IF z = c THEN Nil ELSE IF z = n THEN t.parent[c] ELSE t.parent[z]
    /\ \A z \in Keys : u.color[z] = IF z = c THEN "red" ELSE t.color[z]

LEMMA SpliceIs ==
    ASSUME NEW t \in Tree, NEW c \in Keys, NEW n \in Ref
    PROVE  Spliced(Splice(t, c, n), t, c, n)
<1> DEFINE out == Replace(t, c, n)
           k == [s \in Sides |-> [out.child[s] EXCEPT ![c] = Nil]]
           f == Put(out.parent, n, t.parent[c])
           g == [f EXCEPT ![c] = Nil]
           h == [out.color EXCEPT ![c] = "red"]
           u == Splice(t, c, n)
<1>1. Replaced(out, t, c, n)
  BY ReplaceIs
<1> HIDE DEF out
<1>2. /\ out \in Tree /\ out.child \in Kids /\ out.parent = t.parent /\ t.parent \in Links
      /\ out.color = t.color /\ t.color \in [Keys -> Colors] /\ t.parent[c] \in Ref /\ Nil \in Ref
  BY <1>1, TreeParts, RefFacts DEF Replaced
<1>3. k \in Kids /\ \A r \in Sides, z \in Keys : k[r][z] = IF z = c THEN Nil ELSE out.child[r][z]
  BY <1>2 DEF Kids, Links
<1>4. LinkSet(f, t.parent, n, t.parent[c])
  BY <1>2, PutIs
<1>5. g \in Links /\ \A z \in Keys : g[z] = IF z = c THEN Nil ELSE f[z]
  <2>1. f \in Links
    BY <1>4 DEF LinkSet
  <2> HIDE DEF f
  <2> QED BY <1>2, <2>1 DEF Links
<1>6. h \in [Keys -> Colors] /\ \A z \in Keys : h[z] = IF z = c THEN "red" ELSE t.color[z]
  BY <1>2 DEF Colors
<1>7. u = [out EXCEPT !.child = k, !.parent = g, !.color = h]
  BY <1>2 DEF Splice, out, Tree
<1> HIDE DEF k, g, h, f, u
<1>8. /\ u \in Tree /\ u.root = out.root /\ u.child = k /\ u.parent = g /\ u.color = h
  BY <1>2, <1>3, <1>5, <1>6, <1>7 DEF Tree
<1>9. \A r \in Sides, z \in Keys :
          u.child[r][z] = IF z = c THEN Nil
                          ELSE IF z = t.parent[c] /\ r = SideOf(t, c) THEN n ELSE t.child[r][z]
  BY <1>1, <1>3, <1>8 DEF Replaced
<1>10. \A z \in Keys :
          u.parent[z] = IF z = c THEN Nil ELSE IF z = n THEN t.parent[c] ELSE t.parent[z]
  BY <1>4, <1>5, <1>8 DEF LinkSet
<1>11. Spliced(u, t, c, n)
  BY <1>1, <1>6, <1>8, <1>9, <1>10 DEF Replaced, Spliced
<1> QED BY <1>11 DEF u

Without(D, N, c) == [z \in N \ {c} |-> D[z] \ {c}]

\* A node with one child at most may be taken out.
LEMMA SpliceShape ==
    ASSUME NEW t, NEW N, NEW D, Shape(t, N, D), NEW c \in N, NEW s \in Sides, NEW n,
           n = t.child[s][c], t.child[Other(s)][c] = Nil, NEW u, Spliced(u, t, c, n)
    PROVE  Shape(u, N \ {c}, Without(D, N, c))
<1> DEFINE p == t.parent[c]
           E == Without(D, N, c)
           M == N \ {c}
           q == SideOf(t, c)
<1>1. /\ N \subseteq Keys /\ Nil \notin N /\ IsFiniteSet(M) /\ c \in Keys /\ c # Nil
      /\ Other(s) \in Sides /\ \A r \in Sides : r = s \/ r = Other(s)
      /\ \A z \in N, r \in Sides : t.child[r][z] \in N \cup {Nil}
  BY ShapeFacts, SideFacts, FS_RemoveElement DEF Shape
<1>2. /\ n # Nil => n \in N /\ t.parent[n] = c /\ n # c /\ n # t.root /\ D[n] \subseteq D[c] /\ c \notin D[n]
      /\ n \in N \cup {Nil}
  BY <1>1, ShapeFacts, OnFacts
<1>3. /\ p \in N \cup {Nil} /\ (p = Nil <=> c = t.root) /\ p # c
      /\ p # Nil => q \in Sides /\ t.child[q][p] = c /\ p \in N
  <2>1. p \in N \cup {Nil} /\ (p = Nil <=> c = t.root)
        /\ (p # Nil => q \in Sides /\ t.child[q][p] = c /\ p \in N)
    BY ShapeFacts
  <2>2. p # Nil => p \notin D[c]
    BY <1>1, <2>1, ShapeFacts
  <2> QED BY <1>1, <2>1, <2>2, ShapeFacts
<1>4. D[c] = {c} \cup Dn(D, n) /\ c \notin Dn(D, n)
  BY <1>2 DEF Shape, Covered, Dn
<1>5. /\ u \in Tree /\ u.root = IF p = Nil THEN n ELSE t.root
      /\ \A r \in Sides, z \in M : u.child[r][z] = IF z = p /\ r = q THEN n ELSE t.child[r][z]
      /\ \A r \in Sides, z \in Keys \ N : u.child[r][z] = IF z = p /\ r = q THEN n ELSE t.child[r][z]
      /\ \A r \in Sides : u.child[r][c] = Nil
      /\ \A z \in Keys : u.parent[z] = IF z = c THEN Nil ELSE IF z = n THEN p ELSE t.parent[z]
  BY <1>1 DEF Spliced
<1>6. ASSUME NEW r \in Sides, NEW z \in N, t.child[r][z] = c PROVE z = p /\ r = q
  <2>1. t.parent[c] = z
    BY <1>1, <1>6, ShapeFacts
  <2>2. t.child[q][z] = c /\ q \in Sides
    BY <1>1, <1>3, <2>1
  <2> QED BY <1>1, <1>6, <2>1, <2>2, ShapeFacts, SideFacts
<1>7. E \in [M -> SUBSET M] /\ \A z \in M : E[z] = D[z] \ {c}
  <2>1. \A z \in N : D[z] \subseteq N
    BY ShapeFacts
  <2> QED BY <2>1 DEF Without
<1> HIDE DEF p, q, E
<1>8. ASSUME NEW z \in M, NEW r \in Sides
      PROVE  Dn(E, u.child[r][z]) = Dn(D, t.child[r][z]) \ {c} /\ u.child[r][z] \in M \cup {Nil}
  <2>1. CASE z = p /\ r = q
    <3>1. u.child[r][z] = n /\ t.child[r][z] = c
      BY <1>1, <1>3, <1>5, <2>1
    <3>2. Dn(E, n) = Dn(D, n)
      <4>1. n # Nil => n \in M /\ c \notin D[n]
        BY <1>2
      <4>2. n # Nil => E[n] = D[n]
        <5>1. n # Nil => E[n] = D[n] \ {c}
          BY <1>7, <4>1
        <5> QED BY <4>1, <5>1
      <4> QED BY <4>2 DEF Dn
    <3>3. Dn(D, c) = {c} \cup Dn(D, n)
      BY <1>1, <1>4 DEF Dn
    <3> QED BY <1>2, <1>4, <3>1, <3>2, <3>3
  <2>2. CASE ~(z = p /\ r = q)
    <3>1. u.child[r][z] = t.child[r][z] /\ t.child[r][z] # c
      BY <1>5, <1>6, <2>2
    <3> QED BY <1>1, <1>7, <3>1 DEF Dn
  <2> QED BY <2>1, <2>2
<1>9. Rooted(u, M, E)
  <2>1. t.root \in N /\ D[t.root] = N /\ t.parent[t.root] = Nil
    BY DEF Shape, Rooted
  <2>2. CASE p = Nil
    <3>1. c = t.root /\ u.root = n /\ N = {c} \cup Dn(D, n)
      BY <1>3, <1>4, <1>5, <2>1, <2>2
    <3>2. CASE n = Nil
      BY <1>1, <3>1, <3>2 DEF Rooted, Dn
    <3>3. CASE n # Nil
      <4>1. n \in M /\ u.parent[n] = Nil
        BY <1>1, <1>2, <1>5, <2>2, <3>3
      <4>2. E[n] = M
        BY <1>2, <1>4, <1>7, <3>1, <3>3, <4>1 DEF Dn
      <4> QED BY <3>1, <4>1, <4>2 DEF Rooted
    <3> QED BY <3>2, <3>3
  <2>3. CASE p # Nil
    <3>1. u.root = t.root /\ t.root \in M
      BY <1>3, <1>5, <2>1, <2>3
    <3>2. u.parent[t.root] = Nil /\ E[t.root] = M
      BY <1>1, <1>2, <1>5, <1>7, <2>1, <3>1
    <3> QED BY <3>1, <3>2 DEF Rooted
  <2> QED BY <2>2, <2>3
<1>10. Unused(u, M)
  <2>1. ASSUME NEW z \in Keys \ N PROVE u.parent[z] = Nil /\ \A r \in Sides : u.child[r][z] = Nil
    <3>1. t.parent[z] = Nil /\ \A r \in Sides : t.child[r][z] = Nil
      BY DEF Shape, Unused
    <3>2. z # c /\ z # n /\ z # p
      BY <1>1, <1>2, <1>3, RefFacts
    <3> QED BY <1>5, <3>1, <3>2
  <2> QED BY <1>1, <1>5, <2>1 DEF Unused
<1>11. KidsUp(u, M)
  <2> SUFFICES ASSUME NEW z \in M, NEW r \in Sides, u.child[r][z] # Nil
               PROVE  u.child[r][z] \in M /\ u.parent[u.child[r][z]] = z
    BY DEF KidsUp
  <2>1. CASE z = p /\ r = q
    BY <1>1, <1>2, <1>5, <2>1
  <2>2. CASE ~(z = p /\ r = q)
    <3>1. u.child[r][z] = t.child[r][z] /\ t.child[r][z] # c
      BY <1>5, <1>6, <2>2
    <3>2. t.child[r][z] \in N /\ t.parent[t.child[r][z]] = z
      BY <3>1, ShapeFacts
    <3>3. t.child[r][z] # n
      BY <1>1, <1>2, <3>1, <3>2
    <3> QED BY <1>1, <1>5, <3>1, <3>2, <3>3
  <2> QED BY <2>1, <2>2
<1>12. ParentsDown(u, M)
  <2> SUFFICES ASSUME NEW z \in M, z # u.root
               PROVE  u.parent[z] \in M /\ \E r \in Sides : u.child[r][u.parent[z]] = z
    BY DEF ParentsDown
  <2>1. CASE z = n
    <3>1. p \in M /\ u.parent[z] = p
      BY <1>1, <1>3, <1>5, <2>1
    <3> QED BY <1>1, <1>3, <1>5, <2>1, <3>1
  <2>2. CASE z # n
    <3>1. z # t.root
      BY <1>3, <1>5
    <3>2. PICK r \in Sides : t.child[r][t.parent[z]] = z /\ t.parent[z] \in N
      BY <3>1 DEF Shape, ParentsDown
    <3>3. t.parent[z] # c
      BY <1>1, <2>2, <3>2
    <3>4. ~(t.parent[z] = p /\ r = q)
      BY <1>1, <1>3, <3>2
    <3>5. u.parent[z] = t.parent[z] /\ u.child[r][t.parent[z]] = z
      BY <1>1, <1>5, <2>2, <3>2, <3>3, <3>4
    <3> QED BY <3>2, <3>3, <3>5
  <2> QED BY <2>1, <2>2
<1>13. Covered(u, M, E)
  <2> SUFFICES ASSUME NEW z \in M, NEW r \in Sides
               PROVE  E[z] = {z} \cup Dn(E, u.child[r][z]) \cup Dn(E, u.child[Other(r)][z])
    BY DEF Covered
  <2>1. D[z] = {z} \cup Dn(D, t.child[r][z]) \cup Dn(D, t.child[Other(r)][z]) /\ Other(r) \in Sides
    BY SideFacts DEF Shape, Covered
  <2>2. /\ Dn(E, u.child[r][z]) = Dn(D, t.child[r][z]) \ {c}
        /\ Dn(E, u.child[Other(r)][z]) = Dn(D, t.child[Other(r)][z]) \ {c}
    BY <1>8, <2>1
  <2> QED BY <1>7, <2>1, <2>2
<1>14. InOrder(u, M, E)
  BY <1>8 DEF Shape, InOrder
<1>15. Shape(u, M, E)
  BY <1>1, <1>5, <1>7, <1>9, <1>10, <1>11, <1>12, <1>13, <1>14 DEF Shape
<1> QED BY <1>15 DEF E

Ren(x, y, z) == IF z = x THEN y ELSE z

Renamed(u, t, x, y) ==
    /\ u \in Tree /\ u.root = Ren(x, y, t.root)
    /\ \A r \in Sides, z \in Keys :
          u.child[r][z] = IF z = x THEN Nil ELSE Ren(x, y, t.child[r][Ren(y, x, z)])
    /\ \A z \in Keys : u.parent[z] = IF z = x THEN Nil ELSE Ren(x, y, t.parent[Ren(y, x, z)])
    /\ \A z \in Keys : u.color[z] = IF z = x THEN "red" ELSE t.color[Ren(y, x, z)]

LEMMA RenameIs ==
    ASSUME NEW t \in Tree, NEW x \in Keys, NEW y \in Keys
    PROVE  Renamed(Rename(t, x, y), t, x, y)
<1> DEFINE k == [s \in Sides |-> [z \in Keys |-> IF z = x THEN Nil ELSE Ren(x, y, t.child[s][Ren(y, x, z)])]]
           f == [z \in Keys |-> IF z = x THEN Nil ELSE Ren(x, y, t.parent[Ren(y, x, z)])]
           h == [z \in Keys |-> IF z = x THEN "red" ELSE t.color[Ren(y, x, z)]]
           u == [root |-> Ren(x, y, t.root), child |-> k, parent |-> f, color |-> h]
<1>1. Rename(t, x, y) = u
  BY DEF Rename, Ren
<1>2. \A z \in Keys : Ren(y, x, z) \in Keys
  BY DEF Ren
<1>3. \A z \in Ref : Ren(x, y, z) \in Ref
  BY RefFacts DEF Ren
<1>4. k \in Kids
  BY <1>2, <1>3, TreeParts, RefFacts DEF Kids, Links
<1>5. f \in Links
  BY <1>2, <1>3, TreeParts, RefFacts DEF Links
<1>6. h \in [Keys -> Colors]
  BY <1>2, TreeParts DEF Colors
<1>7. u \in Tree
  <2> HIDE DEF k, f, h
  <2> QED BY <1>3, <1>4, <1>5, <1>6, TreeParts DEF Tree
<1>8. Renamed(u, t, x, y)
  BY <1>7 DEF Renamed
<1> QED BY <1>1, <1>8

Image(x, y, S) == {Ren(x, y, w) : w \in S}

\* A node may get the name y, if that is in the same place of the order.
LEMMA RenameShape ==
    ASSUME NEW t, NEW N, NEW D, Shape(t, N, D), NEW x \in N, NEW y \in Keys, y \notin N,
           \A w \in N, r \in Sides : w # x => (On(r, w, x) <=> On(r, w, y)),
           NEW u, Renamed(u, t, x, y)
    PROVE  Shape(u, (N \ {x}) \cup {y}, [z \in (N \ {x}) \cup {y} |-> Image(x, y, D[Ren(y, x, z)])])
<1> DEFINE M == (N \ {x}) \cup {y}
           E == [z \in M |-> Image(x, y, D[Ren(y, x, z)])]
           New(z) == Ren(x, y, z)
           Old(z) == Ren(y, x, z)
<1>1. /\ N \subseteq Keys /\ Nil \notin N /\ x \in Keys /\ x # y /\ x # Nil /\ y # Nil /\ x \notin M
      /\ M \subseteq Keys /\ y \in M /\ Nil \notin M
  BY RefFacts DEF Shape
<1>2. IsFiniteSet(M)
  BY FS_RemoveElement, FS_AddElement DEF Shape
<1>3. /\ \A z \in M : Old(z) \in N /\ New(Old(z)) = z
      /\ \A z \in N : New(z) \in M /\ Old(New(z)) = z
      /\ New(Nil) = Nil /\ \A z \in N \cup {Nil} : New(z) = Nil <=> z = Nil
      /\ \A z \in Keys : z \notin M /\ z # x => Old(z) = z /\ z \notin N
      /\ \A z, v \in N \cup {Nil} : New(z) = New(v) <=> z = v
  BY <1>1 DEF Ren
<1>4. /\ u \in Tree /\ u.root = New(t.root)
      /\ \A r \in Sides, z \in M : u.child[r][z] = New(t.child[r][Old(z)])
      /\ \A z \in M : u.parent[z] = New(t.parent[Old(z)])
  BY <1>1 DEF Renamed
<1>5. /\ \A r \in Sides, z \in N : t.child[r][z] \in N \cup {Nil}
      /\ \A z \in N : t.parent[z] \in N \cup {Nil}
      /\ t.root \in N \cup {Nil}
  BY ShapeFacts
<1>6. ASSUME NEW v \in N, NEW w \in N, v # w, NEW r \in Sides, On(r, v, w) PROVE On(r, New(v), New(w))
  <2>1. CASE v # x /\ w # x
    BY <1>6, <2>1 DEF Ren
  <2>2. CASE w = x
    BY <1>6, <2>2 DEF Ren
  <2>3. CASE v = x
    <3>1. Other(r) \in Sides /\ w \in Keys
      BY <1>1, SideFacts
    <3>2. On(Other(r), w, x)
      BY <1>1, <1>6, <2>3, <3>1, OnFacts, SideFacts
    <3>3. On(Other(r), w, y)
      BY <1>6, <2>3, <3>1, <3>2
    <3>4. On(r, y, w)
      BY <3>1, <3>3, OnFacts
    <3> QED BY <1>6, <2>3, <3>4 DEF Ren
  <2> QED BY <2>1, <2>2, <2>3
<1>7. /\ E \in [M -> SUBSET M]
      /\ \A z \in N : E[New(z)] = Image(x, y, D[z])
  <2>1. \A z \in N : D[z] \subseteq N
    BY ShapeFacts
  <2>2. \A z \in N : Image(x, y, D[z]) \subseteq M
    BY <1>3, <2>1 DEF Image
  <2> HIDE DEF M
  <2> QED BY <1>3, <2>2
<1> HIDE DEF E
<1>8. \A z \in N \cup {Nil} : Dn(E, New(z)) = Image(x, y, Dn(D, z))
  <2>1. Image(x, y, {}) = {}
    BY DEF Image
  <2> HIDE DEF New
  <2> QED BY <1>3, <1>7, <2>1 DEF Dn
<1>9. \A S, T : Image(x, y, S \cup T) = Image(x, y, S) \cup Image(x, y, T)
  BY DEF Image
<1>10. \A z : Image(x, y, {z}) = {New(z)}
  BY DEF Image
<1>11. Image(x, y, N) = M
  <2>1. Image(x, y, N) \subseteq M
    BY <1>3 DEF Image
  <2>2. M \subseteq Image(x, y, N)
    <3>1. ASSUME NEW z \in M PROVE \E w \in N : z = Ren(x, y, w)
      BY <1>3
    <3> QED BY <3>1 DEF Image
  <2> QED BY <2>1, <2>2
<1> HIDE DEF New, Old
<1>12. Rooted(u, M, E)
  <2>1. t.root \in N /\ D[t.root] = N /\ t.parent[t.root] = Nil
    BY DEF Shape, Rooted
  <2>2. u.root \in M /\ E[u.root] = M
    BY <1>3, <1>4, <1>7, <1>11, <2>1
  <2>3. u.parent[u.root] = Nil
    BY <1>3, <1>4, <2>1, <2>2
  <2> QED BY <1>1, <2>2, <2>3 DEF Rooted
<1>13. Unused(u, M)
  <2> SUFFICES ASSUME NEW z \in Keys \ M
               PROVE  u.parent[z] = Nil /\ \A r \in Sides : u.child[r][z] = Nil
    BY DEF Unused
  <2>1. CASE z = x
    BY <1>1, <2>1 DEF Renamed
  <2>2. CASE z # x
    <3>1. Old(z) = z /\ z \notin N
      BY <1>3, <2>2
    <3>2. t.parent[z] = Nil /\ \A r \in Sides : t.child[r][z] = Nil
      BY <3>1 DEF Shape, Unused
    <3>3. /\ u.parent[z] = New(t.parent[Old(z)])
          /\ \A r \in Sides : u.child[r][z] = New(t.child[r][Old(z)])
      BY <2>2 DEF Renamed, New, Old
    <3> QED BY <1>3, <3>1, <3>2, <3>3
  <2> QED BY <2>1, <2>2
<1>14. KidsUp(u, M)
  <2> SUFFICES ASSUME NEW z \in M, NEW r \in Sides, u.child[r][z] # Nil
               PROVE  u.child[r][z] \in M /\ u.parent[u.child[r][z]] = z
    BY DEF KidsUp
  <2> DEFINE o == Old(z)
             c == t.child[r][o]
  <2>1. o \in N /\ New(o) = z /\ u.child[r][z] = New(c) /\ c \in N \cup {Nil}
    BY <1>3, <1>4, <1>5
  <2>2. c # Nil /\ c \in N
    BY <1>3, <2>1
  <2>3. t.parent[c] = o
    BY <2>1, <2>2, ShapeFacts
  <2> HIDE DEF o, c
  <2>4. New(c) \in M /\ Old(New(c)) = c
    BY <1>3, <2>2
  <2> QED BY <1>4, <2>1, <2>3, <2>4
<1>15. ParentsDown(u, M)
  <2> SUFFICES ASSUME NEW z \in M, z # u.root
               PROVE  u.parent[z] \in M /\ \E r \in Sides : u.child[r][u.parent[z]] = z
    BY DEF ParentsDown
  <2> DEFINE o == Old(z)
  <2>1. o \in N /\ New(o) = z /\ o # t.root
    BY <1>3, <1>4
  <2>2. PICK r \in Sides : t.child[r][t.parent[o]] = o /\ t.parent[o] \in N
    BY <2>1 DEF Shape, ParentsDown
  <2>3. u.parent[z] = New(t.parent[o]) /\ New(t.parent[o]) \in M /\ Old(New(t.parent[o])) = t.parent[o]
    BY <1>3, <1>4, <2>2
  <2>4. u.child[r][New(t.parent[o])] = z
    BY <1>4, <2>1, <2>2, <2>3
  <2> QED BY <2>3, <2>4
<1>16. ASSUME NEW z \in M, NEW r \in Sides
       PROVE  /\ E[z] = {z} \cup Dn(E, u.child[r][z]) \cup Dn(E, u.child[Other(r)][z])
              /\ \A w \in Dn(E, u.child[r][z]) : On(r, w, z)
  <2> DEFINE o == Old(z)
  <2>1. o \in N /\ New(o) = z /\ Other(r) \in Sides
    BY <1>3, SideFacts
  <2>2. \A q \in Sides : Dn(E, u.child[q][z]) = Image(x, y, Dn(D, t.child[q][o]))
    BY <1>4, <1>5, <1>8, <2>1
  <2>3. D[o] = ({o} \cup Dn(D, t.child[r][o])) \cup Dn(D, t.child[Other(r)][o])
    BY <2>1 DEF Shape, Covered
  <2>4. E[z] = Image(x, y, D[o])
    BY <1>7, <2>1
  <2> HIDE DEF o
  <2>5. E[z] = {z} \cup Dn(E, u.child[r][z]) \cup Dn(E, u.child[Other(r)][z])
    <3>1. /\ E[z] = Image(x, y, {o} \cup Dn(D, t.child[r][o])) \cup Image(x, y, Dn(D, t.child[Other(r)][o]))
          /\ Image(x, y, {o} \cup Dn(D, t.child[r][o])) = Image(x, y, {o}) \cup Image(x, y, Dn(D, t.child[r][o]))
      BY <1>9, <2>3, <2>4
    <3>2. Image(x, y, {o}) = {z}
      BY <1>10, <2>1
    <3> QED BY <2>1, <2>2, <3>1, <3>2
  <2>6. ASSUME NEW w \in Dn(E, u.child[r][z]) PROVE On(r, w, z)
    <3>1. PICK v \in Dn(D, t.child[r][o]) : w = New(v)
      BY <2>2, <2>6 DEF Image, New
    <3>2. On(r, v, o)
      BY <2>1, <3>1 DEF Shape, InOrder
    <3>3. v \in N
      BY <1>5, <2>1, <3>1, ShapeFacts DEF Dn
    <3>4. v # o
      BY <1>1, <2>1, <3>2, OnFacts
    <3> QED BY <1>6, <2>1, <3>1, <3>2, <3>3, <3>4
  <2> QED BY <2>5, <2>6
<1>17. Covered(u, M, E) /\ InOrder(u, M, E)
  BY <1>16 DEF Covered, InOrder
<1>18. Shape(u, M, E)
  BY <1>1, <1>2, <1>4, <1>7, <1>12, <1>13, <1>14, <1>15, <1>17 DEF Shape
<1> QED BY <1>18 DEF E

-----------------------------------------------------------------------------
(* Steps of the fix-ups *)

\* u and t differ in their colours at most.
SameLinks(u, t) == u \in Tree /\ u.root = t.root /\ u.child = t.child /\ u.parent = t.parent

LEMMA ShapeKept ==
    ASSUME NEW t, NEW N, NEW D, Shape(t, N, D), NEW u, SameLinks(u, t)
    PROVE  Shape(u, N, D)
<1>1. u \in Tree /\ u.root = t.root /\ u.child = t.child /\ u.parent = t.parent
  BY DEF SameLinks
<1>2. Rooted(u, N, D) /\ Unused(u, N) /\ KidsUp(u, N) /\ ParentsDown(u, N)
  BY <1>1 DEF Shape, Rooted, Unused, KidsUp, ParentsDown
<1>3. Covered(u, N, D) /\ InOrder(u, N, D)
  BY <1>1 DEF Shape, Covered, InOrder
<1> QED BY <1>1, <1>2, <1>3 DEF Shape

LEMMA PaintLinks ==
    ASSUME NEW t \in Tree, NEW x \in Keys, NEW c \in Colors
    PROVE  SameLinks(Paint(t, x, c), t) /\ Painted(Paint(t, x, c), t, x, c)
  BY PaintIs DEF Painted, SameLinks

LEMMA SameLinksTwice ==
    ASSUME NEW t, NEW u, NEW v, SameLinks(u, t), SameLinks(v, u)
    PROVE  SameLinks(v, t)
  BY DEF SameLinks

\* t is the search tree of the nodes N.
Sorted(t, N) == \E D : Shape(t, N, D)

LEMMA SortedKept ==
    ASSUME NEW t, NEW N, Sorted(t, N), NEW u, SameLinks(u, t)
    PROVE  Sorted(u, N)
<1>1. PICK D : Shape(t, N, D)
  BY DEF Sorted
<1>2. Shape(u, N, D)
  BY <1>1, ShapeKept
<1> QED BY <1>2 DEF Sorted

\* The links of a search tree, without its subtrees.
LEMMA SortedFacts ==
    ASSUME NEW t, NEW N, Sorted(t, N)
    PROVE  /\ t \in Tree /\ N \subseteq Keys /\ Nil \notin N /\ Nil \notin Keys
           /\ \A x \in N, s \in Sides :
                 /\ t.child[s][x] \in N \cup {Nil} /\ t.child[s][x] # x
                 /\ t.child[s][x] # t.root \/ t.child[s][x] = Nil
                 /\ t.child[s][x] # Nil =>
                       /\ t.child[s][x] \in N /\ t.parent[t.child[s][x]] = x
                       /\ t.child[Other(s)][x] # t.child[s][x] /\ SideOf(t, t.child[s][x]) = s
           /\ \A x \in N : t.parent[x] \in N \cup {Nil} /\ (t.parent[x] = Nil <=> x = t.root)
           /\ \A x \in N : x # t.root =>
                 /\ t.parent[x] \in N /\ SideOf(t, x) \in Sides
                 /\ t.child[SideOf(t, x)][t.parent[x]] = x
           /\ t.root \in N \cup {Nil} /\ (t.root = Nil <=> N = {})
<1>1. PICK D : Shape(t, N, D)
  BY DEF Sorted
<1>2. t \in Tree /\ N \subseteq Keys /\ Nil \notin N /\ Nil \notin Keys
  BY <1>1, RefFacts DEF Shape
<1>3. ASSUME NEW x \in N, NEW s \in Sides
      PROVE  /\ t.child[s][x] \in N \cup {Nil} /\ t.child[s][x] # x
             /\ t.child[s][x] # t.root \/ t.child[s][x] = Nil
             /\ t.child[s][x] # Nil =>
                   /\ t.child[s][x] \in N /\ t.parent[t.child[s][x]] = x
                   /\ t.child[Other(s)][x] # t.child[s][x] /\ SideOf(t, t.child[s][x]) = s
  <2>1. t.child[s][x] \in N \cup {Nil}
    BY <1>1, ShapeFacts
  <2>2. t.child[s][x] # Nil =>
           /\ t.child[s][x] \in N /\ t.parent[t.child[s][x]] = x /\ t.child[s][x] # t.root
           /\ t.child[Other(s)][x] # t.child[s][x] /\ t.child[s][x] # x
    BY <1>1, <1>2, ShapeFacts, OnFacts
  <2>3. t.child[s][x] # Nil => SideOf(t, t.child[s][x]) = s
    BY <2>2 DEF SideOf, Sides, Other
  <2> QED BY <1>2, <2>1, <2>2, <2>3
<1>4. /\ \A x \in N : t.parent[x] \in N \cup {Nil} /\ (t.parent[x] = Nil <=> x = t.root)
      /\ \A x \in N : x # t.root =>
            /\ t.parent[x] \in N /\ SideOf(t, x) \in Sides
            /\ t.child[SideOf(t, x)][t.parent[x]] = x
      /\ t.root \in N \cup {Nil} /\ (t.root = Nil <=> N = {})
  BY <1>1, <1>2, ShapeFacts DEF Shape, Rooted
<1> QED BY <1>2, <1>3, <1>4

\* The links after a rotation.
Turn(u, t, N, s, x, y) ==
    /\ u \in Tree /\ u.color = t.color /\ u.root = IF x = t.root THEN y ELSE t.root
    /\ u.child[s][y] = x /\ u.child[Other(s)][y] = t.child[Other(s)][y]
    /\ u.child[s][x] = t.child[s][x] /\ u.child[Other(s)][x] = t.child[s][y]
    /\ u.parent[x] = y /\ u.parent[y] = t.parent[x]
    /\ x # y /\ y # t.root
    /\ \A r \in Sides : t.child[r][y] \notin {x, y} /\ t.child[s][x] \notin {x, y}
    /\ \A r \in Sides, z \in N \ {x, y} :
          u.child[r][z] = (IF t.child[r][z] = x THEN y ELSE t.child[r][z]) /\ t.child[r][z] # y

LEMMA RotateTurns ==
    ASSUME NEW t, NEW N, Sorted(t, N), NEW s \in Sides, NEW x \in N, t.child[Other(s)][x] # Nil
    PROVE  /\ Sorted(rotate(t, s, x), N)
           /\ Turn(rotate(t, s, x), t, N, s, x, t.child[Other(s)][x])
           /\ t.child[Other(s)][x] \in N
<1> DEFINE y == t.child[Other(s)][x]
           u == rotate(t, s, x)
<1>1. PICK D : Shape(t, N, D)
  BY DEF Sorted
<1>2. /\ t \in Tree /\ N \subseteq Keys /\ y \in N /\ Other(s) \in Sides /\ Other(s) # s /\ Nil \notin N
      /\ \A r \in Sides : r = s \/ r = Other(s)
  BY SortedFacts, SideFacts
<1>3. Rotated(u, t, s, x, y)
  BY <1>2, RotateIs
<1> HIDE DEF u, y
<1>4. Sorted(u, N)
  <2>1. Shape(u, N, Turned(t, D, s, x, y))
    BY <1>1, <1>2, <1>3, RotateShape DEF y
  <2> QED BY <2>1 DEF Sorted
<1>5. /\ x # y /\ t.parent[x] # x /\ t.parent[x] # y /\ t.child[s][y] \notin {x, y}
      /\ t.child[s][x] \notin {x, y} /\ t.child[Other(s)][y] \notin {x, y} /\ y # t.root
      /\ \A r \in Sides, z \in N : t.child[r][z] = x => z = t.parent[x] /\ r = SideOf(t, x)
      /\ \A r \in Sides, z \in N : t.child[r][z] = y => z = x /\ r = Other(s)
  BY <1>1, <1>2, RotateNodes DEF y
<1>6. /\ t.parent[x] = Nil <=> x = t.root
      /\ t.parent[x] # Nil => t.parent[x] \in N /\ t.child[SideOf(t, x)][t.parent[x]] = x
  BY SortedFacts
<1>7. /\ u \in Tree /\ u.color = t.color /\ u.root = IF x = t.root THEN y ELSE t.root
      /\ \A r \in Sides, z \in N :
            u.child[r][z] =
                IF r = s /\ z = y THEN x
                ELSE IF r = Other(s) /\ z = x THEN t.child[s][y]
                ELSE IF z = t.parent[x] /\ r = SideOf(t, x) THEN y
                ELSE t.child[r][z]
      /\ u.parent[x] = y /\ u.parent[y] = t.parent[x]
  BY <1>2, <1>3, <1>5, <1>6 DEF Rotated
<1>8. /\ u.child[s][y] = x /\ u.child[Other(s)][y] = t.child[Other(s)][y]
      /\ u.child[s][x] = t.child[s][x] /\ u.child[Other(s)][x] = t.child[s][y]
  BY <1>2, <1>5, <1>7
<1>9. ASSUME NEW r \in Sides, NEW z \in N \ {x, y}
      PROVE  u.child[r][z] = (IF t.child[r][z] = x THEN y ELSE t.child[r][z]) /\ t.child[r][z] # y
  <2>1. t.child[r][z] = x <=> z = t.parent[x] /\ r = SideOf(t, x)
    BY <1>2, <1>5, <1>6
  <2> QED BY <1>5, <1>7, <2>1
<1>10. Turn(u, t, N, s, x, y)
  BY <1>2, <1>5, <1>7, <1>8, <1>9 DEF Turn
<1> QED BY <1>2, <1>4, <1>10 DEF u, y

-----------------------------------------------------------------------------
(* The search tree, for any colours *)

TreeInv ==
    /\ Sorted(tree, nodes)
    /\ pc = "insert" => cur \in nodes
    /\ pc = "delete" /\ cur # tree.root =>
          par \in nodes /\ \E s \in Sides : cur = tree.child[s][par]
    /\ rb_color(tree, tree.root) = "red" => pc # "idle" /\ cur = tree.root

LEMMA TreeInit == Init => TreeInv
<1> SUFFICES ASSUME Init PROVE TreeInv
  OBVIOUS
<1> DEFINE D == [x \in {} |-> {}]
<1>1. tree.root = Nil /\ tree.child = [s \in Sides |-> [x \in Keys |-> Nil]]
      /\ tree.parent = [x \in Keys |-> Nil] /\ tree.color = [x \in Keys |-> "red"] /\ nodes = {} /\ pc = "idle"
  BY DEF Init
<1>2. tree \in Tree
  <2>1. tree = [root |-> Nil, child |-> [s \in Sides |-> [x \in Keys |-> Nil]],
               parent |-> [x \in Keys |-> Nil], color |-> [x \in Keys |-> "red"]]
    BY DEF Init
  <2>2. [s \in Sides |-> [x \in Keys |-> Nil]] \in Kids /\ [x \in Keys |-> Nil] \in Links
    BY RefFacts DEF Kids, Links
  <2>3. [x \in Keys |-> "red"] \in [Keys -> Colors]
    BY DEF Colors
  <2> QED BY <2>1, <2>2, <2>3, RefFacts DEF Tree
<1>3. Shape(tree, nodes, D)
  <2>1. Rooted(tree, nodes, D) /\ Unused(tree, nodes) /\ KidsUp(tree, nodes) /\ ParentsDown(tree, nodes)
        /\ Covered(tree, nodes, D) /\ InOrder(tree, nodes, D)
    BY <1>1 DEF Rooted, Unused, KidsUp, ParentsDown, Covered, InOrder
  <2>2. D \in [nodes -> SUBSET nodes] /\ IsFiniteSet(nodes)
    BY <1>1, FS_EmptySet
  <2> QED BY <1>1, <1>2, <2>1, <2>2 DEF Shape
<1>4. Sorted(tree, nodes)
  BY <1>3 DEF Sorted
<1> QED BY <1>1, <1>4 DEF TreeInv, rb_color

LEMMA InsertTree ==
    ASSUME TreeInv, NEW k \in Keys, Insert(k)
    PROVE  TreeInv'
<1>1. PICK D : Shape(tree, nodes, D)
  BY DEF TreeInv, Sorted
<1> DEFINE p == Descent(k)
<1>2. pc = "idle" /\ k \notin nodes /\ nodes' = nodes \cup {k} /\ tree' = Grown(tree, k, p)
      /\ pc' = "insert" /\ cur' = k
  BY DEF Insert, Grown, SetKid, Way
<1>3. IF nodes = {} THEN p = Nil ELSE Fits(k, tree, nodes, p)
  BY <1>1, <1>2, DescentIs
<1>4. Shape(tree', nodes', Wider(D, nodes, k, p))
  BY <1>1, <1>2, <1>3, GrowShape
<1>5. tree'.root = (IF p = Nil THEN k ELSE tree.root) /\ tree'.color = [tree.color EXCEPT ![k] = "red"]
  BY <1>2 DEF Grown
<1>6. tree \in Tree /\ tree.root \in nodes \cup {Nil} /\ Nil \notin nodes /\ nodes \subseteq Keys /\ k # Nil
  BY <1>1, ShapeFacts, RefFacts DEF Shape
<1> HIDE DEF p
<1>7. rb_color(tree', tree'.root) = "red" => cur' = tree'.root
  <2>1. CASE p = Nil
    BY <1>2, <1>5, <2>1
  <2>2. CASE p # Nil
    <3>1. tree'.root = tree.root /\ tree.root # k
      BY <1>2, <1>5, <1>6, <2>2
    <3>2. tree.root # Nil => tree'.color[tree.root] = tree.color[tree.root]
      BY <1>5, <1>6, <3>1 DEF Tree
    <3>3. rb_color(tree', tree'.root) = rb_color(tree, tree.root)
      BY <3>1, <3>2 DEF rb_color
    <3> QED BY <1>2, <3>3 DEF TreeInv
  <2> QED BY <2>1, <2>2
<1> QED BY <1>2, <1>4, <1>7 DEF TreeInv, Sorted

-----------------------------------------------------------------------------
(* A round of the insertion *)

Parent == tree.parent[cur]
Grand == tree.parent[Parent]
Uncle(s) == tree.child[Other(s)][Grand]

LEMMA Family ==
    ASSUME TreeInv, pc = "insert", RedParent
    PROVE  /\ cur \in nodes /\ Parent \in nodes /\ Grand \in nodes
           /\ cur # tree.root /\ Parent # tree.root
           /\ tree.color[Parent] = "red" /\ tree.color[tree.root] # "red" /\ tree.root \in nodes
           /\ \E r \in Sides : cur = tree.child[r][Parent]
           /\ Parent = tree.child[SideOf(tree, Parent)][Grand]
           /\ cur # Parent /\ Parent # Grand
<1>1. Sorted(tree, nodes) /\ cur \in nodes /\ cur # tree.root /\ rb_color(tree, Parent) = "red"
  BY DEF TreeInv, RedParent, Parent
<1>2. Parent \in nodes /\ tree.child[SideOf(tree, cur)][Parent] = cur /\ SideOf(tree, cur) \in Sides /\ tree.root \in nodes
  BY <1>1, SortedFacts DEF Parent
<1>3. tree.color[Parent] = "red" /\ rb_color(tree, tree.root) # "red"
  BY <1>1, <1>2, SortedFacts DEF rb_color, TreeInv
<1>4. Parent # tree.root /\ tree.color[tree.root] # "red"
  BY <1>1, <1>2, <1>3, SortedFacts DEF rb_color
<1>5. Grand \in nodes /\ Parent = tree.child[SideOf(tree, Parent)][Grand] /\ SideOf(tree, Parent) \in Sides
  BY <1>1, <1>2, <1>4, SortedFacts DEF Grand
<1>6. cur # Parent /\ Parent # Grand
  BY <1>1, <1>2, <1>5, SortedFacts
<1> QED BY <1>1, <1>2, <1>3, <1>4, <1>5, <1>6

\* The colours, by cases
Recolored(u, t, S, T) ==
    \A z \in Keys : u.color[z] = IF z \in S THEN "red" ELSE IF z \in T THEN "black" ELSE t.color[z]

UncleRed(s) ==
    /\ Uncle(s) \in nodes /\ tree.color[Uncle(s)] = "red" /\ cur' = Grand
    /\ SameLinks(tree', tree) /\ Recolored(tree', tree, {Grand}, {Parent, Uncle(s)})

InnerTurn(s) ==
    /\ rb_color(tree, Uncle(s)) = "black" /\ cur = tree.child[Other(s)][Parent] /\ cur' = Parent
    /\ Turn(tree', tree, nodes, s, Parent, cur)

OuterTurn(s, t) ==
    /\ rb_color(tree, Uncle(s)) = "black" /\ cur = tree.child[s][Parent] /\ cur' = cur
    /\ SameLinks(t, tree) /\ Recolored(t, tree, {Grand}, {Parent})
    /\ Turn(tree', t, nodes, Other(s), Grand, Parent)

LEMMA InsertRoundIs ==
    ASSUME TreeInv, NEW s \in Sides, InsertRound(s)
    PROVE  /\ pc = "insert" /\ RedParent /\ SideOf(tree, Parent) = s
           /\ nodes' = nodes /\ pc' = pc /\ par' = par /\ spoilt' = spoilt /\ last' = last
           /\ Sorted(tree', nodes')
           /\ UncleRed(s) \/ InnerTurn(s) \/ \E t : OuterTurn(s, t)
<1>1. pc = "insert" /\ RedParent /\ SideOf(tree, Parent) = s
  BY DEF InsertRound, Parent
<1>2. nodes' = nodes /\ pc' = pc /\ par' = par /\ spoilt' = spoilt /\ last' = last
  BY DEF InsertRound
<1>3. /\ cur \in nodes /\ Parent \in nodes /\ Grand \in nodes
      /\ Parent = tree.child[s][Grand]
      /\ cur # Parent /\ Parent # Grand
      /\ \E r \in Sides : cur = tree.child[r][Parent]
  BY <1>1, Family
<1>4. /\ Sorted(tree, nodes) /\ tree \in Tree /\ nodes \subseteq Keys /\ Nil \notin nodes
      /\ Other(s) \in Sides /\ Other(Other(s)) = s /\ \A r \in Sides : r = s \/ r = Other(s)
      /\ "red" \in Colors /\ "black" \in Colors
      /\ Uncle(s) \in nodes \cup {Nil}
  BY <1>3, SortedFacts, SideFacts DEF TreeInv, Colors, Uncle
<1>5. \/ /\ rb_color(tree, Uncle(s)) = "red"
         /\ tree' = Paint(Paint(Paint(tree, Parent, "black"), Uncle(s), "black"), Grand, "red")
         /\ cur' = Grand
      \/ /\ rb_color(tree, Uncle(s)) = "black" /\ cur = tree.child[Other(s)][Parent]
         /\ tree' = rotate(tree, s, Parent)
         /\ cur' = Parent
      \/ /\ rb_color(tree, Uncle(s)) = "black" /\ cur # tree.child[Other(s)][Parent]
         /\ tree' = rotate(Paint(Paint(tree, Parent, "black"), Grand, "red"), Other(s), Grand)
         /\ cur' = cur
  BY DEF InsertRound, Uncle, Parent, Grand
<1> DEFINE t1 == Paint(tree, Parent, "black")
<1>6. SameLinks(t1, tree) /\ Painted(t1, tree, Parent, "black") /\ t1 \in Tree
  BY <1>3, <1>4, PaintLinks DEF SameLinks
<1> HIDE DEF t1
<1>7. CASE /\ rb_color(tree, Uncle(s)) = "red"
           /\ tree' = Paint(Paint(t1, Uncle(s), "black"), Grand, "red")
           /\ cur' = Grand
  <2>1. Uncle(s) \in nodes /\ tree.color[Uncle(s)] = "red"
    BY <1>4, <1>7 DEF rb_color
  <2> DEFINE t2 == Paint(t1, Uncle(s), "black")
  <2>2. SameLinks(t2, t1) /\ Painted(t2, t1, Uncle(s), "black") /\ t2 \in Tree
    BY <1>4, <1>6, <2>1, PaintLinks DEF SameLinks
  <2> HIDE DEF t2
  <2>3. tree' = Paint(t2, Grand, "red")
    BY <1>7 DEF t2
  <2>4. SameLinks(tree', t2) /\ Painted(tree', t2, Grand, "red")
    BY <1>3, <1>4, <2>2, <2>3, PaintLinks
  <2>5. SameLinks(tree', tree)
    BY <1>6, <2>2, <2>4 DEF SameLinks
  <2>6. Recolored(tree', tree, {Grand}, {Parent, Uncle(s)})
    BY <1>6, <2>2, <2>4 DEF Painted, Recolored
  <2> QED BY <1>1, <1>2, <1>4, <1>7, <2>1, <2>5, <2>6, SortedKept DEF UncleRed
<1>8. CASE /\ rb_color(tree, Uncle(s)) = "black" /\ cur = tree.child[Other(s)][Parent]
           /\ tree' = rotate(tree, s, Parent)
           /\ cur' = Parent
  <2>1. Sorted(tree', nodes) /\ Turn(tree', tree, nodes, s, Parent, cur)
    BY <1>3, <1>4, <1>8, RotateTurns
  <2> QED BY <1>1, <1>2, <1>8, <2>1 DEF InnerTurn
<1>9. CASE /\ rb_color(tree, Uncle(s)) = "black" /\ cur # tree.child[Other(s)][Parent]
           /\ tree' = rotate(Paint(t1, Grand, "red"), Other(s), Grand)
           /\ cur' = cur
  <2> DEFINE t == Paint(t1, Grand, "red")
  <2>1. SameLinks(t, t1) /\ Painted(t, t1, Grand, "red")
    BY <1>3, <1>4, <1>6, PaintLinks
  <2> HIDE DEF t
  <2>2. SameLinks(t, tree) /\ Recolored(t, tree, {Grand}, {Parent})
    BY <1>6, <2>1 DEF SameLinks, Painted, Recolored
  <2>3. Sorted(t, nodes) /\ t.child[s][Grand] = Parent
    BY <1>3, <1>4, <2>2, SortedKept DEF SameLinks
  <2>4. Sorted(tree', nodes) /\ Turn(tree', t, nodes, Other(s), Grand, Parent)
    <3>1. tree' = rotate(t, Other(s), Grand)
      BY <1>9 DEF t
    <3> QED BY <1>3, <1>4, <2>3, <3>1, RotateTurns
  <2>5. cur = tree.child[s][Parent]
    BY <1>3, <1>4, <1>9
  <2>6. OuterTurn(s, t)
    BY <1>9, <2>2, <2>4, <2>5 DEF OuterTurn
  <2> QED BY <1>1, <1>2, <2>4, <2>6
<1> QED BY <1>5, <1>7, <1>8, <1>9 DEF t1

LEMMA InsertRoundTree ==
    ASSUME TreeInv, NEW s \in Sides, InsertRound(s)
    PROVE  TreeInv'
<1>1. /\ pc = "insert" /\ RedParent /\ SideOf(tree, Parent) = s
      /\ nodes' = nodes /\ pc' = pc /\ Sorted(tree', nodes')
      /\ UncleRed(s) \/ InnerTurn(s) \/ \E t : OuterTurn(s, t)
  BY InsertRoundIs
<1>2. /\ cur \in nodes /\ Parent \in nodes /\ Grand \in nodes /\ nodes \subseteq Keys /\ Nil \notin nodes
      /\ cur # tree.root /\ Parent # tree.root
      /\ tree.color[tree.root] # "red" /\ tree.root \in nodes
      /\ cur # Parent /\ Parent # Grand
  BY <1>1, Family, SortedFacts DEF TreeInv
<1>3. cur' \in nodes' /\ (rb_color(tree', tree'.root) = "red" => cur' = tree'.root)
  <2>1. CASE UncleRed(s)
    BY <1>1, <1>2, <2>1 DEF UncleRed, SameLinks, Recolored, rb_color
  <2>2. CASE InnerTurn(s)
    BY <1>1, <1>2, <2>2 DEF InnerTurn, Turn, rb_color
  <2>3. ASSUME NEW t, OuterTurn(s, t)
        PROVE  cur' \in nodes' /\ (rb_color(tree', tree'.root) = "red" => cur' = tree'.root)
    BY <1>1, <1>2, <2>3 DEF OuterTurn, Turn, SameLinks, Recolored, rb_color
  <2> QED BY <1>1, <2>1, <2>2, <2>3
<1> QED BY <1>1, <1>3 DEF TreeInv

LEMMA InsertDoneTree ==
    ASSUME TreeInv, InsertDone
    PROVE  TreeInv' /\ Painted(tree', tree, tree.root, "black") /\ tree.root \in nodes /\ SameLinks(tree', tree)
<1>1. /\ tree' = Paint(tree, tree.root, "black") /\ nodes' = nodes /\ pc' = "idle" /\ cur \in nodes
      /\ Sorted(tree, nodes) /\ "black" \in Colors
  BY DEF InsertDone, TreeInv, Colors
<1>2. tree.root \in nodes /\ tree \in Tree /\ nodes \subseteq Keys /\ Nil \notin nodes
  BY <1>1, SortedFacts
<1>3. SameLinks(tree', tree) /\ Painted(tree', tree, tree.root, "black")
  BY <1>1, <1>2, PaintLinks
<1>4. Sorted(tree', nodes')
  BY <1>1, <1>3, SortedKept
<1>5. rb_color(tree', tree'.root) # "red"
  BY <1>2, <1>3 DEF Painted, rb_color
<1> QED BY <1>1, <1>2, <1>3, <1>4, <1>5 DEF TreeInv

-----------------------------------------------------------------------------
(* A deletion *)

\* Without c, whose place n takes, the tree is out; then k gets the name c, if
\* that is another node.
PulledOut(k, c, n, s, out) ==
    /\ c \in nodes /\ s \in Sides /\ n = tree.child[s][c] /\ tree.child[Other(s)][c] = Nil
    /\ Spliced(out, tree, c, n)
    /\ \/ c = k /\ tree' = out
       \/ /\ c # k /\ c # tree.root /\ n # k /\ Renamed(tree', out, k, c)
    /\ IF tree.color[c] = "black"
       THEN pc' = "delete" /\ cur' = n /\ par' = Ren(k, c, tree.parent[c])
       ELSE pc' = pc /\ cur' = cur /\ par' = par

LEMMA DeleteIs ==
    ASSUME TreeInv, NEW k \in Keys, Delete(k)
    PROVE  /\ pc = "idle" /\ k \in nodes /\ nodes' = nodes \ {k} /\ spoilt' = spoilt
           /\ last' = <<"delete", k>> /\ Sorted(tree', nodes')
           /\ \E c, n, s, out : PulledOut(k, c, n, s, out)
<1>1. PICK D : Shape(tree, nodes, D)
  BY DEF TreeInv, Sorted
<1> DEFINE c == IF \E s \in Sides : tree.child[s][k] = Nil THEN k ELSE Neighbour("right", k)
           n == IF tree.child["left"][c] # Nil THEN tree.child["left"][c] ELSE tree.child["right"][c]
           out == Splice(tree, c, n)
<1>2. /\ pc = "idle" /\ k \in nodes /\ nodes' = nodes \ {k} /\ spoilt' = spoilt /\ last' = <<"delete", k>>
      /\ tree' = IF c = k THEN out ELSE Rename(out, k, c)
  BY DEF Delete
<1>3. IF tree.color[c] = "black"
       THEN pc' = "delete" /\ cur' = n /\ par' = Ren(k, c, tree.parent[c])
       ELSE pc' = pc /\ cur' = cur /\ par' = par
  BY DEF Delete, Ren
<1>4. /\ tree \in Tree /\ nodes \subseteq Keys /\ Nil \notin nodes /\ k \in D[k]
      /\ "left" \in Sides /\ "right" \in Sides /\ Other("left") = "right" /\ Other("right") = "left"
  BY <1>1, <1>2, ShapeFacts, SideFacts DEF Shape
<1>5. CASE \E s \in Sides : tree.child[s][k] = Nil
  <2>1. c = k
    BY <1>5
  <2>2. PICK s \in Sides : n = tree.child[s][c] /\ tree.child[Other(s)][c] = Nil
    BY <1>4, <1>5, <2>1 DEF Sides
  <2>3. n \in Ref /\ c \in Keys
    BY <1>4, <2>1, <2>2, TreeParts
  <2>4. Spliced(out, tree, c, n)
    BY <1>4, <2>3, SpliceIs
  <2> HIDE DEF c, n, out
  <2>5. tree' = out
    BY <1>2, <2>1
  <2>6. PulledOut(k, c, n, s, out)
    BY <1>2, <1>3, <2>1, <2>2, <2>4, <2>5 DEF PulledOut
  <2>7. Shape(tree', nodes', Without(D, nodes, k))
    BY <1>1, <1>2, <2>1, <2>2, <2>4, <2>5, SpliceShape
  <2> QED BY <1>2, <2>6, <2>7 DEF Sorted
<1>6. CASE ~(\E s \in Sides : tree.child[s][k] = Nil)
  <2> DEFINE r == tree.child["right"][k]
  <2>1. c = Neighbour("right", k) /\ r # Nil
    BY <1>4, <1>6
  <2>2. Nearest("right", nodes, k, c) /\ c \in D[r] /\ tree.child["left"][c] = Nil
    BY <1>1, <1>2, <1>4, <2>1, NeighbourIs
  <2>3. n = tree.child["right"][c]
    BY <2>2
  <2> HIDE DEF c, n, out
  <2>4. r \in nodes /\ k \notin D[r]
    BY <1>1, <1>2, <1>4, <2>1, ShapeFacts
  <2>5. c \in nodes /\ D[c] \subseteq D[r] /\ c \in D[c]
    BY <1>1, <2>2, <2>4, Nested, ShapeFacts
  <2>6. c # k /\ c # tree.root
    BY <1>1, <1>2, <2>4, <2>5 DEF Shape, Rooted
  <2>7. n # k
    BY <1>1, <1>2, <1>4, <2>3, <2>4, <2>5, ShapeFacts
  <2>8. n \in Ref /\ c \in Keys
    BY <1>4, <2>3, <2>5, TreeParts
  <2>9. Spliced(out, tree, c, n)
    BY <1>4, <2>8, SpliceIs DEF out
  <2>10. Shape(out, nodes \ {c}, Without(D, nodes, c))
    BY <1>1, <1>4, <2>2, <2>3, <2>5, <2>9, SpliceShape
  <2>11. tree' = Rename(out, k, c) /\ out \in Tree
    BY <1>2, <2>6, <2>9 DEF Spliced
  <2>12. Renamed(tree', out, k, c)
    BY <2>8, <2>11, RenameIs
  <2>13. ASSUME NEW w \in nodes \ {c}, NEW q \in Sides, w # k
         PROVE  On(q, w, k) <=> On(q, w, c)
    <3>1. On("right", c, k) /\ \A v \in nodes : On("right", v, k) /\ v # c => On("right", v, c)
      BY <1>4, <2>2, <2>5 DEF Nearest
    <3>2. w \in Keys /\ w # c /\ (q = "left" \/ q = "right")
      BY <1>4, <2>13 DEF Sides
    <3>3. On("left", k, c)
      BY <1>4, <2>8, <3>1, OnFacts
    <3>4. On("right", w, k) => On("right", w, c)
      BY <3>1, <3>2
    <3>5. On("left", w, k) => On("left", w, c)
      BY <1>4, <2>8, <3>2, <3>3, OnFacts
    <3>6. On("left", w, k) \/ On("right", w, k)
      BY <1>4, <2>13, <3>2, OnFacts
    <3>7. ~(On("left", w, k) /\ On("right", w, k)) /\ ~(On("left", w, c) /\ On("right", w, c))
      BY <1>4, <2>8, <3>2, OnFacts
    <3> QED BY <3>2, <3>4, <3>5, <3>6, <3>7
  <2>14. \E E : Shape(tree', ((nodes \ {c}) \ {k}) \cup {c}, E)
    <3>1. k \in nodes \ {c} /\ c \notin nodes \ {c}
      BY <1>2, <2>6
    <3> QED BY <2>8, <2>10, <2>12, <2>13, <3>1, RenameShape
  <2>15. ((nodes \ {c}) \ {k}) \cup {c} = nodes'
    BY <1>2, <2>5, <2>6
  <2>16. PulledOut(k, c, n, "right", out)
    BY <1>3, <1>4, <2>2, <2>3, <2>5, <2>6, <2>7, <2>9, <2>12 DEF PulledOut
  <2> QED BY <1>2, <2>14, <2>15, <2>16 DEF Sorted
<1> QED BY <1>5, <1>6

\* The child that takes the place of the node that leaves.
LEMMA PulledPlace ==
    ASSUME TreeInv, NEW k \in nodes, nodes' = nodes \ {k}, NEW c, NEW n, NEW s, NEW out,
           PulledOut(k, c, n, s, out), NEW p, p = tree.parent[c], NEW q, q = SideOf(tree, c)
    PROVE  /\ p = Nil => c = tree.root /\ tree'.root = n
           /\ p # Nil => /\ q \in Sides /\ Ren(k, c, p) \in nodes'
                         /\ tree'.child[q][Ren(k, c, p)] = n
                         /\ tree'.root \in Keys /\ tree'.color[tree'.root] = tree.color[tree.root]
<1>3. /\ c \in nodes /\ s \in Sides /\ n = tree.child[s][c]
      /\ Spliced(out, tree, c, n)
      /\ \/ c = k /\ tree' = out
         \/ /\ c # k /\ c # tree.root /\ n # k /\ Renamed(tree', out, k, c)
  BY DEF PulledOut
<1>4. Sorted(tree, nodes) /\ tree \in Tree /\ nodes \subseteq Keys /\ Nil \notin nodes /\ Nil \notin Keys
  BY SortedFacts DEF TreeInv
<1>5. /\ n \in nodes \cup {Nil} /\ n # c /\ tree.root \in nodes
      /\ p \in nodes \cup {Nil} /\ (p = Nil <=> c = tree.root) /\ p # c
      /\ p # Nil => q \in Sides /\ tree.child[q][p] = c /\ p \in nodes
  BY <1>3, <1>4, SortedFacts
<1>6. /\ out.root = IF p = Nil THEN n ELSE tree.root
      /\ p # Nil => out.child[q][p] = n
      /\ \A z \in Keys \ {c} : out.color[z] = tree.color[z]
  BY <1>3, <1>4, <1>5 DEF Spliced
<1>7. CASE p = Nil
  BY <1>3, <1>5, <1>6, <1>7
<1>8. CASE p # Nil /\ c = k /\ tree' = out
  <2>1. Ren(k, c, p) = p /\ p \in nodes' /\ tree.root \in Keys \ {c}
    BY <1>4, <1>5, <1>8 DEF Ren
  <2> QED BY <1>5, <1>6, <1>8, <2>1
<1>9. CASE p # Nil /\ c # k /\ c # tree.root /\ n # k /\ Renamed(tree', out, k, c)
  <2> DEFINE w == Ren(k, c, p)
  <2>1. w \in nodes' /\ w # k /\ w \in Keys /\ Ren(c, k, w) = p
    BY <1>3, <1>4, <1>5, <1>9 DEF Ren
  <2>2. tree'.child[q][w] = Ren(k, c, out.child[q][p])
    BY <1>5, <1>9, <2>1 DEF Renamed
  <2>3. tree'.child[q][w] = n
    BY <1>6, <1>9, <2>2 DEF Ren
  <2>4. tree'.root = Ren(k, c, tree.root) /\ tree'.root # k /\ tree'.root \in Keys
        /\ Ren(c, k, tree'.root) = tree.root
    BY <1>3, <1>4, <1>5, <1>6, <1>9 DEF Renamed, Ren
  <2>5. tree'.color[tree'.root] = tree.color[tree.root]
    BY <1>4, <1>5, <1>6, <1>9, <2>4 DEF Renamed
  <2> QED BY <1>5, <1>9, <2>1, <2>3, <2>4, <2>5
<1> QED BY <1>3, <1>7, <1>8, <1>9

LEMMA DeleteTree ==
    ASSUME TreeInv, NEW k \in Keys, Delete(k)
    PROVE  TreeInv'
<1>1. pc = "idle" /\ k \in nodes /\ nodes' = nodes \ {k} /\ Sorted(tree', nodes')
  BY DeleteIs
<1>2. PICK c, n, s, out : PulledOut(k, c, n, s, out)
  BY DeleteIs
<1> DEFINE p == tree.parent[c]
           q == SideOf(tree, c)
<1>3. IF tree.color[c] = "black"
      THEN pc' = "delete" /\ cur' = n /\ par' = Ren(k, c, p)
      ELSE pc' = pc /\ cur' = cur /\ par' = par
  BY <1>2 DEF PulledOut
<1>4. /\ p = Nil => c = tree.root /\ tree'.root = n
      /\ p # Nil => /\ q \in Sides /\ Ren(k, c, p) \in nodes'
                    /\ tree'.child[q][Ren(k, c, p)] = n
                    /\ tree'.root \in Keys /\ tree'.color[tree'.root] = tree.color[tree.root]
  BY <1>1, <1>2, PulledPlace
<1>5. tree.color[tree.root] = "black" /\ Nil \notin Keys
  BY <1>1, SortedFacts, TreeParts DEF TreeInv, rb_color, Colors
<1> HIDE DEF p, q
<1>6. ASSUME pc' = "delete", cur' # tree'.root
      PROVE  par' \in nodes' /\ \E r \in Sides : cur' = tree'.child[r][par']
  BY <1>1, <1>3, <1>4, <1>6
<1>7. ASSUME rb_color(tree', tree'.root) = "red" PROVE pc' # "idle" /\ cur' = tree'.root
  <2>1. p = Nil
    BY <1>4, <1>5, <1>7 DEF rb_color
  <2> QED BY <1>3, <1>4, <1>5, <2>1
<1>8. pc' # "insert"
  BY <1>1, <1>3
<1> QED BY <1>1, <1>6, <1>7, <1>8 DEF TreeInv

-----------------------------------------------------------------------------
(* A round of the deletion *)

LEMMA Grandchild ==
    ASSUME NEW t, NEW N, Sorted(t, N), NEW x \in N, NEW s \in Sides, NEW r \in Sides,
           t.child[s][x] # Nil
    PROVE  t.child[r][t.child[s][x]] # x
<1>1. PICK D : Shape(t, N, D)
  BY DEF Sorted
<1> DEFINE y == t.child[s][x]
<1>2. y \in N /\ Other(s) \in Sides /\ Other(Other(s)) = s
  BY SortedFacts, SideFacts
<1>3. t.child[Other(s)][y] # x /\ t.child[s][y] # x
  BY <1>1, <1>2, RotateNodes
<1> QED BY <1>3, SideFacts

LEMMA Siblings ==
    ASSUME TreeInv, pc = "delete", Fixing, NEW s, s = CurSide
    PROVE  /\ s \in Sides /\ par \in nodes /\ cur = tree.child[s][par] /\ cur # tree.root
           /\ tree.root \in nodes /\ tree.color[tree.root] = "black"
           /\ tree.child[Other(s)][par] \in nodes \cup {Nil}
<1>1. cur # tree.root /\ Sorted(tree, nodes)
  BY DEF Fixing, TreeInv
<1>2. PICK r \in Sides : par \in nodes /\ cur = tree.child[r][par]
  BY <1>1 DEF TreeInv
<1>3. s \in Sides /\ cur = tree.child[s][par]
  BY <1>2 DEF CurSide, Sides
<1>4. tree.root \in nodes /\ Nil \notin nodes /\ tree \in Tree /\ nodes \subseteq Keys
  BY <1>1, <1>2, SortedFacts
<1>5. tree.color[tree.root] = "black"
  BY <1>1, <1>4, TreeParts DEF TreeInv, rb_color, Colors
<1> QED BY <1>1, <1>2, <1>3, <1>4, <1>5, SortedFacts, SideFacts

\* The red sibling y of the current node has been turned to the place of par.
SiblingTurn(t, t0, s, y) ==
    /\ y = tree.child[Other(s)][par] /\ y \in nodes /\ tree.color[y] = "red"
    /\ SameLinks(t0, tree) /\ Recolored(t0, tree, {par}, {y}) /\ Turn(t, t0, nodes, s, par, y)

LEMMA BlackSiblingIs ==
    ASSUME TreeInv, pc = "delete", Fixing, NEW s, s = CurSide, NEW t, t = BlackSibling(s)
    PROVE  /\ Sorted(t, nodes) /\ t.child[s][par] = cur /\ t.root \in nodes
           /\ t.color[t.root] = "black"
           /\ \/ t = tree /\ rb_color(t, t.child[Other(s)][par]) = "black"
              \/ \E t0, y : SiblingTurn(t, t0, s, y)
<1> DEFINE y == tree.child[Other(s)][par]
<1>1. /\ s \in Sides /\ par \in nodes /\ cur = tree.child[s][par] /\ cur # tree.root
      /\ tree.root \in nodes /\ tree.color[tree.root] = "black" /\ y \in nodes \cup {Nil}
  BY Siblings
<1>2. /\ Sorted(tree, nodes) /\ tree \in Tree /\ nodes \subseteq Keys /\ Nil \notin nodes
      /\ "red" \in Colors /\ "black" \in Colors /\ Other(s) \in Sides /\ Other(s) # s
  BY <1>1, SortedFacts, SideFacts DEF TreeInv, Colors
<1>3. CASE rb_color(tree, y) = "red"
  <2> DEFINE t1 == Paint(tree, y, "black")
             t0 == Paint(t1, par, "red")
  <2>1. y \in nodes /\ tree.color[y] = "red"
    BY <1>1, <1>3 DEF rb_color
  <2>2. SameLinks(t1, tree) /\ Painted(t1, tree, y, "black") /\ t1 \in Tree
    BY <1>2, <2>1, PaintLinks DEF SameLinks
  <2> HIDE DEF t1
  <2>3. SameLinks(t0, t1) /\ Painted(t0, t1, par, "red")
    BY <1>1, <1>2, <2>2, PaintLinks
  <2>4. t = rotate(t0, s, par)
    BY <1>3 DEF BlackSibling, t1
  <2> HIDE DEF t0
  <2>5. SameLinks(t0, tree) /\ Recolored(t0, tree, {par}, {y})
    BY <2>2, <2>3 DEF SameLinks, Painted, Recolored
  <2>6. Sorted(t0, nodes) /\ t0.child[Other(s)][par] = y
    BY <1>2, <2>5, SortedKept DEF SameLinks
  <2>7. Sorted(t, nodes) /\ Turn(t, t0, nodes, s, par, y)
    BY <1>1, <1>2, <2>1, <2>4, <2>6, RotateTurns
  <2>8. SiblingTurn(t, t0, s, y)
    BY <2>1, <2>5, <2>7 DEF SiblingTurn
  <2>9. t.child[s][par] = cur /\ t.root \in nodes
    BY <1>1, <2>1, <2>5, <2>7 DEF Turn, SameLinks
  <2>10. t.color[t.root] = "black"
    BY <1>1, <1>2, <2>1, <2>5, <2>7 DEF Turn, SameLinks, Recolored
  <2> QED BY <2>7, <2>8, <2>9, <2>10
<1>4. CASE rb_color(tree, y) # "red"
  <2>1. t = tree
    BY <1>4 DEF BlackSibling
  <2>2. rb_color(tree, y) = "black"
    BY <1>1, <1>2, <1>4, TreeParts DEF rb_color, Colors
  <2> QED BY <1>1, <1>2, <2>1, <2>2
<1> QED BY <1>3, <1>4

NephewsBlack(t, s, y) ==
    /\ \A r \in Sides : rb_color(t, t.child[r][y]) = "black"
    /\ SameLinks(tree', t) /\ Recolored(tree', t, {y}, {})
    /\ cur' = par /\ par' = t.parent[par] /\ spoilt' = spoilt

FarRed(t, t1, s, y) ==
    /\ t.child[Other(s)][y] \in nodes /\ t.color[t.child[Other(s)][y]] = "red"
    /\ SameLinks(t1, t)
    /\ \A z \in Keys : t1.color[z] = IF z \in {par, t.child[Other(s)][y]} THEN "black"
                                     ELSE IF z = y THEN t.color[par] ELSE t.color[z]
    /\ Turn(tree', t1, nodes, s, par, y)
    /\ cur' = tree'.root /\ spoilt' = spoilt

LEMMA DeleteRoundIs ==
    ASSUME TreeInv, NEW s \in Sides, DeleteRound(s), NEW t, t = BlackSibling(s),
           NEW y, y = t.child[Other(s)][par]
    PROVE  /\ pc = "delete" /\ Fixing /\ s = CurSide /\ y \in nodes
           /\ nodes' = nodes /\ pc' = pc /\ last' = last
           /\ TreeInv'
           /\ NephewsBlack(t, s, y) \/ spoilt' \/ \E t1 : FarRed(t, t1, s, y)
<1> DEFINE near == t.child[s][y]
           far == t.child[Other(s)][y]
<1>1. /\ pc = "delete" /\ Fixing /\ s = CurSide /\ y # Nil
      /\ nodes' = nodes /\ pc' = pc /\ last' = last
  BY DEF DeleteRound
<1>2. /\ Sorted(t, nodes) /\ t.child[s][par] = cur /\ t.root \in nodes
      /\ t.color[t.root] = "black" /\ par \in nodes
  BY <1>1, Siblings, BlackSiblingIs
<1>3. /\ t \in Tree /\ nodes \subseteq Keys /\ Nil \notin nodes /\ Other(s) \in Sides /\ Other(Other(s)) = s
      /\ "red" \in Colors /\ "black" \in Colors /\ Other(s) # s /\ \A r \in Sides : r = s \/ r = Other(s)
  BY <1>2, SortedFacts, SideFacts DEF Colors
<1>4. /\ y \in nodes /\ y # par /\ y # t.root /\ y # cur /\ t.parent[y] = par
      /\ near \in nodes \cup {Nil} /\ far \in nodes \cup {Nil}
      /\ near # y /\ far # y /\ near # par /\ far # par /\ near # t.root /\ far # t.root
  <2>1. y \in nodes /\ y # par /\ y # t.root /\ y # cur /\ t.parent[y] = par
    BY <1>1, <1>2, <1>3, SortedFacts
  <2>2. near \in nodes \cup {Nil} /\ far \in nodes \cup {Nil}
        /\ near # y /\ far # y /\ near # t.root /\ far # t.root
    BY <1>2, <1>3, <2>1, SortedFacts
  <2>3. near # par /\ far # par
    BY <1>1, <1>2, <1>3, Grandchild
  <2> QED BY <2>1, <2>2, <2>3
<1>5. \/ /\ rb_color(t, near) = "black" /\ rb_color(t, far) = "black"
         /\ tree' = Paint(t, y, "red")
         /\ cur' = par /\ par' = t.parent[par] /\ spoilt' = spoilt
      \/ /\ rb_color(t, near) = "red" /\ rb_color(t, far) = "black"
         /\ tree' = RaiseNear(t, s, y)
         /\ spoilt' = TRUE /\ cur' = cur /\ par' = par
      \/ /\ rb_color(t, far) = "red"
         /\ tree' = RaiseSibling(t, s, y)
         /\ cur' = tree'.root /\ par' = Nil /\ spoilt' = spoilt
  BY DEF DeleteRound
<1>6. CASE /\ rb_color(t, near) = "black" /\ rb_color(t, far) = "black"
           /\ tree' = Paint(t, y, "red")
           /\ cur' = par /\ par' = t.parent[par] /\ spoilt' = spoilt
  <2>1. SameLinks(tree', t) /\ Painted(tree', t, y, "red")
    BY <1>3, <1>4, <1>6, PaintLinks
  <2>2. Recolored(tree', t, {y}, {})
    BY <2>1 DEF Painted, Recolored
  <2>3. \A r \in Sides : rb_color(t, t.child[r][y]) = "black"
    BY <1>3, <1>6
  <2>4. NephewsBlack(t, s, y)
    BY <1>6, <2>1, <2>2, <2>3 DEF NephewsBlack
  <2>5. Sorted(tree', nodes') /\ tree'.root = t.root /\ tree'.child = t.child
    BY <1>1, <1>2, <2>1, SortedKept DEF SameLinks
  <2>6. rb_color(tree', tree'.root) # "red"
    BY <1>2, <1>3, <1>4, <2>1, <2>5 DEF Painted, rb_color
  <2>7. ASSUME cur' # tree'.root PROVE par' \in nodes' /\ \E r \in Sides : cur' = tree'.child[r][par']
    BY <1>1, <1>2, <1>6, <2>5, <2>7, SortedFacts
  <2> QED BY <1>1, <1>4, <2>4, <2>5, <2>6, <2>7 DEF TreeInv
<1>7. CASE /\ rb_color(t, near) = "red" /\ rb_color(t, far) = "black"
           /\ tree' = RaiseNear(t, s, y)
           /\ spoilt' = TRUE /\ cur' = cur /\ par' = par
  <2> DEFINE t1 == Paint(t, near, "red")
  <2>1. near \in nodes
    BY <1>4, <1>7 DEF rb_color
  <2>2. SameLinks(t1, t) /\ Painted(t1, t, near, "red")
    BY <1>3, <2>1, PaintLinks
  <2>3. tree' = rotate(t1, Other(s), y)
    BY <1>7 DEF RaiseNear
  <2> HIDE DEF t1
  <2>4. Sorted(t1, nodes) /\ t1.child[Other(Other(s))][y] = near
    BY <1>2, <1>3, <2>2, SortedKept DEF SameLinks
  <2>5. Sorted(tree', nodes) /\ Turn(tree', t1, nodes, Other(s), y, near)
    BY <1>3, <1>4, <2>1, <2>3, <2>4, RotateTurns
  <2>6. tree'.root = t.root /\ tree'.child[s][par] = cur /\ tree'.color[t.root] = t.color[t.root]
    <3>1. t1.root = t.root /\ t1.child[s][par] = cur /\ par \in nodes \ {y, near} /\ y # t1.root
      BY <1>2, <1>4, <2>2 DEF SameLinks
    <3>2. tree'.root = t1.root /\ tree'.color = t1.color
      BY <2>5, <3>1 DEF Turn
    <3>3. tree'.child[s][par] = t1.child[s][par]
      BY <1>4, <2>5, <3>1 DEF Turn
    <3>4. t1.color[t.root] = t.color[t.root]
      BY <1>2, <1>3, <1>4, <2>2 DEF Painted
    <3> QED BY <3>1, <3>2, <3>3, <3>4
  <2>7. rb_color(tree', tree'.root) # "red"
    BY <1>2, <1>3, <2>6 DEF rb_color
  <2> QED BY <1>1, <1>2, <1>4, <1>7, <2>5, <2>6, <2>7 DEF TreeInv
<1>8. CASE /\ rb_color(t, far) = "red"
           /\ tree' = RaiseSibling(t, s, y)
           /\ cur' = tree'.root /\ par' = Nil /\ spoilt' = spoilt
  <2> DEFINE a == Paint(t, y, t.color[par])
             b == Paint(a, par, "black")
             t1 == Paint(b, far, "black")
  <2>1. far \in nodes /\ t.color[far] = "red" /\ t.color[par] \in Colors
    BY <1>2, <1>3, <1>4, <1>8, TreeParts DEF rb_color
  <2>2. SameLinks(a, t) /\ Painted(a, t, y, t.color[par]) /\ a \in Tree
    <3>1. y \in Keys
      BY <1>3, <1>4
    <3>2. SameLinks(a, t) /\ Painted(a, t, y, t.color[par])
      BY <1>3, <2>1, <3>1, PaintLinks
    <3> QED BY <3>2 DEF SameLinks
  <2>3. tree' = rotate(t1, s, par)
    BY <1>8 DEF RaiseSibling
  <2> HIDE DEF a
  <2>4. SameLinks(b, a) /\ Painted(b, a, par, "black") /\ b \in Tree
    BY <1>2, <1>3, <2>2, PaintLinks DEF SameLinks
  <2> HIDE DEF b
  <2>5. SameLinks(t1, b) /\ Painted(t1, b, far, "black")
    BY <1>3, <2>1, <2>4, PaintLinks
  <2> HIDE DEF t1
  <2>6. SameLinks(t1, t)
    BY <2>2, <2>4, <2>5 DEF SameLinks
  <2>7. \A z \in Keys : t1.color[z] = IF z \in {par, far} THEN "black"
                                      ELSE IF z = y THEN t.color[par] ELSE t.color[z]
    BY <2>2, <2>4, <2>5 DEF Painted
  <2>8. Sorted(t1, nodes) /\ t1.child[Other(s)][par] = y
    BY <1>2, <2>6, SortedKept DEF SameLinks
  <2>9. Sorted(tree', nodes) /\ Turn(tree', t1, nodes, s, par, y)
    BY <1>1, <1>2, <2>3, <2>8, RotateTurns
  <2>10. FarRed(t, t1, s, y)
    BY <1>8, <2>1, <2>6, <2>7, <2>9 DEF FarRed
  <2>11. TreeInv'
    BY <1>1, <1>8, <2>9 DEF TreeInv
  <2> QED BY <1>1, <1>4, <2>10, <2>11
<1> QED BY <1>5, <1>6, <1>7, <1>8

LEMMA DeleteFaultsTree ==
    ASSUME TreeInv, NEW s \in Sides, DeleteFaults(s)
    PROVE  TreeInv'
<1>1. pc = "delete" /\ Fixing /\ s = CurSide /\ pc' = "dead" /\ nodes' = nodes /\ tree' = tree /\ cur' = cur
  BY DEF DeleteFaults
<1>2. tree.root \in nodes /\ tree.color[tree.root] = "black" /\ Nil \notin nodes
  BY <1>1, Siblings, SortedFacts DEF TreeInv
<1> QED BY <1>1, <1>2 DEF TreeInv, rb_color

LEMMA DeleteDoneTree ==
    ASSUME TreeInv, DeleteDone
    PROVE  /\ TreeInv' /\ cur \in nodes \cup {Nil}
           /\ IF cur = Nil THEN tree' = tree
              ELSE SameLinks(tree', tree) /\ Painted(tree', tree, cur, "black")
<1>1. /\ pc = "delete" /\ ~Fixing /\ nodes' = nodes /\ pc' = "idle" /\ Sorted(tree, nodes)
      /\ tree' = IF cur = Nil THEN tree ELSE Paint(tree, cur, "black")
  BY DEF DeleteDone, TreeInv
<1>2. /\ tree \in Tree /\ nodes \subseteq Keys /\ Nil \notin nodes /\ "black" \in Colors
      /\ tree.root \in nodes \cup {Nil}
  BY <1>1, SortedFacts DEF Colors
<1>3. cur \in nodes \cup {Nil}
  BY <1>1, <1>2, SortedFacts DEF TreeInv
<1>4. CASE cur = Nil
  BY <1>1, <1>3, <1>4 DEF TreeInv, rb_color
<1>5. CASE cur # Nil
  <2>1. SameLinks(tree', tree) /\ Painted(tree', tree, cur, "black")
    BY <1>1, <1>2, <1>3, <1>5, PaintLinks
  <2>2. Sorted(tree', nodes')
    BY <1>1, <2>1, SortedKept
  <2>3. rb_color(tree', tree'.root) # "red"
    BY <1>2, <2>1 DEF TreeInv, Painted, rb_color
  <2> QED BY <1>1, <1>3, <1>5, <2>1, <2>2, <2>3 DEF TreeInv
<1> QED BY <1>4, <1>5

LEMMA TreeNext ==
    ASSUME TreeInv, [Next]_vars
    PROVE  TreeInv'
<1>1. CASE UNCHANGED vars
  BY <1>1 DEF vars, TreeInv
<1>2. CASE Next
  BY <1>2, InsertTree, DeleteTree, InsertRoundTree, InsertDoneTree, DeleteRoundIs, DeleteFaultsTree,
     DeleteDoneTree DEF Next, Fixup
<1> QED BY <1>1, <1>2

-----------------------------------------------------------------------------
(* What the callers see *)

\* The tree of rb_insert and rb_delete is a search tree of the nodes that are
\* allocated in every state, between the rounds of the fix-ups too, and the
\* fix-ups stand on nodes of it.
THEOREM TreeInvariant == Spec => []TreeInv
<1>1. Spec => []TreeInv
  BY TreeInit, TreeNext, PTL DEF Spec
<1> QED BY <1>1

LEMMA LeastIs ==
    ASSUME NEW S, S \subseteq Keys, NEW x \in Keys, NEW m, Nearest("right", S, x, m)
    PROVE  m = Least({y \in S : y > x})
<1> DEFINE T == {y \in S : y > x}
<1>1. T \subseteq Nat /\ x \in Nat /\ Nil \notin Nat
  BY KeysAssumption
<1>2. CASE m = Nil /\ \A w \in S : ~On("right", w, x)
  <2>1. T = {}
    BY <1>1, <1>2 DEF On
  <2> QED BY <1>2, <2>1 DEF Least
<1>3. CASE m \in S /\ On("right", m, x) /\ \A w \in S : On("right", w, x) /\ w # m => On("right", w, m)
  <2>1. m \in T /\ \A y \in T : m <= y
    BY <1>1, <1>3 DEF On
  <2> HIDE DEF T
  <2>2. \A z \in T : (\A y \in T : z <= y) => z = m
    BY <1>1, <2>1
  <2>3. m = CHOOSE z \in T : \A y \in T : z <= y
    BY <2>1, <2>2
  <2>4. m = Least(T)
    BY <2>1, <2>3 DEF Least
  <2> QED BY <2>4 DEF T
<1> QED BY <1>2, <1>3 DEF Nearest

LEMMA GreatestIs ==
    ASSUME NEW S, S \subseteq Keys, NEW x \in Keys, NEW m, Nearest("left", S, x, m)
    PROVE  m = Greatest({y \in S : y < x})
<1> DEFINE T == {y \in S : y < x}
<1>1. T \subseteq Nat /\ x \in Nat /\ Nil \notin Nat
  BY KeysAssumption
<1>2. CASE m = Nil /\ \A w \in S : ~On("left", w, x)
  <2>1. T = {}
    BY <1>1, <1>2 DEF On
  <2> QED BY <1>2, <2>1 DEF Greatest
<1>3. CASE m \in S /\ On("left", m, x) /\ \A w \in S : On("left", w, x) /\ w # m => On("left", w, m)
  <2>1. m \in T /\ \A y \in T : y <= m
    BY <1>1, <1>3 DEF On
  <2> HIDE DEF T
  <2>2. \A z \in T : (\A y \in T : y <= z) => z = m
    BY <1>1, <2>1
  <2>3. m = CHOOSE z \in T : \A y \in T : y <= z
    BY <2>1, <2>2
  <2>4. m = Greatest(T)
    BY <2>1, <2>3 DEF Greatest
  <2> QED BY <2>4 DEF T
<1> QED BY <1>2, <1>3 DEF Nearest

LEMMA NeighboursHold == TreeInv => Neighbours
<1> SUFFICES ASSUME TreeInv PROVE Neighbours
  OBVIOUS
<1>1. PICK D : Shape(tree, nodes, D)
  BY DEF TreeInv, Sorted
<1>2. traverse[tree.root] = nodes
  BY <1>1, TraverseIs
<1>3. ASSUME NEW x \in nodes
      PROVE  /\ Neighbour("right", x) = Least({y \in nodes : y > x})
             /\ Neighbour("left", x) = Greatest({y \in nodes : y < x})
  <2>1. nodes \subseteq Keys /\ x \in Keys /\ "left" \in Sides /\ "right" \in Sides
    BY <1>1, SideFacts DEF Shape
  <2>2. Nearest("right", nodes, x, Neighbour("right", x)) /\ Nearest("left", nodes, x, Neighbour("left", x))
    BY <1>1, <2>1, NeighbourIs
  <2> QED BY <2>1, <2>2, LeastIs, GreatestIs
<1> QED BY <1>2, <1>3 DEF Neighbours

\* tree_successor and tree_predecessor find the neighbours of every node in the
\* order of the keys, and traverse and destroy_node come to every node.
THEOREM TreeWalks == Spec => []Neighbours
  BY TreeInvariant, NeighboursHold, PTL

Found == {k \in Keys : tree_search(k) # Nil}
FoundInv == Found = nodes

LEMMA FoundHolds == TreeInv => FoundInv
<1> SUFFICES ASSUME TreeInv PROVE FoundInv
  OBVIOUS
<1>1. PICK D : Shape(tree, nodes, D)
  BY DEF TreeInv, Sorted
<1>2. \A k \in Keys : tree_search(k) = IF k \in nodes THEN k ELSE Nil
  BY <1>1, SearchIs
<1>3. nodes \subseteq Keys /\ Nil \notin Keys
  BY <1>1, RefFacts DEF Shape
<1> QED BY <1>2, <1>3 DEF FoundInv, Found

\* A step of the tree is a step of the set, or changes neither what a search
\* finds nor the last call.
LEMMA SetStep ==
    ASSUME [Next]_vars
    PROVE  \/ UNCHANGED <<nodes, last>>
           \/ \E k \in Keys :
                 \/ k \notin nodes /\ nodes' = nodes \cup {k} /\ last' = <<"insert", k>>
                 \/ k \in nodes /\ nodes' = nodes \ {k} /\ last' = <<"delete", k>>
<1>1. CASE UNCHANGED vars
  BY <1>1 DEF vars
<1>2. CASE Fixup
  BY <1>2 DEF Fixup, InsertDone, DeleteDone, InsertRound, DeleteRound, DeleteFaults
<1>3. ASSUME NEW k \in Keys, Insert(k)
      PROVE  k \notin nodes /\ nodes' = nodes \cup {k} /\ last' = <<"insert", k>>
  BY <1>3 DEF Insert
<1>4. ASSUME NEW k \in Keys, Delete(k)
      PROVE  k \in nodes /\ nodes' = nodes \ {k} /\ last' = <<"delete", k>>
  BY <1>4 DEF Delete
<1> QED BY <1>1, <1>2, <1>3, <1>4 DEF Next

\* The tree implements the sorted set: what a search finds is changed by the
\* calls and by no round of a fix-up, for any keys and in any state of the
\* colours.
THEOREM TreeIsSet == Spec => SetSpec
<1>1. Init /\ FoundInv => Abstract!Init
  BY DEF Init, FoundInv, Found, Abstract!Init
<1>2. FoundInv /\ FoundInv' /\ [Next]_vars => [Abstract!Next]_<<Found, last>>
  <2> SUFFICES ASSUME FoundInv, FoundInv', [Next]_vars PROVE [Abstract!Next]_<<Found, last>>
    OBVIOUS
  <2>1. Found = nodes /\ Found' = nodes'
    BY DEF FoundInv
  <2>2. \/ UNCHANGED <<nodes, last>>
        \/ \E k \in Keys :
              \/ k \notin nodes /\ nodes' = nodes \cup {k} /\ last' = <<"insert", k>>
              \/ k \in nodes /\ nodes' = nodes \ {k} /\ last' = <<"delete", k>>
    BY SetStep
  <2> QED BY <2>1, <2>2 DEF Abstract!Next, Abstract!Insert, Abstract!Delete, Found
<1>3. Spec => []FoundInv
  BY TreeInvariant, FoundHolds, PTL
<1> QED BY <1>1, <1>2, <1>3, PTL DEF Spec, SetSpec, Abstract!Spec, Found

-----------------------------------------------------------------------------
(* The colours, as long as the tree is not spoilt *)

Blk(t, x) == IF t.color[x] = "black" THEN 1 ELSE 0
Hn(H, x) == IF x = Nil THEN 0 ELSE H[x]

\* The child of q on side r is one black node short.
Lack(q, r, x, s) == IF x = q /\ s = r THEN 1 ELSE 0

\* H[x] is the number of black nodes on every way down from x.
Level(t, H, q, r, x, s) == H[x] = Hn(H, t.child[s][x]) + Lack(q, r, x, s) + Blk(t, x)
Even(t, N, H, q, r) ==
    H \in [N -> Nat] /\ \A x \in N, s \in Sides : Level(t, H, q, r, x, s)

\* No red node has a red child, unless the parent is a or the child is b.
Reds(t, N, a, b) ==
    \A x \in N, s \in Sides :
        t.color[x] = "red" /\ rb_color(t, t.child[s][x]) = "red" => x = a \/ t.child[s][x] = b

LackAt == IF pc = "delete" /\ cur # tree.root THEN par ELSE Nil
LooseParent == IF pc = "delete" THEN cur ELSE Nil
LooseChild == IF pc \in {"insert", "delete"} THEN cur ELSE Nil

ColorInv ==
    ~spoilt =>
        /\ \E H : Even(tree, nodes, H, LackAt, CurSide)
        /\ Reds(tree, nodes, LooseParent, LooseChild)
        /\ pc = "insert" => tree.color[cur] = "red"
        /\ pc # "dead"

LEMMA EvenFacts ==
    ASSUME NEW t, NEW N, Sorted(t, N), NEW H, NEW q, NEW r, Even(t, N, H, q, r)
    PROVE  /\ \A x \in N \cup {Nil} : Hn(H, x) \in Nat
           /\ \A x \in N : H[x] \in Nat /\ Hn(H, x) = H[x] /\ Blk(t, x) \in {0, 1}
           /\ \A x \in N, s \in Sides :
                 /\ Hn(H, t.child[s][x]) \in Nat
                 /\ H[x] = Hn(H, t.child[s][x]) + Lack(q, r, x, s) + Blk(t, x)
<1>1. Nil \notin N /\ \A x \in N, s \in Sides : t.child[s][x] \in N \cup {Nil}
  BY SortedFacts
<1>2. \A x \in N : H[x] \in Nat
  BY DEF Even
<1>3. \A x \in N \cup {Nil} : Hn(H, x) \in Nat
  BY <1>1, <1>2 DEF Hn
<1>4. \A x \in N : H[x] \in Nat /\ Hn(H, x) = H[x] /\ Blk(t, x) \in {0, 1}
  BY <1>1, <1>2 DEF Hn, Blk
<1> QED BY <1>1, <1>3, <1>4 DEF Even, Level

LEMMA ColorInit == Init => ColorInv
<1> SUFFICES ASSUME Init PROVE ColorInv
  OBVIOUS
<1>1. nodes = {} /\ pc = "idle"
  BY DEF Init
<1>2. Even(tree, nodes, [x \in nodes |-> 0], LackAt, CurSide)
  BY <1>1 DEF Even
<1>3. Reds(tree, nodes, LooseParent, LooseChild)
  BY <1>1 DEF Reds
<1> QED BY <1>1, <1>2, <1>3 DEF ColorInv

LEMMA InsertColor ==
    ASSUME TreeInv, ColorInv, NEW k \in Keys, Insert(k)
    PROVE  ColorInv'
<1> SUFFICES ASSUME ~spoilt PROVE ColorInv'
  BY DEF Insert, ColorInv
<1>1. PICK D : Shape(tree, nodes, D)
  BY DEF TreeInv, Sorted
<1> DEFINE p == Descent(k)
<1>2. pc = "idle" /\ k \notin nodes /\ nodes' = nodes \cup {k} /\ tree' = Grown(tree, k, p)
      /\ pc' = "insert" /\ cur' = k
  BY DEF Insert, Grown, SetKid, Way
<1>3. IF nodes = {} THEN p = Nil ELSE Fits(k, tree, nodes, p)
  BY <1>1, <1>2, DescentIs
<1> HIDE DEF p
<1>4. /\ tree \in Tree /\ nodes \subseteq Keys /\ Nil \notin nodes /\ k # Nil /\ Sorted(tree, nodes)
      /\ \A s \in Sides : tree.child[s][k] = Nil
      /\ \A z \in nodes, s \in Sides : tree.child[s][z] \in nodes \cup {Nil}
  BY <1>1, <1>2, SortedFacts, RefFacts DEF TreeInv, Shape, Unused
<1>5. tree'.color = [tree.color EXCEPT ![k] = "red"] /\ tree.color \in [Keys -> Colors]
  BY <1>2, <1>4, TreeParts DEF Grown
<1>6. /\ tree'.color[k] = "red" /\ \A z \in nodes : tree'.color[z] = tree.color[z]
  BY <1>2, <1>4, <1>5
<1>7. /\ \A s \in Sides : tree'.child[s][k] = Nil
      /\ \A z \in nodes, s \in Sides :
            \/ tree'.child[s][z] = tree.child[s][z]
            \/ tree'.child[s][z] = k /\ tree.child[s][z] = Nil
  <2>1. CASE p = Nil
    <3>1. tree'.child = tree.child
      BY <1>2, <2>1 DEF Grown
    <3> QED BY <1>4, <3>1
  <2>2. CASE p # Nil
    <3>1. p \in nodes /\ tree.child[Way(k, p)][p] = Nil /\ p # k
      BY <1>2, <1>3, <2>2 DEF Fits
    <3>2. Way(k, p) \in Sides /\ tree.child \in Kids /\ p \in Keys /\ k \in Ref
      BY <1>4, <3>1, WayFacts, TreeParts, RefFacts
    <3>3. tree'.child = SetKid(tree.child, Way(k, p), p, k)
      BY <1>2, <2>2 DEF Grown
    <3>4. KidSet(tree'.child, tree.child, Way(k, p), p, k)
      BY <3>2, <3>3, SetKidIs
    <3> QED BY <1>4, <3>1, <3>2, <3>4 DEF KidSet
  <2> QED BY <2>1, <2>2
<1>8. PICK H : Even(tree, nodes, H, Nil, CurSide)
  BY <1>2 DEF ColorInv, LackAt
<1>9. Reds(tree, nodes, Nil, Nil)
  BY <1>2 DEF ColorInv, LooseParent, LooseChild
<1> DEFINE J == [z \in nodes' |-> IF z = k THEN 0 ELSE H[z]]
<1>10. J \in [nodes' -> Nat] /\ J[k] = 0 /\ \A z \in nodes : J[z] = H[z]
  BY <1>2, <1>4, <1>8, EvenFacts
<1> HIDE DEF J
<1>11. ASSUME NEW z \in nodes', NEW s \in Sides PROVE Level(tree', J, Nil, CurSide', z, s)
  <2>1. CASE z = k
    BY <1>4, <1>6, <1>7, <1>10, <2>1 DEF Level, Hn, Lack, Blk
  <2>2. CASE z # k
    <3>1. z \in nodes
      BY <1>2, <2>2
    <3>2. Hn(J, tree'.child[s][z]) = Hn(H, tree.child[s][z])
      BY <1>4, <1>7, <1>10, <3>1 DEF Hn
    <3>3. Level(tree, H, Nil, CurSide, z, s)
      BY <1>8, <3>1 DEF Even
    <3>4. Blk(tree', z) = Blk(tree, z) /\ Lack(Nil, CurSide, z, s) = 0 /\ Lack(Nil, CurSide', z, s) = 0
      BY <1>4, <1>6, <3>1 DEF Blk, Lack
    <3> QED BY <1>10, <3>1, <3>2, <3>3, <3>4 DEF Level
  <2> QED BY <2>1, <2>2
<1>12. Even(tree', nodes', J, LackAt', CurSide')
  BY <1>2, <1>10, <1>11 DEF Even, LackAt
<1>13. Reds(tree', nodes', LooseParent', LooseChild')
  <2> SUFFICES ASSUME NEW z \in nodes', NEW s \in Sides,
                      tree'.color[z] = "red", rb_color(tree', tree'.child[s][z]) = "red"
               PROVE  tree'.child[s][z] = k
    BY <1>2 DEF Reds, LooseParent, LooseChild
  <2>1. z \in nodes
    BY <1>2, <1>7 DEF rb_color
  <2>2. CASE tree'.child[s][z] = tree.child[s][z]
    <3>1. rb_color(tree', tree.child[s][z]) = rb_color(tree, tree.child[s][z])
      BY <1>4, <1>6, <2>1 DEF rb_color
    <3>2. tree.child[s][z] = Nil
      BY <1>4, <1>6, <1>9, <2>1, <2>2, <3>1 DEF Reds
    <3> QED BY <2>2, <3>2 DEF rb_color
  <2> QED BY <1>7, <2>1, <2>2
<1> QED BY <1>2, <1>6, <1>12, <1>13 DEF ColorInv

LEMMA InsertRoundColor ==
    ASSUME TreeInv, ColorInv, NEW s \in Sides, InsertRound(s)
    PROVE  ColorInv'
<1> DEFINE P == Parent
           G == Grand
           U == Uncle(s)
           N == nodes
           o == Other(s)
<1>1. /\ pc = "insert" /\ RedParent /\ SideOf(tree, P) = s
      /\ nodes' = N /\ pc' = pc /\ par' = par /\ spoilt' = spoilt
      /\ UncleRed(s) \/ InnerTurn(s) \/ \E t : OuterTurn(s, t)
  BY InsertRoundIs
<1> SUFFICES ASSUME ~spoilt PROVE ColorInv'
  BY <1>1 DEF ColorInv
<1>2. /\ cur \in N /\ P \in N /\ G \in N /\ P # tree.root
      /\ tree.color[P] = "red"
      /\ P = tree.child[s][G] /\ cur # P /\ P # G
  BY <1>1, Family
<1>3. /\ Sorted(tree, N) /\ tree \in Tree /\ N \subseteq Keys /\ Nil \notin N
      /\ o \in Sides /\ o # s /\ Other(o) = s /\ \A r \in Sides : r = s \/ r = o
      /\ \A z \in N, r \in Sides : tree.child[r][z] \in N \cup {Nil} /\ tree.child[r][z] # z
      /\ U \in N \cup {Nil} /\ U = tree.child[o][G] /\ U # P /\ U # G
  <2>1. /\ Sorted(tree, N) /\ tree \in Tree /\ N \subseteq Keys /\ Nil \notin N
        /\ o \in Sides /\ o # s /\ Other(o) = s /\ \A r \in Sides : r = s \/ r = o
        /\ \A z \in N, r \in Sides : tree.child[r][z] \in N \cup {Nil} /\ tree.child[r][z] # z
    BY SortedFacts, SideFacts DEF TreeInv
  <2> QED BY <1>2, <2>1, SortedFacts DEF Uncle
<1>4. /\ \A z \in N, r \in Sides : tree.child[r][z] = P => z = G /\ r = s
      /\ \A z \in N, r \in Sides : tree.child[r][z] = U /\ U # Nil => z = G /\ r = o
  BY <1>2, <1>3, SortedFacts
<1>5. PICK H : Even(tree, N, H, Nil, CurSide)
  BY <1>1 DEF ColorInv, LackAt
<1>6. Reds(tree, N, Nil, cur) /\ tree.color[cur] = "red"
  BY <1>1 DEF ColorInv, LooseParent, LooseChild
<1>7. tree.color[G] = "black"
  <2>1. P # cur /\ rb_color(tree, tree.child[s][G]) = "red" /\ G # Nil
    BY <1>2, <1>3 DEF rb_color
  <2>2. tree.color[G] # "red"
    BY <1>2, <1>6, <2>1 DEF Reds
  <2> QED BY <1>2, <1>3, <2>2, TreeParts DEF Colors
<1>8. /\ \A z \in N : H[z] \in Nat /\ Hn(H, z) = H[z] /\ Blk(tree, z) \in {0, 1}
      /\ \A z \in N, r \in Sides :
            Hn(H, tree.child[r][z]) \in Nat /\ H[z] = Hn(H, tree.child[r][z]) + Blk(tree, z)
      /\ \A q : \A z \in N, r \in Sides : Lack(Nil, q, z, r) = 0
  <2>1. \A q : \A z \in N, r \in Sides : Lack(Nil, q, z, r) = 0
    BY <1>3 DEF Lack
  <2> QED BY <1>3, <1>5, <2>1, EvenFacts
<1>9. Blk(tree, P) = 0 /\ Blk(tree, G) = 1 /\ Blk(tree, cur) = 0
  BY <1>2, <1>6, <1>7 DEF Blk
<1>10. LackAt' = Nil /\ LooseParent' = Nil /\ LooseChild' = cur'
  BY <1>1 DEF LackAt, LooseParent, LooseChild
<1> SUFFICES /\ \E J : Even(tree', N, J, Nil, CurSide')
             /\ Reds(tree', N, Nil, cur')
             /\ tree'.color[cur'] = "red"
  BY <1>1, <1>10 DEF ColorInv
<1> HIDE DEF P, G, U, N, o
<1>11. CASE UncleRed(s)
  <2>1. /\ U \in N /\ tree.color[U] = "red" /\ cur' = G /\ tree'.child = tree.child
        /\ \A z \in N : tree'.color[z] = IF z = G THEN "red" ELSE IF z \in {P, U} THEN "black" ELSE tree.color[z]
    BY <1>3, <1>11 DEF UncleRed, SameLinks, Recolored, U, P, G, N
  <2> DEFINE J == [z \in N |-> IF z \in {P, U} THEN H[z] + 1 ELSE H[z]]
  <2>2. J \in [N -> Nat] /\ \A z \in N : J[z] = IF z \in {P, U} THEN H[z] + 1 ELSE H[z]
    BY <1>8
  <2> HIDE DEF J
  <2>3. ASSUME NEW z \in N, NEW r \in Sides PROVE Level(tree', J, Nil, CurSide', z, r)
    <3>1. H[z] = Hn(H, tree.child[r][z]) + Blk(tree, z) /\ Lack(Nil, CurSide', z, r) = 0
          /\ Hn(H, tree.child[r][z]) \in Nat
      BY <1>8
    <3>2. CASE z = G
      <4>1. tree.child[r][z] \in {P, U} /\ tree.child[r][z] \in N
        BY <1>2, <1>3, <2>1, <3>2
      <4>2. Hn(J, tree.child[r][z]) = Hn(H, tree.child[r][z]) + 1
        BY <1>3, <2>2, <4>1 DEF Hn
      <4>3. J[z] = H[z] /\ Blk(tree', z) = 0
        BY <1>2, <1>3, <2>1, <2>2, <3>2 DEF Blk
      <4> QED BY <1>9, <2>1, <3>1, <3>2, <4>2, <4>3 DEF Level
    <3>3. CASE z # G
      <4>1. Hn(J, tree.child[r][z]) = Hn(H, tree.child[r][z])
        BY <1>3, <1>4, <2>1, <2>2, <3>3 DEF Hn
      <4>2. J[z] - Blk(tree', z) = H[z] - Blk(tree, z)
        BY <1>2, <1>8, <2>1, <2>2, <3>3 DEF Blk
      <4> QED BY <1>8, <2>1, <2>2, <3>1, <4>1, <4>2 DEF Level, Blk
    <3> QED BY <3>2, <3>3
  <2>4. Reds(tree', N, Nil, G)
    <3> SUFFICES ASSUME NEW z \in N, NEW r \in Sides, tree'.color[z] = "red",
                        rb_color(tree', tree.child[r][z]) = "red", tree.child[r][z] # G
                 PROVE  FALSE
      BY <2>1 DEF Reds
    <3>1. tree.child[r][z] \in N /\ tree'.color[tree.child[r][z]] = "red"
      BY <1>3 DEF rb_color
    <3>2. tree.child[r][z] \notin {P, U} /\ tree.color[tree.child[r][z]] = "red" /\ z \notin {P, U}
      BY <1>2, <1>3, <2>1, <3>1
    <3>3. z # G
      BY <1>2, <1>3, <3>2
    <3>4. tree.child[r][z] = cur
      BY <1>3, <1>6, <2>1, <3>1, <3>2, <3>3 DEF Reds, rb_color
    <3>5. z = P
      BY <1>2, <1>3, <3>4, SortedFacts DEF P, Parent
    <3> QED BY <3>2, <3>5
  <2> QED BY <1>2, <2>1, <2>2, <2>3, <2>4 DEF Even
<1>12. CASE InnerTurn(s)
  <2>1. /\ rb_color(tree, U) = "black" /\ cur = tree.child[o][P] /\ cur' = P
        /\ Turn(tree', tree, N, s, P, cur)
    BY <1>12 DEF InnerTurn, U, P, o, N
  <2>2. /\ tree'.color = tree.color
        /\ tree'.child[s][cur] = P /\ tree'.child[o][cur] = tree.child[o][cur]
        /\ tree'.child[s][P] = tree.child[s][P] /\ tree'.child[o][P] = tree.child[s][cur]
        /\ \A r \in Sides, z \in N \ {P, cur} :
              tree'.child[r][z] = IF tree.child[r][z] = P THEN cur ELSE tree.child[r][z]
    BY <2>1 DEF Turn, o
  <2>3. ASSUME NEW z \in N, NEW r \in Sides PROVE Level(tree', H, Nil, CurSide', z, r)
    <3>1. Lack(Nil, CurSide', z, r) = 0 /\ Blk(tree', z) = Blk(tree, z)
      BY <1>8, <2>2 DEF Blk
    <3>2. H[P] = H[cur] /\ H[cur] = Hn(H, tree.child[s][cur]) /\ H[cur] = Hn(H, tree.child[o][cur])
          /\ H[P] = Hn(H, tree.child[s][P])
      BY <1>2, <1>3, <1>8, <1>9, <2>1
    <3>3. H[z] = Hn(H, tree'.child[r][z]) + Blk(tree, z) /\ Hn(H, tree'.child[r][z]) \in Nat
      <4>1. CASE z = cur
        BY <1>2, <1>3, <1>8, <1>9, <2>2, <3>2, <4>1
      <4>2. CASE z = P
        BY <1>2, <1>3, <1>8, <1>9, <2>2, <3>2, <4>2
      <4>3. CASE z \notin {P, cur}
        <5>1. Hn(H, tree'.child[r][z]) = Hn(H, tree.child[r][z])
          BY <1>2, <1>8, <2>2, <3>2, <4>3
        <5> QED BY <1>8, <5>1
      <4> QED BY <4>1, <4>2, <4>3
    <3> QED BY <1>8, <3>1, <3>3 DEF Level, Blk
  <2>4. Reds(tree', N, Nil, P)
    <3> SUFFICES ASSUME NEW z \in N, NEW r \in Sides, tree.color[z] = "red",
                        rb_color(tree, tree'.child[r][z]) = "red", tree'.child[r][z] # P
                 PROVE  FALSE
      BY <2>2 DEF Reds, rb_color
    <3>0. \A w \in N, q \in Sides : tree.child[q][w] = cur => w = P /\ q = o
      BY <1>2, <1>3, <2>1, SortedFacts
    <3>1. CASE z = cur
      <4>1. r = o /\ rb_color(tree, tree.child[o][cur]) = "red"
        BY <1>3, <2>2, <3>1
      <4> QED BY <1>2, <1>3, <1>6, <3>0, <4>1 DEF Reds
    <3>2. CASE z = P
      <4>1. CASE r = s
        BY <1>2, <1>3, <1>6, <2>2, <3>0, <3>2, <4>1 DEF Reds
      <4>2. CASE r = o
        BY <1>2, <1>3, <1>6, <2>2, <3>0, <3>2, <4>2 DEF Reds
      <4> QED BY <1>3, <4>1, <4>2
    <3>3. CASE z \notin {P, cur}
      <4>1. tree.child[r][z] # P
        BY <1>4, <1>7
      <4>2. tree.child[r][z] = cur
        BY <1>3, <1>6, <2>2, <3>3, <4>1 DEF Reds
      <4> QED BY <3>0, <3>3, <4>2
    <3> QED BY <3>1, <3>2, <3>3
  <2> QED BY <1>2, <1>5, <2>1, <2>2, <2>3, <2>4 DEF Even
<1>13. ASSUME NEW t, OuterTurn(s, t)
       PROVE  /\ \E J : Even(tree', N, J, Nil, CurSide')
              /\ Reds(tree', N, Nil, cur')
              /\ tree'.color[cur'] = "red"
  <2>1. /\ rb_color(tree, U) = "black" /\ cur = tree.child[s][P] /\ cur' = cur
        /\ t.child = tree.child /\ tree'.color = t.color
        /\ \A z \in N : t.color[z] = IF z = G THEN "red" ELSE IF z = P THEN "black" ELSE tree.color[z]
        /\ Turn(tree', t, N, o, G, P)
    BY <1>3, <1>13 DEF OuterTurn, SameLinks, Recolored, Turn, U, P, G, N, o
  <2>2. /\ tree'.child[o][P] = G /\ tree'.child[s][P] = cur
        /\ tree'.child[o][G] = U /\ tree'.child[s][G] = tree.child[o][P]
        /\ tree.child[o][P] \notin {G, P} /\ cur \notin {G, P} /\ U \notin {G, P}
        /\ \A r \in Sides, z \in N \ {G, P} :
              tree'.child[r][z] = (IF tree.child[r][z] = G THEN P ELSE tree.child[r][z]) /\ tree.child[r][z] # P
    BY <1>3, <2>1 DEF Turn
  <2> DEFINE J == [z \in N |-> IF z = G THEN H[P] ELSE IF z = P THEN H[G] ELSE H[z]]
  <2>3. J \in [N -> Nat] /\ \A z \in N : J[z] = IF z = G THEN H[P] ELSE IF z = P THEN H[G] ELSE H[z]
    BY <1>2, <1>8
  <2> HIDE DEF J
  <2>4. H[G] = H[P] + 1 /\ H[P] = H[cur] /\ H[P] = Hn(H, tree.child[o][P]) /\ Hn(H, U) = H[P]
    BY <1>2, <1>3, <1>8, <1>9, <2>1
  <2>5. \A z \in (N \cup {Nil}) \ {G, P} : Hn(J, z) = Hn(H, z)
    BY <1>3, <2>3 DEF Hn
  <2>6. ASSUME NEW z \in N, NEW r \in Sides PROVE Level(tree', J, Nil, CurSide', z, r)
    <3>1. Lack(Nil, CurSide', z, r) = 0
      BY <1>8
    <3>2. CASE z = G
      <4>1. J[z] = H[P] /\ Blk(tree', z) = 0
        BY <2>1, <2>3, <3>2 DEF Blk
      <4>2. tree'.child[r][z] \in (N \cup {Nil}) \ {G, P} /\ Hn(H, tree'.child[r][z]) = H[P]
        BY <1>2, <1>3, <2>2, <2>4, <3>2
      <4>3. Hn(J, tree'.child[r][z]) = H[P]
        BY <2>5, <4>2
      <4> QED BY <1>2, <1>8, <3>1, <4>1, <4>3 DEF Level
    <3>3. CASE z = P
      <4>1. J[z] = H[P] + 1 /\ Blk(tree', z) = 1
        BY <1>2, <2>1, <2>3, <2>4, <3>3 DEF Blk
      <4>2. Hn(J, tree'.child[r][z]) = H[P]
        <5>1. Hn(J, G) = H[P]
          BY <1>2, <1>3, <2>3 DEF Hn
        <5>2. Hn(J, cur) = H[P]
          BY <1>2, <1>8, <2>2, <2>4, <2>5
        <5> QED BY <1>3, <2>2, <3>3, <5>1, <5>2
      <4> QED BY <1>2, <1>8, <3>1, <4>1, <4>2 DEF Level
    <3>4. CASE z \notin {G, P}
      <4>1. J[z] = H[z] /\ Blk(tree', z) = Blk(tree, z)
        BY <2>1, <2>3, <3>4 DEF Blk
      <4>2. Hn(J, tree'.child[r][z]) = Hn(H, tree.child[r][z])
        <5>1. CASE tree.child[r][z] = G
          <6>1. tree'.child[r][z] = P /\ Hn(J, P) = H[G]
            BY <1>2, <1>3, <2>2, <2>3, <3>4, <5>1 DEF Hn
          <6> QED BY <1>2, <1>8, <5>1, <6>1
        <5>2. CASE tree.child[r][z] # G
          <6>1. tree'.child[r][z] = tree.child[r][z] /\ tree.child[r][z] \in (N \cup {Nil}) \ {G, P}
            BY <1>3, <2>2, <3>4, <5>2
          <6> QED BY <2>5, <6>1
        <5> QED BY <5>1, <5>2
      <4> QED BY <1>8, <3>1, <4>1, <4>2 DEF Level
    <3> QED BY <3>2, <3>3, <3>4
  <2>7. Reds(tree', N, Nil, cur)
    <3> SUFFICES ASSUME NEW z \in N, NEW r \in Sides, tree'.color[z] = "red",
                        rb_color(tree', tree'.child[r][z]) = "red", tree'.child[r][z] # cur
                 PROVE  FALSE
      BY DEF Reds
    <3>0. \A w \in N, q \in Sides : tree.child[q][w] = cur => w = P /\ q = s
      BY <1>2, <1>3, <2>1, SortedFacts
    <3>1. z # P
      BY <1>2, <2>1
    <3>2. CASE z = G
      <4>1. tree'.child[r][z] \in N /\ tree'.color[tree'.child[r][z]] = "red"
        BY <1>2, <1>3, <2>2, <3>2 DEF rb_color
      <4>2. tree.color[tree'.child[r][z]] = "red"
        BY <1>2, <1>3, <2>1, <2>2, <3>2, <4>1
      <4>3. tree'.child[r][z] = tree.child[o][P]
        BY <1>3, <2>1, <2>2, <3>2, <4>1, <4>2 DEF rb_color
      <4> QED BY <1>2, <1>3, <1>6, <3>0, <4>1, <4>2, <4>3 DEF Reds, rb_color
    <3>3. CASE z # G
      <4>1. tree'.child[r][z] = tree.child[r][z] /\ tree.child[r][z] \notin {G, P}
        BY <1>2, <1>3, <2>1, <2>2, <3>1, <3>3 DEF rb_color
      <4>2. rb_color(tree, tree.child[r][z]) = "red" /\ tree.color[z] = "red"
        BY <1>3, <2>1, <3>1, <3>3, <4>1 DEF rb_color
      <4> QED BY <1>3, <1>6, <4>1, <4>2 DEF Reds
    <3> QED BY <3>2, <3>3
  <2>8. tree'.color[cur'] = "red"
    BY <1>2, <1>6, <2>1, <2>2
  <2> QED BY <2>1, <2>3, <2>6, <2>7, <2>8 DEF Even
<1> QED BY <1>1, <1>11, <1>12, <1>13

\* The root may be painted black, and so may a red node that is one short.
LEMMA BlackenEven ==
    ASSUME NEW t, NEW N, Sorted(t, N), NEW H, NEW q, NEW r \in Sides, Even(t, N, H, q, r),
           NEW x \in N, NEW u, SameLinks(u, t), Painted(u, t, x, "black"),
           \/ x = t.root /\ q = Nil
           \/ q \in N /\ t.child[r][q] = x /\ t.color[x] = "red",
           NEW v
    PROVE  \E J : Even(u, N, J, Nil, v)
<1> DEFINE J == [z \in N |-> IF z = x THEN H[z] + 1 - Blk(t, z) ELSE H[z]]
<1>1. /\ Nil \notin N /\ N \subseteq Keys
      /\ \A z \in N, s \in Sides : t.child[s][z] \in N \cup {Nil} /\ t.child[s][z] # z
      /\ \A z \in N, s \in Sides : t.child[s][z] = x => x # t.root /\ t.parent[x] = z /\ SideOf(t, x) = s
  BY SortedFacts
<1>2. /\ \A z \in N : H[z] \in Nat /\ Hn(H, z) = H[z] /\ Blk(t, z) \in {0, 1}
      /\ \A z \in N, s \in Sides :
            Hn(H, t.child[s][z]) \in Nat /\ H[z] = Hn(H, t.child[s][z]) + Lack(q, r, z, s) + Blk(t, z)
  BY EvenFacts
<1>3. J \in [N -> Nat] /\ J[x] = H[x] + 1 - Blk(t, x) /\ \A z \in N \ {x} : J[z] = H[z]
  BY <1>2
<1>4. u.child = t.child /\ Blk(u, x) = 1 /\ \A z \in N \ {x} : Blk(u, z) = Blk(t, z)
  BY <1>1 DEF SameLinks, Painted, Blk
<1> HIDE DEF J
<1>5. ASSUME NEW z \in N, NEW s \in Sides PROVE Level(u, J, Nil, v, z, s)
  <2>1. Lack(Nil, v, z, s) = 0
    BY <1>1 DEF Lack
  <2>2. CASE z = x
    <3>1. Hn(J, t.child[s][z]) = Hn(H, t.child[s][z])
      BY <1>1, <1>3, <2>2 DEF Hn
    <3>2. Lack(q, r, z, s) = 0
      BY <1>1, <2>2 DEF Lack
    <3> QED BY <1>2, <1>3, <1>4, <2>1, <2>2, <3>1, <3>2 DEF Level
  <2>3. CASE z # x /\ t.child[s][z] = x
    <3>1. q = z /\ r = s /\ t.color[x] = "red"
      BY <1>1, <2>3
    <3>2. Lack(q, r, z, s) = 1 /\ Blk(t, x) = 0
      BY <3>1 DEF Lack, Blk
    <3>3. Hn(J, t.child[s][z]) = H[x] + 1
      BY <1>1, <1>2, <1>3, <2>3, <3>2 DEF Hn
    <3> QED BY <1>2, <1>3, <1>4, <2>1, <2>3, <3>2, <3>3 DEF Level
  <2>4. CASE z # x /\ t.child[s][z] # x
    <3>1. Hn(J, t.child[s][z]) = Hn(H, t.child[s][z])
      BY <1>1, <1>3, <2>4 DEF Hn
    <3>2. Lack(q, r, z, s) = 0
      BY <1>1, <2>4 DEF Lack
    <3> QED BY <1>2, <1>3, <1>4, <2>1, <2>4, <3>1, <3>2 DEF Level
  <2> QED BY <2>2, <2>3, <2>4
<1> QED BY <1>3, <1>5 DEF Even

LEMMA SidesOfCur == CurSide \in Sides
  BY DEF CurSide, Sides

LEMMA InsertDoneColor ==
    ASSUME TreeInv, ColorInv, InsertDone
    PROVE  ColorInv'
<1>1. /\ pc = "insert" /\ ~RedParent /\ nodes' = nodes /\ pc' = "idle" /\ spoilt' = spoilt
      /\ Painted(tree', tree, tree.root, "black") /\ tree.root \in nodes /\ SameLinks(tree', tree)
      /\ cur \in nodes
  BY InsertDoneTree DEF InsertDone, TreeInv
<1> SUFFICES ASSUME ~spoilt PROVE ColorInv'
  BY <1>1 DEF ColorInv
<1>2. Sorted(tree, nodes) /\ nodes \subseteq Keys /\ Nil \notin nodes
  BY SortedFacts DEF TreeInv
<1>3. PICK H : Even(tree, nodes, H, Nil, CurSide)
  BY <1>1 DEF ColorInv, LackAt
<1>4. Reds(tree, nodes, Nil, cur)
  BY <1>1 DEF ColorInv, LooseParent, LooseChild
<1>5. \E J : Even(tree', nodes, J, Nil, CurSide')
  BY <1>1, <1>2, <1>3, SidesOfCur, BlackenEven
<1>6. Reds(tree', nodes, Nil, Nil)
  <2> SUFFICES ASSUME NEW z \in nodes, NEW r \in Sides, tree'.color[z] = "red",
                      rb_color(tree', tree'.child[r][z]) = "red"
               PROVE  FALSE
    BY DEF Reds
  <2> DEFINE c == tree.child[r][z]
  <2>1. c = tree'.child[r][z] /\ c \in nodes /\ tree'.color[c] = "red"
    BY <1>1, <1>2, SortedFacts DEF SameLinks, rb_color
  <2>2. tree.color[z] = "red" /\ tree.color[c] = "red"
    BY <1>1, <1>2, <2>1 DEF Painted
  <2>3. c = cur
    BY <1>2, <1>4, <2>1, <2>2 DEF Reds, rb_color
  <2>4. tree.parent[cur] = z /\ cur # tree.root
    BY <1>2, <2>1, <2>3, SortedFacts
  <2> QED BY <1>1, <1>2, <2>2, <2>4 DEF RedParent, rb_color
<1> QED BY <1>1, <1>5, <1>6 DEF ColorInv, LackAt, LooseParent, LooseChild

LEMMA DeleteDoneColor ==
    ASSUME TreeInv, ColorInv, DeleteDone
    PROVE  ColorInv'
<1>1. /\ pc = "delete" /\ ~Fixing /\ nodes' = nodes /\ pc' = "idle" /\ spoilt' = spoilt
      /\ cur \in nodes \cup {Nil}
      /\ IF cur = Nil THEN tree' = tree
         ELSE SameLinks(tree', tree) /\ Painted(tree', tree, cur, "black")
  BY DeleteDoneTree DEF DeleteDone
<1> SUFFICES ASSUME ~spoilt PROVE ColorInv'
  BY <1>1 DEF ColorInv
<1>2. Sorted(tree, nodes) /\ nodes \subseteq Keys /\ Nil \notin nodes /\ (tree.root = Nil <=> nodes = {}) /\ tree \in Tree
  BY SortedFacts DEF TreeInv
<1>3. PICK H : Even(tree, nodes, H, LackAt, CurSide)
  BY DEF ColorInv
<1>4. Reds(tree, nodes, cur, cur)
  BY <1>1 DEF ColorInv, LooseParent, LooseChild
<1>5. CASE cur = Nil
  <2>1. nodes = {}
    BY <1>1, <1>2, <1>5 DEF Fixing, rb_color
  <2>2. Even(tree', nodes', [x \in nodes |-> 0], LackAt', CurSide')
    BY <1>1, <2>1 DEF Even
  <2>3. Reds(tree', nodes', LooseParent', LooseChild')
    BY <1>1, <2>1 DEF Reds
  <2> QED BY <1>1, <2>2, <2>3 DEF ColorInv
<1>6. CASE cur # Nil
  <2>1. SameLinks(tree', tree) /\ Painted(tree', tree, cur, "black") /\ cur \in nodes
    BY <1>1, <1>6
  <2>2. \/ cur = tree.root /\ LackAt = Nil
        \/ LackAt \in nodes /\ tree.child[CurSide][LackAt] = cur /\ tree.color[cur] = "red"
    <3>1. CASE cur = tree.root
      BY <3>1 DEF LackAt
    <3>2. CASE cur # tree.root
      <4>1. LackAt = par /\ par \in nodes /\ \E s \in Sides : cur = tree.child[s][par]
        BY <1>1, <3>2 DEF LackAt, TreeInv
      <4>2. tree.child[CurSide][par] = cur
        BY <4>1 DEF CurSide, Sides
      <4>3. tree.color[cur] = "red"
        BY <1>1, <1>2, <2>1, <3>2, TreeParts DEF Fixing, rb_color, Colors
      <4> QED BY <4>1, <4>2, <4>3
    <3> QED BY <3>1, <3>2
  <2>3. \E J : Even(tree', nodes, J, Nil, CurSide')
    BY <1>2, <1>3, <2>1, <2>2, SidesOfCur, BlackenEven
  <2>4. Reds(tree', nodes, Nil, Nil)
    <3> SUFFICES ASSUME NEW z \in nodes, NEW r \in Sides, tree'.color[z] = "red",
                        rb_color(tree', tree'.child[r][z]) = "red"
                 PROVE  FALSE
      BY DEF Reds
    <3> DEFINE c == tree.child[r][z]
    <3>1. c = tree'.child[r][z] /\ c \in nodes /\ tree'.color[c] = "red"
      BY <1>2, <2>1, SortedFacts DEF SameLinks, rb_color
    <3>2. z # cur /\ c # cur /\ tree.color[z] = "red" /\ tree.color[c] = "red"
      BY <1>2, <2>1, <3>1 DEF Painted
    <3> QED BY <1>2, <1>4, <3>1, <3>2 DEF Reds, rb_color
  <2> QED BY <1>1, <2>3, <2>4 DEF ColorInv, LackAt, LooseParent, LooseChild
<1> QED BY <1>5, <1>6

-----------------------------------------------------------------------------
(* pull_out and the colours *)

LEMMA SpliceEven ==
    ASSUME NEW t, NEW N, Sorted(t, N), NEW H, NEW v, Even(t, N, H, Nil, v), Reds(t, N, Nil, Nil),
           NEW c \in N, NEW s \in Sides, NEW n, n = t.child[s][c], NEW u, Spliced(u, t, c, n)
    PROVE  /\ \E J : Even(u, N \ {c}, J, IF t.color[c] = "black" THEN t.parent[c] ELSE Nil, SideOf(t, c))
           /\ Reds(u, N \ {c}, Nil, IF t.color[c] = "black" THEN n ELSE Nil)
<1> DEFINE p == t.parent[c]
           q == SideOf(t, c)
           M == N \ {c}
           l == IF t.color[c] = "black" THEN p ELSE Nil
           J == [z \in M |-> H[z]]
<1>1. /\ Nil \notin N /\ N \subseteq Keys /\ n \in N \cup {Nil} /\ n # c /\ p # c
      /\ \A z \in N, r \in Sides : t.child[r][z] \in N \cup {Nil}
      /\ p \in N \cup {Nil} /\ (p # Nil => t.child[q][p] = c /\ q \in Sides)
      /\ \A z \in N, r \in Sides : t.child[r][z] = c => z = p /\ r = q
  BY SortedFacts
<1>2. /\ \A z \in N : H[z] \in Nat /\ Hn(H, z) = H[z] /\ Blk(t, z) \in {0, 1}
      /\ \A z \in N, r \in Sides :
            Hn(H, t.child[r][z]) \in Nat /\ H[z] = Hn(H, t.child[r][z]) + Blk(t, z)
  <2>1. \A z \in N, r \in Sides : Lack(Nil, v, z, r) = 0
    BY <1>1 DEF Lack
  <2> QED BY <2>1, EvenFacts
<1>3. /\ \A z \in M, r \in Sides : u.child[r][z] = IF z = p /\ r = q THEN n ELSE t.child[r][z]
      /\ \A z \in M : u.color[z] = t.color[z] /\ Blk(u, z) = Blk(t, z)
  BY <1>1 DEF Spliced, Blk
<1>4. J \in [M -> Nat] /\ \A z \in M : J[z] = H[z]
  BY <1>2
<1> HIDE DEF J, p, q
<1>5. \A z \in M \cup {Nil} : Hn(J, z) = Hn(H, z)
  BY <1>1, <1>4 DEF Hn
<1>6. ASSUME NEW z \in M, NEW r \in Sides PROVE Level(u, J, l, q, z, r)
  <2>1. CASE z = p /\ r = q
    <3>1. t.child[r][z] = c /\ u.child[r][z] = n /\ p # Nil
      BY <1>1, <1>3, <2>1
    <3>2. Hn(H, c) = Hn(H, n) + Blk(t, c) /\ Hn(H, n) \in Nat
      BY <1>2
    <3>3. Hn(J, n) = Hn(H, n)
      BY <1>1, <1>5
    <3>4. Lack(l, q, z, r) = Blk(t, c)
      BY <2>1, <3>1 DEF Lack, Blk
    <3>5. H[z] = Hn(H, c) + Blk(t, z)
      BY <1>2, <3>1
    <3> QED BY <1>2, <1>3, <1>4, <3>1, <3>2, <3>3, <3>4, <3>5 DEF Level
  <2>2. CASE ~(z = p /\ r = q)
    <3>1. u.child[r][z] = t.child[r][z] /\ t.child[r][z] \in M \cup {Nil}
      BY <1>1, <1>3, <2>2
    <3>2. Lack(l, q, z, r) = 0
      BY <1>1, <2>2 DEF Lack
    <3> QED BY <1>2, <1>3, <1>4, <1>5, <3>1, <3>2 DEF Level
  <2> QED BY <2>1, <2>2
<1>7. Reds(u, M, Nil, IF t.color[c] = "black" THEN n ELSE Nil)
  <2> SUFFICES ASSUME NEW z \in M, NEW r \in Sides, u.color[z] = "red",
                      rb_color(u, u.child[r][z]) = "red"
               PROVE  u.child[r][z] = n /\ t.color[c] = "black"
    BY DEF Reds
  <2>1. CASE z = p /\ r = q
    <3>1. t.child[r][z] = c /\ u.child[r][z] = n /\ t.color[z] = "red"
      BY <1>1, <1>3, <2>1
    <3>2. t.color[c] # "red"
      BY <1>1, <3>1 DEF Reds, rb_color
    <3> QED BY <1>1, <3>1, <3>2, SortedFacts, TreeParts DEF Colors
  <2>2. CASE ~(z = p /\ r = q)
    <3>1. u.child[r][z] = t.child[r][z] /\ t.child[r][z] \in M \cup {Nil}
      BY <1>1, <1>3, <2>2
    <3>2. t.color[z] = "red" /\ rb_color(t, t.child[r][z]) = "red" /\ t.child[r][z] # Nil
      BY <1>3, <3>1 DEF rb_color
    <3> QED BY <1>1, <3>2 DEF Reds
  <2> QED BY <2>1, <2>2
<1> QED BY <1>4, <1>6, <1>7 DEF Even, p, q

LEMMA RenameEven ==
    ASSUME NEW t, NEW N, Sorted(t, N), NEW x \in N, NEW y \in Keys, y \notin N,
           NEW u, Renamed(u, t, x, y),
           NEW H, NEW q \in N \cup {Nil}, NEW v, Even(t, N, H, q, v),
           NEW b \in N \cup {Nil}, Reds(t, N, Nil, b)
    PROVE  /\ \E J : Even(u, (N \ {x}) \cup {y}, J, Ren(x, y, q), v)
           /\ Reds(u, (N \ {x}) \cup {y}, Nil, Ren(x, y, b))
<1> DEFINE M == (N \ {x}) \cup {y}
           New(z) == Ren(x, y, z)
           Old(z) == Ren(y, x, z)
           J == [z \in M |-> H[Old(z)]]
<1>1. /\ N \subseteq Keys /\ Nil \notin N /\ Nil \notin Keys
      /\ \A r \in Sides, z \in N : t.child[r][z] \in N \cup {Nil}
  BY SortedFacts
<1>2. /\ \A z \in M : Old(z) \in N /\ New(Old(z)) = z /\ z # x /\ z \in Keys
      /\ \A z \in N : New(z) \in M /\ Old(New(z)) = z
      /\ New(Nil) = Nil /\ Nil \notin M
      /\ \A z, w \in N \cup {Nil} : New(z) = New(w) <=> z = w
  BY <1>1 DEF Ren
<1>3. /\ \A r \in Sides, z \in M : u.child[r][z] = New(t.child[r][Old(z)])
      /\ \A z \in M : u.color[z] = t.color[Old(z)] /\ Blk(u, z) = Blk(t, Old(z))
  BY <1>2 DEF Renamed, Blk
<1>4. /\ \A z \in N : H[z] \in Nat
      /\ \A z \in N, r \in Sides : H[z] = Hn(H, t.child[r][z]) + Lack(q, v, z, r) + Blk(t, z)
  BY EvenFacts
<1>5. J \in [M -> Nat] /\ \A z \in N : J[New(z)] = H[z]
  BY <1>2, <1>4
<1>6. \A z \in M : J[z] = H[Old(z)]
  OBVIOUS
<1> HIDE DEF J, New, Old, M
<1>7. \A z \in N \cup {Nil} : Hn(J, New(z)) = Hn(H, z)
  <2> SUFFICES ASSUME NEW z \in N \cup {Nil} PROVE Hn(J, New(z)) = Hn(H, z)
    OBVIOUS
  <2>1. CASE z = Nil
    BY <1>2, <2>1 DEF Hn
  <2>2. CASE z # Nil
    <3>1. z \in N /\ New(z) \in M /\ New(z) # Nil
      BY <1>2, <2>2
    <3> QED BY <1>5, <2>2, <3>1 DEF Hn
  <2> QED BY <2>1, <2>2
<1>8. ASSUME NEW z \in M, NEW r \in Sides PROVE Level(u, J, New(q), v, z, r)
  <2>1. Old(z) \in N /\ New(Old(z)) = z
    BY <1>2
  <2>2. Lack(New(q), v, z, r) = Lack(q, v, Old(z), r)
    <3>1. z = New(q) <=> Old(z) = q
      BY <1>2, <2>1
    <3> QED BY <3>1 DEF Lack
  <2>3. Hn(J, u.child[r][z]) = Hn(H, t.child[r][Old(z)])
    BY <1>1, <1>3, <1>7, <2>1
  <2> QED BY <1>3, <1>4, <1>6, <2>1, <2>2, <2>3 DEF Level
<1>9. Reds(u, M, Nil, New(b))
  <2> SUFFICES ASSUME NEW z \in M, NEW r \in Sides, u.color[z] = "red",
                      rb_color(u, u.child[r][z]) = "red"
               PROVE  u.child[r][z] = New(b)
    BY DEF Reds
  <2> DEFINE d == t.child[r][Old(z)]
  <2>1. Old(z) \in N /\ t.color[Old(z)] = "red" /\ u.child[r][z] = New(d) /\ d \in N \cup {Nil}
    BY <1>1, <1>2, <1>3
  <2>2. d # Nil
    BY <1>2, <2>1 DEF rb_color
  <2>3. New(d) \in M /\ Old(New(d)) = d /\ New(d) # Nil /\ d \in N
    BY <1>2, <2>1, <2>2
  <2>4. t.color[d] = "red"
    BY <1>3, <2>1, <2>3 DEF rb_color
  <2>5. d = b
    BY <1>1, <2>1, <2>2, <2>4 DEF Reds, rb_color
  <2> QED BY <2>1, <2>5
<1> QED BY <1>5, <1>8, <1>9 DEF Even, New, M

LEMMA EvenNil ==
    ASSUME NEW t, NEW N, Nil \notin N, NEW H, NEW r, NEW v, Even(t, N, H, Nil, r)
    PROVE  Even(t, N, H, Nil, v)
<1>1. \A x \in N, s \in Sides : Lack(Nil, r, x, s) = Lack(Nil, v, x, s)
  BY DEF Lack
<1> QED BY <1>1 DEF Even, Level

LEMMA DeleteColor ==
    ASSUME TreeInv, ColorInv, NEW k \in Keys, Delete(k)
    PROVE  ColorInv'
<1>1. pc = "idle" /\ k \in nodes /\ nodes' = nodes \ {k} /\ Sorted(tree', nodes') /\ spoilt' = spoilt
  BY DeleteIs
<1> SUFFICES ASSUME ~spoilt PROVE ColorInv'
  BY <1>1 DEF ColorInv
<1>2. PICK c, n, s, out : PulledOut(k, c, n, s, out)
  BY DeleteIs
<1> DEFINE p == tree.parent[c]
           q == SideOf(tree, c)
           w == Ren(k, c, p)
           l == IF tree.color[c] = "black" THEN p ELSE Nil
           b == IF tree.color[c] = "black" THEN n ELSE Nil
<1>3. /\ c \in nodes /\ s \in Sides /\ n = tree.child[s][c] /\ tree.child[Other(s)][c] = Nil
      /\ Spliced(out, tree, c, n)
      /\ \/ c = k /\ tree' = out
         \/ /\ c # k /\ c # tree.root /\ n # k /\ Renamed(tree', out, k, c)
      /\ IF tree.color[c] = "black"
         THEN pc' = "delete" /\ cur' = n /\ par' = w
         ELSE pc' = pc /\ cur' = cur /\ par' = par
  BY <1>2 DEF PulledOut
<1>4. /\ Sorted(tree, nodes) /\ nodes \subseteq Keys /\ Nil \notin nodes /\ Nil \notin Keys
      /\ n \in nodes \cup {Nil} /\ n # c /\ p \in nodes \cup {Nil} /\ p # c
  <2>1. Sorted(tree, nodes)
    BY DEF TreeInv
  <2> QED BY <1>3, <2>1, SortedFacts
<1>5. PICK H : Even(tree, nodes, H, Nil, CurSide)
  BY <1>1 DEF ColorInv, LackAt
<1>6. Reds(tree, nodes, Nil, Nil)
  BY <1>1 DEF ColorInv, LooseParent, LooseChild
<1>7. PICK J : Even(out, nodes \ {c}, J, l, q)
  BY <1>3, <1>4, <1>5, <1>6, SpliceEven
<1>8. Reds(out, nodes \ {c}, Nil, b)
  BY <1>3, <1>4, <1>5, <1>6, SpliceEven
<1> HIDE DEF p, q
<1>9. (\E K : Even(tree', nodes', K, Ren(k, c, l), q)) /\ Reds(tree', nodes', Nil, b)
  <2>1. CASE c = k /\ tree' = out
    <3>1. Ren(k, c, l) = l /\ nodes' = nodes \ {c}
      BY <1>1, <1>4, <2>1 DEF Ren
    <3> QED BY <1>7, <1>8, <2>1, <3>1
  <2>2. CASE c # k /\ n # k /\ Renamed(tree', out, k, c)
    <3>1. k \in nodes \ {c} /\ c \in Keys /\ c \notin nodes \ {c} /\ l \in (nodes \ {c}) \cup {Nil}
          /\ b \in (nodes \ {c}) \cup {Nil} /\ nodes' = ((nodes \ {c}) \ {k}) \cup {c}
      BY <1>1, <1>3, <1>4, <2>2
    <3>2. Sorted(out, nodes \ {c})
      <4>1. PICK D : Shape(tree, nodes, D)
        BY <1>4 DEF Sorted
      <4>2. Shape(out, nodes \ {c}, Without(D, nodes, c))
        BY <1>3, <4>1, SpliceShape
      <4> QED BY <4>2 DEF Sorted
    <3>3. Ren(k, c, b) = b
      BY <1>1, <1>4, <2>2 DEF Ren
    <3> HIDE DEF l, b
    <3>4. /\ \E K : Even(tree', ((nodes \ {c}) \ {k}) \cup {c}, K, Ren(k, c, l), q)
          /\ Reds(tree', ((nodes \ {c}) \ {k}) \cup {c}, Nil, Ren(k, c, b))
      BY <1>7, <1>8, <2>2, <3>1, <3>2, RenameEven
    <3> QED BY <3>1, <3>3, <3>4
  <2> QED BY <1>3, <2>1, <2>2
<1>10. PICK K : Even(tree', nodes', K, Ren(k, c, l), q)
  BY <1>9
<1>11. /\ p = Nil => tree'.root = n
       /\ p # Nil => q \in Sides /\ w \in nodes' /\ tree'.child[q][w] = n
  BY <1>1, <1>2, PulledPlace DEF p, q
<1>12. Nil \notin nodes'
  BY <1>1, <1>4
<1>13. CASE tree.color[c] # "black"
  <2>1. pc' = "idle" /\ l = Nil /\ b = Nil /\ Ren(k, c, l) = Nil
    BY <1>1, <1>3, <1>4, <1>13 DEF Ren
  <2>2. Even(tree', nodes', K, Nil, CurSide')
    BY <1>10, <1>12, <2>1, EvenNil
  <2> QED BY <1>9, <2>1, <2>2 DEF ColorInv, LackAt, LooseParent, LooseChild
<1>14. CASE tree.color[c] = "black"
  <2>1. pc' = "delete" /\ cur' = n /\ par' = w /\ l = p /\ b = n
    BY <1>3, <1>14
  <2>2. Reds(tree', nodes', LooseParent', LooseChild')
    BY <1>9, <1>12, <2>1 DEF Reds, LooseParent, LooseChild
  <2>3. CASE p = Nil
    <3>1. LackAt' = Nil /\ Ren(k, c, l) = Nil
      BY <1>1, <1>4, <1>11, <2>1, <2>3 DEF LackAt, Ren
    <3>2. Even(tree', nodes', K, LackAt', CurSide')
      BY <1>10, <1>12, <3>1, EvenNil
    <3> QED BY <2>1, <2>2, <3>2 DEF ColorInv
  <2>4. CASE p # Nil
    <3>1. q \in Sides /\ w \in nodes' /\ tree'.child[q][w] = n
      BY <1>11, <2>4
    <3>2. n # tree'.root
      BY <1>1, <3>1, SortedFacts
    <3>3. LackAt' = w
      BY <2>1, <3>2 DEF LackAt
    <3>4. CurSide' = q
      <4>1. CASE q = "left"
        BY <2>1, <3>1, <4>1 DEF CurSide
      <4>2. CASE q = "right"
        <5>1. tree'.child["left"][w] # n
          <6>1. CASE n # Nil
            BY <1>1, <3>1, <4>2, <6>1, SortedFacts, SideFacts
          <6>2. CASE n = Nil
            <7>1. /\ K[w] = Hn(K, tree'.child["left"][w]) + Lack(w, q, w, "left") + Blk(tree', w)
                  /\ K[w] = Hn(K, n) + Lack(w, q, w, q) + Blk(tree', w)
                  /\ Hn(K, tree'.child["left"][w]) \in Nat /\ Hn(K, n) \in Nat /\ Blk(tree', w) \in {0, 1}
              BY <1>1, <1>10, <2>1, <3>1, EvenFacts, SideFacts
            <7>2. Lack(w, q, w, "left") = 0 /\ Lack(w, q, w, q) = 1
              BY <4>2 DEF Lack
            <7> QED BY <7>1, <7>2
          <6> QED BY <6>1, <6>2
        <5> QED BY <2>1, <4>2, <5>1 DEF CurSide
      <4> QED BY <3>1, <4>1, <4>2 DEF Sides
    <3> QED BY <1>10, <2>1, <2>2, <3>3, <3>4 DEF ColorInv
  <2> QED BY <2>3, <2>4
<1> QED BY <1>13, <1>14

-----------------------------------------------------------------------------
(* The rounds of rb_delete_fixup and the colours *)

LEMMA BlackSiblingColor ==
    ASSUME TreeInv, ColorInv, ~spoilt, pc = "delete", Fixing, NEW s, s = CurSide,
           NEW t, t = BlackSibling(s)
    PROVE  /\ \E H : Even(t, nodes, H, par, s)
           /\ Reds(t, nodes, Nil, Nil)
           /\ rb_color(t, cur) = "black"
           /\ t.child[Other(s)][par] \in nodes /\ t.color[t.child[Other(s)][par]] = "black"
<1> DEFINE o == Other(s)
           N == nodes
<1>1. /\ s \in Sides /\ par \in N /\ cur = tree.child[s][par] /\ cur # tree.root
      /\ Sorted(tree, N) /\ Sorted(t, N) /\ t.child[s][par] = cur
      /\ \/ t = tree /\ rb_color(t, t.child[o][par]) = "black"
         \/ \E t0, y : SiblingTurn(t, t0, s, y)
  BY Siblings, BlackSiblingIs DEF TreeInv
<1>2. /\ N \subseteq Keys /\ Nil \notin N /\ o \in Sides /\ o # s /\ Other(o) = s
      /\ tree \in Tree /\ t \in Tree
      /\ \A r \in Sides : r = s \/ r = o
      /\ \A z \in N, r \in Sides : tree.child[r][z] \in N \cup {Nil} /\ t.child[r][z] \in N \cup {Nil}
  BY <1>1, SortedFacts, SideFacts
<1>3. rb_color(tree, cur) = "black"
  BY DEF Fixing
<1>4. Reds(tree, N, Nil, Nil)
  <2>1. Reds(tree, N, cur, cur)
    BY DEF ColorInv, LooseParent, LooseChild
  <2> QED BY <1>2, <1>3, <2>1 DEF Reds, rb_color
<1>5. PICK H : Even(tree, N, H, par, s)
  BY <1>1 DEF ColorInv, LackAt
<1>6. ASSUME NEW J, Even(t, N, J, par, s), rb_color(t, t.child[o][par]) = "black"
      PROVE  t.child[o][par] \in N /\ t.color[t.child[o][par]] = "black"
  <2>1. /\ J[par] = Hn(J, t.child[s][par]) + Lack(par, s, par, s) + Blk(t, par)
        /\ J[par] = Hn(J, t.child[o][par]) + Lack(par, s, par, o) + Blk(t, par)
        /\ Hn(J, t.child[s][par]) \in Nat /\ Hn(J, t.child[o][par]) \in Nat /\ Blk(t, par) \in {0, 1}
    BY <1>1, <1>2, <1>6, EvenFacts
  <2>2. Lack(par, s, par, s) = 1 /\ Lack(par, s, par, o) = 0
    BY <1>2 DEF Lack
  <2>3. t.child[o][par] # Nil
    BY <2>1, <2>2 DEF Hn
  <2> QED BY <1>1, <1>2, <1>6, <2>3 DEF rb_color
<1>7. CASE t = tree /\ rb_color(t, t.child[o][par]) = "black"
  BY <1>3, <1>4, <1>5, <1>6, <1>7
<1>8. ASSUME NEW t0, NEW y, SiblingTurn(t, t0, s, y)
      PROVE  /\ \E J : Even(t, N, J, par, s)
             /\ Reds(t, N, Nil, Nil)
             /\ rb_color(t, cur) = "black"
             /\ t.child[o][par] \in N /\ t.color[t.child[o][par]] = "black"
  <2>1. /\ y = tree.child[o][par] /\ y \in N /\ tree.color[y] = "red" /\ t0.child = tree.child
        /\ \A z \in N : t.color[z] = IF z = par THEN "red" ELSE IF z = y THEN "black" ELSE tree.color[z]
        /\ Turn(t, t0, N, s, par, y)
    BY <1>2, <1>8 DEF SiblingTurn, SameLinks, Recolored, Turn
  <2>2. /\ t.child[s][y] = par /\ t.child[o][y] = tree.child[o][y]
        /\ t.child[o][par] = tree.child[s][y] /\ par # y
        /\ tree.child[s][y] \notin {par, y} /\ tree.child[o][y] \notin {par, y} /\ cur \notin {par, y}
        /\ \A r \in Sides, z \in N \ {par, y} :
              t.child[r][z] = (IF tree.child[r][z] = par THEN y ELSE tree.child[r][z]) /\ tree.child[r][z] # y
    BY <1>1, <1>2, <2>1 DEF Turn
  <2>3. tree.color[par] = "black"
    <3>1. rb_color(tree, tree.child[o][par]) = "red"
      BY <1>2, <2>1 DEF rb_color
    <3>2. tree.color[par] # "red"
      BY <1>1, <1>2, <1>4, <2>1, <3>1 DEF Reds
    <3> QED BY <1>1, <1>2, <3>2, TreeParts DEF Colors
  <2>4. rb_color(tree, tree.child[s][y]) = "black" /\ rb_color(tree, tree.child[o][y]) = "black"
    <3>1. \A r \in Sides : rb_color(tree, tree.child[r][y]) # "red"
      BY <1>2, <1>4, <2>1 DEF Reds, rb_color
    <3>2. \A r \in Sides : rb_color(tree, tree.child[r][y]) \in Colors
      BY <1>2, <2>1, TreeParts DEF rb_color, Colors
    <3> QED BY <1>1, <1>2, <3>1, <3>2 DEF Colors
  <2>5. /\ \A z \in N : H[z] \in Nat /\ Hn(H, z) = H[z] /\ Blk(tree, z) \in {0, 1}
        /\ \A z \in N, r \in Sides :
              /\ Hn(H, tree.child[r][z]) \in Nat
              /\ H[z] = Hn(H, tree.child[r][z]) + Lack(par, s, z, r) + Blk(tree, z)
        /\ \A z \in N \ {par}, r \in Sides : Lack(par, s, z, r) = 0
        /\ Lack(par, s, par, s) = 1 /\ Lack(par, s, par, o) = 0
    <3>1. /\ \A z \in N \ {par}, r \in Sides : Lack(par, s, z, r) = 0
          /\ Lack(par, s, par, s) = 1 /\ Lack(par, s, par, o) = 0
      BY <1>2 DEF Lack
    <3> QED BY <1>1, <1>5, <3>1, EvenFacts
  <2>6. Blk(tree, par) = 1 /\ Blk(tree, y) = 0 /\ Blk(t, par) = 0 /\ Blk(t, y) = 1
    BY <1>1, <2>1, <2>2, <2>3 DEF Blk
  <2>7. /\ H[par] = H[y] + 1 /\ H[y] = Hn(H, cur) + 1
        /\ H[y] = Hn(H, tree.child[s][y]) /\ H[y] = Hn(H, tree.child[o][y])
    <3>1. H[par] = Hn(H, cur) + 1 + 1
      BY <1>1, <2>5, <2>6
    <3>2. H[par] = Hn(H, y) + 0 + 1
      BY <1>1, <1>2, <2>1, <2>5, <2>6
    <3>3. \A r \in Sides : H[y] = Hn(H, tree.child[r][y]) + 0 + 0
      BY <2>1, <2>2, <2>5, <2>6
    <3> QED BY <1>1, <1>2, <2>1, <2>5, <3>1, <3>2, <3>3
  <2> DEFINE J == [z \in N |-> IF z = par THEN H[y] ELSE IF z = y THEN H[par] ELSE H[z]]
  <2>8. J \in [N -> Nat] /\ \A z \in N : J[z] = IF z = par THEN H[y] ELSE IF z = y THEN H[par] ELSE H[z]
    BY <1>1, <2>1, <2>5
  <2> HIDE DEF J
  <2>9. \A z \in (N \cup {Nil}) \ {par, y} : Hn(J, z) = Hn(H, z)
    BY <1>2, <2>8 DEF Hn
  <2>10. ASSUME NEW z \in N, NEW r \in Sides PROVE Level(t, J, par, s, z, r)
    <3>1. CASE z = par /\ r = s
      <4>1. Hn(J, t.child[r][z]) = Hn(H, cur)
        BY <1>1, <1>2, <2>2, <2>9, <3>1
      <4> QED BY <1>1, <2>5, <2>6, <2>7, <2>8, <3>1, <4>1 DEF Level
    <3>2. CASE z = par /\ r = o
      <4>1. Hn(J, t.child[r][z]) = H[y]
        <5>1. t.child[r][z] = tree.child[s][y] /\ tree.child[s][y] \in (N \cup {Nil}) \ {par, y}
          BY <1>1, <1>2, <2>1, <2>2, <3>2
        <5> QED BY <2>7, <2>9, <5>1
      <4> QED BY <1>1, <2>1, <2>5, <2>6, <2>7, <2>8, <3>2, <4>1 DEF Level
    <3>3. CASE z = y /\ r = s
      <4>1. Hn(J, t.child[r][z]) = H[y]
        <5>1. t.child[r][z] = par /\ par \in N /\ par # Nil
          BY <1>1, <1>2, <2>2, <3>3
        <5>2. J[par] = H[y]
          BY <1>1, <2>8
        <5> QED BY <5>1, <5>2 DEF Hn
      <4> QED BY <1>1, <2>1, <2>2, <2>5, <2>6, <2>7, <2>8, <3>3, <4>1 DEF Level
    <3>4. CASE z = y /\ r = o
      <4>1. Hn(J, t.child[r][z]) = H[y]
        BY <1>1, <1>2, <2>1, <2>2, <2>7, <2>9, <3>4
      <4> QED BY <1>1, <2>1, <2>2, <2>5, <2>6, <2>7, <2>8, <3>4, <4>1 DEF Level
    <3>5. CASE z \notin {par, y}
      <4>1. J[z] = H[z] /\ Blk(t, z) = Blk(tree, z)
        BY <2>1, <2>8, <3>5 DEF Blk
      <4>2. Hn(J, t.child[r][z]) = Hn(H, tree.child[r][z])
        <5>1. CASE tree.child[r][z] = par
          <6>1. t.child[r][z] = y /\ Hn(J, y) = H[par]
            BY <1>2, <2>1, <2>2, <2>8, <3>5, <5>1 DEF Hn
          <6> QED BY <1>1, <2>5, <5>1, <6>1
        <5>2. CASE tree.child[r][z] # par
          BY <1>2, <2>2, <2>9, <3>5, <5>2
        <5> QED BY <5>1, <5>2
      <4> QED BY <2>5, <3>5, <4>1, <4>2 DEF Level
    <3> QED BY <1>2, <3>1, <3>2, <3>3, <3>4, <3>5
  <2>11. rb_color(t, cur) = "black"
    BY <1>1, <1>2, <1>3, <2>1, <2>2 DEF rb_color
  <2>12. rb_color(t, t.child[o][par]) = "black"
    <3> DEFINE i == tree.child[s][y]
    <3>1. i \in N \cup {Nil} /\ i \notin {par, y} /\ t.child[o][par] = i
      BY <1>1, <1>2, <2>1, <2>2
    <3>2. i # Nil => t.color[i] = tree.color[i]
      BY <2>1, <3>1
    <3> QED BY <2>4, <3>1, <3>2 DEF rb_color
  <2>13. Reds(t, N, Nil, Nil)
    <3> SUFFICES ASSUME NEW z \in N, NEW r \in Sides, t.color[z] = "red", rb_color(t, t.child[r][z]) = "red"
                 PROVE  FALSE
      BY DEF Reds
    <3>1. z # par
      BY <1>1, <1>2, <2>11, <2>12
    <3>2. z # y /\ tree.color[z] = "red"
      BY <2>1, <2>2, <3>1
    <3>3. t.child[r][z] = tree.child[r][z] /\ tree.child[r][z] \notin {par, y}
      BY <1>2, <2>1, <2>2, <3>1, <3>2 DEF rb_color
    <3>4. rb_color(tree, tree.child[r][z]) = "red" /\ tree.child[r][z] # Nil
      BY <1>2, <2>1, <3>3 DEF rb_color
    <3> QED BY <1>2, <1>4, <3>2, <3>4 DEF Reds
  <2>14. Even(t, N, J, par, s)
    BY <2>8, <2>10 DEF Even
  <2> QED BY <1>6, <2>11, <2>12, <2>13, <2>14
<1> QED BY <1>1, <1>7, <1>8

LEMMA DeleteRoundColor ==
    ASSUME TreeInv, ColorInv, NEW s \in Sides, DeleteRound(s)
    PROVE  ColorInv'
<1> DEFINE t == BlackSibling(s)
           o == Other(s)
           N == nodes
           y == t.child[o][par]
           far == t.child[o][y]
           near == t.child[s][y]
<1>1. /\ pc = "delete" /\ Fixing /\ s = CurSide /\ y \in N /\ nodes' = N /\ pc' = pc
      /\ NephewsBlack(t, s, y) \/ spoilt' \/ \E t1 : FarRed(t, t1, s, y)
      /\ TreeInv'
  BY DeleteRoundIs
<1> SUFFICES ASSUME ~spoilt' PROVE ColorInv'
  BY DEF ColorInv
<1>2. ~spoilt
  BY DEF DeleteRound
<1>3. PICK H : Even(t, N, H, par, s)
  BY <1>1, <1>2, BlackSiblingColor
<1>4. Reds(t, N, Nil, Nil) /\ rb_color(t, cur) = "black" /\ t.color[y] = "black"
  BY <1>1, <1>2, BlackSiblingColor
<1>5. Sorted(t, N) /\ t.child[s][par] = cur /\ par \in N
  BY <1>1, BlackSiblingIs, Siblings
<1> HIDE DEF t
<1>6. /\ N \subseteq Keys /\ Nil \notin N /\ o \in Sides /\ o # s /\ t \in Tree
      /\ \A r \in Sides : r = s \/ r = o
      /\ \A z \in N, r \in Sides : t.child[r][z] \in N \cup {Nil} /\ t.child[r][z] # z
      /\ \A z \in N, r \in Sides : t.child[r][z] = y => z = par /\ r = o
      /\ \A z \in N, r \in Sides : t.child[r][z] = par => par # t.root /\ z = t.parent[par] /\ r = SideOf(t, par)
      /\ \A z \in N, r \in Sides : far # Nil /\ t.child[r][z] = far => z = y /\ r = o
      /\ y # par /\ y # cur
  <2>1. /\ N \subseteq Keys /\ Nil \notin N /\ o \in Sides /\ o # s /\ t \in Tree
        /\ \A r \in Sides : r = s \/ r = o
        /\ \A z \in N, r \in Sides : t.child[r][z] \in N \cup {Nil} /\ t.child[r][z] # z
    BY <1>5, SortedFacts, SideFacts
  <2>2. \A z \in N, r \in Sides : t.child[r][z] = y => z = par /\ r = o
    BY <1>1, <1>5, <2>1, SortedFacts
  <2>3. \A z \in N, r \in Sides : t.child[r][z] = par => par # t.root /\ z = t.parent[par] /\ r = SideOf(t, par)
    BY <1>5, <2>1, SortedFacts
  <2>4. \A z \in N, r \in Sides : far # Nil /\ t.child[r][z] = far => z = y /\ r = o
    BY <1>1, <1>5, <2>1, SortedFacts
  <2>5. y # par /\ y # cur
    BY <1>1, <1>5, <2>1, SortedFacts
  <2> QED BY <2>1, <2>2, <2>3, <2>4, <2>5
<1>7. /\ \A z \in N : H[z] \in Nat /\ Hn(H, z) = H[z] /\ Blk(t, z) \in {0, 1}
      /\ \A z \in N, r \in Sides :
            /\ Hn(H, t.child[r][z]) \in Nat
            /\ H[z] = Hn(H, t.child[r][z]) + Lack(par, s, z, r) + Blk(t, z)
      /\ \A z \in N \ {par}, r \in Sides : Lack(par, s, z, r) = 0
      /\ Lack(par, s, par, s) = 1 /\ Lack(par, s, par, o) = 0
  <2>1. /\ \A z \in N \ {par}, r \in Sides : Lack(par, s, z, r) = 0
        /\ Lack(par, s, par, s) = 1 /\ Lack(par, s, par, o) = 0
    BY <1>6 DEF Lack
  <2> QED BY <1>3, <1>5, <2>1, EvenFacts
<1>8. Blk(t, y) = 1
  BY <1>4 DEF Blk
<1> HIDE DEF N, o, y, far, near
<1>9. /\ H[par] = Hn(H, cur) + 1 + Blk(t, par) /\ H[par] = H[y] + Blk(t, par) /\ H[y] = Hn(H, cur) + 1
      /\ H[y] = Hn(H, near) + 1 /\ H[y] = Hn(H, far) + 1 /\ Hn(H, cur) \in Nat
      /\ Hn(H, near) \in Nat /\ Hn(H, far) \in Nat
  <2>1. H[par] = Hn(H, cur) + 1 + Blk(t, par) /\ Hn(H, cur) \in Nat
    BY <1>5, <1>7
  <2>2. H[par] = Hn(H, y) + 0 + Blk(t, par)
    BY <1>5, <1>6, <1>7 DEF y
  <2>3. H[y] = Hn(H, near) + 0 + 1 /\ H[y] = Hn(H, far) + 0 + 1 /\ Hn(H, near) \in Nat /\ Hn(H, far) \in Nat
    BY <1>1, <1>6, <1>7, <1>8 DEF near, far
  <2> QED BY <1>1, <1>5, <1>7, <2>1, <2>2, <2>3
<1>10. CASE NephewsBlack(t, s, y)
  <2>1. /\ \A r \in Sides : rb_color(t, t.child[r][y]) = "black"
        /\ tree'.child = t.child /\ tree'.parent = t.parent /\ tree'.root = t.root
        /\ \A z \in N : tree'.color[z] = IF z = y THEN "red" ELSE t.color[z]
        /\ cur' = par /\ par' = t.parent[par]
    BY <1>6, <1>10 DEF NephewsBlack, SameLinks, Recolored
  <2> DEFINE J == [z \in N |-> IF z \in {par, y} THEN H[z] - 1 ELSE H[z]]
             l == LackAt'
             q == CurSide'
  <2>2. J \in [N -> Nat] /\ \A z \in N : J[z] = IF z \in {par, y} THEN H[z] - 1 ELSE H[z]
    BY <1>1, <1>5, <1>7, <1>9
  <2> HIDE DEF J
  <2>3. \A z \in (N \cup {Nil}) \ {par, y} : Hn(J, z) = Hn(H, z)
    BY <1>6, <2>2 DEF Hn
  <2>4. Hn(J, par) = H[par] - 1 /\ Hn(J, y) = H[y] - 1
    BY <1>1, <1>5, <1>6, <2>2 DEF Hn
  <2>5. /\ par # t.root => l = t.parent[par] /\ q = SideOf(t, par)
        /\ par = t.root => l = Nil
    BY <1>1, <2>1 DEF LackAt, CurSide, SideOf
  <2>6. /\ par # t.root => t.parent[par] \in N /\ t.child[SideOf(t, par)][t.parent[par]] = par
        /\ t.parent[par] # par /\ t.parent[par] # y /\ \A r \in Sides : t.child[r][y] # par
    <3>1. par # t.root => t.parent[par] \in N /\ t.child[SideOf(t, par)][t.parent[par]] = par /\ SideOf(t, par) \in Sides
      BY <1>5, SortedFacts
    <3>2. par = t.root => t.parent[par] = Nil
      BY <1>5, SortedFacts
    <3>3. t.child[o][par] # Nil /\ y = t.child[o][par]
      BY <1>1, <1>6 DEF y
    <3>4. \A r \in Sides : t.child[r][y] # par
      BY <1>5, <1>6, <3>3, Grandchild
    <3> QED BY <1>1, <1>5, <1>6, <3>1, <3>2, <3>4
  <2>7. ASSUME NEW z \in N, NEW r \in Sides PROVE Lack(l, q, z, r) = IF t.child[r][z] = par THEN 1 ELSE 0
    BY <1>6, <2>5, <2>6 DEF Lack
  <2> HIDE DEF l, q
  <2>8. ASSUME NEW z \in N, NEW r \in Sides PROVE Level(tree', J, l, q, z, r)
    <3>1. CASE z = par /\ r = s
      <4>1. Lack(l, q, z, r) = 0 /\ Blk(tree', z) = Blk(t, z)
        BY <1>5, <1>6, <2>1, <2>7, <3>1 DEF Blk
      <4>2. Hn(J, tree'.child[r][z]) = Hn(H, cur)
        BY <1>5, <1>6, <2>1, <2>3, <3>1
      <4> QED BY <1>5, <1>7, <1>9, <2>2, <3>1, <4>1, <4>2 DEF Level
    <3>2. CASE z = par /\ r = o
      <4>1. Lack(l, q, z, r) = 0 /\ Blk(tree', z) = Blk(t, z)
        BY <1>5, <1>6, <2>1, <2>7, <3>2 DEF Blk
      <4>2. Hn(J, tree'.child[r][z]) = H[y] - 1
        BY <2>1, <2>4, <3>2 DEF y
      <4> QED BY <1>1, <1>5, <1>7, <1>9, <2>2, <3>2, <4>1, <4>2 DEF Level
    <3>3. CASE z = y
      <4>1. t.child[r][z] \notin {par, y}
        BY <1>1, <1>6, <2>6, <3>3
      <4>2. Lack(l, q, z, r) = 0 /\ Blk(tree', z) = 0
        BY <1>1, <2>1, <2>7, <3>3, <4>1 DEF Blk
      <4>3. Hn(J, tree'.child[r][z]) = Hn(H, t.child[r][z])
        BY <1>1, <1>6, <2>1, <2>3, <3>3, <4>1
      <4>4. H[z] = Hn(H, t.child[r][z]) + 0 + 1
        BY <1>6, <1>7, <1>8, <3>3
      <4> QED BY <1>7, <2>2, <3>3, <4>2, <4>3, <4>4 DEF Level
    <3>4. CASE z \notin {par, y} /\ t.child[r][z] = par
      <4>1. Lack(l, q, z, r) = 1 /\ Blk(tree', z) = Blk(t, z) /\ Hn(J, tree'.child[r][z]) = H[par] - 1
        BY <2>1, <2>4, <2>7, <3>4 DEF Blk
      <4>2. H[z] = Hn(H, par) + 0 + Blk(t, z)
        BY <1>7, <3>4
      <4> QED BY <1>5, <1>7, <2>2, <3>4, <4>1, <4>2 DEF Level
    <3>5. CASE z \notin {par, y} /\ t.child[r][z] # par
      <4>1. t.child[r][z] # y
        BY <1>6, <3>5
      <4>2. Lack(l, q, z, r) = 0 /\ Blk(tree', z) = Blk(t, z)
        BY <2>1, <2>7, <3>5 DEF Blk
      <4>3. Hn(J, tree'.child[r][z]) = Hn(H, t.child[r][z])
        BY <1>6, <2>1, <2>3, <3>5, <4>1
      <4> QED BY <1>7, <2>2, <3>5, <4>2, <4>3 DEF Level
    <3> QED BY <1>6, <3>1, <3>2, <3>3, <3>4, <3>5
  <2>9. Reds(tree', N, par, par)
    <3> SUFFICES ASSUME NEW z \in N, NEW r \in Sides, tree'.color[z] = "red",
                        rb_color(tree', t.child[r][z]) = "red", z # par
                 PROVE  FALSE
      BY <2>1 DEF Reds
    <3>1. t.child[r][z] # y /\ rb_color(t, t.child[r][z]) = "red" /\ t.child[r][z] # Nil
      BY <1>6, <2>1 DEF rb_color
    <3>2. z # y /\ t.color[z] = "red"
      BY <2>1, <3>1
    <3> QED BY <1>4, <1>6, <3>1, <3>2 DEF Reds
  <2>10. Even(tree', nodes', J, LackAt', CurSide')
    BY <1>1, <2>2, <2>8 DEF Even, l, q
  <2>11. Reds(tree', nodes', LooseParent', LooseChild')
    BY <1>1, <2>1, <2>9 DEF LooseParent, LooseChild
  <2> QED BY <1>1, <2>10, <2>11 DEF ColorInv
<1>11. ASSUME NEW t1, FarRed(t, t1, s, y) PROVE ColorInv'
  <2>1. /\ far \in N /\ t.color[far] = "red" /\ t1.child = t.child
        /\ Turn(tree', t1, N, s, par, y) /\ cur' = tree'.root
        /\ \A z \in N : tree'.color[z] = IF z \in {par, far} THEN "black"
                                         ELSE IF z = y THEN t.color[par] ELSE t.color[z]
    BY <1>6, <1>11 DEF FarRed, SameLinks, Turn, far, N, o
  <2>2. /\ tree'.child[s][y] = par /\ tree'.child[o][y] = far
        /\ tree'.child[s][par] = cur /\ tree'.child[o][par] = near
        /\ near \notin {par, y} /\ far \notin {par, y} /\ cur \notin {par, y}
        /\ \A r \in Sides, z \in N \ {par, y} :
              tree'.child[r][z] = (IF t.child[r][z] = par THEN y ELSE t.child[r][z]) /\ t.child[r][z] # y
    BY <1>5, <1>6, <2>1 DEF Turn, near, far, o
  <2>3. near # far /\ cur # far
    BY <1>1, <1>5, <1>6, <2>1 DEF near, far
  <2> DEFINE J == [z \in N |-> IF z = par THEN H[y] ELSE IF z = y THEN H[par]
                               ELSE IF z = far THEN H[far] + 1 ELSE H[z]]
  <2>4. /\ J \in [N -> Nat]
        /\ \A z \in N : J[z] = IF z = par THEN H[y] ELSE IF z = y THEN H[par]
                               ELSE IF z = far THEN H[far] + 1 ELSE H[z]
    BY <1>1, <1>5, <1>7, <2>1
  <2> HIDE DEF J
  <2>5. /\ \A z \in (N \cup {Nil}) \ {par, y, far} : Hn(J, z) = Hn(H, z)
        /\ Hn(J, par) = H[y] /\ Hn(J, y) = H[par] /\ Hn(J, far) = H[far] + 1 /\ Hn(H, far) = H[far]
    BY <1>1, <1>5, <1>6, <2>1, <2>2, <2>4 DEF Hn
  <2>6. Blk(tree', par) = 1 /\ Blk(tree', far) = 1 /\ Blk(t, far) = 0 /\ Blk(tree', y) = Blk(t, par)
    BY <1>1, <1>5, <1>6, <2>1, <2>2 DEF Blk
  <2>7. \A z \in N, r \in Sides : Lack(Nil, CurSide', z, r) = 0
    BY <1>6 DEF Lack
  <2>8. ASSUME NEW z \in N, NEW r \in Sides PROVE Level(tree', J, Nil, CurSide', z, r)
    <3>0. Lack(Nil, CurSide', z, r) = 0
      BY <2>7
    <3>1. CASE z = par
      <4>1. Hn(J, tree'.child[r][z]) = Hn(H, cur)
        <5>1. Hn(J, cur) = Hn(H, cur)
          BY <1>5, <1>6, <2>2, <2>3, <2>5
        <5>2. Hn(J, near) = Hn(H, near)
          BY <1>1, <1>6, <2>2, <2>3, <2>5 DEF near
        <5>3. Hn(H, near) = Hn(H, cur)
          BY <1>9
        <5> QED BY <1>6, <2>2, <3>1, <5>1, <5>2, <5>3
      <4> QED BY <1>5, <1>7, <1>9, <2>4, <2>6, <3>0, <3>1, <4>1 DEF Level
    <3>2. CASE z = y
      <4>1. Hn(J, tree'.child[r][z]) = H[y]
        BY <1>6, <1>9, <2>2, <2>5, <3>2
      <4> QED BY <1>1, <1>5, <1>6, <1>7, <1>9, <2>4, <2>6, <3>0, <3>2, <4>1 DEF Level
    <3>3. CASE z = far
      <4>1. tree'.child[r][z] = t.child[r][z] /\ t.child[r][z] \in (N \cup {Nil}) \ {par, y, far}
        <5>1. t.child[r][far] \in (N \cup {Nil}) \ {far} /\ t.child[r][far] # y
          BY <1>6, <2>1, <2>2
        <5>2. t.child[r][far] # par
          <6> SUFFICES ASSUME t.child[r][far] = par PROVE FALSE
            OBVIOUS
          <6>1. tree'.child[r][far] = y /\ tree'.child[o][y] = far /\ far # Nil
            BY <1>6, <2>1, <2>2
          <6>2. Sorted(tree', N)
            BY <1>1 DEF TreeInv
          <6> QED BY <1>1, <1>6, <6>1, <6>2, Grandchild
        <5> QED BY <2>1, <2>2, <3>3, <5>1, <5>2
      <4>2. Hn(J, tree'.child[r][z]) = Hn(H, t.child[r][z])
        BY <2>5, <4>1
      <4>3. H[far] = Hn(H, t.child[r][z]) + 0 + 0 /\ Hn(H, t.child[r][z]) \in Nat
        BY <1>7, <2>1, <2>2, <2>6, <3>3
      <4>4. J[z] = H[far] + 1
        BY <2>1, <2>2, <2>4, <3>3
      <4> QED BY <1>7, <2>1, <2>6, <3>0, <3>3, <4>2, <4>3, <4>4 DEF Level
    <3>4. CASE z \notin {par, y, far}
      <4>1. J[z] = H[z] /\ Blk(tree', z) = Blk(t, z)
        BY <2>1, <2>4, <3>4 DEF Blk
      <4>2. Hn(J, tree'.child[r][z]) = Hn(H, t.child[r][z])
        <5>1. CASE t.child[r][z] = par
          BY <1>5, <1>7, <2>2, <2>5, <3>4, <5>1
        <5>2. CASE t.child[r][z] # par
          <6>1. t.child[r][z] # far
            BY <1>6, <2>1, <3>4
          <6> QED BY <1>6, <2>2, <2>5, <3>4, <5>2, <6>1
        <5> QED BY <5>1, <5>2
      <4> QED BY <1>7, <3>0, <3>4, <4>1, <4>2 DEF Level
    <3> QED BY <3>1, <3>2, <3>3, <3>4
  <2>9. Reds(tree', N, Nil, Nil)
    <3> SUFFICES ASSUME NEW z \in N, NEW r \in Sides, tree'.color[z] = "red",
                        rb_color(tree', tree'.child[r][z]) = "red"
                 PROVE  FALSE
      BY DEF Reds
    <3>1. z # par /\ z # far
      BY <2>1
    <3>2. z # y
      BY <1>1, <1>5, <1>6, <2>1, <2>2 DEF rb_color
    <3>3. t.color[z] = "red"
      BY <2>1, <3>1, <3>2
    <3>4. CASE t.child[r][z] = par
      <4>1. tree'.child[r][z] = y
        BY <2>2, <3>1, <3>2, <3>4
      <4>2. t.color[par] = "red"
        BY <1>1, <1>6, <2>1, <2>2, <4>1 DEF rb_color
      <4> QED BY <1>4, <1>5, <1>6, <3>3, <3>4, <4>2 DEF Reds, rb_color
    <3>5. CASE t.child[r][z] # par
      <4>1. tree'.child[r][z] = t.child[r][z] /\ t.child[r][z] # y
        BY <2>2, <3>1, <3>2, <3>5
      <4>2. rb_color(t, t.child[r][z]) = "red"
        BY <1>6, <2>1, <3>5, <4>1 DEF rb_color
      <4> QED BY <1>4, <1>6, <3>3, <4>2 DEF Reds, rb_color
    <3> QED BY <3>4, <3>5
  <2>10. LackAt' = Nil
    BY <2>1 DEF LackAt
  <2>11. Even(tree', nodes', J, LackAt', CurSide')
    BY <1>1, <2>4, <2>8, <2>10 DEF Even
  <2>12. Reds(tree', nodes', LooseParent', LooseChild')
    BY <1>1, <1>6, <2>9 DEF Reds, rb_color
  <2> QED BY <1>1, <2>11, <2>12 DEF ColorInv
<1> QED BY <1>1, <1>10, <1>11

-----------------------------------------------------------------------------
(* The red-black tree *)

LEMMA ColorNext ==
    ASSUME TreeInv, ColorInv, [Next]_vars
    PROVE  ColorInv'
<1>1. CASE UNCHANGED vars
  <2>1. LackAt' = LackAt /\ CurSide' = CurSide /\ LooseParent' = LooseParent /\ LooseChild' = LooseChild
    BY <1>1 DEF vars, LackAt, CurSide, LooseParent, LooseChild
  <2> QED BY <1>1, <2>1 DEF vars, ColorInv
<1>2. ASSUME NEW s \in Sides, DeleteFaults(s) PROVE ColorInv'
  <2> DEFINE t == BlackSibling(s)
  <2>1. pc = "delete" /\ Fixing /\ s = CurSide /\ t.child[Other(s)][par] = Nil /\ spoilt' = spoilt
    BY <1>2 DEF DeleteFaults
  <2>2. Nil \notin nodes
    BY SortedFacts DEF TreeInv
  <2>3. ~spoilt => t.child[Other(s)][par] \in nodes
    BY <2>1, BlackSiblingColor
  <2> QED BY <2>1, <2>2, <2>3 DEF ColorInv
<1>3. CASE Next
  BY <1>2, <1>3, InsertColor, DeleteColor, InsertRoundColor, InsertDoneColor, DeleteRoundColor,
     DeleteDoneColor DEF Next, Fixup
<1> QED BY <1>1, <1>3

\* As long as the tree is not spoilt, every way down from a node meets the same
\* number of black nodes, with one less below the node that rb_delete_fixup works
\* on, and a red node has a red child only where a fix-up stands.
THEOREM ColorInvariant == Spec => []ColorInv
<1>1. Init => TreeInv /\ ColorInv
  BY TreeInit, ColorInit
<1>2. TreeInv /\ ColorInv /\ [Next]_vars => (TreeInv /\ ColorInv)'
  BY TreeNext, ColorNext
<1> QED BY <1>1, <1>2, PTL DEF Spec

\* What BlackHeight computes for a tree that is even.
LEMMA BlackHeightIs ==
    ASSUME NEW D, Shape(tree, nodes, D), NEW H, NEW v, Even(tree, nodes, H, Nil, v)
    PROVE  \A x \in nodes \cup {Nil} : BlackHeight[x] = Hn(H, x) /\ Hn(H, x) \in Nat
<1> DEFINE Rule(f, x) ==
               LET l == f[tree.child["left"][x]]
                   r == f[tree.child["right"][x]]
               IN  IF x = Nil THEN 0
                   ELSE IF l = Nil \/ r = Nil \/ l # r THEN Nil
                   ELSE l + (IF tree.color[x] = "black" THEN 1 ELSE 0)
           g == [x \in Ref |-> IF x \in nodes THEN H[x] ELSE IF x = Nil THEN 0 ELSE Blk(tree, x)]
<1>1. /\ Nil \notin nodes /\ nodes \subseteq Keys /\ Nil \in Ref /\ nodes \subseteq Ref /\ Nil \notin Nat
      /\ "left" \in Sides /\ "right" \in Sides /\ Sorted(tree, nodes)
      /\ \A x \in Ref : x # Nil => x \in Keys
      /\ \A x \in nodes, s \in Sides : tree.child[s][x] \in nodes \cup {Nil}
      /\ \A x \in Keys \ nodes, s \in Sides : tree.child[s][x] = Nil
  BY RefFacts, SideFacts, ShapeFacts, KeysAssumption DEF Shape, Unused, Sorted, Ref
<1>2. /\ \A x \in nodes : H[x] \in Nat /\ Blk(tree, x) \in {0, 1}
      /\ \A x \in nodes, s \in Sides :
            Hn(H, tree.child[s][x]) \in Nat /\ H[x] = Hn(H, tree.child[s][x]) + Blk(tree, x)
      /\ \A x \in nodes \cup {Nil} : Hn(H, x) \in Nat
  <2>1. \A x \in nodes, s \in Sides : Lack(Nil, v, x, s) = 0
    BY <1>1 DEF Lack
  <2> QED BY <1>1, <2>1, EvenFacts
<1>3. ASSUME NEW f, NEW x \in nodes, \A s \in Sides : f[tree.child[s][x]] = Hn(H, tree.child[s][x])
      PROVE  Rule(f, x) = H[x]
  <2>1. /\ f[tree.child["left"][x]] \in Nat /\ f[tree.child["left"][x]] = f[tree.child["right"][x]]
        /\ H[x] = f[tree.child["left"][x]] + Blk(tree, x)
    BY <1>1, <1>2, <1>3
  <2> QED BY <1>1, <2>1 DEF Blk
<1>4. g = [x \in Ref |-> Rule(g, x)]
  <2>1. \A x \in nodes \cup {Nil} : g[x] = Hn(H, x)
    BY <1>1 DEF Hn
  <2>2. ASSUME NEW x \in Ref PROVE g[x] = Rule(g, x)
    <3>1. CASE x \in nodes
      <4>1. \A s \in Sides : g[tree.child[s][x]] = Hn(H, tree.child[s][x])
        BY <1>1, <2>1, <3>1
      <4>2. g[x] = H[x]
        BY <3>1
      <4> HIDE DEF g, Rule
      <4> QED BY <1>3, <3>1, <4>1, <4>2
    <3>2. CASE x = Nil
      BY <1>1, <3>2
    <3>3. CASE x \notin nodes /\ x # Nil
      <4>1. tree.child["left"][x] = Nil /\ tree.child["right"][x] = Nil /\ g[x] = Blk(tree, x) /\ g[Nil] = 0
        BY <1>1, <3>3
      <4> HIDE DEF g
      <4> QED BY <1>1, <3>3, <4>1 DEF Blk
    <3> QED BY <3>1, <3>2, <3>3
  <2> HIDE DEF Rule
  <2> QED BY <2>2
<1>5. BlackHeight = CHOOSE f : f = [x \in Ref |-> Rule(f, x)]
  BY DEF BlackHeight
<1> HIDE DEF g, Rule
<1>6. BlackHeight = [x \in Ref |-> Rule(BlackHeight, x)]
  BY <1>4, <1>5
<1> DEFINE S == {x \in nodes : BlackHeight[x] = H[x]}
<1>7. BlackHeight[Nil] = 0
  <2>1. BlackHeight[Nil] = Rule(BlackHeight, Nil)
    BY <1>1, <1>6
  <2> QED BY <2>1 DEF Rule
<1>8. ASSUME NEW x \in nodes, \A s \in Sides : tree.child[s][x] # Nil => tree.child[s][x] \in S
      PROVE  x \in S
  <2>1. \A s \in Sides : BlackHeight[tree.child[s][x]] = Hn(H, tree.child[s][x])
    BY <1>7, <1>8 DEF Hn
  <2>2. BlackHeight[x] = Rule(BlackHeight, x)
    BY <1>1, <1>6
  <2> QED BY <1>3, <2>1, <2>2
<1>9. nodes \subseteq S
  <2> HIDE DEF S
  <2> QED BY <1>8, FromBelow
<1> QED BY <1>1, <1>2, <1>7, <1>9 DEF Hn

LEMMA RedBlackHolds == TreeInv /\ ColorInv => RedBlack /\ FixupSafe
<1> SUFFICES ASSUME TreeInv, ColorInv PROVE RedBlack /\ FixupSafe
  OBVIOUS
<1>1. PICK D : Shape(tree, nodes, D)
  BY DEF TreeInv, Sorted
<1>2. Sorted(tree, nodes) /\ tree \in Tree /\ tree.root \in nodes \cup {Nil} /\ Nil \notin nodes /\ nodes \subseteq Keys
      /\ Nil \notin Nat /\ \A x \in nodes, s \in Sides : tree.child[s][x] \in nodes \cup {Nil}
  BY SortedFacts, KeysAssumption DEF TreeInv
<1>3. \A x \in nodes \cup {Nil} : rb_color(tree, x) \in Colors
  BY <1>2, TreeParts DEF rb_color, Colors
<1>4. ASSUME pc = "idle", ~spoilt
      PROVE  /\ rb_color(tree, tree.root) = "black"
             /\ \A x \in nodes : tree.color[x] = "red" =>
                   \A s \in Sides : rb_color(tree, tree.child[s][x]) = "black"
             /\ BlackHeight[tree.root] # Nil
  <2>1. rb_color(tree, tree.root) = "black"
    BY <1>2, <1>3, <1>4 DEF TreeInv, Colors
  <2>2. Reds(tree, nodes, Nil, Nil)
    BY <1>4 DEF ColorInv, LooseParent, LooseChild
  <2>3. ASSUME NEW x \in nodes, tree.color[x] = "red", NEW s \in Sides
        PROVE  rb_color(tree, tree.child[s][x]) = "black"
    <3>1. rb_color(tree, tree.child[s][x]) # "red"
      BY <1>2, <2>2, <2>3 DEF Reds, rb_color
    <3> QED BY <1>2, <1>3, <3>1 DEF Colors
  <2>4. PICK H : Even(tree, nodes, H, Nil, CurSide)
    BY <1>4 DEF ColorInv, LackAt
  <2>5. BlackHeight[tree.root] \in Nat
    BY <1>1, <1>2, <2>4, BlackHeightIs
  <2> QED BY <1>2, <2>1, <2>3, <2>5
<1>5. ASSUME pc = "insert", RedParent PROVE tree.parent[tree.parent[cur]] # Nil
  BY <1>2, <1>5, Family DEF Grand, Parent
<1> QED BY <1>4, <1>5 DEF RedBlack, FixupSafe, ColorInv

\* Between calls the tree is a red-black tree: a black root, no red node with a
\* red child, and as many black nodes on every way down; as long as no deletion
\* has met a red near nephew with a black far one.
THEOREM TreeIsRedBlack == Spec => []RedBlack
  BY TreeInvariant, ColorInvariant, RedBlackHolds, PTL

\* A round of rb_insert has a grandparent to work on in every tree, and a round
\* of rb_delete finds a sibling in every tree that is not spoilt.
THEOREM FixupsAreSafe == Spec => []FixupSafe
  BY TreeInvariant, ColorInvariant, RedBlackHolds, PTL
=============================================================================
