----------------------------- MODULE DlinkProofs -----------------------------
(***************************************************************************)
(* Proofs about Dlink, for any nodes, lists and values.                    *)
(***************************************************************************)
EXTENDS Dlink, TLAPS

\* Put inserts one element and keeps the others in their order.
LEMMA PutFacts ==
    ASSUME NEW S, NEW s \in Seq(S), NEW x \in S, NEW k \in 1 .. Len(s) + 1
    PROVE  /\ Put(s, k, x) \in Seq(S)
           /\ Len(Put(s, k, x)) = Len(s) + 1
           /\ Put(s, k, x)[k] = x
           /\ \A i \in 1 .. Len(s) + 1 : i < k => Put(s, k, x)[i] = s[i]
           /\ \A i \in 1 .. Len(s) + 1 : i > k => Put(s, k, x)[i] = s[i - 1]
<1> DEFINE t == Put(s, k, x)
<1>1. Len(s) \in Nat /\ Len(s) + 1 \in Nat
  OBVIOUS
<1>2. \A i \in 1 .. Len(s) : s[i] \in S
  OBVIOUS
<1>3. t \in [1 .. Len(s) + 1 -> S]
  BY <1>1, <1>2 DEF Put
<1>4. t \in Seq(S) /\ Len(t) = Len(s) + 1
  BY <1>1, <1>3
<1> QED
  BY <1>1, <1>4 DEF Put

\* Drop takes one element out and keeps the others in their order.
LEMMA DropFacts ==
    ASSUME NEW S, NEW s \in Seq(S), NEW k \in 1 .. Len(s)
    PROVE  /\ Drop(s, k) \in Seq(S)
           /\ Len(Drop(s, k)) = Len(s) - 1
           /\ \A i \in 1 .. Len(s) - 1 : i < k => Drop(s, k)[i] = s[i]
           /\ \A i \in 1 .. Len(s) - 1 : i >= k => Drop(s, k)[i] = s[i + 1]
<1> DEFINE t == Drop(s, k)
<1>1. Len(s) \in Nat /\ Len(s) - 1 \in Nat
  OBVIOUS
<1>2. \A i \in 1 .. Len(s) : s[i] \in S
  OBVIOUS
<1>3. t \in [1 .. Len(s) - 1 -> S]
  BY <1>1, <1>2 DEF Drop
<1>4. t \in Seq(S) /\ Len(t) = Len(s) - 1
  BY <1>1, <1>3
<1> QED
  BY <1>1, <1>4 DEF Drop

-----------------------------------------------------------------------------
(* A state of the lists as a collection of functions: the sequences o, the *)
(* pointers n and p of the nodes and h and t of the lists, the lengths c.  *)

Typed(o, n, p, h, t, c) ==
    /\ o \in [Lists -> Seq(Nodes)]
    /\ n \in [Nodes -> Nodes \cup {Null}] /\ p \in [Nodes -> Nodes \cup {Null}]
    /\ h \in [Lists -> Nodes \cup {Null}] /\ t \in [Lists -> Nodes \cup {Null}]
    /\ c \in [Lists -> Nat]

Apart(o) ==
    \A l1, l2 \in Lists : \A i \in 1 .. Len(o[l1]), j \in 1 .. Len(o[l2]) :
        o[l1][i] = o[l2][j] => l1 = l2 /\ i = j

ChainedAt(s, n, p) ==
    \A i \in 1 .. Len(s) :
        /\ n[s[i]] = (IF i = Len(s) THEN Null ELSE s[i + 1])
        /\ p[s[i]] = (IF i = 1 THEN Null ELSE s[i - 1])

Ended(s, first, last, count) ==
    /\ count = Len(s)
    /\ first = (IF Len(s) = 0 THEN Null ELSE s[1])
    /\ last = (IF Len(s) = 0 THEN Null ELSE s[Len(s)])

Shape(o, n, p, h, t, c) ==
    /\ Typed(o, n, p, h, t, c)
    /\ Apart(o)
    /\ \A l \in Lists : ChainedAt(o[l], n, p) /\ Ended(o[l], h[l], t[l], c[l])

\* What Shape says of the nodes of one list, ready for use.
LEMMA ShapeFacts ==
    ASSUME NEW o, NEW n, NEW p, NEW h, NEW t, NEW c, Shape(o, n, p, h, t, c), NEW l \in Lists
    PROVE  /\ o[l] \in Seq(Nodes)
           /\ Len(o[l]) \in Nat
           /\ \A i \in 1 .. Len(o[l]) : o[l][i] \in Nodes /\ o[l][i] # Null
           /\ \A i, j \in 1 .. Len(o[l]) : o[l][i] = o[l][j] => i = j
           /\ h[l] = Null <=> Len(o[l]) = 0
           /\ t[l] = Null <=> Len(o[l]) = 0
<1>1. o[l] \in Seq(Nodes) /\ Len(o[l]) \in Nat
  BY DEF Shape, Typed
<1>2. \A i \in 1 .. Len(o[l]) : o[l][i] \in Nodes /\ o[l][i] # Null
  BY <1>1, NullAssumption
<1>3. \A i, j \in 1 .. Len(o[l]) : o[l][i] = o[l][j] => i = j
  BY DEF Shape, Apart
<1>4. (h[l] = Null <=> Len(o[l]) = 0) /\ (t[l] = Null <=> Len(o[l]) = 0)
  BY <1>1, <1>2 DEF Shape, Ended
<1> QED
  BY <1>1, <1>2, <1>3, <1>4

\* q is s with m put at position k; n2 and p2 are n and p with m between its
\* two neighbours.
Inserting(N, s, q, k, m, n, p, n2, p2) ==
    /\ N \in Nat /\ k \in 1 .. N + 1 /\ m \in Nodes
    /\ \A i \in 1 .. N : s[i] \in Nodes
    /\ \A i \in 1 .. N : s[i] # m
    /\ \A i, j \in 1 .. N : s[i] = s[j] => i = j
    /\ q[k] = m
    /\ \A i \in 1 .. N + 1 : (i < k => q[i] = s[i]) /\ (i > k => q[i] = s[i - 1])
    /\ \A i \in 1 .. N :
          /\ n[s[i]] = (IF i = N THEN Null ELSE s[i + 1])
          /\ p[s[i]] = (IF i = 1 THEN Null ELSE s[i - 1])
    /\ n2[m] = (IF k = N + 1 THEN Null ELSE s[k])
    /\ p2[m] = (IF k = 1 THEN Null ELSE s[k - 1])
    /\ \A x \in Nodes : x # m => n2[x] = (IF k > 1 /\ x = s[k - 1] THEN m ELSE n[x])
    /\ \A x \in Nodes : x # m => p2[x] = (IF k <= N /\ x = s[k] THEN m ELSE p[x])

\* Then q is chained as s was.
LEMMA InsertChain ==
    ASSUME NEW N, NEW s, NEW q, NEW k, NEW m, NEW n, NEW p, NEW n2, NEW p2,
           Inserting(N, s, q, k, m, n, p, n2, p2)
    PROVE  /\ N > 0 => q[1] = (IF k = 1 THEN m ELSE s[1])
           /\ N > 0 => q[N + 1] = (IF k = N + 1 THEN m ELSE s[N])
           /\ \A i \in 1 .. N + 1 :
                 /\ n2[q[i]] = (IF i = N + 1 THEN Null ELSE q[i + 1])
                 /\ p2[q[i]] = (IF i = 1 THEN Null ELSE q[i - 1])
           /\ \A i, j \in 1 .. N + 1 : q[i] = q[j] => i = j
           /\ \A i \in 1 .. N + 1 : q[i] = m \/ \E j \in 1 .. N : q[i] = s[j]
<1> USE DEF Inserting
<1>1. ASSUME NEW i \in 1 .. N + 1
      PROVE  /\ n2[q[i]] = (IF i = N + 1 THEN Null ELSE q[i + 1])
             /\ p2[q[i]] = (IF i = 1 THEN Null ELSE q[i - 1])
  <2>1. CASE i = k
    BY <2>1
  <2>2. CASE i < k
    BY <2>2
  <2>3. CASE i > k
    BY <2>3
  <2> QED
    BY <2>1, <2>2, <2>3
<1>2. \A i, j \in 1 .. N + 1 : q[i] = q[j] => i = j
  OBVIOUS
<1>3. ASSUME NEW i \in 1 .. N + 1
      PROVE  q[i] = m \/ \E j \in 1 .. N : q[i] = s[j]
  <2>1. CASE i = k
    BY <2>1
  <2>2. CASE i < k
    <3>1. i \in 1 .. N /\ q[i] = s[i]
      BY <2>2
    <3> QED
      BY <3>1
  <2>3. CASE i > k
    <3>1. i - 1 \in 1 .. N /\ q[i] = s[i - 1]
      BY <2>3
    <3> QED
      BY <3>1
  <2> QED
    BY <2>1, <2>2, <2>3
<1>4. /\ N > 0 => q[1] = (IF k = 1 THEN m ELSE s[1])
      /\ N > 0 => q[N + 1] = (IF k = N + 1 THEN m ELSE s[N])
  OBVIOUS
<1> QED
  BY <1>1, <1>2, <1>3, <1>4

\* q is s without its k-th element m; n2 and p2 are n and p with the two
\* neighbours of m made neighbours.
Removing(N, s, q, k, m, n, p, n2, p2) ==
    /\ N \in Nat /\ k \in 1 .. N /\ m \in Nodes
    /\ \A i \in 1 .. N : s[i] \in Nodes
    /\ \A i, j \in 1 .. N : s[i] = s[j] => i = j
    /\ s[k] = m
    /\ \A i \in 1 .. N - 1 : (i < k => q[i] = s[i]) /\ (i >= k => q[i] = s[i + 1])
    /\ \A i \in 1 .. N :
          /\ n[s[i]] = (IF i = N THEN Null ELSE s[i + 1])
          /\ p[s[i]] = (IF i = 1 THEN Null ELSE s[i - 1])
    /\ \A x \in Nodes : x # m => n2[x] = (IF k > 1 /\ x = s[k - 1] THEN n[m] ELSE n[x])
    /\ \A x \in Nodes : x # m => p2[x] = (IF k < N /\ x = s[k + 1] THEN p[m] ELSE p[x])

\* Then q is chained as s was.
LEMMA RemoveChain ==
    ASSUME NEW N, NEW s, NEW q, NEW k, NEW m, NEW n, NEW p, NEW n2, NEW p2,
           Removing(N, s, q, k, m, n, p, n2, p2)
    PROVE  /\ N > 1 => q[1] = (IF k = 1 THEN s[2] ELSE s[1])
           /\ N > 1 => q[N - 1] = (IF k = N THEN s[N - 1] ELSE s[N])
           /\ \A i \in 1 .. N - 1 :
                 /\ n2[q[i]] = (IF i = N - 1 THEN Null ELSE q[i + 1])
                 /\ p2[q[i]] = (IF i = 1 THEN Null ELSE q[i - 1])
           /\ \A i, j \in 1 .. N - 1 : q[i] = q[j] => i = j
           /\ \A i \in 1 .. N - 1 : q[i] # m /\ \E j \in 1 .. N : q[i] = s[j]
<1> USE DEF Removing
<1>1. ASSUME NEW i \in 1 .. N - 1
      PROVE  /\ n2[q[i]] = (IF i = N - 1 THEN Null ELSE q[i + 1])
             /\ p2[q[i]] = (IF i = 1 THEN Null ELSE q[i - 1])
  <2>1. CASE i < k
    BY <2>1
  <2>2. CASE i >= k
    BY <2>2
  <2> QED
    BY <2>1, <2>2
<1>2. \A i, j \in 1 .. N - 1 : q[i] = q[j] => i = j
  OBVIOUS
<1>3. ASSUME NEW i \in 1 .. N - 1
      PROVE  q[i] # m /\ \E j \in 1 .. N : q[i] = s[j]
  <2>1. CASE i < k
    <3>1. i \in 1 .. N /\ q[i] = s[i] /\ s[i] # m
      BY <2>1
    <3> QED
      BY <3>1
  <2>2. CASE i >= k
    <3>1. i + 1 \in 1 .. N /\ q[i] = s[i + 1] /\ s[i + 1] # m
      BY <2>2
    <3> QED
      BY <3>1
  <2> QED
    BY <2>1, <2>2
<1>4. /\ N > 1 => q[1] = (IF k = 1 THEN s[2] ELSE s[1])
      /\ N > 1 => q[N - 1] = (IF k = N THEN s[N - 1] ELSE s[N])
  OBVIOUS
<1> QED
  BY <1>1, <1>2, <1>3, <1>4

\* One list gets a new sequence q, made of its own nodes and perhaps one that
\* was in no list; the pointers of the other lists' nodes do not change.
OneList(o, n, p, h, t, c, n2, p2, h2, t2, c2, l, q) ==
    /\ Shape(o, n, p, h, t, c)
    /\ l \in Lists
    /\ Typed([o EXCEPT ![l] = q], n2, p2, h2, t2, c2)
    /\ \A j \in Lists : j # l =>
          /\ \A x \in 1 .. Len(o[j]) : \A i \in 1 .. Len(q) : o[j][x] # q[i]
          /\ \A x \in 1 .. Len(o[j]) : n2[o[j][x]] = n[o[j][x]] /\ p2[o[j][x]] = p[o[j][x]]
          /\ h2[j] = h[j] /\ t2[j] = t[j] /\ c2[j] = c[j]
    /\ \A i, j \in 1 .. Len(q) : q[i] = q[j] => i = j
    /\ ChainedAt(q, n2, p2)
    /\ Ended(q, h2[l], t2[l], c2[l])

\* Then the shape is kept.
LEMMA OneListShape ==
    ASSUME NEW o, NEW n, NEW p, NEW h, NEW t, NEW c,
           NEW n2, NEW p2, NEW h2, NEW t2, NEW c2, NEW l, NEW q,
           OneList(o, n, p, h, t, c, n2, p2, h2, t2, c2, l, q)
    PROVE  Shape([o EXCEPT ![l] = q], n2, p2, h2, t2, c2)
<1> USE DEF OneList
<1> DEFINE o2 == [o EXCEPT ![l] = q]
<1>1. o2[l] = q /\ \A j \in Lists : j # l => o2[j] = o[j]
  BY DEF Shape, Typed
<1> HIDE DEF o2
<1>2. Apart(o2)
  <2> SUFFICES ASSUME NEW l1 \in Lists, NEW l2 \in Lists,
                      NEW i \in 1 .. Len(o2[l1]), NEW j \in 1 .. Len(o2[l2]),
                      o2[l1][i] = o2[l2][j]
               PROVE  l1 = l2 /\ i = j
    BY DEF Apart
  <2>1. CASE l1 # l /\ l2 # l
    BY <1>1, <2>1 DEF Shape, Apart
  <2>2. CASE l1 = l /\ l2 # l
    BY <1>1, <2>2
  <2>3. CASE l1 # l /\ l2 = l
    BY <1>1, <2>3
  <2>4. CASE l1 = l /\ l2 = l
    BY <1>1, <2>4
  <2> QED
    BY <2>1, <2>2, <2>3, <2>4
<1>3. ASSUME NEW j \in Lists, j # l
      PROVE  ChainedAt(o2[j], n2, p2) /\ Ended(o2[j], h2[j], t2[j], c2[j])
  <2>1. ChainedAt(o[j], n, p) /\ Ended(o[j], h[j], t[j], c[j])
    BY DEF Shape
  <2>2. ChainedAt(o[j], n2, p2)
    BY <1>3, <2>1 DEF ChainedAt
  <2> QED
    BY <1>1, <1>3, <2>1, <2>2
<1>4. Shape(o2, n2, p2, h2, t2, c2)
  <2>1. Typed(o2, n2, p2, h2, t2, c2)
    BY DEF o2
  <2>2. ASSUME NEW j \in Lists
        PROVE  ChainedAt(o2[j], n2, p2) /\ Ended(o2[j], h2[j], t2[j], c2[j])
    <3>1. CASE j = l
      BY <1>1, <3>1
    <3> QED
      BY <1>3, <3>1
  <2> QED
    BY <1>2, <2>1, <2>2 DEF Shape
<1> QED
  BY <1>4 DEF o2

\* A node is put between its two neighbours.
Inserted(o, n, p, h, t, c, n2, p2, h2, t2, c2, l, m, k) ==
    /\ l \in Lists /\ m \in Nodes /\ k \in 1 .. Len(o[l]) + 1
    /\ \A j \in Lists : \A i \in 1 .. Len(o[j]) : o[j][i] # m
    /\ Typed([o EXCEPT ![l] = Put(o[l], k, m)], n2, p2, h2, t2, c2)
    /\ n2[m] = (IF k = Len(o[l]) + 1 THEN Null ELSE o[l][k])
    /\ p2[m] = (IF k = 1 THEN Null ELSE o[l][k - 1])
    /\ \A x \in Nodes : x # m => n2[x] = (IF k > 1 /\ x = o[l][k - 1] THEN m ELSE n[x])
    /\ \A x \in Nodes : x # m => p2[x] = (IF k <= Len(o[l]) /\ x = o[l][k] THEN m ELSE p[x])
    /\ h2[l] = (IF k = 1 THEN m ELSE h[l])
    /\ t2[l] = (IF k = Len(o[l]) + 1 THEN m ELSE t[l])
    /\ c2[l] = c[l] + 1
    /\ \A j \in Lists : j # l => h2[j] = h[j] /\ t2[j] = t[j] /\ c2[j] = c[j]

\* Then the shape is kept.
LEMMA InsertShape ==
    ASSUME NEW o, NEW n, NEW p, NEW h, NEW t, NEW c, Shape(o, n, p, h, t, c),
           NEW n2, NEW p2, NEW h2, NEW t2, NEW c2, NEW l, NEW m, NEW k,
           Inserted(o, n, p, h, t, c, n2, p2, h2, t2, c2, l, m, k)
    PROVE  Shape([o EXCEPT ![l] = Put(o[l], k, m)], n2, p2, h2, t2, c2)
<1> USE DEF Inserted
<1> DEFINE s == o[l]
           N == Len(s)
           q == Put(s, k, m)
<1>1. /\ s \in Seq(Nodes) /\ N \in Nat
      /\ \A i \in 1 .. N : s[i] \in Nodes
      /\ \A i, j \in 1 .. N : s[i] = s[j] => i = j
  BY ShapeFacts
<1>2. q \in Seq(Nodes) /\ Len(q) = N + 1 /\ q[k] = m
  BY <1>1, PutFacts
<1>3. \A i \in 1 .. N + 1 : (i < k => q[i] = s[i]) /\ (i > k => q[i] = s[i - 1])
  <2>1. \A i \in 1 .. N + 1 : i < k => q[i] = s[i]
    BY <1>1 DEF Put
  <2>2. \A i \in 1 .. N + 1 : i > k => q[i] = s[i - 1]
    BY <1>1 DEF Put
  <2> QED
    BY <2>1, <2>2, Zenon
<1>4. \A i \in 1 .. N :
         /\ n[s[i]] = (IF i = N THEN Null ELSE s[i + 1])
         /\ p[s[i]] = (IF i = 1 THEN Null ELSE s[i - 1])
  BY DEF Shape, ChainedAt
<1>5. Ended(s, h[l], t[l], c[l])
  BY DEF Shape
<1>6. h2[l] = (IF k = 1 THEN m ELSE h[l]) /\ t2[l] = (IF k = N + 1 THEN m ELSE t[l]) /\ c2[l] = c[l] + 1
  BY DEF Shape, Typed
<1>7. k \in 1 .. N + 1 /\ \A i \in 1 .. N : s[i] # m
  OBVIOUS
<1>8. /\ n2[m] = (IF k = N + 1 THEN Null ELSE s[k])
      /\ p2[m] = (IF k = 1 THEN Null ELSE s[k - 1])
      /\ \A x \in Nodes : x # m => n2[x] = (IF k > 1 /\ x = s[k - 1] THEN m ELSE n[x])
      /\ \A x \in Nodes : x # m => p2[x] = (IF k <= N /\ x = s[k] THEN m ELSE p[x])
  OBVIOUS
<1>9. /\ Typed([o EXCEPT ![l] = q], n2, p2, h2, t2, c2)
      /\ \A j \in Lists : j # l => \A x \in 1 .. Len(o[j]) :
            o[j][x] \in Nodes /\ o[j][x] # m /\ \A i \in 1 .. N : o[j][x] # s[i]
  <2>1. ASSUME NEW j \in Lists, j # l, NEW x \in 1 .. Len(o[j])
        PROVE  o[j][x] \in Nodes /\ o[j][x] # m /\ \A i \in 1 .. N : o[j][x] # s[i]
    BY <2>1, ShapeFacts DEF Shape, Apart
  <2> QED
    BY <2>1
<1>10. \A j \in Lists : j # l => h2[j] = h[j] /\ t2[j] = t[j] /\ c2[j] = c[j]
  BY DEF Shape, Typed
<1> HIDE DEF s, N, q
<1>11. /\ N > 0 => q[1] = (IF k = 1 THEN m ELSE s[1])
       /\ N > 0 => q[N + 1] = (IF k = N + 1 THEN m ELSE s[N])
       /\ \A i \in 1 .. N + 1 :
             /\ n2[q[i]] = (IF i = N + 1 THEN Null ELSE q[i + 1])
             /\ p2[q[i]] = (IF i = 1 THEN Null ELSE q[i - 1])
       /\ \A i, j \in 1 .. N + 1 : q[i] = q[j] => i = j
       /\ \A i \in 1 .. N + 1 : q[i] = m \/ \E j \in 1 .. N : q[i] = s[j]
  <2>1. Inserting(N, s, q, k, m, n, p, n2, p2)
    BY <1>1, <1>2, <1>3, <1>4, <1>7, <1>8, Zenon DEF Inserting
  <2> QED
    BY <2>1, InsertChain
<1>12. ChainedAt(q, n2, p2)
  BY <1>2, <1>11 DEF ChainedAt
<1>13. Ended(q, h2[l], t2[l], c2[l])
  <2>1. CASE N = 0
    BY <1>2, <1>5, <1>6, <1>7, <2>1 DEF Ended, N
  <2>2. CASE N > 0
    <3>1. h[l] = s[1] /\ t[l] = s[N] /\ c[l] = N
      BY <1>1, <1>5, <2>2 DEF Ended, N
    <3>2. q[1] = (IF k = 1 THEN m ELSE s[1]) /\ q[N + 1] = (IF k = N + 1 THEN m ELSE s[N])
      BY <1>11, <2>2
    <3> QED
      BY <1>1, <1>2, <1>6, <2>2, <3>1, <3>2 DEF Ended
  <2> QED
    BY <1>1, <2>1, <2>2
<1>14. ASSUME NEW j \in Lists, j # l, NEW x \in 1 .. Len(o[j])
       PROVE  n2[o[j][x]] = n[o[j][x]] /\ p2[o[j][x]] = p[o[j][x]]
  <2>1. /\ k > 1 => k - 1 \in 1 .. N
        /\ k <= N => k \in 1 .. N
    BY <1>1, <1>7
  <2>2. o[j][x] \in Nodes /\ o[j][x] # m
    BY <1>9, <1>14
  <2>3. k > 1 => o[j][x] # s[k - 1]
    BY <1>9, <1>14, <2>1
  <2>4. k <= N => o[j][x] # s[k]
    BY <1>9, <1>14, <2>1
  <2> QED
    BY <1>8, <2>2, <2>3, <2>4
<1>15. ASSUME NEW j \in Lists, j # l, NEW x \in 1 .. Len(o[j]), NEW i \in 1 .. Len(q)
       PROVE  o[j][x] # q[i]
  <2>1. i \in 1 .. N + 1
    BY <1>2, <1>15
  <2>2. q[i] = m \/ \E y \in 1 .. N : q[i] = s[y]
    BY <1>11, <2>1
  <2>3. o[j][x] # m /\ \A y \in 1 .. N : o[j][x] # s[y]
    BY <1>9, <1>15, Zenon
  <2> QED
    BY <2>2, <2>3
<1>16. \A i, j \in 1 .. Len(q) : q[i] = q[j] => i = j
  BY <1>2, <1>11
<1>17. Shape([o EXCEPT ![l] = q], n2, p2, h2, t2, c2)
  <2>1. OneList(o, n, p, h, t, c, n2, p2, h2, t2, c2, l, q)
    BY <1>9, <1>10, <1>12, <1>13, <1>14, <1>15, <1>16, Zenon DEF OneList
  <2> QED
    BY <2>1, OneListShape
<1> QED
  BY <1>17 DEF q, s

\* The two neighbours of a node are made neighbours.
Removed(o, n, p, h, t, c, n2, p2, h2, t2, c2, l, m, k) ==
    /\ l \in Lists /\ k \in 1 .. Len(o[l]) /\ m = o[l][k]
    /\ Typed([o EXCEPT ![l] = Drop(o[l], k)], n2, p2, h2, t2, c2)
    /\ \A x \in Nodes : x # m => n2[x] = (IF k > 1 /\ x = o[l][k - 1] THEN n[m] ELSE n[x])
    /\ \A x \in Nodes : x # m =>
          p2[x] = (IF k < Len(o[l]) /\ x = o[l][k + 1] THEN p[m] ELSE p[x])
    /\ h2[l] = (IF k = 1 THEN n[m] ELSE h[l])
    /\ t2[l] = (IF k = Len(o[l]) THEN p[m] ELSE t[l])
    /\ c2[l] = c[l] - 1
    /\ \A j \in Lists : j # l => h2[j] = h[j] /\ t2[j] = t[j] /\ c2[j] = c[j]

\* Then the shape is kept, and the node is gone.
LEMMA RemoveShape ==
    ASSUME NEW o, NEW n, NEW p, NEW h, NEW t, NEW c, Shape(o, n, p, h, t, c),
           NEW n2, NEW p2, NEW h2, NEW t2, NEW c2, NEW l, NEW m, NEW k,
           Removed(o, n, p, h, t, c, n2, p2, h2, t2, c2, l, m, k)
    PROVE  /\ Shape([o EXCEPT ![l] = Drop(o[l], k)], n2, p2, h2, t2, c2)
           /\ \A i \in 1 .. Len(o[l]) - 1 : Drop(o[l], k)[i] # m
<1> USE DEF Removed
<1> DEFINE s == o[l]
           N == Len(s)
           q == Drop(s, k)
<1>1. /\ s \in Seq(Nodes) /\ N \in Nat
      /\ \A i \in 1 .. N : s[i] \in Nodes
      /\ \A i, j \in 1 .. N : s[i] = s[j] => i = j
  BY ShapeFacts
<1>2. q \in Seq(Nodes) /\ Len(q) = N - 1
  BY <1>1, DropFacts
<1>3. \A i \in 1 .. N - 1 : (i < k => q[i] = s[i]) /\ (i >= k => q[i] = s[i + 1])
  BY <1>1, DropFacts
<1>4. \A i \in 1 .. N :
         /\ n[s[i]] = (IF i = N THEN Null ELSE s[i + 1])
         /\ p[s[i]] = (IF i = 1 THEN Null ELSE s[i - 1])
  BY DEF Shape, ChainedAt
<1>5. Ended(s, h[l], t[l], c[l])
  BY DEF Shape
<1>6. h2[l] = (IF k = 1 THEN n[m] ELSE h[l]) /\ t2[l] = (IF k = N THEN p[m] ELSE t[l]) /\ c2[l] = c[l] - 1
  BY DEF Shape, Typed
<1>7. k \in 1 .. N /\ s[k] = m /\ m \in Nodes
  BY <1>1
<1>8. /\ \A x \in Nodes : x # m => n2[x] = (IF k > 1 /\ x = s[k - 1] THEN n[m] ELSE n[x])
      /\ \A x \in Nodes : x # m => p2[x] = (IF k < N /\ x = s[k + 1] THEN p[m] ELSE p[x])
  OBVIOUS
<1>9. /\ Typed([o EXCEPT ![l] = q], n2, p2, h2, t2, c2)
      /\ \A j \in Lists : j # l => \A x \in 1 .. Len(o[j]) :
            o[j][x] \in Nodes /\ \A i \in 1 .. N : o[j][x] # s[i]
  <2>1. ASSUME NEW j \in Lists, j # l, NEW x \in 1 .. Len(o[j])
        PROVE  o[j][x] \in Nodes /\ \A i \in 1 .. N : o[j][x] # s[i]
    BY <2>1, ShapeFacts DEF Shape, Apart
  <2> QED
    BY <2>1
<1>10. \A j \in Lists : j # l => h2[j] = h[j] /\ t2[j] = t[j] /\ c2[j] = c[j]
  BY DEF Shape, Typed
<1> HIDE DEF s, N, q
<1>11. /\ N > 1 => q[1] = (IF k = 1 THEN s[2] ELSE s[1])
       /\ N > 1 => q[N - 1] = (IF k = N THEN s[N - 1] ELSE s[N])
       /\ \A i \in 1 .. N - 1 :
             /\ n2[q[i]] = (IF i = N - 1 THEN Null ELSE q[i + 1])
             /\ p2[q[i]] = (IF i = 1 THEN Null ELSE q[i - 1])
       /\ \A i, j \in 1 .. N - 1 : q[i] = q[j] => i = j
       /\ \A i \in 1 .. N - 1 : q[i] # m /\ \E j \in 1 .. N : q[i] = s[j]
  <2>1. Removing(N, s, q, k, m, n, p, n2, p2)
    BY <1>1, <1>3, <1>4, <1>7, <1>8, Zenon DEF Removing
  <2> QED
    BY <2>1, RemoveChain
<1>12. ChainedAt(q, n2, p2)
  BY <1>2, <1>11 DEF ChainedAt
<1>13. Ended(q, h2[l], t2[l], c2[l])
  <2>1. h[l] = s[1] /\ t[l] = s[N] /\ c[l] = N
    BY <1>1, <1>5, <1>7 DEF Ended, N
  <2>2. n[m] = (IF k = N THEN Null ELSE s[k + 1]) /\ p[m] = (IF k = 1 THEN Null ELSE s[k - 1])
    BY <1>4, <1>7
  <2>3. CASE N = 1
    BY <1>2, <1>6, <1>7, <2>1, <2>2, <2>3 DEF Ended
  <2>4. CASE N > 1
    <3>1. /\ q[1] = (IF k = 1 THEN s[2] ELSE s[1])
          /\ q[N - 1] = (IF k = N THEN s[N - 1] ELSE s[N])
      BY <1>11, <2>4
    <3> QED
      BY <1>1, <1>2, <1>6, <1>7, <2>1, <2>2, <2>4, <3>1 DEF Ended
  <2> QED
    BY <1>1, <1>7, <2>3, <2>4
<1>14. ASSUME NEW j \in Lists, j # l, NEW x \in 1 .. Len(o[j])
       PROVE  n2[o[j][x]] = n[o[j][x]] /\ p2[o[j][x]] = p[o[j][x]]
  <2>1. /\ k > 1 => k - 1 \in 1 .. N
        /\ k < N => k + 1 \in 1 .. N
    BY <1>1, <1>7
  <2>2. o[j][x] \in Nodes /\ o[j][x] # m
    BY <1>7, <1>9, <1>14
  <2>3. k > 1 => o[j][x] # s[k - 1]
    BY <1>9, <1>14, <2>1
  <2>4. k < N => o[j][x] # s[k + 1]
    BY <1>9, <1>14, <2>1
  <2> QED
    BY <1>8, <2>2, <2>3, <2>4
<1>15. ASSUME NEW j \in Lists, j # l, NEW x \in 1 .. Len(o[j]), NEW i \in 1 .. Len(q)
       PROVE  o[j][x] # q[i]
  BY <1>2, <1>9, <1>11, <1>15
<1>16. \A i, j \in 1 .. Len(q) : q[i] = q[j] => i = j
  BY <1>2, <1>11
<1>17. Shape([o EXCEPT ![l] = q], n2, p2, h2, t2, c2)
  <2>1. OneList(o, n, p, h, t, c, n2, p2, h2, t2, c2, l, q)
    BY <1>9, <1>10, <1>12, <1>13, <1>14, <1>15, <1>16, Zenon DEF OneList
  <2> QED
    BY <2>1, OneListShape
<1> QED
  BY <1>11, <1>17 DEF q, s, N

-----------------------------------------------------------------------------
(* A walk: a is the node ahead, P the nodes to be visited, V those visited *)
(* or being visited.                                                       *)

Ahead(s, a, P, V) ==
    /\ P \subseteq Elements(s)
    /\ a = Null => P \subseteq V
    /\ a # Null => \E j \in 1 .. Len(s) :
          s[j] = a /\ \A i \in 1 .. j - 1 : s[i] \in P => s[i] \in V

\* A node put into the list, wherever it goes, does not disturb a walk.
LEMMA InsertAhead ==
    ASSUME NEW s \in Seq(Nodes), NEW a, NEW P, NEW V, Ahead(s, a, P, V),
           NEW m \in Nodes, NEW k \in 1 .. Len(s) + 1, m \notin Elements(s)
    PROVE  Ahead(Put(s, k, m), a, P, V)
<1> DEFINE q == Put(s, k, m)
           N == Len(s)
<1>1. N \in Nat /\ k \in 1 .. N + 1
  OBVIOUS
<1>2. Len(q) = N + 1 /\ q[k] = m
  BY PutFacts
<1>3. \A i \in 1 .. N + 1 : (i < k => q[i] = s[i]) /\ (i > k => q[i] = s[i - 1])
  BY DEF Put
<1>4. m \notin P
  BY DEF Ahead
<1> HIDE DEF q, N
<1>5. \A i \in 1 .. N : (i < k => s[i] = q[i]) /\ (i >= k => s[i] = q[i + 1])
  BY <1>1, <1>3
<1>6. P \subseteq Elements(q)
  <2>1. ASSUME NEW i \in 1 .. N
        PROVE  s[i] \in Elements(q)
    <3>1. CASE i < k
      BY <1>1, <1>2, <1>5, <3>1 DEF Elements
    <3>2. CASE i >= k
      <4>1. i + 1 \in 1 .. Len(q) /\ s[i] = q[i + 1]
        BY <1>1, <1>2, <1>5, <3>2
      <4> QED
        BY <4>1 DEF Elements
    <3> QED
      BY <1>1, <3>1, <3>2
  <2> QED
    BY <2>1 DEF Ahead, Elements, N
<1>7. a = Null => P \subseteq V
  BY DEF Ahead
<1>8. ASSUME a # Null
      PROVE  \E j \in 1 .. Len(q) : q[j] = a /\ \A i \in 1 .. j - 1 : q[i] \in P => q[i] \in V
  <2>1. PICK j \in 1 .. N : s[j] = a /\ \A i \in 1 .. j - 1 : s[i] \in P => s[i] \in V
    BY <1>8 DEF Ahead, N
  <2>2. CASE j < k
    <3>1. q[j] = a /\ j \in 1 .. Len(q)
      BY <1>1, <1>2, <1>5, <2>1, <2>2
    <3>2. \A i \in 1 .. j - 1 : q[i] = s[i]
      BY <1>1, <1>3, <2>2
    <3> QED
      BY <2>1, <3>1, <3>2
  <2>3. CASE j >= k
    <3>1. q[j + 1] = a /\ j + 1 \in 1 .. Len(q)
      BY <1>1, <1>2, <1>5, <2>1, <2>3
    <3>2. ASSUME NEW i \in 1 .. j, q[i] \in P
          PROVE  q[i] \in V
      <4>1. CASE i = k
        BY <1>2, <1>4, <3>2, <4>1
      <4>2. CASE i < k
        <5>1. q[i] = s[i] /\ i \in 1 .. j - 1
          BY <1>1, <1>3, <2>3, <4>2
        <5> QED
          BY <2>1, <3>2, <5>1
      <4>3. CASE i > k
        <5>1. q[i] = s[i - 1] /\ i - 1 \in 1 .. j - 1
          BY <1>1, <1>3, <2>3, <4>3
        <5> QED
          BY <2>1, <3>2, <5>1
      <4> QED
        BY <1>1, <4>1, <4>2, <4>3
    <3> QED
      BY <3>1, <3>2
  <2> QED
    BY <1>1, <2>2, <2>3
<1> QED
  BY <1>6, <1>7, <1>8 DEF Ahead, q

\* Taking a node other than the one ahead out of the list does not either.
LEMMA RemoveAhead ==
    ASSUME NEW s \in Seq(Nodes), NEW a, NEW P, NEW V, Ahead(s, a, P, V),
           NEW k \in 1 .. Len(s), s[k] # a
    PROVE  Ahead(Drop(s, k), a, P \ {s[k]}, V)
<1> DEFINE q == Drop(s, k)
           N == Len(s)
           R == P \ {s[k]}
<1>1. N \in Nat /\ k \in 1 .. N
  OBVIOUS
<1>2. Len(q) = N - 1
  BY DropFacts
<1>3. \A i \in 1 .. N - 1 : (i < k => q[i] = s[i]) /\ (i >= k => q[i] = s[i + 1])
  BY DEF Drop
<1> HIDE DEF q, N
<1>4. \A i \in 1 .. N : (i < k => s[i] = q[i]) /\ (i > k => s[i] = q[i - 1])
  BY <1>1, <1>3
<1>5. R \subseteq Elements(q)
  <2>1. ASSUME NEW i \in 1 .. N, i # k
        PROVE  s[i] \in Elements(q)
    <3>1. CASE i < k
      BY <1>1, <1>2, <1>4, <3>1 DEF Elements
    <3>2. CASE i > k
      <4>1. i - 1 \in 1 .. Len(q) /\ s[i] = q[i - 1]
        BY <1>1, <1>2, <1>4, <3>2
      <4> QED
        BY <4>1 DEF Elements
    <3> QED
      BY <1>1, <2>1, <3>1, <3>2
  <2> QED
    BY <2>1 DEF Ahead, Elements, N
<1>6. a = Null => R \subseteq V
  BY DEF Ahead
<1>7. ASSUME a # Null
      PROVE  \E j \in 1 .. Len(q) : q[j] = a /\ \A i \in 1 .. j - 1 : q[i] \in R => q[i] \in V
  <2>1. PICK j \in 1 .. N : s[j] = a /\ \A i \in 1 .. j - 1 : s[i] \in P => s[i] \in V
    BY <1>7 DEF Ahead, N
  <2>2. CASE j < k
    <3>1. q[j] = a /\ j \in 1 .. Len(q)
      BY <1>1, <1>2, <1>4, <2>1, <2>2
    <3>2. \A i \in 1 .. j - 1 : q[i] = s[i]
      BY <1>1, <1>3, <2>2
    <3> QED
      BY <2>1, <3>1, <3>2
  <2>3. CASE j > k
    <3>1. q[j - 1] = a /\ j - 1 \in 1 .. Len(q)
      BY <1>1, <1>2, <1>4, <2>1, <2>3
    <3>2. ASSUME NEW i \in 1 .. j - 2, q[i] \in R
          PROVE  q[i] \in V
      <4>1. CASE i < k
        <5>1. q[i] = s[i] /\ i \in 1 .. j - 1
          BY <1>1, <1>3, <2>3, <4>1
        <5> QED
          BY <2>1, <3>2, <5>1
      <4>2. CASE i >= k
        <5>1. q[i] = s[i + 1] /\ i + 1 \in 1 .. j - 1
          BY <1>1, <1>3, <2>3, <4>2
        <5> QED
          BY <2>1, <3>2, <5>1
      <4> QED
        BY <1>1, <4>1, <4>2
    <3>3. \A i \in 1 .. (j - 1) - 1 : q[i] \in R => q[i] \in V
      BY <3>2
    <3> QED
      BY <3>1, <3>3
  <2> QED
    BY <1>1, <2>1, <2>2, <2>3 DEF N
<1> QED
  BY <1>5, <1>6, <1>7 DEF Ahead, q

-----------------------------------------------------------------------------
\* The nodes in the lists are allocated.
Listed == \A l \in Lists : \A i \in Positions(l) : order[l][i] \in allocated

WalkInv ==
    walked # Null =>
        /\ pos = Null => ahead = Null
        /\ pos # Null => pos # ahead
        /\ Ahead(order[walked], ahead, present, visited \cup {pos})

ListInv == Shape(order, next, prev, head, tail, length)

IInv == TypeOK /\ ListInv /\ Listed /\ WalkInv

\* Pointers of a node that is in no list do not matter.
LEMMA LooseShape ==
    ASSUME NEW o, NEW n, NEW p, NEW h, NEW t, NEW c, Shape(o, n, p, h, t, c),
           NEW m, \A j \in Lists : \A i \in 1 .. Len(o[j]) : o[j][i] # m,
           NEW n2 \in [Nodes -> Nodes \cup {Null}], NEW p2 \in [Nodes -> Nodes \cup {Null}],
           \A x \in Nodes : x # m => n2[x] = n[x] /\ p2[x] = p[x]
    PROVE  Shape(o, n2, p2, h, t, c)
<1>1. Typed(o, n2, p2, h, t, c) /\ Apart(o)
  BY DEF Shape, Typed
<1>2. ASSUME NEW l \in Lists
      PROVE  ChainedAt(o[l], n2, p2) /\ Ended(o[l], h[l], t[l], c[l])
  <2>1. ChainedAt(o[l], n, p) /\ Ended(o[l], h[l], t[l], c[l])
    BY DEF Shape
  <2>2. \A i \in 1 .. Len(o[l]) : o[l][i] \in Nodes /\ o[l][i] # m
    BY ShapeFacts
  <2> QED
    BY <2>1, <2>2 DEF ChainedAt
<1> QED
  BY <1>1, <1>2 DEF Shape

\* The lists are empty at first.
LEMMA InitHolds == Init => IInv
<1> SUFFICES ASSUME Init PROVE IInv
  OBVIOUS
<1>1. TypeOK
  BY DEF Init, TypeOK
<1>2. \A l \in Lists : order[l] = << >> /\ Len(order[l]) = 0
  BY DEF Init
<1>3. ListInv
  BY <1>1, <1>2 DEF Init, TypeOK, ListInv, Shape, Typed, Apart, ChainedAt, Ended
<1>4. Listed /\ WalkInv
  BY <1>2 DEF Init, Listed, WalkInv, Positions
<1> QED
  BY <1>1, <1>3, <1>4 DEF IInv

\* dlink_create and dlink_free: the node is in no list.
LEMMA LooseKeeps ==
    ASSUME IInv, NEW m \in Nodes, dlink_create(m) \/ dlink_free(m)
    PROVE  IInv'
<1>1. \A j \in Lists : \A i \in 1 .. Len(order[j]) : order[j][i] # m
  BY DEF IInv, Listed, Positions, dlink_create, dlink_free, Loose, Elements
<1>2. TypeOK'
  BY DEF IInv, TypeOK, dlink_create, dlink_free, list_vars, walk_vars
<1>3. \A x \in Nodes : x # m => next'[x] = next[x] /\ prev'[x] = prev[x]
  BY DEF IInv, TypeOK, dlink_create, dlink_free
<1>4. Shape(order, next', prev', head, tail, length)
  <2>1. next' \in [Nodes -> Nodes \cup {Null}] /\ prev' \in [Nodes -> Nodes \cup {Null}]
    BY <1>2 DEF TypeOK
  <2> QED
    BY <1>1, <1>3, <2>1, LooseShape DEF IInv, ListInv
<1>5. UNCHANGED <<list_vars, walk_vars>>
  BY DEF dlink_create, dlink_free
<1>6. ListInv'
  BY <1>4, <1>5 DEF ListInv, list_vars
<1>7. Listed'
  <2>1. \A j \in Lists : \A i \in 1 .. Len(order[j]) : order[j][i] \in allocated
    BY DEF IInv, Listed, Positions
  <2>2. allocated \ {m} \subseteq allocated'
    BY DEF dlink_create, dlink_free
  <2> QED
    BY <1>1, <1>5, <2>1, <2>2 DEF Listed, Positions, list_vars
<1>8. WalkInv'
  BY <1>5 DEF IInv, WalkInv, list_vars, walk_vars
<1> QED
  BY <1>2, <1>6, <1>7, <1>8 DEF IInv

\* What the three ways of adding a node have in common: the node goes to
\* position k of list l, and the walk does not move.
LEMMA InsertKeeps ==
    ASSUME IInv, TypeOK', NEW l \in Lists, NEW m \in Nodes, NEW k \in 1 .. Len(order[l]) + 1,
           Loose(m),
           order' = [order EXCEPT ![l] = Put(order[l], k, m)],
           Inserted(order, next, prev, head, tail, length,
                    next', prev', head', tail', length', l, m, k),
           UNCHANGED <<allocated, walk_vars>>
    PROVE  IInv'
<1>1. ListInv'
  BY InsertShape DEF IInv, ListInv
<1>2. /\ \A j \in Lists : order[j] \in Seq(Nodes) /\ Len(order[j]) \in Nat
      /\ order'[l] = Put(order[l], k, m)
      /\ \A j \in Lists : j # l => order'[j] = order[j]
  BY DEF IInv, TypeOK
<1>3. Listed'
  <2>1. \A j \in Lists : \A i \in 1 .. Len(order[j]) : order[j][i] \in allocated
    BY DEF IInv, Listed, Positions
  <2>2. ASSUME NEW i \in 1 .. Len(order'[l])
        PROVE  order'[l][i] \in allocated
    <3> DEFINE s == order[l]
    <3>1. s \in Seq(Nodes) /\ Len(s) \in Nat /\ m \in allocated /\ order'[l] = Put(s, k, m)
      BY <1>2 DEF Loose
    <3>2. \A x \in 1 .. Len(s) : s[x] \in allocated
      BY <2>1
    <3>3. i \in 1 .. Len(s) + 1
      BY <3>1, PutFacts
    <3>4. order'[l][i] = (IF i < k THEN s[i] ELSE IF i = k THEN m ELSE s[i - 1])
      BY <3>1, <3>3 DEF Put
    <3> HIDE DEF s
    <3>5. k \in 1 .. Len(s) + 1
      BY DEF s
    <3> QED
      BY <3>1, <3>2, <3>3, <3>4, <3>5
  <2>3. ASSUME NEW j \in Lists, NEW i \in 1 .. Len(order'[j])
        PROVE  order'[j][i] \in allocated
    BY <1>2, <2>1, <2>2, <2>3
  <2> QED
    BY <2>3 DEF Listed, Positions
<1>4. WalkInv'
  <2>1. UNCHANGED <<walked, pos, ahead, visited, present>>
    BY DEF walk_vars
  <2>2. CASE walked = l
    <3>1. m \notin Elements(order[l])
      BY DEF Loose
    <3>2. walked # Null
      BY <2>2, NullAssumption
    <3>3. Ahead(order[l], ahead, present, visited \cup {pos})
      BY <2>2, <3>2 DEF IInv, WalkInv
    <3>4. Ahead(Put(order[l], k, m), ahead, present, visited \cup {pos})
      BY <1>2, <3>1, <3>3, InsertAhead
    <3> QED
      BY <1>2, <2>1, <2>2, <3>2, <3>4 DEF IInv, WalkInv
  <2>3. CASE walked # l
    <3>1. walked # Null => walked \in Lists /\ order'[walked] = order[walked]
      BY <1>2, <2>3 DEF IInv, TypeOK
    <3> QED
      BY <2>1, <3>1 DEF IInv, WalkInv
  <2> QED
    BY <2>2, <2>3
<1> QED
  BY <1>1, <1>3, <1>4 DEF IInv

\* Facts about the list an operation works on.
LEMMA ListFacts ==
    ASSUME IInv, NEW l \in Lists
    PROVE  /\ order[l] \in Seq(Nodes) /\ Len(order[l]) \in Nat
           /\ \A i \in 1 .. Len(order[l]) : order[l][i] \in Nodes /\ order[l][i] # Null
           /\ \A i, j \in 1 .. Len(order[l]) : order[l][i] = order[l][j] => i = j
           /\ head[l] = (IF Len(order[l]) = 0 THEN Null ELSE order[l][1])
           /\ tail[l] = (IF Len(order[l]) = 0 THEN Null ELSE order[l][Len(order[l])])
           /\ head[l] = Null <=> Len(order[l]) = 0
           /\ tail[l] = Null <=> Len(order[l]) = 0
           /\ \A i \in 1 .. Len(order[l]) :
                 /\ next[order[l][i]] = (IF i = Len(order[l]) THEN Null ELSE order[l][i + 1])
                 /\ prev[order[l][i]] = (IF i = 1 THEN Null ELSE order[l][i - 1])
<1>1. Shape(order, next, prev, head, tail, length)
  BY DEF IInv, ListInv
<1>2. /\ order[l] \in Seq(Nodes) /\ Len(order[l]) \in Nat
      /\ \A i \in 1 .. Len(order[l]) : order[l][i] \in Nodes /\ order[l][i] # Null
      /\ \A i, j \in 1 .. Len(order[l]) : order[l][i] = order[l][j] => i = j
      /\ head[l] = Null <=> Len(order[l]) = 0
      /\ tail[l] = Null <=> Len(order[l]) = 0
  BY <1>1, ShapeFacts
<1>3. ChainedAt(order[l], next, prev) /\ Ended(order[l], head[l], tail[l], length[l])
  BY <1>1 DEF Shape
<1>4. /\ head[l] = (IF Len(order[l]) = 0 THEN Null ELSE order[l][1])
      /\ tail[l] = (IF Len(order[l]) = 0 THEN Null ELSE order[l][Len(order[l])])
  BY <1>3 DEF Ended
<1>5. \A i \in 1 .. Len(order[l]) :
          /\ next[order[l][i]] = (IF i = Len(order[l]) THEN Null ELSE order[l][i + 1])
          /\ prev[order[l][i]] = (IF i = 1 THEN Null ELSE order[l][i - 1])
  BY <1>3 DEF ChainedAt
<1> QED
  BY <1>2, <1>4, <1>5

\* dlink_add: position 1.
LEMMA AddKeeps ==
    ASSUME IInv, NEW m \in Nodes, NEW v \in Values, NEW l \in Lists, dlink_add(v, m, l)
    PROVE  IInv'
<1> DEFINE s == order[l]
           N == Len(s)
<1>1. /\ s \in Seq(Nodes) /\ N \in Nat
      /\ head[l] = (IF N = 0 THEN Null ELSE s[1])
      /\ tail[l] = (IF N = 0 THEN Null ELSE s[N])
      /\ head[l] = Null <=> N = 0
      /\ tail[l] = Null <=> N = 0
  BY ListFacts
<1>2. Put(s, 1, m) \in Seq(Nodes)
  BY <1>1, PutFacts
<1>3. order' = [order EXCEPT ![l] = Put(order[l], 1, m)]
  BY DEF dlink_add
<1>4. TypeOK'
  <2>1. next' \in [Nodes -> Nodes \cup {Null}] /\ prev' \in [Nodes -> Nodes \cup {Null}]
    BY DEF IInv, TypeOK, dlink_add, Assign
  <2>2. /\ head' \in [Lists -> Nodes \cup {Null}] /\ tail' \in [Lists -> Nodes \cup {Null}]
        /\ length' \in [Lists -> Nat] /\ data' \in [Nodes -> Values \cup {Null}]
    BY DEF IInv, TypeOK, dlink_add
  <2>3. order' \in [Lists -> Seq(Nodes)]
    BY <1>2, <1>3 DEF IInv, TypeOK
  <2>4. UNCHANGED <<allocated, walk_vars>>
    BY DEF dlink_add
  <2> QED
    BY <2>1, <2>2, <2>3, <2>4 DEF IInv, TypeOK, walk_vars
<1>5. Typed([order EXCEPT ![l] = Put(order[l], 1, m)], next', prev', head', tail', length')
  BY <1>3, <1>4 DEF TypeOK, Typed
<1>6. \A j \in Lists : \A i \in 1 .. Len(order[j]) : order[j][i] # m
  BY DEF dlink_add, Loose, Elements
<1>7. /\ next'[m] = head[l] /\ \A x \in Nodes : x # m => next'[x] = next[x]
      /\ head[l] # m
  BY <1>1, <1>6, NullAssumption DEF IInv, TypeOK, dlink_add
<1>8. /\ prev'[m] = Null
      /\ \A x \in Nodes : x # m => prev'[x] = (IF x = head[l] THEN m ELSE prev[x])
  BY <1>7, NullAssumption DEF IInv, TypeOK, dlink_add, Assign
<1>9. /\ head'[l] = m /\ length'[l] = length[l] + 1
      /\ tail'[l] = (IF N = 0 THEN m ELSE tail[l])
      /\ \A j \in Lists : j # l => head'[j] = head[j] /\ tail'[j] = tail[j] /\ length'[j] = length[j]
  BY <1>1 DEF IInv, TypeOK, dlink_add
<1>10. Inserted(order, next, prev, head, tail, length, next', prev', head', tail', length', l, m, 1)
  <2>1. 1 \in 1 .. N + 1
    BY <1>1
  <2>2. next'[m] = (IF 1 = N + 1 THEN Null ELSE s[1])
    BY <1>1, <1>7
  <2>3. \A x \in Nodes : x # m => prev'[x] = (IF 1 <= N /\ x = s[1] THEN m ELSE prev[x])
    BY <1>1, <1>8, NullAssumption
  <2>4. tail'[l] = (IF 1 = N + 1 THEN m ELSE tail[l])
    BY <1>1, <1>9
  <2> QED
    BY <1>5, <1>6, <1>7, <1>8, <1>9, <2>1, <2>2, <2>3, <2>4 DEF Inserted
<1>11. Loose(m) /\ UNCHANGED <<allocated, walk_vars>> /\ 1 \in 1 .. Len(order[l]) + 1
  BY <1>1 DEF dlink_add
<1> QED
  BY <1>3, <1>4, <1>10, <1>11, InsertKeeps

\* dlink_add_tail: one past the end.
LEMMA AddTailKeeps ==
    ASSUME IInv, NEW m \in Nodes, NEW v \in Values, NEW l \in Lists, dlink_add_tail(v, m, l)
    PROVE  IInv'
<1> DEFINE s == order[l]
           N == Len(s)
           k == N + 1
<1>1. /\ s \in Seq(Nodes) /\ N \in Nat
      /\ head[l] = (IF N = 0 THEN Null ELSE s[1])
      /\ tail[l] = (IF N = 0 THEN Null ELSE s[N])
      /\ head[l] = Null <=> N = 0
      /\ tail[l] = Null <=> N = 0
  BY ListFacts
<1>2. k \in 1 .. N + 1 /\ Put(s, k, m) \in Seq(Nodes)
  <2>1. k \in 1 .. N + 1
    BY <1>1
  <2> HIDE DEF k
  <2> QED
    BY <1>1, <2>1, PutFacts
<1>3. order' = [order EXCEPT ![l] = Put(order[l], k, m)]
  BY DEF dlink_add_tail
<1>4. TypeOK'
  <2>1. next' \in [Nodes -> Nodes \cup {Null}] /\ prev' \in [Nodes -> Nodes \cup {Null}]
    BY DEF IInv, TypeOK, dlink_add_tail, Assign
  <2>2. /\ head' \in [Lists -> Nodes \cup {Null}] /\ tail' \in [Lists -> Nodes \cup {Null}]
        /\ length' \in [Lists -> Nat] /\ data' \in [Nodes -> Values \cup {Null}]
    BY DEF IInv, TypeOK, dlink_add_tail
  <2>3. order' \in [Lists -> Seq(Nodes)]
    BY <1>2, <1>3 DEF IInv, TypeOK
  <2>4. UNCHANGED <<allocated, walk_vars>>
    BY DEF dlink_add_tail
  <2> QED
    BY <2>1, <2>2, <2>3, <2>4 DEF IInv, TypeOK, walk_vars
<1>5. Typed([order EXCEPT ![l] = Put(order[l], k, m)], next', prev', head', tail', length')
  BY <1>3, <1>4 DEF TypeOK, Typed
<1>6. \A j \in Lists : \A i \in 1 .. Len(order[j]) : order[j][i] # m
  BY DEF dlink_add_tail, Loose, Elements
<1>7. /\ prev'[m] = tail[l] /\ \A x \in Nodes : x # m => prev'[x] = prev[x]
      /\ tail[l] # m
  BY <1>1, <1>6, NullAssumption DEF IInv, TypeOK, dlink_add_tail
<1>8. /\ next'[m] = Null
      /\ \A x \in Nodes : x # m => next'[x] = (IF x = tail[l] THEN m ELSE next[x])
  BY <1>1, <1>7, NullAssumption DEF IInv, TypeOK, dlink_add_tail, Assign
<1>9. /\ tail'[l] = m /\ length'[l] = length[l] + 1
      /\ head'[l] = (IF N = 0 THEN m ELSE head[l])
      /\ \A j \in Lists : j # l => head'[j] = head[j] /\ tail'[j] = tail[j] /\ length'[j] = length[j]
  BY <1>1 DEF IInv, TypeOK, dlink_add_tail
<1>10. Inserted(order, next, prev, head, tail, length, next', prev', head', tail', length', l, m, k)
  <2>1. prev'[m] = (IF k = 1 THEN Null ELSE s[k - 1])
    BY <1>1, <1>7
  <2>2. \A x \in Nodes : x # m => next'[x] = (IF k > 1 /\ x = s[k - 1] THEN m ELSE next[x])
    BY <1>1, <1>8, NullAssumption
  <2>3. head'[l] = (IF k = 1 THEN m ELSE head[l])
    BY <1>1, <1>9
  <2>4. \A x \in Nodes : x # m => prev'[x] = (IF k <= N /\ x = s[k] THEN m ELSE prev[x])
    BY <1>1, <1>7
  <2> QED
    BY <1>2, <1>5, <1>6, <1>8, <1>9, <2>1, <2>2, <2>3, <2>4 DEF Inserted
<1>11. Loose(m) /\ UNCHANGED <<allocated, walk_vars>> /\ k \in 1 .. Len(order[l]) + 1
  BY <1>2 DEF dlink_add_tail
<1> QED
  BY <1>3, <1>4, <1>10, <1>11, InsertKeeps

\* dlink_add_before: the position of the node it is put before.
LEMMA AddBeforeKeeps ==
    ASSUME IInv, NEW m \in Nodes, NEW v \in Values, NEW l \in Lists,
           NEW k \in Positions(l), dlink_add_before(k, v, m, l)
    PROVE  IInv'
<1> DEFINE s == order[l]
           N == Len(s)
           b == s[k]
<1>1. /\ s \in Seq(Nodes) /\ N \in Nat /\ k \in 1 .. N
      /\ \A i \in 1 .. N : s[i] \in Nodes
      /\ \A i, j \in 1 .. N : s[i] = s[j] => i = j
      /\ head[l] = s[1]
  BY ListFacts DEF Positions
<1>2. k > 1 /\ k - 1 \in 1 .. N /\ b \in Nodes
  BY <1>1 DEF dlink_add_before
<1>3. prev[b] = s[k - 1] /\ s[k - 1] \in Nodes
  BY <1>1, <1>2, ListFacts
<1>4. k \in 1 .. N + 1 /\ Put(s, k, m) \in Seq(Nodes)
  BY <1>1, PutFacts
<1>5. order' = [order EXCEPT ![l] = Put(order[l], k, m)]
  BY DEF dlink_add_before
<1>6. TypeOK'
  <2>1. next' \in [Nodes -> Nodes \cup {Null}] /\ prev' \in [Nodes -> Nodes \cup {Null}]
    BY <1>1, <1>3 DEF IInv, TypeOK, dlink_add_before
  <2>2. /\ head' \in [Lists -> Nodes \cup {Null}] /\ tail' \in [Lists -> Nodes \cup {Null}]
        /\ length' \in [Lists -> Nat] /\ data' \in [Nodes -> Values \cup {Null}]
    BY DEF IInv, TypeOK, dlink_add_before
  <2>3. order' \in [Lists -> Seq(Nodes)]
    BY <1>4, <1>5 DEF IInv, TypeOK
  <2>4. UNCHANGED <<allocated, walk_vars>>
    BY DEF dlink_add_before
  <2> QED
    BY <2>1, <2>2, <2>3, <2>4 DEF IInv, TypeOK, walk_vars
<1>7. Typed([order EXCEPT ![l] = Put(order[l], k, m)], next', prev', head', tail', length')
  BY <1>5, <1>6 DEF TypeOK, Typed
<1>8. \A j \in Lists : \A i \in 1 .. Len(order[j]) : order[j][i] # m
  BY DEF dlink_add_before, Loose, Elements
<1>9. /\ next'[m] = b
      /\ \A x \in Nodes : x # m => next'[x] = (IF x = s[k - 1] THEN m ELSE next[x])
  BY <1>3 DEF IInv, TypeOK, dlink_add_before
<1>10. /\ prev'[m] = s[k - 1]
       /\ \A x \in Nodes : x # m => prev'[x] = (IF x = b THEN m ELSE prev[x])
  <2>1. b # m
    BY <1>1, <1>8
  <2> QED
    BY <1>2, <1>3, <2>1 DEF IInv, TypeOK, dlink_add_before
<1>11. /\ head' = head /\ tail' = tail /\ length'[l] = length[l] + 1
       /\ \A j \in Lists : j # l => length'[j] = length[j]
  BY DEF IInv, TypeOK, dlink_add_before
<1>12. Inserted(order, next, prev, head, tail, length, next', prev', head', tail', length', l, m, k)
  <2>1. next'[m] = (IF k = N + 1 THEN Null ELSE s[k]) /\ prev'[m] = (IF k = 1 THEN Null ELSE s[k - 1])
    BY <1>1, <1>2, <1>9, <1>10
  <2>2. \A x \in Nodes : x # m => next'[x] = (IF k > 1 /\ x = s[k - 1] THEN m ELSE next[x])
    BY <1>2, <1>9
  <2>3. \A x \in Nodes : x # m => prev'[x] = (IF k <= N /\ x = s[k] THEN m ELSE prev[x])
    BY <1>1, <1>10
  <2>4. head'[l] = (IF k = 1 THEN m ELSE head[l]) /\ tail'[l] = (IF k = N + 1 THEN m ELSE tail[l])
    BY <1>1, <1>2, <1>11
  <2> QED
    BY <1>4, <1>7, <1>8, <1>11, <2>1, <2>2, <2>3, <2>4 DEF Inserted
<1>13. Loose(m) /\ UNCHANGED <<allocated, walk_vars>> /\ k \in 1 .. Len(order[l]) + 1
  BY <1>4 DEF dlink_add_before
<1> QED
  BY <1>5, <1>6, <1>12, <1>13, InsertKeeps

\* What the pointers are when the k-th node has been taken out of a list.
LEMMA WithoutFacts ==
    ASSUME IInv, NEW l \in Lists, NEW k \in 1 .. Len(order[l]), NEW m, m = order[l][k]
    PROVE  /\ m \in Nodes
           /\ Drop(order[l], k) \in Seq(Nodes)
           /\ NextWithout(m) \in [Nodes -> Nodes \cup {Null}]
           /\ PrevWithout(m) \in [Nodes -> Nodes \cup {Null}]
           /\ HeadWithout(m, l) \in [Lists -> Nodes \cup {Null}]
           /\ TailWithout(m, l) \in [Lists -> Nodes \cup {Null}]
           /\ [length EXCEPT ![l] = @ - 1] \in [Lists -> Nat]
           /\ \A x \in Nodes : x # m =>
                 NextWithout(m)[x] = (IF k > 1 /\ x = order[l][k - 1] THEN next[m] ELSE next[x])
           /\ \A x \in Nodes : x # m =>
                 PrevWithout(m)[x] =
                    (IF k < Len(order[l]) /\ x = order[l][k + 1] THEN prev[m] ELSE prev[x])
           /\ HeadWithout(m, l)[l] = (IF k = 1 THEN next[m] ELSE head[l])
           /\ TailWithout(m, l)[l] = (IF k = Len(order[l]) THEN prev[m] ELSE tail[l])
           /\ \A j \in Lists : j # l =>
                 HeadWithout(m, l)[j] = head[j] /\ TailWithout(m, l)[j] = tail[j]
<1> DEFINE s == order[l]
           N == Len(s)
<1>1. /\ s \in Seq(Nodes) /\ N \in Nat /\ k \in 1 .. N
      /\ \A i \in 1 .. N : s[i] \in Nodes /\ s[i] # Null
  BY ListFacts
<1>2. m \in Nodes /\ m = s[k]
  BY <1>1
<1>3. /\ next[m] = (IF k = N THEN Null ELSE s[k + 1])
      /\ prev[m] = (IF k = 1 THEN Null ELSE s[k - 1])
  BY <1>1, ListFacts
<1>4. Drop(s, k) \in Seq(Nodes)
  BY <1>1, DropFacts
<1>5. length[l] = N
  BY DEF IInv, ListInv, Shape, Ended
<1>6. TypeOK
  BY DEF IInv
<1> HIDE DEF s, N
<1>7. /\ k > 1 => s[k - 1] \in Nodes /\ s[k - 1] # Null
      /\ k < N => s[k + 1] \in Nodes /\ s[k + 1] # Null
  BY <1>1
<1>8. next[m] \in Nodes \cup {Null} /\ prev[m] \in Nodes \cup {Null}
  BY <1>2, <1>6 DEF TypeOK
<1>9. (prev[m] = Null <=> k = 1) /\ (next[m] = Null <=> k = N)
  BY <1>1, <1>3, <1>7
<1>10. NextWithout(m) \in [Nodes -> Nodes \cup {Null}] /\ PrevWithout(m) \in [Nodes -> Nodes \cup {Null}]
  BY <1>2, <1>6, <1>8 DEF NextWithout, PrevWithout, Assign, TypeOK
<1>11. /\ HeadWithout(m, l) \in [Lists -> Nodes \cup {Null}]
       /\ TailWithout(m, l) \in [Lists -> Nodes \cup {Null}]
       /\ [length EXCEPT ![l] = @ - 1] \in [Lists -> Nat]
  BY <1>1, <1>5, <1>6, <1>8 DEF HeadWithout, TailWithout, TypeOK
<1>12. \A x \in Nodes : NextWithout(m)[x] = (IF k > 1 /\ x = s[k - 1] THEN next[m] ELSE next[x])
  BY <1>1, <1>3, <1>6, <1>7, <1>9 DEF NextWithout, Assign, TypeOK
<1>13. \A x \in Nodes : PrevWithout(m)[x] = (IF k < N /\ x = s[k + 1] THEN prev[m] ELSE prev[x])
  BY <1>1, <1>3, <1>6, <1>7, <1>9 DEF PrevWithout, Assign, TypeOK
<1>14. /\ HeadWithout(m, l)[l] = (IF k = 1 THEN next[m] ELSE head[l])
       /\ TailWithout(m, l)[l] = (IF k = N THEN prev[m] ELSE tail[l])
       /\ \A j \in Lists : j # l => HeadWithout(m, l)[j] = head[j] /\ TailWithout(m, l)[j] = tail[j]
  BY <1>6, <1>9 DEF HeadWithout, TailWithout, TypeOK
<1> QED
  BY <1>2, <1>4, <1>10, <1>11, <1>12, <1>13, <1>14 DEF s, N

\* The walk and the allocation when a node is taken out.
LEMMA RemoveKeepsRest ==
    ASSUME IInv, NEW l \in Lists, NEW k \in 1 .. Len(order[l]), NEW m, m = order[l][k],
           MayRemove(m, l), NEW o,
           o = [order EXCEPT ![l] = Drop(order[l], k)]
    PROVE  /\ \A j \in Lists : \A i \in 1 .. Len(o[j]) : o[j][i] \in allocated
           /\ walked # Null => Ahead(o[walked], ahead, present \ {m}, visited \cup {pos})
<1>1. /\ \A j \in Lists : order[j] \in Seq(Nodes) /\ Len(order[j]) \in Nat
      /\ o[l] = Drop(order[l], k)
      /\ \A j \in Lists : j # l => o[j] = order[j]
  BY DEF IInv, TypeOK
<1>2. \A j \in Lists : \A i \in 1 .. Len(order[j]) : order[j][i] \in allocated
  BY DEF IInv, Listed, Positions
<1>3. ASSUME NEW i \in 1 .. Len(o[l])
      PROVE  o[l][i] \in allocated
  <2> DEFINE s == order[l]
  <2>1. s \in Seq(Nodes) /\ Len(s) \in Nat /\ k \in 1 .. Len(s)
    BY <1>1
  <2>2. \A x \in 1 .. Len(s) : s[x] \in allocated
    BY <1>2
  <2>3. i \in 1 .. Len(s) - 1
    BY <1>1, <2>1, DropFacts
  <2>4. o[l][i] = (IF i < k THEN s[i] ELSE s[i + 1])
    BY <1>1, <2>3 DEF Drop
  <2> HIDE DEF s
  <2> QED
    BY <2>1, <2>2, <2>3, <2>4
<1>4. ASSUME NEW j \in Lists, NEW i \in 1 .. Len(o[j])
      PROVE  o[j][i] \in allocated
  BY <1>1, <1>2, <1>3, <1>4
<1>5. ASSUME walked # Null
      PROVE  Ahead(o[walked], ahead, present \ {m}, visited \cup {pos})
  <2>1. /\ walked \in Lists
        /\ Ahead(order[walked], ahead, present, visited \cup {pos})
        /\ pos # Null => pos # ahead
    BY <1>5 DEF IInv, TypeOK, WalkInv
  <2>2. CASE walked = l
    <3>1. m \in Nodes /\ m # Null /\ m = pos
      BY <2>2, ListFacts DEF MayRemove
    <3>2. order[l][k] # ahead
      BY <2>1, <3>1
    <3>3. Ahead(Drop(order[l], k), ahead, present \ {order[l][k]}, visited \cup {pos})
      BY <1>1, <2>1, <2>2, <3>2, RemoveAhead
    <3> QED
      BY <1>1, <2>2, <3>3
  <2>3. CASE walked # l
    BY <1>1, <2>1, <2>3 DEF Ahead
  <2> QED
    BY <2>2, <2>3
<1> QED
  BY <1>4, <1>5

\* dlink_delete and dlink_find_delete, which differ in what is left in the node.
LEMMA DeleteKeeps ==
    ASSUME IInv, NEW l \in Lists, NEW k \in Positions(l),
           dlink_delete(k, l) \/ \E v \in Values : dlink_find_delete(k, v, l)
    PROVE  IInv'
<1> DEFINE m == order[l][k]
<1>1. k \in 1 .. Len(order[l])
  BY DEF Positions
<1>2. /\ m \in Nodes
      /\ Drop(order[l], k) \in Seq(Nodes)
      /\ NextWithout(m) \in [Nodes -> Nodes \cup {Null}]
      /\ PrevWithout(m) \in [Nodes -> Nodes \cup {Null}]
      /\ HeadWithout(m, l) \in [Lists -> Nodes \cup {Null}]
      /\ TailWithout(m, l) \in [Lists -> Nodes \cup {Null}]
      /\ [length EXCEPT ![l] = @ - 1] \in [Lists -> Nat]
  BY <1>1, WithoutFacts
<1>3. /\ head' = HeadWithout(m, l) /\ tail' = TailWithout(m, l)
      /\ length' = [length EXCEPT ![l] = @ - 1]
      /\ order' = [order EXCEPT ![l] = Drop(order[l], k)]
      /\ MayRemove(m, l) /\ Stay(m)
      /\ UNCHANGED <<data, allocated>>
  BY DEF dlink_delete, dlink_find_delete
<1>4. /\ next' \in [Nodes -> Nodes \cup {Null}] /\ prev' \in [Nodes -> Nodes \cup {Null}]
      /\ \A x \in Nodes : x # m => next'[x] = NextWithout(m)[x] /\ prev'[x] = PrevWithout(m)[x]
  BY <1>2 DEF dlink_delete, dlink_find_delete
<1> HIDE DEF m
<1>5. TypeOK'
  <2>1. order' \in [Lists -> Seq(Nodes)]
    BY <1>2, <1>3 DEF IInv, TypeOK
  <2>2. head' \in [Lists -> Nodes \cup {Null}] /\ tail' \in [Lists -> Nodes \cup {Null}] /\ length' \in [Lists -> Nat]
    BY <1>2, <1>3
  <2> QED
    BY <1>3, <1>4, <2>1, <2>2 DEF IInv, TypeOK, Stay
<1>6. ListInv'
  <2>1. Typed([order EXCEPT ![l] = Drop(order[l], k)], next', prev', head', tail', length')
    BY <1>3, <1>5 DEF TypeOK, Typed
  <2>2. m = order[l][k]
    BY DEF m
  <2>3. /\ \A x \in Nodes : x # m =>
              next'[x] = (IF k > 1 /\ x = order[l][k - 1] THEN next[m] ELSE next[x])
        /\ \A x \in Nodes : x # m =>
              prev'[x] = (IF k < Len(order[l]) /\ x = order[l][k + 1] THEN prev[m] ELSE prev[x])
    BY <1>1, <1>4, <2>2, WithoutFacts
  <2>4. /\ head'[l] = (IF k = 1 THEN next[m] ELSE head[l])
        /\ tail'[l] = (IF k = Len(order[l]) THEN prev[m] ELSE tail[l])
        /\ \A j \in Lists : j # l => head'[j] = head[j] /\ tail'[j] = tail[j]
    BY <1>1, <1>3, <2>2, WithoutFacts
  <2>5. length'[l] = length[l] - 1 /\ \A j \in Lists : j # l => length'[j] = length[j]
    BY <1>3 DEF IInv, TypeOK
  <2>6. Removed(order, next, prev, head, tail, length, next', prev', head', tail', length', l, m, k)
    BY <1>1, <2>1, <2>2, <2>3, <2>4, <2>5 DEF Removed
  <2> QED
    BY <1>3, <2>6, RemoveShape DEF IInv, ListInv
<1>7. Listed' /\ WalkInv'
  <2>1. /\ \A j \in Lists : \A i \in 1 .. Len(order'[j]) : order'[j][i] \in allocated
        /\ walked # Null => Ahead(order'[walked], ahead, present \ {m}, visited \cup {pos})
    BY <1>1, <1>3, RemoveKeepsRest DEF m
  <2> QED
    BY <1>3, <2>1 DEF Listed, Positions, WalkInv, Stay, IInv
<1> QED
  BY <1>5, <1>6, <1>7 DEF IInv

\* dlink_move: out of one list, then to the head of another.
LEMMA MoveKeeps ==
    ASSUME IInv, NEW old \in Lists, NEW k \in Positions(old), NEW new \in Lists,
           dlink_move(k, old, new)
    PROVE  IInv'
<1> DEFINE m == order[old][k]
           o1 == [order EXCEPT ![old] = Drop(order[old], k)]
           n1 == NextWithout(m)
           p1 == PrevWithout(m)
           h1 == HeadWithout(m, old)
           t1 == TailWithout(m, old)
           c1 == [length EXCEPT ![old] = @ - 1]
<1>1. k \in 1 .. Len(order[old]) /\ old # new /\ MayRemove(m, old) /\ Stay(m)
  BY DEF Positions, dlink_move
<1>2. /\ m \in Nodes
      /\ Drop(order[old], k) \in Seq(Nodes)
      /\ n1 \in [Nodes -> Nodes \cup {Null}]
      /\ p1 \in [Nodes -> Nodes \cup {Null}]
      /\ h1 \in [Lists -> Nodes \cup {Null}]
      /\ t1 \in [Lists -> Nodes \cup {Null}]
      /\ c1 \in [Lists -> Nat]
  BY <1>1, WithoutFacts
<1>3. o1 \in [Lists -> Seq(Nodes)] /\ o1[new] = order[new] /\ o1[old] = Drop(order[old], k)
      /\ \A j \in Lists : j # old => o1[j] = order[j]
  BY <1>1, <1>2 DEF IInv, TypeOK
<1>4. /\ \A x \in Nodes : x # m =>
            n1[x] = (IF k > 1 /\ x = order[old][k - 1] THEN next[m] ELSE next[x])
      /\ \A x \in Nodes : x # m =>
            p1[x] = (IF k < Len(order[old]) /\ x = order[old][k + 1] THEN prev[m] ELSE prev[x])
      /\ h1[old] = (IF k = 1 THEN next[m] ELSE head[old])
      /\ t1[old] = (IF k = Len(order[old]) THEN prev[m] ELSE tail[old])
      /\ \A j \in Lists : j # old => h1[j] = head[j] /\ t1[j] = tail[j]
  BY <1>1, WithoutFacts
<1>5. c1[old] = length[old] - 1 /\ \A j \in Lists : j # old => c1[j] = length[j]
  BY DEF IInv, TypeOK
<1>6. /\ next' = [n1 EXCEPT ![m] = head[new]]
      /\ prev' = Assign([p1 EXCEPT ![m] = Null], head[new], m)
      /\ head' = [h1 EXCEPT ![new] = m]
      /\ tail' = IF head[new] = Null /\ tail[new] = Null THEN [t1 EXCEPT ![new] = m] ELSE t1
      /\ length' = [c1 EXCEPT ![new] = length[new] + 1]
      /\ order' = [o1 EXCEPT ![new] = Put(order[new], 1, m)]
      /\ UNCHANGED <<data, allocated>>
  BY <1>1 DEF dlink_move, IInv, TypeOK
<1>7. m = order[old][k]
  OBVIOUS
<1>8. /\ order[new] \in Seq(Nodes) /\ Len(order[new]) \in Nat
      /\ head[new] = (IF Len(order[new]) = 0 THEN Null ELSE order[new][1])
      /\ head[new] = Null <=> Len(order[new]) = 0
      /\ tail[new] = Null <=> Len(order[new]) = 0
  BY ListFacts
<1>9. /\ \A j \in Lists : \A i \in 1 .. Len(o1[j]) : o1[j][i] \in allocated
      /\ walked # Null => Ahead(o1[walked], ahead, present \ {m}, visited \cup {pos})
  BY <1>1, RemoveKeepsRest
<1>10. order[old][k] \in allocated
  BY <1>1 DEF IInv, Listed, Positions
<1> HIDE DEF m, n1, p1, h1, t1, c1
<1>11. Shape(o1, n1, p1, h1, t1, c1) /\ \A i \in 1 .. Len(order[old]) - 1 : Drop(order[old], k)[i] # m
  <2>1. Typed(o1, n1, p1, h1, t1, c1)
    BY <1>2, <1>3 DEF Typed
  <2>2. Removed(order, next, prev, head, tail, length, n1, p1, h1, t1, c1, old, m, k)
    BY <1>1, <1>4, <1>5, <1>7, <2>1 DEF Removed
  <2> QED
    BY <2>2, RemoveShape DEF IInv, ListInv
<1>12. \A j \in Lists : \A i \in 1 .. Len(o1[j]) : o1[j][i] # m
  <2>1. Len(Drop(order[old], k)) = Len(order[old]) - 1
    <3>1. order[old] \in Seq(Nodes)
      BY ListFacts
    <3> QED
      BY <1>1, <3>1, DropFacts
  <2>2. ASSUME NEW j \in Lists, j # old, NEW i \in 1 .. Len(order[j])
        PROVE  order[j][i] # m
    BY <1>1, <1>7, <2>2 DEF IInv, ListInv, Shape, Apart
  <2>3. ASSUME NEW j \in Lists, NEW i \in 1 .. Len(o1[j])
        PROVE  o1[j][i] # m
    <3>1. CASE j = old
      BY <1>3, <1>11, <2>1, <2>3, <3>1
    <3>2. CASE j # old
      BY <1>3, <2>2, <2>3, <3>2
    <3> QED
      BY <3>1, <3>2
  <2> QED
    BY <2>3
<1> HIDE DEF o1
<1>13. Put(order[new], 1, m) \in Seq(Nodes)
  BY <1>2, <1>8, PutFacts
<1>14. TypeOK'
  <2>1. head[new] \in Nodes \cup {Null} /\ length[new] \in Nat
    BY DEF IInv, TypeOK
  <2>2. next' \in [Nodes -> Nodes \cup {Null}] /\ prev' \in [Nodes -> Nodes \cup {Null}]
    BY <1>2, <1>6, <2>1 DEF Assign
  <2>3. head' \in [Lists -> Nodes \cup {Null}] /\ tail' \in [Lists -> Nodes \cup {Null}] /\ length' \in [Lists -> Nat]
    BY <1>2, <1>6, <2>1
  <2>4. order' \in [Lists -> Seq(Nodes)]
    BY <1>3, <1>6, <1>13
  <2> QED
    BY <1>1, <1>6, <2>2, <2>3, <2>4 DEF IInv, TypeOK, Stay
<1>15. ListInv'
  <2>1. order' = [o1 EXCEPT ![new] = Put(o1[new], 1, m)]
    BY <1>3, <1>6
  <2>2. Typed([o1 EXCEPT ![new] = Put(o1[new], 1, m)], next', prev', head', tail', length')
    BY <1>14, <2>1 DEF TypeOK, Typed
  <2>3. 1 \in 1 .. Len(o1[new]) + 1
    BY <1>3, <1>8
  <2>4. head[new] # m
    <3>1. CASE Len(order[new]) = 0
      BY <1>2, <1>8, <3>1, NullAssumption
    <3>2. CASE Len(order[new]) > 0
      BY <1>3, <1>8, <1>12, <3>2
    <3> QED
      BY <1>8, <3>1, <3>2
  <2>5. /\ next'[m] = (IF 1 = Len(o1[new]) + 1 THEN Null ELSE o1[new][1])
        /\ \A x \in Nodes : x # m => next'[x] = n1[x]
    <3>1. next'[m] = head[new] /\ \A x \in Nodes : x # m => next'[x] = n1[x]
      BY <1>2, <1>6
    <3> QED
      BY <1>3, <1>8, <3>1
  <2>6. /\ prev'[m] = Null
        /\ \A x \in Nodes : x # m => prev'[x] = (IF 1 <= Len(o1[new]) /\ x = o1[new][1] THEN m ELSE p1[x])
    <3>1. /\ prev'[m] = Null
          /\ \A x \in Nodes : x # m => prev'[x] = (IF x = head[new] THEN m ELSE p1[x])
      BY <1>2, <1>6, <2>4, NullAssumption DEF Assign
    <3> QED
      BY <1>3, <1>8, <3>1, NullAssumption
  <2>7. /\ head'[new] = m /\ length'[new] = c1[new] + 1
        /\ tail'[new] = (IF 1 = Len(o1[new]) + 1 THEN m ELSE t1[new])
        /\ \A j \in Lists : j # new => head'[j] = h1[j] /\ tail'[j] = t1[j] /\ length'[j] = c1[j]
    BY <1>1, <1>2, <1>3, <1>5, <1>6, <1>8
  <2>8. Inserted(o1, n1, p1, h1, t1, c1, next', prev', head', tail', length', new, m, 1)
    BY <1>2, <1>12, <2>2, <2>3, <2>5, <2>6, <2>7 DEF Inserted
  <2> QED
    BY <1>11, <2>1, <2>8, InsertShape DEF ListInv
<1>16. /\ order'[new] = Put(order[new], 1, m)
       /\ \A j \in Lists : j # new => order'[j] = o1[j]
  BY <1>3, <1>6
<1>17. Listed'
  <2>1. ASSUME NEW i \in 1 .. Len(order'[new])
        PROVE  order'[new][i] \in allocated
    <3> DEFINE s == order[new]
    <3>1. s \in Seq(Nodes) /\ Len(s) \in Nat /\ m \in allocated /\ order'[new] = Put(s, 1, m)
      BY <1>7, <1>8, <1>10, <1>16
    <3>2. \A x \in 1 .. Len(s) : s[x] \in allocated
      BY <1>3, <1>9
    <3>3. 1 \in 1 .. Len(s) + 1
      BY <3>1
    <3>4. i \in 1 .. Len(s) + 1
      BY <1>2, <3>1, <3>3, PutFacts
    <3>5. order'[new][i] = (IF i = 1 THEN m ELSE s[i - 1])
      BY <3>1, <3>4 DEF Put
    <3> HIDE DEF s
    <3> QED
      BY <3>1, <3>2, <3>4, <3>5
  <2>2. ASSUME NEW j \in Lists, NEW i \in 1 .. Len(order'[j])
        PROVE  order'[j][i] \in allocated
    BY <1>9, <1>16, <2>1, <2>2
  <2> QED
    BY <1>6, <2>2 DEF Listed, Positions
<1>18. WalkInv'
  <2> SUFFICES ASSUME walked # Null
               PROVE  Ahead(order'[walked], ahead, present \ {m}, visited \cup {pos})
    BY <1>1 DEF IInv, WalkInv, Stay
  <2>1. walked \in Lists /\ Ahead(o1[walked], ahead, present \ {m}, visited \cup {pos})
    BY <1>9 DEF IInv, TypeOK
  <2>2. CASE walked = new
    <3>1. m \notin Elements(order[new])
      BY <1>3, <1>12 DEF Elements
    <3>2. 1 \in 1 .. Len(order[new]) + 1
      BY <1>8
    <3> QED
      BY <1>2, <1>3, <1>8, <1>16, <2>1, <2>2, <3>1, <3>2, InsertAhead
  <2>3. CASE walked # new
    BY <1>16, <2>1, <2>3
  <2> QED
    BY <2>2, <2>3
<1> QED
  BY <1>14, <1>15, <1>17, <1>18 DEF IInv

\* The steps of DLINK_FOREACH_SAFE.
LEMMA WalkKeeps ==
    ASSUME IInv, WalkNext \/ WalkEnd \/ \E l \in Lists : WalkStart(l)
    PROVE  IInv'
<1>1. UNCHANGED <<node_vars, list_vars, allocated>>
  BY DEF WalkNext, WalkEnd, WalkStart
<1>2. ListInv' /\ Listed'
  BY <1>1 DEF IInv, ListInv, Listed, Positions, node_vars, list_vars
<1>3. CASE WalkEnd
  <2>1. TypeOK'
    BY <1>1, <1>3 DEF IInv, TypeOK, WalkEnd, node_vars, list_vars
  <2>2. WalkInv'
    BY <1>3 DEF WalkInv, WalkEnd
  <2> QED
    BY <1>2, <2>1, <2>2 DEF IInv
<1>4. ASSUME NEW l \in Lists, WalkStart(l)
      PROVE  IInv'
  <2> DEFINE s == order[l]
             N == Len(s)
  <2>1. /\ s \in Seq(Nodes) /\ N \in Nat
        /\ \A i \in 1 .. N : s[i] \in Nodes /\ s[i] # Null
        /\ \A i, j \in 1 .. N : s[i] = s[j] => i = j
        /\ head[l] = (IF N = 0 THEN Null ELSE s[1])
    BY ListFacts
  <2>2. \A i \in 1 .. N : next[s[i]] = (IF i = N THEN Null ELSE s[i + 1])
    BY ListFacts
  <2>3. /\ walked' = l /\ pos' = head[l] /\ ahead' = After(head[l])
        /\ visited' = {} /\ present' = Elements(s) /\ order' = order
    BY <1>4 DEF WalkStart, list_vars
  <2>4. present' \subseteq Nodes
    BY <2>1, <2>3 DEF Elements
  <2> HIDE DEF s, N
  <2>5. ahead' = (IF N <= 1 THEN Null ELSE s[2])
    BY <2>1, <2>2, <2>3 DEF After
  <2>6. TypeOK'
    <3>1. pos' \in Nodes \cup {Null} /\ ahead' \in Nodes \cup {Null}
      BY <2>1, <2>3, <2>5
    <3> QED
      BY <1>1, <2>3, <2>4, <3>1 DEF IInv, TypeOK, node_vars, list_vars
  <2>7. Ahead(s, ahead', Elements(s), {pos'})
    <3>1. CASE N = 0
      BY <2>3, <2>5, <3>1 DEF Ahead, Elements, N
    <3>2. CASE N = 1
      <4>1. Elements(s) = {s[1]}
        BY <3>2 DEF Elements, N
      <4> QED
        BY <2>1, <2>3, <2>5, <3>2, <4>1 DEF Ahead
    <3>3. CASE N > 1
      <4>1. 2 \in 1 .. Len(s) /\ s[2] = ahead' /\ ahead' # Null
        BY <2>1, <2>5, <3>3 DEF N
      <4>2. \A i \in 1 .. 2 - 1 : s[i] \in {pos'}
        BY <2>1, <2>3, <3>3
      <4> QED
        BY <4>1, <4>2 DEF Ahead
    <3> QED
      BY <2>1, <3>1, <3>2, <3>3
  <2>8. (pos' = Null => ahead' = Null) /\ (pos' # Null => pos' # ahead')
    BY <2>1, <2>3, <2>5
  <2>9. WalkInv'
    BY <2>3, <2>7, <2>8 DEF WalkInv, s
  <2> QED
    BY <1>2, <2>6, <2>9 DEF IInv
<1>5. CASE WalkNext
  <2> DEFINE s == order[walked]
             N == Len(s)
             V == visited \cup {pos}
  <2>1. walked # Null /\ walked \in Lists /\ pos # Null /\ pos \in Nodes
    BY <1>5 DEF WalkNext, IInv, TypeOK
  <2>2. /\ walked' = walked /\ pos' = ahead /\ ahead' = After(ahead)
        /\ visited' = V /\ present' = present /\ order' = order
    BY <1>5 DEF WalkNext, list_vars
  <2>3. Ahead(s, ahead, present, V)
    BY <2>1 DEF IInv, WalkInv
  <2>4. /\ s \in Seq(Nodes) /\ N \in Nat
        /\ \A i \in 1 .. N : s[i] \in Nodes /\ s[i] # Null
        /\ \A i, j \in 1 .. N : s[i] = s[j] => i = j
        /\ \A i \in 1 .. N : next[s[i]] = (IF i = N THEN Null ELSE s[i + 1])
    BY <2>1, ListFacts
  <2>5. TypeOK'
    <3>1. ahead' \in Nodes \cup {Null} /\ pos' \in Nodes \cup {Null} /\ visited' \subseteq Nodes
      BY <2>1, <2>2 DEF After, IInv, TypeOK
    <3> QED
      BY <1>1, <2>2, <3>1 DEF IInv, TypeOK, node_vars, list_vars
  <2> HIDE DEF s, N, V
  <2>6. /\ Ahead(s, ahead', present, V \cup {pos'})
        /\ pos' = Null => ahead' = Null
        /\ pos' # Null => pos' # ahead'
    <3>1. CASE ahead = Null
      BY <2>2, <2>3, <3>1 DEF Ahead, After
    <3>2. CASE ahead # Null
      <4>1. PICK j \in 1 .. N : s[j] = ahead /\ \A i \in 1 .. j - 1 : s[i] \in present => s[i] \in V
        BY <2>3, <3>2 DEF Ahead, N
      <4>2. ahead' = (IF j = N THEN Null ELSE s[j + 1])
        BY <2>2, <2>4, <3>2, <4>1 DEF After
      <4>3. \A i \in 1 .. j : s[i] \in present => s[i] \in V \cup {ahead}
        BY <2>4, <4>1
      <4>4. CASE j = N
        <5>1. present \subseteq V \cup {ahead}
          BY <2>3, <4>3, <4>4 DEF Ahead, Elements, N
        <5> QED
          BY <2>2, <2>3, <3>2, <4>2, <4>4, <5>1 DEF Ahead
      <4>5. CASE j < N
        <5>1. j + 1 \in 1 .. N /\ s[j + 1] = ahead' /\ ahead' # Null /\ ahead' # ahead
          BY <2>4, <4>1, <4>2, <4>5
        <5>2. \A i \in 1 .. (j + 1) - 1 : s[i] \in present => s[i] \in V \cup {ahead}
          BY <2>4, <4>3
        <5>3. Ahead(s, ahead', present, V \cup {ahead})
          <6>1. \E i \in 1 .. Len(s) :
                   s[i] = ahead' /\ \A x \in 1 .. i - 1 : s[x] \in present => s[x] \in V \cup {ahead}
            BY <5>1, <5>2 DEF N
          <6> QED
            BY <2>3, <5>1, <6>1 DEF Ahead
        <5> QED
          BY <2>2, <3>2, <5>1, <5>3
      <4> QED
        BY <2>4, <4>4, <4>5
    <3> QED
      BY <3>1, <3>2
  <2>7. WalkInv'
    BY <2>2, <2>6 DEF WalkInv, s, V
  <2> QED
    BY <1>2, <2>5, <2>7 DEF IInv
<1> QED
  BY <1>3, <1>4, <1>5

\* IInv is inductive.
LEMMA NextKeeps == IInv /\ [Next]_vars => IInv'
<1> SUFFICES ASSUME IInv, [Next]_vars PROVE IInv'
  OBVIOUS
<1>1. ASSUME NEW m \in Nodes, dlink_create(m) \/ dlink_free(m) PROVE IInv'
  BY <1>1, LooseKeeps
<1>2. ASSUME NEW m \in Nodes, NEW v \in Values, NEW l \in Lists, dlink_add(v, m, l) PROVE IInv'
  BY <1>2, AddKeeps
<1>3. ASSUME NEW m \in Nodes, NEW v \in Values, NEW l \in Lists, dlink_add_tail(v, m, l) PROVE IInv'
  BY <1>3, AddTailKeeps
<1>4. ASSUME NEW m \in Nodes, NEW v \in Values, NEW l \in Lists, NEW k \in Positions(l),
             dlink_add_before(k, v, m, l)
      PROVE  IInv'
  BY <1>4, AddBeforeKeeps
<1>5. ASSUME NEW l \in Lists, NEW k \in Positions(l),
             dlink_delete(k, l) \/ \E v \in Values : dlink_find_delete(k, v, l)
      PROVE  IInv'
  BY <1>5, DeleteKeeps
<1>6. ASSUME NEW l \in Lists, NEW k \in Positions(l), NEW new \in Lists, dlink_move(k, l, new)
      PROVE  IInv'
  BY <1>6, MoveKeeps
<1>7. CASE WalkNext \/ WalkEnd \/ \E l \in Lists : WalkStart(l)
  BY <1>7, WalkKeeps
<1>8. CASE UNCHANGED vars
  <2>1. UNCHANGED <<next, prev, data, head, tail, length, order, allocated,
                    walked, pos, ahead, visited, present>>
    BY <1>8 DEF vars, node_vars, list_vars, walk_vars
  <2> QED
    BY <2>1 DEF IInv, TypeOK, ListInv, Listed, WalkInv, Positions
<1> QED
  BY <1>1, <1>2, <1>3, <1>4, <1>5, <1>6, <1>7, <1>8 DEF Next

\* IInv holds in every reachable state.
LEMMA Inductive == Spec => []IInv
  BY InitHolds, NextKeeps, PTL DEF Spec

-----------------------------------------------------------------------------
\* The pointers and counters of the lists keep their types; in particular no
\* length goes below zero.
THEOREM ListsTyped == Spec => []TypeOK
<1>1. IInv => TypeOK
  BY DEF IInv
<1> QED
  BY <1>1, Inductive, PTL

\* After every operation of lsd/dlink.c the pointers of each list, followed in
\* either direction, give the sequence the list stands for.
THEOREM ListsRepresented == Spec => []Represents
<1>1. IInv => Represents
  <2> SUFFICES ASSUME IInv, NEW l \in Lists PROVE Chained(l)
    BY DEF Represents
  <2> QED
    BY DEF IInv, ListInv, Shape, ChainedAt, Ended, Chained, Positions
<1> QED
  BY <1>1, Inductive, PTL

\* The cursor of DLINK_FOREACH_SAFE never leaves its list.
THEOREM WalkStaysListed == Spec => []CursorListed
<1>1. IInv => CursorListed
  BY DEF IInv, WalkInv, Ahead, CursorListed, Elements
<1> QED
  BY <1>1, Inductive, PTL

\* DLINK_FOREACH_SAFE visits every node that stays in the list, although its
\* body takes nodes out and puts nodes in.
THEOREM WalkVisitsAll == Spec => []WalkComplete
<1>1. IInv => WalkComplete
  <2> SUFFICES ASSUME IInv, walked # Null, pos = Null PROVE present \subseteq visited
    BY DEF WalkComplete
  <2>1. present \subseteq visited \cup {Null} /\ present \subseteq Nodes
    BY DEF IInv, TypeOK, WalkInv, Ahead
  <2> QED
    BY <2>1, NullAssumption
<1> QED
  BY <1>1, Inductive, PTL
=============================================================================
