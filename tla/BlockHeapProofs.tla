--------------------------- MODULE BlockHeapProofs ---------------------------
(* Theorems about BlockHeap, for every block size and bound. *)
EXTENDS BlockHeap, FiniteSetTheorems, WellFoundedInduction, TLAPS

\* The first block of a part of the chain is in it, and is the newest.
LEMMA NewestProperty ==
    ASSUME NEW n \in Nat, NEW B, B \subseteq 1 .. n, B # {}
    PROVE  Newest(B) \in B /\ \A c \in B : c <= Newest(B)
<1> DEFINE D == {n - b : b \in B}
<1>1. D \subseteq Nat /\ D # {}
  <2>1. \A b \in B : n - b \in Nat
    OBVIOUS
  <2>2. D # {}
    OBVIOUS
  <2> QED BY <2>1, <2>2
<1>2. PICK x \in D : \A y \in D : ~ (<<y, x>> \in OpToRel(<, Nat))
  <2> HIDE DEF D
  <2> QED BY <1>1, NatLessThanWellFounded, WFMin
<1>3. \A y \in D : x <= y
  <2>a. \A y \in D : y \in Nat
    BY <1>1
  <2> HIDE DEF D
  <2> SUFFICES ASSUME NEW y \in D, y < x PROVE FALSE
    BY <2>a
  <2>1. <<y, x>> \in OpToRel(<, Nat)
    BY <1>1 DEF OpToRel
  <2> QED BY <1>2, <2>1
<1>4. PICK b \in B : x = n - b
  OBVIOUS
<1>5. \A c \in B : c <= b
  <2> SUFFICES ASSUME NEW c \in B PROVE c <= b
    OBVIOUS
  <2>1. x <= n - c
    BY <1>3
  <2> QED BY <1>4, <2>1
<1> QED BY <1>4, <1>5 DEF Newest

\* The first block of a part of the chain is one of its blocks, or 0.
LEMMA NewestType ==
    ASSUME NEW n \in Nat, NEW B, B \subseteq 1 .. n
    PROVE  Newest(B) \in 0 .. n
<1>1. CASE B = {}
  BY <1>1 DEF Newest
<1>2. CASE B # {}
  <2>1. Newest(B) \in 1 .. n
    BY <1>2, NewestProperty
  <2>2. \A k \in 1 .. n : k \in 0 .. n
    OBVIOUS
  <2> QED BY <2>1, <2>2
<1> QED BY <1>1, <1>2

\* A block has elemsPerBlock elements, and finitely many blocks finitely many.
LEMMA BlockSize ==
    ASSUME NEW b
    PROVE  IsFiniteSet(ElementsOf({b})) /\ Cardinality(ElementsOf({b})) = elemsPerBlock
<1>1. IsFiniteSet(Indices) /\ Cardinality(Indices) = elemsPerBlock
  BY elemsPerBlockAssumption, FS_Interval DEF Indices
<1>2. IsFiniteSet({b}) /\ Cardinality({b}) = 1
  BY FS_Singleton
<1>3. Cardinality({b} \X Indices) = 1 * elemsPerBlock
  BY <1>1, <1>2, FS_Product
<1> QED BY <1>1, <1>2, <1>3, FS_Product, elemsPerBlockAssumption DEF ElementsOf

\* The sets of blocks and elements are finite.
LEMMA FiniteHeap ==
    ASSUME TypeOK PROVE IsFiniteSet(blocks) /\ IsFiniteSet(free)
<1>1. IsFiniteSet(1 .. created) /\ IsFiniteSet(Indices)
  BY FS_Interval, elemsPerBlockAssumption DEF TypeOK, Indices
<1>2. IsFiniteSet((1 .. created) \X Indices)
  BY <1>1, FS_Product
<1> QED BY <1>1, <1>2, FS_Subset DEF TypeOK, ElementsOf

-----------------------------------------------------------------------------
\* The lists, the chain and the counters.
HeapInv == TypeOK /\ ListsPartition /\ CountersAgree

\* blockheap_create establishes the invariant.
LEMMA InitHeapInv == Init => HeapInv
<1> SUFFICES ASSUME Init PROVE HeapInv
  OBVIOUS
<1>1. TypeOK
  BY elemsPerBlockAssumption DEF Init, TypeOK, ElementsOf, Indices
<1>2. ListsPartition
  BY DEF Init, ListsPartition
<1>3. CountersAgree
  BY BlockSize, FS_Singleton DEF Init, CountersAgree
<1> QED BY <1>1, <1>2, <1>3 DEF HeapInv

\* Every step keeps the invariant.
LEMMA NextHeapInv == HeapInv /\ [Next]_vars => HeapInv'
<1> SUFFICES ASSUME HeapInv, [Next]_vars PROVE HeapInv'
  OBVIOUS
<1> USE elemsPerBlockAssumption DEF HeapInv, At, Goto
<1>a. /\ created \in Nat /\ blocks \subseteq 1 .. created
      /\ freeElems \in Nat /\ blocksAllocated \in Nat
      /\ free \cup used = ElementsOf(blocks) /\ free \cap used = {}
  BY DEF TypeOK, ListsPartition
<1>b. IsFiniteSet(blocks) /\ IsFiniteSet(free)
  BY FiniteHeap
<1>1. ASSUME NEW t \in Threads, AllocGrow(t) PROVE HeapInv'
  <2> DEFINE b == created + 1
             X == ElementsOf({b})
  <2>1. /\ b \notin blocks /\ free \cap X = {} /\ used \cap X = {}
    BY <1>a DEF ElementsOf
  <2>2. ListsPartition'
    BY <1>1, <1>a, <2>1 DEF AllocGrow, ListsPartition, ElementsOf
  <2>3. TypeOK'
    BY <1>1 DEF AllocGrow, TypeOK, ElementsOf
  <2>4. CountersAgree'
    <3>1. Cardinality(free \cup X) = Cardinality(free) + elemsPerBlock
      <4>1. IsFiniteSet(X) /\ Cardinality(X) = elemsPerBlock
        BY BlockSize
      <4>2. Cardinality(free \cap X) = 0 /\ Cardinality(free) \in Nat
        BY <1>b, <2>1, FS_EmptySet, FS_CardinalityType
      <4> HIDE DEF X
      <4>3. Cardinality(free \cup X) =
              Cardinality(free) + Cardinality(X) - Cardinality(free \cap X)
        BY <1>b, <4>1, FS_Union
      <4> QED BY <4>1, <4>2, <4>3
    <3>2. Cardinality(blocks \cup {b}) = Cardinality(blocks) + 1
      BY <1>b, <2>1, FS_AddElement
    <3> QED BY <1>1, <3>1, <3>2 DEF AllocGrow, CountersAgree
  <2> QED BY <2>2, <2>3, <2>4
<1>2. ASSUME NEW t \in Threads, AllocNoMemory(t) PROVE HeapInv'
  BY <1>2 DEF AllocNoMemory, TypeOK, ListsPartition, CountersAgree
<1>3. ASSUME NEW t \in Threads, AllocReady(t) PROVE HeapInv'
  BY <1>3 DEF AllocReady, TypeOK, ListsPartition, CountersAgree
<1>4. ASSUME NEW t \in Threads, AllocTake(t) PROVE HeapInv'
  <2>1. CASE free = {}
    BY <1>4, <2>1 DEF AllocTake, TypeOK, ListsPartition, CountersAgree
  <2>2. CASE free # {}
    <3>1. PICK e \in free : free' = free \ {e} /\ used' = used \cup {e}
      BY <1>4, <2>2 DEF AllocTake
    <3>2. ListsPartition'
      BY <1>4, <1>a, <3>1 DEF AllocTake, ListsPartition
    <3>3. Cardinality(free') = Cardinality(free) - 1 /\ Cardinality(free) \in Nat \ {0}
      BY <1>b, <2>2, <3>1, FS_RemoveElement, FS_EmptySet, FS_CardinalityType
    <3>4. freeElems' = Cardinality(free') /\ freeElems' \in Nat
      BY <1>4, <2>2, <3>3 DEF AllocTake, CountersAgree
    <3>5. TypeOK'
      BY <1>4, <2>2, <3>1, <3>4 DEF AllocTake, TypeOK
    <3>6. CountersAgree'
      BY <1>4, <2>2, <3>4 DEF AllocTake, CountersAgree
    <3> QED BY <3>2, <3>5, <3>6
  <2> QED BY <2>1, <2>2
<1>5. ASSUME NEW t \in Threads, Free(t) PROVE HeapInv'
  <2>1. PICK e \in used : used' = used \ {e} /\ free' = free \cup {e}
    BY <1>5 DEF Free
  <2>2. ListsPartition'
    BY <1>5, <1>a, <2>1 DEF Free, ListsPartition
  <2>3. TypeOK'
    BY <1>5, <2>1 DEF Free, TypeOK
  <2>4. Cardinality(free') = Cardinality(free) + 1
    BY <1>a, <1>b, <2>1, FS_AddElement
  <2>5. CountersAgree'
    BY <1>5, <2>4 DEF Free, CountersAgree
  <2> QED BY <2>2, <2>3, <2>5
<1>6. ASSUME NEW t \in Threads, GcStart(t) PROVE HeapInv'
  BY <1>6, <1>a, NewestType DEF GcStart, TypeOK, ListsPartition, CountersAgree
<1>7. ASSUME NEW t \in Threads, Follow(t) PROVE walker' \in [Threads -> 0 .. created]
  <2>1. {b \in blocks : b < walker[t]} \subseteq 1 .. created
    BY <1>a
  <2>2. Newest({b \in blocks : b < walker[t]}) \in 0 .. created
    BY <1>a, <2>1, NewestType
  <2> QED BY <1>7, <2>2 DEF Follow, TypeOK
<1>8. ASSUME NEW t \in Threads, GcRemove(t) PROVE HeapInv'
  <2> DEFINE w == walker[t]
             X == ElementsOf({w})
  <2>1. X \subseteq free /\ w \in blocks
    <3>1. X \subseteq free
      BY <1>8 DEF GcRemove, AllFree
    <3>2. <<w, 1>> \in X
      BY DEF ElementsOf, Indices
    <3> HIDE DEF X
    <3>3. <<w, 1>> \in ElementsOf(blocks)
      BY <1>a, <3>1, <3>2
    <3> QED BY <3>1, <3>3 DEF ElementsOf
  <2>2. ListsPartition'
    BY <1>8, <1>a, <2>1 DEF GcRemove, ListsPartition, ElementsOf
  <2>3. Cardinality(free \ X) = Cardinality(free) - elemsPerBlock
    <3>1. free \cap X = X
      BY <2>1
    <3>2. Cardinality(X) = elemsPerBlock
      BY BlockSize
    <3> HIDE DEF X
    <3>3. Cardinality(free \ X) = Cardinality(free) - Cardinality(free \cap X)
      BY <1>b, FS_Difference
    <3> QED BY <3>1, <3>2, <3>3
  <2>4. Cardinality(blocks \ {w}) = Cardinality(blocks) - 1
    BY <1>b, <2>1, FS_RemoveElement
  <2>5. /\ freeElems' = Cardinality(free') /\ blocksAllocated' = Cardinality(blocks')
        /\ freeElems' \in Nat /\ blocksAllocated' \in Nat
    <3>1. /\ freeElems' = Cardinality(free \ X)
          /\ blocksAllocated' = Cardinality(blocks \ {w})
          /\ free' = free \ X /\ blocks' = blocks \ {w}
      BY <1>8, <2>3, <2>4 DEF GcRemove, CountersAgree
    <3> QED BY <1>b, <3>1, FS_Difference, FS_CardinalityType
  <2>6. TypeOK'
    BY <1>8, <1>7, <2>5 DEF GcRemove, TypeOK
  <2> QED BY <2>2, <2>5, <2>6 DEF CountersAgree
<1>9. ASSUME NEW t \in Threads, GcKeep(t) PROVE HeapInv'
  BY <1>9, <1>7 DEF GcKeep, TypeOK, ListsPartition, CountersAgree
<1>10. ASSUME NEW t \in Threads, GcEnd(t) PROVE HeapInv'
  BY <1>10 DEF GcEnd, TypeOK, ListsPartition, CountersAgree
<1>11. ASSUME NEW t \in Threads, Destroy(t) PROVE HeapInv'
  BY <1>11 DEF Destroy, TypeOK, ListsPartition, CountersAgree, ElementsOf
<1>12. CASE UNCHANGED vars
  BY <1>12 DEF vars, TypeOK, ListsPartition, CountersAgree
<1> QED BY <1>1, <1>2, <1>3, <1>4, <1>5, <1>6, <1>8, <1>9, <1>10, <1>11, <1>12
        DEF Next, Finished

\* The lists of the blocks and the counters never have bad values.
THEOREM HeapTyped == Spec => []TypeOK
<1>1. HeapInv => TypeOK
  BY DEF HeapInv
<1> QED BY <1>1, InitHeapInv, NextHeapInv, PTL DEF Spec

\* The collector never unmaps an element in use, and no element is in both
\* lists of its block or in none.
THEOREM HeapPartitioned == Spec => []ListsPartition
<1>1. HeapInv => ListsPartition
  BY DEF HeapInv
<1> QED BY <1>1, InitHeapInv, NextHeapInv, PTL DEF Spec

\* freeElems and blocksAllocated count what they say.
THEOREM HeapCounted == Spec => []CountersAgree
<1>1. HeapInv => CountersAgree
  BY DEF HeapInv
<1> QED BY <1>1, InitHeapInv, NextHeapInv, PTL DEF Spec

-----------------------------------------------------------------------------
\* Every step is a step of the pool, or leaves it alone.
LEMMA NextPool == HeapInv /\ [Next]_vars => [Pool!Next]_used
<1> SUFFICES ASSUME HeapInv, [Next]_vars, used' # used PROVE Pool!Next
  OBVIOUS
<1> USE DEF Pool!Next
<1>1. ASSUME NEW t \in Threads, AllocTake(t) PROVE Pool!Take
  <2>1. PICK e \in free : used' = used \cup {e}
    BY <1>1 DEF AllocTake
  <2>2. e \notin used
    BY DEF HeapInv, ListsPartition
  <2> QED BY <2>1, <2>2 DEF Pool!Take
<1>2. ASSUME NEW t \in Threads, Free(t) PROVE Pool!GiveBack
  BY <1>2 DEF Free, Pool!GiveBack
<1>3. ASSUME NEW t \in Threads, Destroy(t) PROVE Pool!Close
  BY <1>3 DEF Destroy, Pool!Close
<1> QED BY <1>1, <1>2, <1>3
        DEF Next, Finished, vars, AllocGrow, AllocNoMemory, AllocReady, GcStart,
            GcRemove, GcKeep, GcEnd

\* The heap implements the element pool: between two blockheap_alloc that
\* return the same element there is a blockheap_free of it.
THEOREM HeapImplementsPool == Spec => PoolSpec
<1>1. Init => Pool!Init
  BY DEF Init, Pool!Init
<1> QED BY <1>1, InitHeapInv, NextHeapInv, NextPool, PTL DEF Spec, PoolSpec, Pool!Spec

-----------------------------------------------------------------------------
(* One thread *)

\* What a lone thread knows between its steps: the blocks its collection has
\* passed all have an element in use.
PassedInUse ==
    \A t \in Threads : At(t, "gc") =>
        \A b \in blocks : b > walker[t] => ~AllFree(b)

\* With one thread every step keeps that.
LEMMA NextPassed ==
    ASSUME NEW x, Threads = {x}, HeapInv, PassedInUse, [Next]_vars
    PROVE  PassedInUse'
<1> USE elemsPerBlockAssumption DEF PassedInUse, At, Goto
<1>a. /\ created \in Nat /\ blocks \subseteq 1 .. created /\ freeElems \in Nat
      /\ pc \in [Threads -> {"idle", "take", "gc"}]
      /\ walker \in [Threads -> 0 .. created]
  BY DEF HeapInv, TypeOK
<1>1. ASSUME NEW t \in Threads, AllocGrow(t) PROVE PassedInUse'
  BY <1>a, <1>1 DEF AllocGrow
<1>2. ASSUME NEW t \in Threads, AllocNoMemory(t) PROVE PassedInUse'
  BY <1>2 DEF AllocNoMemory
<1>3. ASSUME NEW t \in Threads, AllocReady(t) PROVE PassedInUse'
  BY <1>a, <1>3 DEF AllocReady
<1>4. ASSUME NEW t \in Threads, AllocTake(t) PROVE PassedInUse'
  BY <1>a, <1>4 DEF AllocTake
<1>5. ASSUME NEW t \in Threads, Free(t) PROVE PassedInUse'
  BY <1>a, <1>5 DEF Free
<1>6. ASSUME NEW t \in Threads, GcStart(t) PROVE PassedInUse'
  <2>1. \A b \in blocks : b <= Newest(blocks)
    BY <1>a, NewestProperty
  <2>2. \A s \in Threads : walker'[s] = Newest(blocks) /\ pc'[s] = "gc"
    BY <1>a, <1>6 DEF GcStart
  <2>3. Newest(blocks) \in 0 .. created
    BY <1>a, NewestType
  <2> QED BY <1>a, <1>6, <2>1, <2>2, <2>3 DEF GcStart
<1>7. ASSUME NEW t \in Threads, Follow(t), NEW b \in blocks, b > walker'[t]
      PROVE  b >= walker[t]
  <2> DEFINE B == {c \in blocks : c < walker[t]}
  <2>1. walker'[t] = Newest(B)
    BY <1>7, <1>a DEF Follow
  <2>2. SUFFICES ASSUME b < walker[t] PROVE FALSE
    BY <1>a
  <2>3. b \in B /\ B \subseteq 1 .. created
    BY <1>a, <2>2
  <2> HIDE DEF B
  <2>4. b <= Newest(B) /\ Newest(B) \in 1 .. created
    BY <1>a, <2>3, NewestProperty
  <2> QED BY <1>7, <1>a, <2>1, <2>4
<1>8. ASSUME NEW t \in Threads, GcRemove(t) PROVE PassedInUse'
  <2>1. \A b : AllFree(b)' => AllFree(b)
    BY <1>8 DEF GcRemove, AllFree
  <2>2. ASSUME NEW b \in blocks', b > walker'[t] PROVE b > walker[t] /\ b \in blocks
    <3>1. b \in blocks /\ b # walker[t] /\ Follow(t)
      BY <1>8 DEF GcRemove
    <3>2. b >= walker[t]
      BY <2>2, <3>1, <1>7
    <3> QED BY <1>a, <3>1, <3>2
  <2>3. At(t, "gc") /\ pc' = pc
    BY <1>8 DEF GcRemove
  <2> QED BY <1>a, <1>8, <2>1, <2>2, <2>3 DEF GcRemove
<1>9. ASSUME NEW t \in Threads, GcKeep(t) PROVE PassedInUse'
  <2>1. ASSUME NEW b \in blocks, b > walker'[t] PROVE ~AllFree(b)
    <3>1. b >= walker[t]
      BY <1>9, <2>1, <1>7 DEF GcKeep
    <3>2. CASE b = walker[t]
      BY <1>9, <3>2 DEF GcKeep
    <3>3. CASE b > walker[t]
      BY <1>9, <3>3 DEF GcKeep
    <3> QED BY <1>a, <3>1, <3>2, <3>3
  <2> QED BY <1>a, <1>9, <2>1 DEF GcKeep, AllFree
<1>10. ASSUME NEW t \in Threads, GcEnd(t) PROVE PassedInUse'
  BY <1>a, <1>10 DEF GcEnd
<1>11. ASSUME NEW t \in Threads, Destroy(t) PROVE PassedInUse'
  BY <1>11 DEF Destroy
<1>12. CASE UNCHANGED vars
  BY <1>12 DEF vars, AllFree
<1> QED BY <1>1, <1>2, <1>3, <1>4, <1>5, <1>6, <1>8, <1>9, <1>10, <1>11, <1>12
        DEF Next, Finished

\* It holds at first.
LEMMA InitPassed == Init => PassedInUse
BY DEF Init, PassedInUse, At

\* Used by one thread, a collection leaves no block behind that is all
\* free, but perhaps one.
THEOREM SerialSwept ==
    ASSUME NEW CONSTANT x, Threads = {x} PROVE Spec => []Swept
<1>1. PassedInUse => Swept
  BY DEF PassedInUse, Swept
<1>2. HeapInv /\ PassedInUse /\ [Next]_vars => PassedInUse'
  BY NextPassed
<1> QED BY <1>1, <1>2, InitHeapInv, InitPassed, NextHeapInv, PTL DEF Spec
=============================================================================
