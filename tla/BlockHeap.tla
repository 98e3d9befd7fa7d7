------------------------------ MODULE BlockHeap ------------------------------
(***************************************************************************)
(* The block allocator of lsd/balloc.c: one heap, from blockheap_create to *)
(* blockheap_destroy.                                                      *)
(*                                                                         *)
(* Blocks are numbered in the order of their creation.  A new block goes   *)
(* to the head of the chain, so the chain runs from the newest block to    *)
(* the oldest and a set of numbers is enough to describe it.  An element   *)
(* is a block and an index.  blockheap_alloc and the garbage collector are *)
(* cut where another thread can step in: nothing in this file is locked.   *)
(***************************************************************************)
EXTENDS Naturals, FiniteSets

CONSTANTS
    Threads,        \* threads that use the heap
    elemsPerBlock,  \* elements in a block
    MaxBlocks       \* bound on the number of blocks ever created

ASSUME elemsPerBlockAssumption == elemsPerBlock \in Nat \ {0}
ASSUME MaxBlocksAssumption == MaxBlocks \in Nat

VARIABLES
    created,         \* blocks created so far
    blocks,          \* those in the chain, that is, mapped
    free,            \* elements in the free_list of their block
    used,            \* elements in the used_list of their block
    freeElems, blocksAllocated,
    pc, walker,      \* where each thread is, and its position in the chain
    phase            \* "up", "exited" (a call of exit) or "destroyed"

vars == <<created, blocks, free, used, freeElems, blocksAllocated, pc, walker, phase>>

Indices == 1 .. elemsPerBlock

\* All elements of the blocks of a set.
ElementsOf(B) == B \X Indices

\* The first block of a part of the chain, 0 when there is none.
Newest(B) == IF B = {} THEN 0 ELSE CHOOSE b \in B : \A c \in B : c <= b

\* DLINK_LENGTH(&b->free_list) > 0 and == elemsPerBlock
HasFree(b) == \E i \in Indices : <<b, i>> \in free
AllFree(b) == ElementsOf({b}) \subseteq free

-----------------------------------------------------------------------------
\* blockheap_create makes the first block.
Init ==
    /\ created = 1
    /\ blocks = {1}
    /\ free = ElementsOf({1})
    /\ used = {}
    /\ freeElems = elemsPerBlock
    /\ blocksAllocated = 1
    /\ pc = [t \in Threads |-> "idle"]
    /\ walker = [t \in Threads |-> 0]
    /\ phase = "up"

At(t, label) == phase = "up" /\ pc[t] = label

Goto(t, label) == pc' = [pc EXCEPT ![t] = label]

-----------------------------------------------------------------------------
(* blockheap_alloc *)

\* No element is free: blockheap_block_new.
AllocGrow(t) ==
    LET b == created + 1 IN
    /\ At(t, "idle") /\ freeElems = 0 /\ created < MaxBlocks
    /\ created' = b
    /\ blocks' = blocks \cup {b}
    /\ free' = free \cup ElementsOf({b})
    /\ freeElems' = freeElems + elemsPerBlock
    /\ blocksAllocated' = blocksAllocated + 1
    /\ Goto(t, "take")
    /\ UNCHANGED <<used, walker, phase>>

\* mmap failed.  The garbage collector returns at once, because freeElems is
\* below elemsPerBlock, and the process exits.
AllocNoMemory(t) ==
    /\ At(t, "idle") /\ freeElems = 0
    /\ phase' = "exited"
    /\ UNCHANGED <<created, blocks, free, used, freeElems, blocksAllocated, pc, walker>>

AllocReady(t) ==
    /\ At(t, "idle") /\ freeElems # 0
    /\ Goto(t, "take")
    /\ UNCHANGED <<created, blocks, free, used, freeElems, blocksAllocated, walker, phase>>

\* The first block of the chain that has a free element.
FirstFit == Newest({b \in blocks : HasFree(b)})

\* Which free element of the block is taken is left open.  A walk that finds
\* none ends in blockheap_fail: "BlockHeapAlloc failed, giving up", and exit.
AllocTake(t) ==
    /\ At(t, "take")
    /\ IF free = {}
       THEN /\ phase' = "exited"
            /\ UNCHANGED <<free, used, freeElems, pc>>
       ELSE /\ \E i \in Indices :
                  LET e == <<FirstFit, i>> IN
                  /\ e \in free
                  /\ free' = free \ {e}
                  /\ used' = used \cup {e}
            /\ freeElems' = freeElems - 1
            /\ Goto(t, "idle")
            /\ UNCHANGED phase
    /\ UNCHANGED <<created, blocks, blocksAllocated, walker>>

-----------------------------------------------------------------------------
\* blockheap_free, called with an element that is in use.
Free(t) ==
    /\ At(t, "idle")
    /\ \E e \in used :
          /\ used' = used \ {e}
          /\ free' = free \cup {e}
    /\ freeElems' = freeElems + 1
    /\ UNCHANGED <<created, blocks, blocksAllocated, pc, walker, phase>>

-----------------------------------------------------------------------------
(* blockheap_garbagecollect *)

\* "There couldn't possibly be an entire free block."
NothingToCollect == freeElems < elemsPerBlock \/ blocksAllocated = 1

GcStart(t) ==
    /\ At(t, "idle") /\ ~NothingToCollect
    /\ walker' = [walker EXCEPT ![t] = Newest(blocks)]
    /\ Goto(t, "gc")
    /\ UNCHANGED <<created, blocks, free, used, freeElems, blocksAllocated, phase>>

\* Mutant: the walk follows two pointers at a time.
FollowTwice(t) ==
    LET b == Newest({c \in blocks : c < walker[t]}) IN
    walker' = [walker EXCEPT ![t] = Newest({c \in blocks : c < b})]

\* walker->next
Follow(t) == walker' = [walker EXCEPT ![t] = Newest({b \in blocks : b < walker[t]})]

\* Mutants: a counter is not brought up to date; a block that still has
\* elements in use goes with them.
GcKeepsBlockCount(t) ==
    /\ At(t, "gc") /\ walker[t] # 0 /\ AllFree(walker[t])
    /\ blocks' = blocks \ {walker[t]}
    /\ free' = free \ ElementsOf({walker[t]})
    /\ freeElems' = freeElems - elemsPerBlock
    /\ Follow(t)
    /\ UNCHANGED <<created, used, blocksAllocated, pc, phase>>

GcTakesUsed(t) ==
    /\ At(t, "gc") /\ walker[t] # 0
    /\ blocks' = blocks \ {walker[t]}
    /\ free' = free \ ElementsOf({walker[t]})
    /\ used' = used \ ElementsOf({walker[t]})
    /\ blocksAllocated' = blocksAllocated - 1
    /\ freeElems' = Cardinality(free')
    /\ Follow(t)
    /\ UNCHANGED <<created, pc, phase>>

GcRemove(t) ==
    /\ At(t, "gc") /\ walker[t] # 0 /\ AllFree(walker[t])
    /\ blocks' = blocks \ {walker[t]}
    /\ free' = free \ ElementsOf({walker[t]})
    /\ blocksAllocated' = blocksAllocated - 1
    /\ freeElems' = freeElems - elemsPerBlock
    /\ Follow(t)
    /\ UNCHANGED <<created, used, pc, phase>>

GcKeep(t) ==
    /\ At(t, "gc") /\ walker[t] # 0 /\ ~AllFree(walker[t])
    /\ Follow(t)
    /\ UNCHANGED <<created, blocks, free, used, freeElems, blocksAllocated, pc, phase>>

GcEnd(t) ==
    /\ At(t, "gc") /\ walker[t] = 0
    /\ Goto(t, "idle")
    /\ UNCHANGED <<created, blocks, free, used, freeElems, blocksAllocated, walker, phase>>

-----------------------------------------------------------------------------
\* blockheap_destroy unmaps everything; the heap itself is freed.
Destroy(t) ==
    /\ At(t, "idle")
    /\ blocks' = {} /\ free' = {} /\ used' = {}
    /\ phase' = "destroyed"
    /\ UNCHANGED <<created, freeElems, blocksAllocated, pc, walker>>

\* Nothing happens to a heap after that.
Finished == phase # "up" /\ UNCHANGED vars

Next ==
    \/ \E t \in Threads :
          \/ AllocGrow(t) \/ AllocNoMemory(t) \/ AllocReady(t) \/ AllocTake(t)
          \/ Free(t) \/ GcStart(t) \/ GcRemove(t) \/ GcKeep(t)
          \/ GcEnd(t) \/ Destroy(t)
    \/ Finished

Spec == Init /\ [][Next]_vars

-----------------------------------------------------------------------------
(* Properties *)

\* The C types; the unsigned counters never wrap below zero.
TypeOK ==
    /\ created \in Nat
    /\ blocks \subseteq 1 .. created
    /\ free \subseteq ElementsOf(1 .. created)
    /\ used \subseteq ElementsOf(1 .. created)
    /\ freeElems \in Nat /\ blocksAllocated \in Nat
    /\ pc \in [Threads -> {"idle", "take", "gc"}]
    /\ walker \in [Threads -> 0 .. created]
    /\ phase \in {"up", "exited", "destroyed"}

\* Every element of a mapped block is in exactly one of the two lists of its
\* block, and no element of an unmapped block is in use: the collector never
\* takes memory away from a caller.
ListsPartition ==
    /\ free \cup used = ElementsOf(blocks)
    /\ free \cap used = {}

\* The counters the collector and blockheap_alloc decide by agree with the lists.
CountersAgree ==
    phase # "destroyed" =>
        /\ freeElems = Cardinality(free)
        /\ blocksAllocated = Cardinality(blocks)

\* "Any blocks that are completely unallocated are removed from the heap": of
\* the blocks the collector leaves behind it in the chain at most one, the root
\* node, is all free.
Swept ==
    \A t \in Threads : At(t, "gc") =>
        \A b, c \in blocks :
            b > walker[t] /\ c > walker[t] /\ AllFree(b) /\ AllFree(c) => b = c

Pool == INSTANCE ElementPool WITH out <- used

\* The heap is an element pool: an element in use is not handed out again.
PoolSpec == Pool!Spec
=============================================================================
