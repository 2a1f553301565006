-------------------------------- MODULE Heap ---------------------------------
(***************************************************************************)
(* The LiteOS-M memory pool (los_memory.c), a two-level segregated fit     *)
(* allocator: nodes side by side, each with a header that has its size and *)
(* the node before it; free nodes also in one of the free lists, which are *)
(* chosen by size, and a bitmap of the lists that are not empty.  Every    *)
(* call is one section with interrupts locked.                             *)
(*                                                                         *)
(* Sizes and addresses are in words of OS_MEM_ALIGN_SIZE, to which the     *)
(* code rounds them.  As in this build: no expansion, no integrity check,  *)
(* one pool, and with the water line.                                      *)
(***************************************************************************)
EXTENDS Integers, Sequences, FiniteSets, SequencesExt, PendList

CONSTANTS
    FIRST,         \* the address of the first node, right behind the pool head
    POOL,          \* words from there to the end node
    LARGE,         \* OS_MEM_LARGE_START_BUCKET: smaller sizes than 2^LARGE are exact
    SLI,           \* OS_MEM_SLI
    LEVELS,        \* OS_MEM_LARGE_BUCKET_COUNT
    WORD,          \* lists per word of the bitmap
    USED_FLAG,     \* OS_MEM_NODE_USED_FLAG, the top bit of a size
    Sizes,         \* how much is asked for
    Boundaries,    \* alignments asked for
    MaxBlocks      \* bound on the blocks in use

ASSUME HeapAssumption ==
    /\ {FIRST, POOL, LARGE, LEVELS, WORD, USED_FLAG} \subseteq Nat \ {0}
    /\ SLI \in Nat
    /\ POOL >= 4
    /\ FIRST + POOL < USED_FLAG
    /\ (Sizes \cup Boundaries) \subseteq Nat \ {0}

NULL == 0
HEAD == 2           \* OS_MEM_NODE_HEAD_SIZE
MIN_ALLOC == 2      \* OS_MEM_MIN_ALLOC_SIZE
MIN_LEFT == 4       \* OS_MEM_MIN_LEFT_SIZE

END == FIRST + POOL
Addresses == FIRST .. END
Shift(n) == 2 ^ n                       \* 1 << n
SMALL == Shift(LARGE) - 1               \* OS_MEM_SMALL_BUCKET_COUNT
Lists == 0 .. SMALL + LEVELS * Shift(SLI) - 1

\* Every size without the flag has a list.  The rest is arithmetic that the
\* provers do not know.
ASSUME ShiftAssumption ==
    /\ USED_FLAG <= Shift(LARGE + LEVELS)
    /\ Shift(0) = 1 /\ Shift(SLI) \in Nat \ {0}
    /\ \A n \in 0 .. LARGE + LEVELS : /\ Shift(n) \in Nat \ {0}
                                      /\ Shift(n + 1) = 2 * Shift(n)

VARIABLES
    pool,          \* [head, freeList, bitmap, curUsedSize]
    blocks,        \* what the callers have: [ptr, gap, size]
    stale          \* history: the block freed last, until it is handed out again

heapVars == <<pool, blocks, stale>>

\* What is in memory where there is no header.
Data == [prev |-> NULL, size |-> 0, used |-> FALSE]

-----------------------------------------------------------------------------
(***************************************************************************)
(* The free lists.  Nodes smaller than 2^LARGE have a list for each size,  *)
(* larger ones 2^SLI lists between a power of 2 and the next.              *)
(***************************************************************************)

\* OsMemLog2
Log2(size) == CHOOSE f \in 0 .. LARGE + LEVELS - 1 : Shift(f) <= size /\ size < Shift(f + 1)

\* OsMemFreeListIndexGet, with OsMemFlGet and OsMemSlGet
FreeListIndexGet(size) ==
    IF size <= SMALL THEN size - 1
    ELSE LET f == Log2(size) IN
         SMALL + (f - LARGE) * Shift(SLI) + ((size * Shift(SLI)) \div Shift(f)) - Shift(SLI)

\* OsMemFreeNodeAdd, with OsMemListAdd
FreeNodeAdd(p, node) ==
    LET index == FreeListIndexGet(p.head[node].size) IN
    [p EXCEPT !.freeList[index] = <<node>> \o @,
              !.bitmap = @ \cup {index}]

\* OsMemListDelete
ListDelete(p, index, node) ==
    LET rest == Leave(p.freeList[index], {node}) IN
    [p EXCEPT !.freeList[index] = rest,
              !.bitmap = IF rest = <<>> THEN @ \ {index} ELSE @]

\* OsMemFreeNodeDelete
FreeNodeDelete(p, node) == ListDelete(p, FreeListIndexGet(p.head[node].size), node)

\* OsMemNotEmptyIndexGet and the loop over the words behind: the first list that
\* is not empty, from index on.
NotEmptyFrom(p, index) ==
    LET here == {i \in p.bitmap : i >= index /\ i \div WORD = index \div WORD}
        next == {i \in p.bitmap : i \div WORD > index \div WORD}
    IN  IF here # {} THEN {Min(here)}
        ELSE IF next # {} THEN {Min(next)}
        ELSE {}

\* Mutant: the list of the size itself is not looked at in the end.
FindSuitableAbove(p, size) ==
    LET own == FreeListIndexGet(size)
        above == NotEmptyFrom(p, IF size <= SMALL THEN own ELSE own + 1)
    IN  {[index |-> i, node |-> Head(p.freeList[i])] : i \in above}

(***************************************************************************)
(* OsMemFindNextSuitableBlock: the head of a list in which every node is   *)
(* large enough, or else the first that is in the list of the size itself. *)
(* At most one node, with its list.                                        *)
(***************************************************************************)
FindSuitable(p, size) ==
    LET own == FreeListIndexGet(size)
        above == NotEmptyFrom(p, IF size <= SMALL THEN own ELSE own + 1)
        fits == Only(p.freeList[own], {n \in Addresses : p.head[n].size >= size})
    IN  IF above # {}
        THEN {[index |-> i, node |-> Head(p.freeList[i])] : i \in above}
        ELSE IF size > SMALL /\ fits # <<>>
        THEN {[index |-> own, node |-> Head(fits)]}
        ELSE {}

-----------------------------------------------------------------------------
(***************************************************************************)
(* Nodes.                                                                  *)
(***************************************************************************)
NextNode(p, node) == node + p.head[node].size

\* Mutant: the node behind keeps pointing to the one that is gone.
MergeNodeLoose(p, node) ==
    [p EXCEPT !.head[p.head[node].prev].size = @ + p.head[node].size,
              !.head[node] = Data]

\* OsMemMergeNode: node becomes part of the one before it.  Its header, from which
\* the used flag is gone already, is data from now on.
MergeNode(p, node) ==
    LET before == p.head[node].prev IN
    [p EXCEPT !.head[before].size = @ + p.head[node].size,
              !.head[NextNode(p, node)].prev = before,
              !.head[node] = Data]

\* OsMemSplitNode: what is behind the first size words becomes a free node.
SplitNode(p, node, size) ==
    LET new == node + size
        next == NextNode(p, node)
        cut == [p EXCEPT !.head[new] = [prev |-> node, size |-> p.head[node].size - size,
                                        used |-> FALSE],
                         !.head[node].size = size,
                         !.head[next].prev = new]
    IN  FreeNodeAdd(IF p.head[next].used THEN cut
                    ELSE MergeNode(FreeNodeDelete(cut, next), next),
                    new)

SplitIfLarge(p, node, size) ==
    IF size + MIN_LEFT <= p.head[node].size THEN SplitNode(p, node, size) ELSE p

\* OsMemWaterUsedRecord, in words of twice USED_FLAG values
UsedRecord(p, size) == [p EXCEPT !.curUsedSize = (@ + size) % (2 * USED_FLAG)]

SetUsed(p, node) == [p EXCEPT !.head[node].used = TRUE]

\* The caller of a block writes what it likes into it.
Written(p, node) ==
    [p EXCEPT !.head = [a \in Addresses |->
        IF a \in node + HEAD .. NextNode(p, node) - 1 THEN Data ELSE p.head[a]]]

\* OsMemAlloc that has found a node
MemAlloc(p, found, size) ==
    LET taken == ListDelete(p, found.index, found.node)
        cut == SetUsed(SplitIfLarge(taken, found.node, size + HEAD), found.node)
    IN  Written(UsedRecord(cut, cut.head[found.node].size), found.node)

\* OsMemIsNodeValid and OsMemCheckUsedNode
CheckUsedNode(p, node) ==
    /\ node \in Addresses
    /\ p.head[node].used
    /\ NextNode(p, node) \in Addresses
    /\ p.head[NextNode(p, node)].prev = node
    /\ \/ node = FIRST
       \/ /\ p.head[node].prev \in Addresses
          /\ NextNode(p, p.head[node].prev) = node

\* OsMemFree, of a node that passes the check
MemFree(p, node) ==
    LET size == p.head[node].size
        before == p.head[node].prev
        clear == [UsedRecord(p, 2 * USED_FLAG - size) EXCEPT !.head[node].used = FALSE]
        back == ~clear.head[before].used
        joined == IF back THEN MergeNode(FreeNodeDelete(clear, before), node) ELSE clear
        whole == IF back THEN before ELSE node
        next == NextNode(joined, whole)
    IN  FreeNodeAdd(IF joined.head[next].used THEN joined
                    ELSE MergeNode(FreeNodeDelete(joined, next), next),
                    whole)

-----------------------------------------------------------------------------
(***************************************************************************)
(* The calls.  Without a suitable node they return NULL and change nothing.*)
(***************************************************************************)

\* OsMemPoolInit
HeapInit ==
    /\ pool = FreeNodeAdd(
                [head |-> [a \in Addresses |->
                     CASE a = FIRST -> [prev |-> END, size |-> POOL, used |-> FALSE]
                       [] a = END -> [prev |-> FIRST, size |-> 0, used |-> TRUE]
                       [] OTHER -> Data],
                 freeList |-> [i \in Lists |-> <<>>],
                 bitmap |-> {},
                 curUsedSize |-> HEAD], FIRST)
    /\ blocks = {}
    /\ stale = {}

\* OsGetRealPtr: the gap is in the word before ptr, if there is one.
NodeOf(b) == b.ptr - b.gap - HEAD

AtLeast(size) == Max({size, MIN_ALLOC})

HandedOut(p, node) ==
    {b \in stale : NodeOf(b) \notin node .. NextNode(p, node) - 1}

LOS_MemAlloc(size) ==
    /\ Cardinality(blocks) < MaxBlocks
    /\ \E found \in FindSuitable(pool, AtLeast(size) + HEAD) :
        /\ pool' = MemAlloc(pool, found, AtLeast(size))
        /\ stale' = HandedOut(pool', found.node)
        /\ blocks' = blocks \cup {[ptr |-> found.node + HEAD, gap |-> 0, size |-> size]}

\* OS_MEM_ALIGN
Align(ptr, boundary) == ((ptr + boundary - 1) \div boundary) * boundary

\* Mutant: no room for the alignment.
UseSizeBare(size, boundary) == AtLeast(size)

\* What LOS_MemAllocAlign asks for: the gap is a boundary less one word at most.
UseSize(size, boundary) == AtLeast(size) + boundary - 1

\* A request with a flag bit in it is refused before anything changes.
ASSUME RequestAssumption ==
    \A size \in Sizes, boundary \in Boundaries \cup {1} : 2 * UseSize(size, boundary) < USED_FLAG

LOS_MemAllocAlign(size, boundary) ==
    /\ Cardinality(blocks) < MaxBlocks
    /\ \E found \in FindSuitable(pool, UseSize(size, boundary) + HEAD) :
        LET real == found.node + HEAD
            ptr == Align(real, boundary)
        IN  /\ pool' = MemAlloc(pool, found, UseSize(size, boundary))
            /\ stale' = HandedOut(pool', found.node)
            /\ blocks' = blocks \cup {[ptr |-> ptr, gap |-> ptr - real, size |-> size]}

LOS_MemFree(b) ==
    /\ CheckUsedNode(pool, NodeOf(b))
    /\ pool' = MemFree(pool, NodeOf(b))
    /\ blocks' = blocks \ {b}
    /\ stale' = {b}

\* The block a caller has after LOS_MemRealloc: at the start of its node, without
\* the gap of an aligned block.
Reallocated(node, size) == [ptr |-> node + HEAD, gap |-> 0, size |-> size]

\* OsMemReAllocSmaller
ReallocSmaller(b, size) ==
    LET node == NodeOf(b)
        nodeSize == pool.head[node].size
        allocSize == AtLeast(size) + HEAD
        cut == SplitIfLarge(pool, node, allocSize)
    IN  /\ nodeSize >= allocSize
        /\ pool' = UsedRecord(cut, 2 * USED_FLAG - (nodeSize - cut.head[node].size))
        /\ blocks' = (blocks \ {b}) \cup {Reallocated(node, size)}
        /\ UNCHANGED stale

\* OsMemMergeNodeForReAllocBigger.  It records the new sizeAndFlag, flag included.
ReallocBigger(b, size) ==
    LET node == NodeOf(b)
        nodeSize == pool.head[node].size
        next == NextNode(pool, node)
        allocSize == AtLeast(size) + HEAD
        cut == SplitIfLarge(MergeNode(FreeNodeDelete(pool, next), next), node, allocSize)
    IN  /\ nodeSize < allocSize
        /\ ~pool.head[next].used
        /\ pool.head[next].size + nodeSize >= allocSize
        /\ pool' = Written(UsedRecord(cut, cut.head[node].size + USED_FLAG - nodeSize), node)
        /\ stale' = HandedOut(pool', node)
        /\ blocks' = (blocks \ {b}) \cup {Reallocated(node, size)}

\* OsMemRealloc that has to move the data
ReallocElsewhere(b, size) ==
    LET node == NodeOf(b)
        next == NextNode(pool, node)
        allocSize == AtLeast(size) + HEAD
    IN  /\ pool.head[node].size < allocSize
        /\ pool.head[next].used \/ pool.head[next].size + pool.head[node].size < allocSize
        /\ \E found \in FindSuitable(pool, allocSize) :
            /\ pool' = MemFree(MemAlloc(pool, found, AtLeast(size)), node)
            /\ stale' = {b}
            /\ blocks' = (blocks \ {b}) \cup {Reallocated(found.node, size)}

LOS_MemRealloc(b, size) ==
    /\ CheckUsedNode(pool, NodeOf(b))
    /\ \/ ReallocSmaller(b, size)
       \/ ReallocBigger(b, size)
       \/ ReallocElsewhere(b, size)

HeapNext ==
    \/ \E size \in Sizes : LOS_MemAlloc(size)
    \/ \E size \in Sizes, boundary \in Boundaries : LOS_MemAllocAlign(size, boundary)
    \/ \E b \in blocks : LOS_MemFree(b)
    \/ \E b \in blocks, size \in Sizes : LOS_MemRealloc(b, size)

HeapSpec == HeapInit /\ [][HeapNext]_heapVars

-----------------------------------------------------------------------------
(***************************************************************************)
(* The pool is one chain of nodes: from the first to the end node every    *)
(* header leads to the next, the next back to it, and no two free nodes    *)
(* are side by side.  The free lists have the free nodes of the chain and  *)
(* nothing else, each in the list of its size, and the bitmap shows the    *)
(* lists that are not empty.                                               *)
(***************************************************************************)
Chain ==
    LET from[a \in Addresses] ==
            IF a >= END \/ pool.head[a].size < MIN_LEFT THEN {a}
            ELSE IF NextNode(pool, a) \notin Addresses THEN {a, NULL}
            ELSE {a} \cup from[NextNode(pool, a)]
    IN  from[FIRST]

ChainConsistent ==
    /\ Chain \subseteq Addresses /\ END \in Chain
    /\ pool.head[FIRST].prev = END /\ pool.head[END].used
    /\ \A a \in Chain \ {END} :
        LET next == NextNode(pool, a) IN
        /\ pool.head[next].prev = a
        /\ pool.head[a].used \/ pool.head[next].used
    /\ \A i \in Lists :
        /\ IsInjective(pool.freeList[i])
        /\ ToSet(pool.freeList[i]) =
             {a \in Chain : ~pool.head[a].used /\ FreeListIndexGet(pool.head[a].size) = i}
        /\ i \in pool.bitmap <=> pool.freeList[i] # <<>>

(***************************************************************************)
(* Every used node is one caller's and every caller's block lies in a used *)
(* node of its own, all of it, aligned blocks with their gap included: so  *)
(* no two blocks overlap, and none overlaps a header.  And a block that is *)
(* freed again before it was handed out again is refused.                  *)
(***************************************************************************)
BlocksOwned ==
    /\ {a \in Chain \ {END} : pool.head[a].used} = {NodeOf(b) : b \in blocks}
    /\ \A b, c \in blocks : NodeOf(b) = NodeOf(c) => b = c
    /\ \A b \in blocks : b.ptr + b.size <= NextNode(pool, NodeOf(b))
    /\ \A b \in stale : ~CheckUsedNode(pool, NodeOf(b))

(***************************************************************************)
(* A request fails only if no free node is large enough, and the node it   *)
(* gets is: the search by classes and by words of the bitmap misses none.  *)
(***************************************************************************)
SearchComplete ==
    \A size \in HEAD + MIN_ALLOC .. POOL :
        LET fitting == {a \in Chain : ~pool.head[a].used /\ pool.head[a].size >= size} IN
        /\ fitting # {} <=> FindSuitable(pool, size) # {}
        /\ \A found \in FindSuitable(pool, size) : found.node \in fitting

(***************************************************************************)
(* los_memory.c:151, curUsedSize is the "Current usage size in a memory    *)
(* pool": the used nodes and the head of the end node (of the pool's own   *)
(* head this model has no size).                                           *)
(***************************************************************************)
UsedSizes == {[node |-> a, size |-> pool.head[a].size] : a \in {a \in Chain : pool.head[a].used}}

UsedAccounted ==
    pool.curUsedSize = HEAD + FoldSet(LAMBDA n, sum : n.size + sum, 0, UsedSizes)

=============================================================================
