------------------------ MODULE EagerBufferAllocator ------------------------
(***************************************************************************)
(* EagerBufferAllocator of source/core/BufferAllocator.cpp: best-fit reuse *)
(* of blocks obtained from an outer Allocator.  A free node larger than    *)
(* the request is split in two children; useCount counts the children of a *)
(* node that are not in mFreeList, and a node whose count returns to zero  *)
(* swallows its children again.  Between barrierBegin and barrierEnd the   *)
(* memory of one thread is requested inside one group, whose frees stay in *)
(* the group's own list until barrierEnd.                                  *)
(*                                                                         *)
(* A Node is named by the block it lies in followed by the branches that   *)
(* lead to it: <<b>> is the whole block b, Append(n, 0) and Append(n, 1)   *)
(* are the two halves of a split n.  A pointer is <<block, offset>>.       *)
(* Free lists are sets: which of several nodes of one size std::multimap   *)
(* answers first is left open.  MNN_DEBUG_MEMORY and DUMP_USAGE are off.   *)
(***************************************************************************)
EXTENDS Integers, Sequences, FiniteSetsExt, Functions

CONSTANTS
    Block,   \* chunks the outer allocator can answer
    Config   \* the allocators to check, records with the fields
             \*   mAlign         default alignment of the allocator
             \*   mMinAllocSize  smallest block asked of the outer allocator,
             \*                  0: no minimum
             \*   Size           request sizes (allocBuffer refuses size 0)
             \*   AlignArg       alignments callers pass
             \*   Offset         offsets (pointer.second) blocks can start at: 0, or
             \*                  more when the outer allocator is a BufferAllocator
             \*   MaxGroups      bound: groups of one barrier (threads of an operator)

ASSUME EagerAssumption == \A c \in Config :
    /\ c.mAlign \in Nat \ {0}
    /\ c.mMinAllocSize \in Nat
    /\ c.Size \subseteq Nat \ {0}
    /\ c.AlignArg \subseteq Nat \ {0}
    /\ c.Offset \subseteq Nat
    /\ c.MaxGroups \in Nat
    \* A block starts at a multiple of mAlign: at 0, or where an allocator of the
    \* same mAlign put it when all alignments are powers of two.  The minimum
    \* block (mmapSize, in MB) is a multiple of mAlign too.
    /\ \A o \in c.Offset : o % c.mAlign = 0
    /\ c.mMinAllocSize % c.mAlign = 0
    \* The allocators with a minimum block (mmap weights) are never used by
    \* the operators that open groups; a second part in a group's list would
    \* be returned at barrierEnd without having been counted.
    /\ c.mMinAllocSize = 0 \/ c.MaxGroups = 0

VARIABLES
    config,            \* the allocator this is: a member of Config
    node,              \* live Node -> [off, size, useCount]
    mFreeList,         \* set of nodes
    mUsedList,         \* pointer -> [node, size: as asked, align, group]
    mGroups,           \* one free list per group of the open barrier
    mCurrentFreeList,  \* index of the open group in mGroups, 0: nullptr
    mTotalSize,
    barrier,           \* the caller's barrier: "none", "open", "closing"
    groupBytes         \* history: the bytes each group was ever handed

vars == <<config, node, mFreeList, mUsedList, mGroups, mCurrentFreeList, mTotalSize,
          barrier, groupBytes>>

mAlign == config.mAlign
mMinAllocSize == config.mMinAllocSize
MaxGroups == config.MaxGroups

UpTo(x, a) == ((x + a - 1) \div a) * a

Parent(n) == SubSeq(n, 1, Len(n) - 1)
IsRoot(n) == Len(n) = 1
Child(n, i) == Append(n, i)
Ancestors(n) == {SubSeq(n, 1, k) : k \in 1 .. Len(n) - 1}

\* Bytes from offset off on, in block b.
Bytes(b, off, size) == {<<b, off + i>> : i \in 0 .. size - 1}

SizeOf(nodes) == MapThenSumSet(LAMBDA n : node[n].size, nodes)

\* What the lists hold; a Node lives while it or a descendant is held.
Held(free, used, groups) ==
    free \union {used[p].node : p \in DOMAIN used}
         \union UNION {groups[g] : g \in DOMAIN groups}

\* The nodes after a step: those of f that are still held (SharedPtr).
KeepHeld(f) ==
    LET held == Held(mFreeList', mUsedList', mGroups')
    IN  node' = Restrict(f, DOMAIN f \intersect
                                (held \union UNION {Ancestors(h) : h \in held}))

\* std::map::insert, which keeps an entry that is already there.
Insert(f, x, v) == [y \in DOMAIN f \union {x} |-> IF y \in DOMAIN f THEN f[y] ELSE v]

Counted(f, n, d) == [f EXCEPT ![n].useCount = @ + d]

-----------------------------------------------------------------------------

NeedExtraSize(align) == mAlign % align # 0

RealSize(size, align) == IF NeedExtraSize(align) THEN size + align - 1 ELSE size

\* list->lower_bound(realSize): a smallest node that is large enough.
LowerBound(list, size, align) ==
    LET fits == {n \in list : node[n].size >= RealSize(size, align)}
    IN  {n \in fits : \A m \in fits : node[n].size <= node[m].size}

\* The pointer handed out for node n, and the space it then takes of n.
AlignedOff(n, align) ==
    IF NeedExtraSize(align) THEN UpTo(node[n].off, align) ELSE node[n].off
SizeAlign(n, size, align) ==
    UpTo(size + AlignedOff(n, align) - node[n].off, mAlign)

\* mUsedList.insert: the pointer at offset off of n's block is in use, held by n.
Use(n, off, size, align) ==
    LET p == <<Head(n), off>>
        u == [node |-> n, size |-> size, align |-> align, group |-> mCurrentFreeList]
    IN  /\ mUsedList' = Insert(mUsedList, p, u)
        /\ groupBytes' = IF mCurrentFreeList = 0 THEN groupBytes
                         ELSE [groupBytes EXCEPT ![mCurrentFreeList] =
                                   @ \union Bytes(Head(n), off, size)]

Init ==
    /\ config \in Config
    /\ node = << >>
    /\ mFreeList = {}
    /\ mUsedList = << >>
    /\ mGroups = << >>
    /\ mCurrentFreeList = 0
    /\ mTotalSize = 0
    /\ barrier = "none"
    /\ groupBytes = << >>

\* getFromFreeList(mCurrentFreeList, size, false, align): a whole node of the
\* open group's list.
TakeFromGroup(size, align) ==
    /\ \E n \in LowerBound(mGroups[mCurrentFreeList], size, align) :
           /\ Use(n, AlignedOff(n, align), size, align)
           /\ mGroups' = [mGroups EXCEPT ![mCurrentFreeList] = @ \ {n}]
    /\ UNCHANGED <<node, mFreeList, mCurrentFreeList, mTotalSize, barrier>>

\* getFromFreeList(&mFreeList, size, true, align), the request uses up node n.
TakeWholeCounting(n, size, align, d) ==
    /\ SizeAlign(n, size, align) >= node[n].size
    /\ Use(n, AlignedOff(n, align), size, align)
    /\ mFreeList' = mFreeList \ {n}
    /\ node' = IF IsRoot(n) THEN node ELSE Counted(node, Parent(n), d)

\* Mutant: the parent of a reused node is not told.
TakeWholeUncounted(n, size, align) == TakeWholeCounting(n, size, align, 0)

TakeWhole(n, size, align) == TakeWholeCounting(n, size, align, 1)

\* getFromFreeList(&mFreeList, size, true, align), node n is larger: its first
\* part, taken bytes long, is used and the rest is free.
SplitAt(n, size, align, taken) ==
    LET counted == IF IsRoot(n) THEN node ELSE Counted(node, Parent(n), 1)
        first  == [off |-> node[n].off, size |-> taken, useCount |-> 0]
        second == [off |-> node[n].off + taken, size |-> node[n].size - taken,
                   useCount |-> 0]
    IN  /\ SizeAlign(n, size, align) < node[n].size
        /\ Use(Child(n, 0), AlignedOff(n, align), size, align)
        /\ mFreeList' = (mFreeList \ {n}) \union {Child(n, 1)}
        /\ node' = Insert(Insert(Counted(counted, n, 1), Child(n, 0), first),
                          Child(n, 1), second)

\* Mutant: the split leaves no room for the padding in front of the pointer.
SplitUnpadded(n, size, align) == SplitAt(n, size, align, UpTo(size, mAlign))

Split(n, size, align) == SplitAt(n, size, align, SizeAlign(n, size, align))

TakeFromFreeList(size, align) ==
    /\ \E n \in LowerBound(mFreeList, size, align) :
           TakeWhole(n, size, align) \/ Split(n, size, align)
    /\ UNCHANGED <<mGroups, mCurrentFreeList, mTotalSize, barrier>>

\* The end of alloc: a block b of at least mMinAllocSize bytes, at an offset o
\* aligned as asked; when that is more than was asked, the first part is used
\* and the second is free.
TakeFreshCounting(b, size, align, d) ==
    LET allocSize == IF mMinAllocSize > size THEN mMinAllocSize ELSE size
        rounded  == UpTo(size, mAlign)
        root     == <<b>>
        part(off, bytes, count) == [off |-> off, size |-> bytes, useCount |-> count]
    IN  /\ b \notin {Head(n) : n \in DOMAIN node}
        /\ mTotalSize' = mTotalSize + allocSize
        /\ \E o \in config.Offset :
              /\ o % align = 0
              /\ \/ /\ allocSize > size
                    /\ Use(Child(root, 0), o, size, align)
                    /\ node' = Insert(Insert(Insert(node, root, part(o, allocSize, d)),
                                             Child(root, 0), part(o, rounded, 0)),
                                      Child(root, 1),
                                      part(o + rounded, allocSize - rounded, 0))
                    /\ IF mCurrentFreeList = 0
                       THEN /\ mFreeList' = mFreeList \union {Child(root, 1)}
                            /\ UNCHANGED mGroups
                       ELSE /\ mGroups' = [mGroups EXCEPT ![mCurrentFreeList] =
                                             @ \union {Child(root, 1)}]
                            /\ UNCHANGED mFreeList
                 \/ /\ allocSize = size
                    /\ Use(root, o, size, align)
                    /\ node' = Insert(node, root, part(o, allocSize, 0))
                    /\ UNCHANGED <<mFreeList, mGroups>>
        /\ UNCHANGED <<mCurrentFreeList, barrier>>

\* Mutant: useCount of the fresh block counts both parts.
TakeFreshBothCounted(b, size, align) == TakeFreshCounting(b, size, align, 2)

TakeFresh(b, size, align) == TakeFreshCounting(b, size, align, 1)

\* alloc(size, separate, align).  When the outer allocator answers nullptr the
\* call fails and changes nothing, which is a stuttering step.
Alloc(size, separate, align) ==
    LET inGroup == /\ ~separate /\ mCurrentFreeList # 0
                   /\ LowerBound(mGroups[mCurrentFreeList], size, align) # {}
        inFree  == ~separate /\ LowerBound(mFreeList, size, align) # {}
    IN  /\ barrier # "closing"
        /\ \/ inGroup /\ TakeFromGroup(size, align)
           \/ ~inGroup /\ inFree /\ TakeFromFreeList(size, align)
           \/ ~inGroup /\ ~inFree /\ \E b \in Block : TakeFresh(b, size, align)

\* returnMemory(&mFreeList, n): every ancestor left without a used child
\* swallows its children, up to the first ancestor that still has one.
ReturnSwallowing(n, branches) ==
    LET merged == {q \in Ancestors(n) : \A r \in Ancestors(n) :
                       Len(r) >= Len(q) => node[r].useCount = 1}
        top    == IF merged = {} THEN n
                  ELSE CHOOSE q \in merged : \A r \in merged : Len(q) <= Len(r)
        list   == (mFreeList \union {n}) \ {Child(q, i) : q \in merged, i \in branches}
        zeroed == [m \in DOMAIN node |->
                      IF m \in merged THEN [node[m] EXCEPT !.useCount = 0]
                      ELSE node[m]]
    IN  /\ mFreeList' = list \union {top}
        /\ KeepHeld(IF IsRoot(top) THEN zeroed ELSE Counted(zeroed, Parent(top), -1))

\* Mutant: a merge leaves the second child in the list.
ReturnKeepsSecond(n) == ReturnSwallowing(n, {0})

ReturnMemory(n) == ReturnSwallowing(n, {0, 1})

\* free(chunk).  Inside a group the node goes to the group's list, unmerged.
\* A caller frees in a group only what it got in that group or before the
\* barrier, and between two groups nothing of a group.
FreeInto(p, group) ==
    LET n == mUsedList[p].node
    IN  /\ barrier # "closing"
        /\ mUsedList[p].group \in {0, mCurrentFreeList}
        /\ mUsedList' = Restrict(mUsedList, DOMAIN mUsedList \ {p})
        /\ UNCHANGED <<mCurrentFreeList, mTotalSize, barrier, groupBytes>>
        /\ \/ /\ group # 0
              /\ mGroups' = [mGroups EXCEPT ![group] = @ \union {n}]
              /\ UNCHANGED <<node, mFreeList>>
           \/ group = 0 /\ UNCHANGED mGroups /\ ReturnMemory(n)

\* Mutant: a free inside a group goes to the list every group can take from.
FreeIgnoresGroup(p) == FreeInto(p, 0)

Free(p) == FreeInto(p, mCurrentFreeList)

\* release(true) forgets everything; release(false) gives the free blocks back.
ReleaseAll ==
    /\ barrier = "none"
    /\ mUsedList' = << >> /\ mFreeList' = {} /\ node' = << >>
    /\ mTotalSize' = 0
    /\ UNCHANGED <<mGroups, mCurrentFreeList, barrier, groupBytes>>

ReleaseFree ==
    LET roots == {n \in mFreeList : IsRoot(n)}
    IN  /\ barrier = "none"
        /\ mFreeList' = mFreeList \ roots
        /\ mTotalSize' = mTotalSize - SizeOf(roots)
        /\ UNCHANGED <<mUsedList, mGroups, mCurrentFreeList, barrier, groupBytes>>
        /\ KeepHeld(node)

BarrierBegin ==
    /\ barrier = "none" /\ MaxGroups > 0
    /\ barrier' = "open"
    /\ UNCHANGED <<node, mFreeList, mUsedList, mGroups, mCurrentFreeList,
                   mTotalSize, groupBytes>>

BeginGroup ==
    /\ barrier = "open" /\ mCurrentFreeList = 0
    /\ Len(mGroups) < MaxGroups
    /\ mGroups' = Append(mGroups, {})
    /\ mCurrentFreeList' = Len(mGroups) + 1
    /\ groupBytes' = Append(groupBytes, {})
    /\ UNCHANGED <<node, mFreeList, mUsedList, mTotalSize, barrier>>

EndGroup ==
    /\ mCurrentFreeList # 0
    /\ mCurrentFreeList' = 0
    /\ UNCHANGED <<node, mFreeList, mUsedList, mGroups, mTotalSize, barrier,
                   groupBytes>>

\* barrierEnd returns the nodes of every group in turn; nobody else runs
\* meanwhile.  Its last step forgets the groups.
BarrierEnd ==
    /\ barrier = "open" /\ mCurrentFreeList = 0
    /\ barrier' = "closing"
    /\ UNCHANGED <<node, mFreeList, mUsedList, mGroups, mCurrentFreeList,
                   mTotalSize, groupBytes>>

BarrierTake(g, n) ==
    /\ barrier = "closing" /\ n \in mGroups[g]
    /\ \A h \in 1 .. g - 1 : mGroups[h] = {}
    /\ mGroups' = [mGroups EXCEPT ![g] = @ \ {n}]
    /\ UNCHANGED <<mUsedList, mCurrentFreeList, mTotalSize, barrier, groupBytes>>

\* Mutant: the groups' nodes are listed as free without telling their parents.
BarrierReturnUnmerged(g, n) ==
    BarrierTake(g, n) /\ UNCHANGED node /\ mFreeList' = mFreeList \union {n}

BarrierReturn(g, n) == BarrierTake(g, n) /\ ReturnMemory(n)

BarrierDone ==
    /\ barrier = "closing"
    /\ \A g \in DOMAIN mGroups : mGroups[g] = {}
    /\ barrier' = "none"
    /\ mGroups' = << >> /\ groupBytes' = << >>
    /\ mUsedList' = [p \in DOMAIN mUsedList |-> [mUsedList[p] EXCEPT !.group = 0]]
    /\ UNCHANGED <<node, mFreeList, mCurrentFreeList, mTotalSize>>

Step ==
    \/ \E size \in config.Size, separate \in BOOLEAN, align \in config.AlignArg :
           Alloc(size, separate, align)
    \/ \E p \in DOMAIN mUsedList : Free(p)
    \/ ReleaseAll
    \/ ReleaseFree
    \/ BarrierBegin
    \/ BeginGroup
    \/ EndGroup
    \/ BarrierEnd
    \/ \E g \in DOMAIN mGroups : \E n \in mGroups[g] : BarrierReturn(g, n)
    \/ BarrierDone

Next == Step /\ UNCHANGED config

Spec == Init /\ [][Next]_vars

-----------------------------------------------------------------------------

NodeType(n) ==
    /\ Len(n) > 0 /\ n[1] \in Block
    /\ \A i \in 2 .. Len(n) : n[i] \in {0, 1}

\* Every list holds live nodes; size_t values never went below zero.
TypeOK ==
    /\ config \in Config
    /\ \A n \in DOMAIN node : NodeType(n) /\ node[n] \in [off : Nat, size : Nat, useCount : Nat]
    /\ Held(mFreeList, mUsedList, mGroups) \subseteq DOMAIN node
    /\ \A p \in DOMAIN mUsedList : mUsedList[p] \in
          [node : DOMAIN node, size : config.Size, align : config.AlignArg, group : 0 .. Len(mGroups)]
    /\ mCurrentFreeList \in 0 .. Len(mGroups)
    /\ Len(mGroups) <= MaxGroups
    /\ mTotalSize \in Nat
    /\ barrier \in {"none", "open", "closing"}
    /\ DOMAIN groupBytes = DOMAIN mGroups

NodeBytes(n) == Bytes(Head(n), node[n].off, node[n].size)
ChunkBytes(p) == Bytes(p[1], p[2], mUsedList[p].size)

\* Two chunks in use never share a byte, and no byte of a chunk in use lies
\* in memory the allocator counts as free or outside the chunk's block, also
\* when the pointer was moved forward to the alignment its caller asked for
\* (MNN_ASSERT(pointer.second % align == 0) of getFromFreeList and alloc).
ChunksDisjoint ==
    LET used == DOMAIN mUsedList
        free == mFreeList \union UNION {mGroups[g] : g \in DOMAIN mGroups}
    IN  /\ \A p, q \in used : p # q => ChunkBytes(p) \intersect ChunkBytes(q) = {}
        /\ \A p \in used, n \in free : ChunkBytes(p) \intersect NodeBytes(n) = {}
        /\ \A p \in used : ChunkBytes(p) \subseteq NodeBytes(<<p[1]>>)
        /\ \A p \in used : p[2] % mUsedList[p].align = 0

\* No memory is lost or counted twice: the nodes in use, free or waiting for
\* the end of the barrier add up to totalSize().
NothingLost == mTotalSize = SizeOf(Held(mFreeList, mUsedList, mGroups))

\* useCount of a split node is the number of its children outside mFreeList,
\* however used, grouped and split ones were mixed.
UseCountExact ==
    \A n \in DOMAIN node :
        node[n].useCount =
            Cardinality({m \in DOMAIN node \intersect {Child(n, 0), Child(n, 1)} :
                            m \notin mFreeList})

\* Once nothing is in use and no barrier is open, every split has been undone:
\* the free list holds whole blocks, so release(false) gives everything back.
MergedWhenIdle ==
    (barrier = "none" /\ DOMAIN mUsedList = {}) => \A n \in mFreeList : IsRoot(n)

\* "different group must use different memory" (BufferAllocator.hpp): what one
\* group was handed at any time of the barrier no other group was handed.
GroupsDisjoint ==
    \A g, h \in DOMAIN groupBytes :
        g # h => groupBytes[g] \intersect groupBytes[h] = {}

=============================================================================
