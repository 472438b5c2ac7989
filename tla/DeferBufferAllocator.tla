------------------------ MODULE DeferBufferAllocator ------------------------
(***************************************************************************)
(* DeferBufferAllocator and SingleBufferWithAllocator of                   *)
(* source/core/BufferAllocator.cpp.  While a session is resized, alloc and *)
(* free only build a plan: a list of chunks whose sizes may still grow.    *)
(* compute gives every chunk its offset in one buffer, and apply binds the *)
(* chunks to the buffer, which the allocators of all the backends of one   *)
(* runtime share and which each of them may replace by a larger one.       *)
(*                                                                         *)
(* The doubly linked list left/right/mHead/mTail is the sequence list, a   *)
(* chunk is named by its index in mChunks, and the tree children is kept   *)
(* as its inverse, into.  mFreeList is ordered by size only: which chunk   *)
(* of several of one size is found is left open.  No caller gives alloc an *)
(* alignment of its own.                                                   *)
(***************************************************************************)
EXTENDS Integers, FiniteSets, Sequences, SequencesExt

CONSTANTS
    Allocator,   \* the allocators that share the buffer
    Address,     \* addresses root->onAlloc can answer
    NoAllocator, \* nobody
    Config       \* the instances to check, records with the fields
                 \*   mAlign
                 \*   Size          request sizes
                 \*   MaxAllocators bound: allocators with a plan
                 \*   MaxChunks     bound: length of mChunks
                 \*   MaxRequests   bound: requests of one allocator
                 \*   OnAllocFails  root->onAlloc may answer nullptr

NULL == 0

ASSUME DeferAssumption ==
    /\ Address \subseteq Nat \ {NULL}
    /\ NoAllocator \notin Allocator
    /\ \A c \in Config :
          /\ c.mAlign \in Nat \ {0}
          /\ c.Size \subseteq Nat \ {0}
          /\ c.MaxAllocators \in Nat /\ c.MaxChunks \in Nat /\ c.MaxRequests \in Nat
          /\ c.OnAllocFails \in BOOLEAN

VARIABLES
    config,  \* the instance: a member of Config
    plan,    \* allocator -> its members, see EmptyPlan
    buffer,  \* SingleBufferWithAllocator: [current, currentSize], and
             \*   real: the bytes that really lie behind current
    code,    \* allocator -> what its last compute or apply returned
    bound,   \* allocator whose memory the running operators may use
    live,    \* history: allocator -> requests <<chunk, size>> not yet freed
    together, \* history: allocator -> pairs of requests that must not overlap
    asked    \* history: allocator -> number of its requests

vars == <<config, plan, buffer, code, bound, live, together, asked>>

EmptyPlan ==
    [list |-> << >>, chunk |-> << >>, mFreeList |-> {}, mBarrrier |-> FALSE,
     mBarrrierFreeChunks |-> << >>, mTotalSize |-> 0, mPtr |-> NULL]

Init ==
    /\ config \in Config
    /\ plan = [a \in Allocator |-> EmptyPlan]
    /\ buffer = [current |-> NULL, currentSize |-> 0, real |-> 0]
    /\ code = [a \in Allocator |-> "NO_ERROR"]
    /\ bound = NoAllocator
    /\ live = [a \in Allocator |-> {}]
    /\ together = [a \in Allocator |-> {}]
    /\ asked = [a \in Allocator |-> 0]

mAlign == config.mAlign

UpTo(x, a) == ((x + a - 1) \div a) * a

-----------------------------------------------------------------------------
(* The plan of one allocator: operators on the record st of its members.   *)

PosOf(st, c) == CHOOSE i \in DOMAIN st.list : st.list[i] = c

\* createMemNode, then insert_after at position i of the list.
Create(st, size, usage, i) ==
    [st EXCEPT !.chunk = Append(@, [size |-> size, offset |-> 0,
                                    usage |-> usage, into |-> 0]),
               !.list  = InsertAt(@, i, Len(st.chunk) + 1)]

\* mFreeList.lower_bound(size), or the last, largest one when there is none.
Select(st, size) ==
    LET sz(c) == st.chunk[c].size
        fits  == {c \in st.mFreeList : sz(c) >= size}
    IN  IF fits # {}
        THEN {c \in fits : \A d \in fits : sz(c) <= sz(d)}
        ELSE {c \in st.mFreeList : \A d \in st.mFreeList : sz(c) >= sz(d)}

\* Chunk c of the free list is given size: a larger one is split, a smaller
\* one expands.
ReuseListing(st, c, size, listed) ==
    LET rest  == st.chunk[c].size - size
        taken == [st EXCEPT !.mFreeList = @ \ {c},
                            !.chunk[c].usage = TRUE, !.chunk[c].size = size]
    IN  IF rest <= 0 THEN taken
        ELSE [Create(taken, rest, FALSE, PosOf(st, c) + 1) EXCEPT
                 !.mFreeList = @ \union listed]

\* Mutant: what is left of a split chunk is not put into the free list.
ReuseLosesRest(st, c, size) == ReuseListing(st, c, size, {})

Reuse(st, c, size) == ReuseListing(st, c, size, {Len(st.chunk) + 1})

\* The outcomes of alloc: the new members and the chunk answered.
AllocResults(st, size, separate) ==
    IF st.mFreeList = {} \/ separate
    THEN {[st |-> Create(st, size, TRUE, Len(st.list) + 1), c |-> Len(st.chunk) + 1]}
    ELSE {[st |-> Reuse(st, c, size), c |-> c] : c \in Select(st, size)}

\* fuse_to_left: chunk right becomes a child of its left neighbour.
FuseAt(st, left, right, offset) ==
    LET l == [st.chunk[left] EXCEPT !.size = @ + st.chunk[right].size]
        r == [st.chunk[right] EXCEPT !.offset = offset, !.into = left]
    IN  [st EXCEPT !.chunk = [@ EXCEPT ![left] = l, ![right] = r],
                   !.list = RemoveAt(@, PosOf(st, right)),
                   !.mFreeList = @ \ {left, right}]

\* Mutant: the child starts where its left neighbour starts.
FuseOverlaid(st, left, right) == FuseAt(st, left, right, 0)

FuseToLeft(st, left, right) == FuseAt(st, left, right, st.chunk[left].size)

\* free outside a barrier, fusing with the free ones of the neighbours on sides.
FreeFusing(st, c, sides) ==
    LET i      == PosOf(st, c)
        isFree(d) == /\ d \in sides /\ i + d \in DOMAIN st.list
                     /\ ~st.chunk[st.list[i + d]].usage
        n      == IF isFree(-1) THEN st.list[i - 1] ELSE c
        onLeft == IF isFree(-1) THEN FuseToLeft(st, n, c) ELSE st
        fused  == IF isFree(1) THEN FuseToLeft(onLeft, n, st.list[i + 1]) ELSE onLeft
    IN  [fused EXCEPT !.chunk[n].usage = FALSE, !.mFreeList = @ \union {n}]

\* Mutant: a free right neighbour is left alone.
FreeLeftOnly(st, c) == FreeFusing(st, c, {-1})

FreeNow(st, c) == FreeFusing(st, c, {-1, 1})

\* compute's loop and visiChildren: offsets become absolute.
Absolute(chunk) ==
    LET abs[c \in DOMAIN chunk] ==
            IF chunk[c].into = 0 THEN 0 ELSE chunk[c].offset + abs[chunk[c].into]
    IN  abs

Offsets(st) ==
    [st EXCEPT !.mTotalSize = st.chunk[st.list[1]].size,
               !.chunk = [c \in DOMAIN st.chunk |->
                             [st.chunk[c] EXCEPT !.offset = Absolute(st.chunk)[c]]]]

-----------------------------------------------------------------------------
(* apply of allocator a whose members are st, and realloc: the outcomes.   *)

ReallocResults(size) ==
    IF buffer.currentSize >= size THEN {[buffer |-> buffer, code |-> "NO_ERROR"]}
    ELSE {[buffer |-> [current |-> p, currentSize |-> size, real |-> size],
           code |-> "NO_ERROR"] : p \in Address}
         \union {[buffer |-> [buffer EXCEPT !.current = NULL, !.real = 0],
                  code |-> "OUT_OF_MEMORY"] : failed \in {TRUE} \intersect {config.OnAllocFails}}

\* Everything apply may do: the buffer afterwards, the return code, mPtr.
ApplyResults(st) ==
    IF st.mFreeList = {}
    THEN {[buffer |-> buffer, code |-> "NO_ERROR", mPtr |-> st.mPtr]}
    ELSE {[buffer |-> r.buffer, code |-> r.code,
           mPtr |-> IF r.code = "NO_ERROR" THEN r.buffer.current ELSE st.mPtr] :
          r \in ReallocResults(st.mTotalSize)}

ApplyBinding(a, st, keepPtr) ==
    \E r \in ApplyResults(st) :
        /\ buffer' = r.buffer
        /\ code' = [code EXCEPT ![a] = r.code]
        /\ plan' = [plan EXCEPT ![a] = [st EXCEPT !.mPtr = IF keepPtr THEN @ ELSE r.mPtr]]
        /\ bound' = IF r.code = "NO_ERROR" /\ st.mFreeList # {} THEN a ELSE NoAllocator

\* Mutant: a plan that fits the buffer is not bound again after another
\* allocator moved the buffer.
ApplySkipsMoved(a, st) ==
    ApplyBinding(a, st, st.mPtr # NULL /\ buffer.currentSize >= st.mTotalSize)

ApplyTo(a, st) == ApplyBinding(a, st, FALSE)

-----------------------------------------------------------------------------

\* Requests are made while a plan is built: onResizeBegin resets, and nothing
\* is requested between onResizeEnd and the next onResizeBegin.
Planning(a) == plan[a].mTotalSize = 0

\* barrierEnd is giving back what was noted; nobody else calls the allocator.
Closing(a) == ~plan[a].mBarrrier /\ plan[a].mBarrrierFreeChunks # << >>

\* alloc(size, separate)
Alloc(a, size, separate) ==
    /\ Planning(a) /\ ~Closing(a)
    /\ Len(plan[a].chunk) < config.MaxChunks /\ asked[a] < config.MaxRequests
    /\ Cardinality({b \in Allocator : asked[b] > 0} \union {a}) <= config.MaxAllocators
    /\ asked' = [asked EXCEPT ![a] = @ + 1]
    /\ \E r \in AllocResults(plan[a], UpTo(size, mAlign), separate) :
           LET x == <<r.c, UpTo(size, mAlign)>>
           IN  /\ plan' = [plan EXCEPT ![a] = r.st]
               /\ live' = [live EXCEPT ![a] = @ \union {x}]
               /\ together' = [together EXCEPT ![a] =
                                  @ \union {{x, y} : y \in live[a] \union {x} \union
                                                  (IF separate THEN UNION @ ELSE {})}]
    /\ bound' = IF bound = a THEN NoAllocator ELSE bound
    /\ UNCHANGED <<buffer, code>>

Waiting(a) == ToSet(plan[a].mBarrrierFreeChunks)

\* free(chunk): in a barrier the chunk is only noted.
Free(a, c) ==
    /\ Planning(a) /\ ~Closing(a) /\ c \notin Waiting(a)
    /\ \/ /\ plan[a].mBarrrier
          /\ plan' = [plan EXCEPT ![a].mBarrrierFreeChunks = Append(@, c)]
          /\ UNCHANGED live
       \/ /\ ~plan[a].mBarrrier
          /\ plan' = [plan EXCEPT ![a] = FreeNow(@, c)]
          /\ live' = [live EXCEPT ![a] = {x \in @ : x[1] # c}]
    /\ UNCHANGED <<buffer, code, bound, together, asked>>

BarrierBegin(a) ==
    /\ Planning(a) /\ ~Closing(a) /\ ~plan[a].mBarrrier
    /\ plan' = [plan EXCEPT ![a].mBarrrier = TRUE]
    /\ UNCHANGED <<buffer, code, bound, live, together, asked>>

\* barrierEnd, up to its loop.
BarrierEnd(a) ==
    /\ plan[a].mBarrrier
    /\ plan' = [plan EXCEPT ![a].mBarrrier = FALSE]
    /\ UNCHANGED <<buffer, code, bound, live, together, asked>>

\* One turn of its loop: the next chunk that was noted is freed.
BarrierFree(a) ==
    LET c == Head(plan[a].mBarrrierFreeChunks)
    IN  /\ Closing(a)
        /\ plan' = [plan EXCEPT ![a] =
                       FreeNow([plan[a] EXCEPT !.mBarrrierFreeChunks = Tail(@)], c)]
        /\ live' = [live EXCEPT ![a] = {x \in @ : x[1] # c}]
        /\ UNCHANGED <<buffer, code, bound, together, asked>>

\* reset, and release(true)
Reset(a) ==
    /\ plan[a] # EmptyPlan /\ ~Closing(a)
    /\ plan' = [plan EXCEPT ![a] = EmptyPlan]
    /\ live' = [live EXCEPT ![a] = {}]
    /\ together' = [together EXCEPT ![a] = {}]
    /\ bound' = IF bound = a THEN NoAllocator ELSE bound
    /\ UNCHANGED <<buffer, code, asked>>

\* compute: once everything has been freed one free chunk is left; a second
\* compute of one plan (mBackend and mBackupBackend may be the same backend),
\* or one of an empty plan, does nothing.
Compute(a) ==
    LET st == plan[a]
        nothing == ~Planning(a) \/ st.mFreeList = {}
        ok == Cardinality(st.mFreeList) = 1 /\ Len(st.list) = 1
    IN  /\ ~st.mBarrrier /\ ~Closing(a)
        /\ \/ /\ nothing
              /\ code' = [code EXCEPT ![a] = "NO_ERROR"]
              /\ UNCHANGED <<plan, buffer, bound>>
           \/ ~nothing /\ ok /\ ApplyTo(a, Offsets(st))
           \/ /\ ~nothing /\ ~ok
              /\ code' = [code EXCEPT ![a] = "INVALID_VALUE"]
              /\ UNCHANGED <<plan, buffer, bound>>
        /\ UNCHANGED <<live, together, asked>>

\* apply, at onExecuteBegin and onMapTensor.
Apply(a) ==
    /\ plan[a].mTotalSize > 0
    /\ ApplyTo(a, plan[a])
    /\ UNCHANGED <<live, together, asked>>

\* SingleBufferWithAllocator::release, from onGabageCollect and
\* onSelectDynamicAllocator.
ReleaseBuffer ==
    /\ buffer.current # NULL
    /\ buffer' = [current |-> NULL, currentSize |-> 0, real |-> 0]
    /\ bound' = NoAllocator
    /\ UNCHANGED <<plan, code, live, together, asked>>

Step ==
    \/ \E a \in Allocator :
          \/ \E size \in config.Size, separate \in BOOLEAN : Alloc(a, size, separate)
          \/ \E x \in live[a] : Free(a, x[1])
          \/ BarrierBegin(a) \/ BarrierEnd(a) \/ BarrierFree(a)
          \/ Reset(a) \/ Compute(a) \/ Apply(a)
    \/ ReleaseBuffer

Next == Step /\ UNCHANGED config

Spec == Init /\ [][Next]_vars

-----------------------------------------------------------------------------

\* The list, the free list and the chunks of every allocator fit together.
TypeOK ==
    /\ \A a \in Allocator : LET st == plan[a] IN
          /\ st.chunk \in Seq([size : Nat \ {0}, offset : Nat, usage : BOOLEAN,
                              into : 0 .. Len(st.chunk)])
          /\ ToSet(st.list) = {c \in DOMAIN st.chunk : st.chunk[c].into = 0}
          /\ IsInjective(st.list)
          /\ st.mFreeList = {c \in ToSet(st.list) : ~st.chunk[c].usage}
          /\ st.mPtr \in Address \union {NULL}
          /\ code[a] \in {"NO_ERROR", "OUT_OF_MEMORY", "INVALID_VALUE"}
    /\ bound \in Allocator \union {NoAllocator}

\* Once everything requested has been freed, one free chunk is left, whatever
\* the order of the frees: compute does not answer INVALID_VALUE.
FreedIsOneChunk ==
    \A a \in Allocator : LET st == plan[a] IN
        (live[a] = {} /\ ~st.mBarrrier /\ st.list # << >>) =>
            Len(st.list) = 1 /\ Cardinality(st.mFreeList) = 1

\* Two requests that were live at the same time, a chunk freed inside a
\* barrier counting as live until barrierEnd, get disjoint ranges, all of them
\* inside the computed size, however chunks were split, expanded and fused. A
\* separate request is disjoint from every earlier one, freed or not: what is
\* written to it before an execution must survive until it is read.
PlanDisjoint ==
    \A a \in Allocator : LET st == plan[a] off(x) == st.chunk[x[1]].offset IN
        st.mTotalSize > 0 =>
            \A pair \in together[a] : \A x, y \in pair :
                /\ off(x) + x[2] <= st.mTotalSize
                /\ x # y => off(x) + x[2] <= off(y) \/ off(y) + y[2] <= off(x)

\* When compute or apply has answered NO_ERROR, the chunks are bound to the
\* shared buffer as it is now and the whole plan fits in it, whatever the other
\* allocators did to the buffer before.
AppliedIsBacked ==
    bound # NoAllocator =>
        /\ buffer.current # NULL
        /\ plan[bound].mPtr = buffer.current
        /\ plan[bound].mTotalSize <= buffer.real

=============================================================================
