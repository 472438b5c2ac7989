---------------------------- MODULE WeightCache ----------------------------
(***************************************************************************)
(* The cache of rearranged weights that outlives a process.  With a weight *)
(* directory and the hint useCachedMmap, the static allocator of CPURuntime*)
(* cuts the weights out of mapped files (MmapAllocator).  onClearBuffer,   *)
(* called when a module is first encoded, syncs the files, creates a       *)
(* marker file and swaps the static allocator back to the heap.  A process *)
(* that finds the marker when a module is loaded lays its weights out over *)
(* the same files and does not fill them again.                            *)
(*                                                                         *)
(* Nothing in the files says where a weight lies: the layout is the order  *)
(* of the requests, and a process that fills also requests memory for      *)
(* temporaries.  The process may die between any two steps; the machine    *)
(* may lose what was not written back.                                     *)
(*                                                                         *)
(* Sizes are in units of the allocator's alignment.  A cell of a file      *)
(* holds <<w, i>>, unit i of weight w, or Zero.                            *)
(***************************************************************************)
EXTENDS Integers, FiniteSets, Sequences, SequencesExt

CONSTANTS
    Net,      \* the modules of the model: sequences of weight-bearing
              \*   operators [w, size, temp, skips]
    mmapSize  \* hint().mmapFileSize

Op == UNION {ToSet(Net[m]) : m \in DOMAIN Net}

\* The operators in the order in which their weights are requested.
Order == FlattenSeq(Net)

ASSUME NetAssumption ==
    /\ mmapSize \in Nat \ {0}
    /\ Net \in Seq(Seq([w : Nat, size : 1 .. mmapSize, temp : 0 .. mmapSize,
                        skips : BOOLEAN]))
    /\ \A i, j \in DOMAIN Order : Order[i].w = Order[j].w => i = j
    \* An operator that fills its weights in every process
    \* (DenseConvolutionTiledExecutor) uses its temporary in every process
    \* too, at the place of the weights requested next: these must then be
    \* filled in every process as well.
    /\ \A i, j \in DOMAIN Order :
          (i < j /\ ~Order[i].skips /\ Order[i].temp > 0) => ~Order[j].skips

Zero == <<0, 0>>
Cells == 1 .. mmapSize
ZeroFile == [c \in Cells |-> Zero]

Seg(file, off, size) == [file |-> file, off |-> off, size |-> size]
NoSeg == Seg(0, 0, 0)

VARIABLES
    disk,   \* number -> file of the weight directory:
            \*   mem, what processes see, and dur, what a power loss leaves
    sync,   \* <prefix>sync.static exists
    proc,   \* the process, see Started
    layout, \* history: where the weights lay when the marker was created
    resumed, \* history: the marker was created without writing the files back
    sound   \* history: the cache has been used as the code expects, see README

vars == <<disk, sync, proc, layout, resumed, sound>>

Stopped == [pc |-> "down"]

\* A process with its runtime, before the first module is loaded.
Started(user) ==
    [pc |-> "idle",
     user |-> user,          \* the hint USE_CACHED_MMAP of the user
     useCachedMmap |-> user, \* hint().useCachedMmap of the runtime
     allocator |-> "heap",   \* mStaticAllocator: "heap", "mmap", and "swapped"
                             \*   for the heap again after onClearBuffer
     mRemove |-> FALSE, mSyncValid |-> FALSE, mNewMmap |-> FALSE,
     mAllocTimes |-> 0,
     mFreeList |-> << >>,    \* free segments, in the order of their insertion
     at |-> {},              \* operators created: [op, seg, mem], mem: "file", or
                             \*   "set" or "unset" memory of the heap
     seg |-> NoSeg,          \* memory of the operator that is being created
     todo |-> << >>,         \* operators preRearrangeWeights has still to create
     late |-> << >>,         \* operators _createExecutions has still to create
     loaded |-> 0,           \* modules loaded
     then |-> "idle"]        \* what follows onClearBuffer

Init ==
    /\ disk = << >> /\ sync = FALSE
    /\ proc = Stopped
    /\ layout = {} /\ resumed = FALSE /\ sound = TRUE

-----------------------------------------------------------------------------
(* The static allocator while it cuts out of mapped files: operators on    *)
(* the record p of the process and the files d.                            *)

\* lower_bound: the smallest segments that are large enough.
Fitting(p, size) ==
    LET fits == {i \in DOMAIN p.mFreeList : p.mFreeList[i].size >= size}
    IN  {i \in fits : \A j \in fits : p.mFreeList[i].size <= p.mFreeList[j].size}

\* The one inserted first.
LowerBound(p, size) == CHOOSE i \in Fitting(p, size) : \A j \in Fitting(p, size) : i <= j

\* Mutant: the rest still contains the last unit that was taken.
SplitShort(p, s, size) ==
    [p EXCEPT !.mFreeList = IF s.size = size THEN @
                            ELSE Append(@, Seg(s.file, s.off + size - 1, s.size - size + 1))]

\* The first size units of segment s are used, the rest is free.
Split(p, s, size) ==
    [p EXCEPT !.mFreeList = IF s.size = size THEN @
                            ELSE Append(@, Seg(s.file, s.off + size, s.size - size))]

\* MmapAllocator::onAlloc: file mAllocTimes, opened when it is there and
\* otherwise created.
OnAlloc(p, d) ==
    LET f == p.mAllocTimes + 1
    IN  [p |-> [p EXCEPT !.mAllocTimes = f, !.mNewMmap = @ \/ f \notin DOMAIN d],
         d |-> [g \in DOMAIN d \union {f} |->
                   IF g \in DOMAIN d THEN d[g] ELSE [mem |-> ZeroFile, dur |-> ZeroFile]]]

NeedsFile(p, size) == Fitting(p, size) = {}

\* EagerBufferAllocator::alloc
Alloc(p, d, size) ==
    IF NeedsFile(p, size)
    THEN LET new == OnAlloc(p, d)
             s == Seg(p.mAllocTimes + 1, 0, mmapSize)
         IN  [p |-> Split(new.p, s, size), d |-> new.d, seg |-> Seg(s.file, 0, size)]
    ELSE LET i == LowerBound(p, size)
             s == p.mFreeList[i]
         IN  [p |-> Split([p EXCEPT !.mFreeList = RemoveAt(@, i)], s, size), d |-> d,
              seg |-> Seg(s.file, s.off, size)]

\* EagerBufferAllocator::free of the segment requested last: the split is undone,
\* and the whole is inserted again.
Free(p, seg) ==
    LET list == p.mFreeList
        rest == {i \in DOMAIN list : list[i].file = seg.file /\ list[i].off = seg.off + seg.size}
        i == CHOOSE x \in rest : TRUE
    IN  [p EXCEPT !.mFreeList =
            IF rest = {} THEN Append(list, seg)
            ELSE Append(RemoveAt(list, i), Seg(seg.file, seg.off, seg.size + list[i].size))]

Write(d, seg, data) ==
    [d EXCEPT ![seg.file].mem = [c \in Cells |->
        IF c \in seg.off + 1 .. seg.off + seg.size THEN data[c - seg.off] ELSE @[c]]]

Data(op) == [i \in 1 .. op.size |-> <<op.w, i>>]
Junk(n) == [i \in 1 .. n |-> Zero]

Holds(file, seg, op) == \A i \in 1 .. op.size : file[seg.off + i] = <<op.w, i>>

-----------------------------------------------------------------------------

\* Mutant: the hint of the user is taken for the marker.
SkipsOnHint(p, op) == p.useCachedMmap > 0 /\ op.skips

\* Creating an operator skips what the cache is believed to hold.
Skips(p, op) == p.useCachedMmap > 1 /\ op.skips

\* CPURuntime::onCreate, its part about static memory: called twice for a module,
\* for constReplaceBackend and for the module's own backend.
OnCreate(p) ==
    LET valid == p.user > 0 /\ sync
    IN  [p EXCEPT !.useCachedMmap = IF valid THEN @ + 1 ELSE @,
                  !.allocator  = IF @ = "heap" THEN "mmap" ELSE @,
                  !.mRemove    = IF p.allocator = "heap" THEN p.user = 0 ELSE @,
                  !.mSyncValid = IF p.allocator = "heap" THEN valid ELSE @]

\* A process starts.  After a use of the cache the code does not expect nothing
\* is claimed and none is started.
Start(user) ==
    /\ proc = Stopped /\ sound
    /\ proc' = Started(user)
    /\ sound' = (sound /\ (sync => user = 1))
    /\ UNCHANGED <<disk, sync, layout, resumed>>

\* Module::load of the next module: the user's hint is set again.
Load(rearrange) ==
    /\ proc.pc = "idle" /\ proc.loaded < Len(Net)
    /\ LET p == OnCreate(OnCreate([proc EXCEPT !.useCachedMmap = proc.user]))
           ops == Net[proc.loaded + 1]
       IN  proc' = [p EXCEPT !.loaded = @ + 1,
                             !.todo = IF rearrange THEN ops ELSE @,
                             !.late = IF rearrange THEN @ ELSE @ \o ops,
                             !.pc = IF rearrange /\ ops # << >> THEN "acquire" ELSE @]
    /\ sound' = (sound /\ (proc.user = 0 \/ (rearrange /\ proc.allocator # "swapped")))
    /\ UNCHANGED <<disk, sync, layout, resumed>>

\* On to the next operator of preRearrangeWeights.
Created(p) ==
    [p EXCEPT !.todo = Tail(@), !.pc = IF Len(p.todo) = 1 THEN "idle" ELSE "acquire"]

Place(p, op, seg, mem) ==
    Created([p EXCEPT !.at = @ \union {[op |-> op, seg |-> seg, mem |-> mem]},
                      !.seg = NoSeg])

HeapMem(p, op) == IF Skips(p, op) THEN "unset" ELSE "set"

\* onAcquireBuffer(weight, STATIC) of the next operator.
AcquireWeight ==
    LET op == Head(proc.todo)
        a  == Alloc(proc, disk, op.size)
    IN  /\ proc.pc = "acquire"
        /\ \/ /\ proc.allocator = "mmap"
              /\ disk' = a.d
              /\ proc' = IF Skips(proc, op) THEN Place(a.p, op, a.seg, "file")
                         ELSE [a.p EXCEPT !.seg = a.seg, !.pc = "fill"]
              /\ sound' = (sound /\ Cardinality(Fitting(proc, op.size)) <= 1)
           \/ /\ proc.allocator = "swapped"
              /\ proc' = Place(proc, op, NoSeg, HeapMem(proc, op))
              /\ UNCHANGED <<disk, sound>>
        /\ UNCHANGED <<sync, layout, resumed>>

\* The weights are rearranged into their memory, some operators through a
\* temporary of the same allocator.
FillWeight ==
    LET op == Head(proc.todo)
        t  == Alloc(proc, disk, op.temp)
        hasTemp == op.temp > 0
        d  == IF hasTemp THEN Write(t.d, t.seg, Junk(op.temp)) ELSE disk
        p  == IF hasTemp THEN Free(t.p, t.seg) ELSE proc
    IN  /\ proc.pc = "fill"
        /\ disk' = Write(d, proc.seg, Data(op))
        /\ proc' = Place(p, op, proc.seg, "file")
        /\ sound' = (sound /\ (hasTemp => Cardinality(Fitting(proc, op.temp)) <= 1))
        /\ UNCHANGED <<sync, layout, resumed>>

\* onClearBuffer, called by Pipeline::encode before it creates executions and by
\* ~Pipeline: it does something once in a process.
ClearBuffer(then) ==
    /\ proc.pc = "idle" /\ proc.loaded > 0
    /\ then = "idle" => proc.allocator = "mmap" \/ proc.late # << >>
    /\ proc' = [proc EXCEPT !.pc = IF proc.allocator = "mmap" THEN "msync" ELSE "finish",
                            !.then = then]
    /\ UNCHANGED <<disk, sync, layout, resumed, sound>>

\* Mutant: the marker vouches for pages that were never written back.
SyncPagesNot ==
    /\ proc.pc = "msync"
    /\ proc' = [proc EXCEPT !.pc = "mark"]
    /\ UNCHANGED <<disk, sync, layout, resumed, sound>>

\* MmapAllocator::sync up to the marker: files this process created are written back.
SyncPages ==
    /\ proc.pc = "msync"
    /\ disk' = IF ~proc.mRemove /\ proc.mNewMmap
               THEN [f \in DOMAIN disk |->
                       IF f <= proc.mAllocTimes THEN [disk[f] EXCEPT !.dur = disk[f].mem]
                       ELSE disk[f]]
               ELSE disk
    /\ proc' = [proc EXCEPT !.pc = "mark"]
    /\ UNCHANGED <<sync, layout, resumed, sound>>

\* The marker, then the swap of mStaticAllocator.
SyncMark ==
    LET makes == ~proc.mRemove /\ (proc.mNewMmap \/ ~proc.mSyncValid)
    IN  /\ proc.pc = "mark"
        /\ proc' = [proc EXCEPT !.pc = "finish", !.allocator = "swapped"]
        /\ sync' = (sync \/ makes)
        /\ layout' = IF makes THEN proc.at ELSE layout
        /\ resumed' = IF makes THEN ~proc.mNewMmap ELSE resumed
        /\ sound' = (sound /\ (makes => {e.op : e \in proc.at} = Op))
        /\ UNCHANGED disk

\* _createExecutions of what was not created before.
CreateExecutions ==
    /\ proc.pc = "finish" /\ proc.then = "idle"
    /\ proc' = [proc EXCEPT !.pc = "idle", !.late = << >>,
                  !.at = @ \union {[op |-> op, seg |-> NoSeg, mem |-> HeapMem(proc, op)] :
                                      op \in ToSet(proc.late)}]
    /\ UNCHANGED <<disk, sync, layout, resumed, sound>>

\* ~Pipeline, ~CPURuntime and ~MmapAllocator: the process ends.
Exit ==
    /\ \/ proc.pc = "finish" /\ proc.then = "exit"
       \/ proc.pc = "idle" /\ proc.loaded = 0
    /\ proc' = Stopped
    /\ disk' = IF proc.mRemove THEN Restrict(disk, DOMAIN disk \ 1 .. proc.mAllocTimes)
               ELSE disk
    /\ UNCHANGED <<sync, layout, resumed, sound>>

\* The process dies; the system still writes its pages back.
Crash ==
    /\ proc.pc # "down"
    /\ proc' = Stopped
    /\ UNCHANGED <<disk, sync, layout, resumed, sound>>

\* The machine stops: files may lose what was not written back.
PowerLoss(lost, markerLost) ==
    /\ disk' = [f \in DOMAIN disk |->
                  IF f \in lost THEN [disk[f] EXCEPT !.mem = disk[f].dur]
                  ELSE [disk[f] EXCEPT !.dur = disk[f].mem]]
    /\ sync' = (sync /\ ~markerLost)
    /\ proc' = Stopped
    /\ sound' = (sound /\ ~(sync /\ resumed))
    /\ UNCHANGED <<layout, resumed>>

Next ==
    \/ \E user \in {0, 1} : Start(user)
    \/ \E rearrange \in BOOLEAN : Load(rearrange)
    \/ AcquireWeight
    \/ FillWeight
    \/ \E then \in {"idle", "exit"} : ClearBuffer(then)
    \/ SyncPages
    \/ SyncMark
    \/ CreateExecutions
    \/ Exit
    \/ Crash
    \/ \E lost \in SUBSET DOMAIN disk, markerLost \in BOOLEAN : PowerLoss(lost, markerLost)

Spec == Init /\ [][Next]_vars

-----------------------------------------------------------------------------

Used(p) == {e.seg : e \in {x \in p.at : x.mem = "file"}}
              \union (IF p.pc = "fill" THEN {p.seg} ELSE {})

SegCells(s) == {<<s.file, s.off + i>> : i \in 1 .. s.size}

\* The segments in use and the free ones of a running process tile the files it
\* has opened: no unit is handed out twice and none is lost.
TypeOK ==
    /\ DOMAIN disk \subseteq Nat
    /\ \A f \in DOMAIN disk : DOMAIN disk[f].mem = Cells /\ DOMAIN disk[f].dur = Cells
    /\ sync \in BOOLEAN /\ resumed \in BOOLEAN /\ sound \in BOOLEAN
    /\ proc # Stopped =>
         LET all == Used(proc) \union ToSet(proc.mFreeList)
         IN  /\ \A s, t \in all : s # t => SegCells(s) \intersect SegCells(t) = {}
             /\ UNION {SegCells(s) : s \in all} = (1 .. proc.mAllocTimes) \X Cells
             /\ 1 .. proc.mAllocTimes \subseteq DOMAIN disk

\* Every operator a process has created reads its own weights, whether this
\* process filled them, another one did, or one died while it did.
WeightsRight ==
    (sound /\ proc # Stopped) => \A e \in proc.at :
        IF e.mem = "file" THEN Holds(disk[e.seg.file].mem, e.seg, e.op) ELSE e.mem = "set"

\* While the marker exists the files hold every weight that later processes will
\* not fill again, where the process that created the marker saw it; and unless
\* that process had only resumed the files of one that died, a power loss does
\* not take them away.
MarkerMeansComplete ==
    (sound /\ sync) => \A e \in layout : e.op.skips =>
        /\ e.seg.file \in DOMAIN disk
        /\ Holds(disk[e.seg.file].mem, e.seg, e.op)
        /\ resumed \/ Holds(disk[e.seg.file].dur, e.seg, e.op)

=============================================================================
